SPECIFICATION Spec
CONSTANTS
  Agent = {a1}
  Other = {x1}
  Client = {alice, bob}
  BadId = {bad}
  Token = {ta, tb, short}
  Weak = {short}
  None = None
  Unreadable = Unreadable
  MaxStarts = 2
  MaxSends = 3
INVARIANT ClientsCanReconnect

SPECIFICATION Spec
CONSTANTS
  p1 = p1
  p2 = p2
  k1 = k1
  k2 = k2
  v1 = v1
  v2 = v2
  badkey = badkey
  badvalue = badvalue
  None = None
  NoProcess = NoProcess
  Process = {p1, p2}
  Client = {p1, p2}
  Key = {k1, k2}
  Value = {v1, v2}
  BadKey = {badkey}
  BadValue = {badvalue}
  Embedders = {p1}
  ReadLoggers = {p1, p2}
  Requests <- ToolRequests
  MaxCalls = 2
  MaxClock = 1
INVARIANTS
  TypeOK
  IInv
  AnswerMatchesAudit
  WriteTimestampsOrdered

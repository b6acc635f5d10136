SPECIFICATION Spec
CONSTANTS
  Methods = {"tools/call"}
  ServerIds = {1}
  Noise = {"notification", "junk", "undecodable"}
  LogLines = {"text"}
  PipeSize = 1
  MaxRequests = 1
  MaxNoise = 0
  Endless = FALSE
INVARIANTS
  ServerRequestsAnswered

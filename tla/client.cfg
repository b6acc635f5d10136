SPECIFICATION Spec
CONSTANTS
  Methods = {"initialize", "tools/list"}
  ServerIds = {9}
  Noise = {"notification", "junk", "undecodable"}
  LogLines = {"text"}
  PipeSize = 1
  MaxRequests = 2
  MaxNoise = 1
  Endless = FALSE
INVARIANTS
  TypeOK
  OwnAnswer
  OnlyAbandonedCallsLag
  ServerRequestsAnswered

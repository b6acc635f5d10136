SPECIFICATION FairSpec
CONSTANTS
  Methods = {"tools/call"}
  ServerIds = {}
  Noise = {"notification", "junk", "undecodable"}
  LogLines = {"text"}
  PipeSize = 1
  MaxRequests = 2
  MaxNoise = 1
  Endless = FALSE
PROPERTIES
  EveryRequestEnds
  LoggingNeverWedges
  CloseReapsServer

SPECIFICATION FairSpec
CONSTANTS
  Methods = {"tools/call"}
  ServerIds = {}
  Noise = {"notification", "junk", "undecodable"}
  LogLines = {"text", "undecodable"}
  PipeSize = 1
  MaxRequests = 2
  MaxNoise = 0
  Endless = FALSE
PROPERTIES
  LoggingNeverWedges

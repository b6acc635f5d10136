SPECIFICATION FairSpec
CONSTANTS
  Methods = {"tools/call"}
  ServerIds = {}
  Noise = {"notification"}
  LogLines = {"text"}
  PipeSize = 1
  MaxRequests = 1
  MaxNoise = 0
  Endless = TRUE
PROPERTIES
  EveryRequestEnds

SPECIFICATION FairSpec
CONSTANTS
  Worker = {w1, w2}
  Preloader = preloader
  NoThread = NoThread
  Tools = {"set", "search"}
  MaxCalls = 2
PROPERTIES
  EveryCallReturns

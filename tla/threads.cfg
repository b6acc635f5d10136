SPECIFICATION Spec
CONSTANTS
  Worker = {w1, w2}
  Preloader = preloader
  NoThread = NoThread
  Tools = {"set", "search", "get", "delete"}
  MaxCalls = 2
INVARIANTS
  TypeOK
  ModelLoadedOnce
  CachedNeverOnline
  AnswersTell

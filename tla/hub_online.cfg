SPECIFICATION Spec
CONSTANTS
  Worker = {w1, w2}
  Preloader = preloader
  NoThread = NoThread
  Tools = {"set"}
  MaxCalls = 2
INVARIANTS
  ForcedNeverHangs

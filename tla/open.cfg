SPECIFICATION FairSpec
CONSTANTS
  Process = {s1, s2, old}
  Server = {s1, s2}
  NoProcess = NoProcess
  Null = Null
  LegacyRows = {0, 2}
  MaxWrites = 3
  MaxCrashes = 1
INVARIANTS
  TypeOK
  SealedWhole
  SealedByOne
  OpenMeansReady
PROPERTIES
  HistoryKept
  EveryOpenEnds

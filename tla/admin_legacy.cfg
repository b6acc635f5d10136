SPECIFICATION Spec
CONSTANTS
  Job = {j1, j2}
  Name = {n1, n2}
  Chunks = 2
  MaxCommits = 1
  MaxFaults = 1
INVARIANT PreUpgradeBackup

SPECIFICATION Spec
CONSTANTS
  Stacks = {s1, s2}
  Managed = {s1}
  Runs = {r1, r2}
  Workers = {w1, w2}
  Clients = {c1}
  Kinds = {"save", "edit", "commit", "runtime", "remove", "repository"}
  Repository = repo
  External = FALSE
  MaxRev = 1
  MaxVer = 2
  MaxCrashes = 0
  None = none
SYMMETRY UpdateSymmetry
INVARIANTS AppliesWhatItPrepared OrphanBlocksUpdates
PROPERTIES MutualExclusion

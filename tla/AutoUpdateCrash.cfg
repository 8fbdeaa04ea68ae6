SPECIFICATION Spec
CONSTANTS
  Stacks = {s1}
  Managed = {s1}
  Runs = {r1, r2}
  Workers = {w1}
  Clients = {c1}
  Kinds = {"save", "resume", "deploy"}
  Repository = repo
  External = TRUE
  MaxRev = 2
  MaxVer = 2
  MaxCrashes = 2
  None = none
SYMMETRY RunSymmetry
INVARIANTS TypeOK AmbiguousUpdatePauses NoUpdateOnUnproven
PROPERTIES OutcomeIsHonest

SPECIFICATION GitSpec
CONSTANTS
  Stacks = {s1, s2}
  Requests = {c1, c2}
  Committers = {c1, c2}
  Repository = repo
  NoStack = nostack
  MaxVer = 2
  MaxCommits = 3
SYMMETRY CommitSymmetry
INVARIANTS CommitIsRecorded

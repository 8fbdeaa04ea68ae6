SPECIFICATION Spec
CONSTANTS
  main = main
  porty = porty
  ann = ann
  filled = filled
  bare = bare
  Branches = {main}
  DefaultBranch = main
  Authors = {porty, ann}
  DefaultAuthor = porty
  Urls = {filled, bare}
  RemoteBranches <- OneFilled
  Local = local
  None = none
  MaxFaults = 0
  MaxCrashes = 1
INVARIANTS ReadyHasWorktree

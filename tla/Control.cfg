SPECIFICATION ControlSpec
CONSTANTS
  main = main
  porty = porty
  filled = filled
  bare = bare
  Branches = {main}
  DefaultBranch = main
  Authors = {porty}
  DefaultAuthor = porty
  Urls = {filled, bare}
  RemoteBranches <- OneFilled
  Local = local
  None = none
  MaxFaults = 2
  MaxCrashes = 1
  Ops = {c1, c2}
  Keys = {k1, k2}
  DeployKey = k1
  Watched = {k1}
  Targets = {{k1}, {k1, k2}}
  NoOp = noop
  Keep = 1
  MaxOpFaults = 1
  MaxOpCrashes = 1
  Stacks = {s1, s2}
  Requests = {c1, c2}
  Committers = {c1, c2}
  Repository = repo
  NoStack = nostack
  MaxVer = 1
  MaxCommits = 2
  Browsers = {b1}
  Calls = {c1, c2}
  MaxTokens = 3
  MaxRotations = 1
CHECK_DEADLOCK FALSE
SYMMETRY ControlSymmetry
INVARIANTS ControlTypeOK
INVARIANTS FailureIsAlerted WaitFindsRecent DrainedIsQuiet
INVARIANTS LiveClientIsSaved ReadyReopens RetryResumes
INVARIANTS CommitIsStackScoped StagedWorkSurvives
INVARIANTS OneActivePerFamily OverIsOver
PROPERTIES RecoveryIsFresh  ExchangeSignsWithCurrentKey

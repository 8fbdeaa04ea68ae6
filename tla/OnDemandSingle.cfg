SPECIFICATION Spec
CONSTANTS
  Groups = {g1}
  Stacks = {s1}
  StackOf <- OneStack
  Requests = {u1}
  Repository = repo
  None = none
  Kinds = {"create", "save", "disable", "hold", "resume", "delete", "start", "stop", "restart", "deploy", "pull"}
  External = FALSE
  MemberCount = 2
  MaxProbes = 1
  MaxTransitions = 1
  MaxRev = 3
  MaxGen = 1
  MaxCrashes = 1
INVARIANTS TypeOK AutomaticMutationIsOwned WakeOwnsPorts HealthyPhaseIsTrue
PROPERTIES PauseEndsByResume MutualExclusion

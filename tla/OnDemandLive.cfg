SPECIFICATION FairSpec
CONSTANTS
  Groups = {g1}
  Stacks = {s1, s2}
  StackOf <- OneStack
  Requests = {u1}
  Repository = repo
  None = none
  Kinds = {"create", "hold", "resume", "delete", "start", "stop", "repository", "update", "remove"}
  External = TRUE
  MemberCount = 1
  MaxProbes = 1
  MaxTransitions = 1
  MaxRev = 2
  MaxGen = 0
  MaxCrashes = 0
PROPERTIES LocksAreReleased InactiveGroupDisarms

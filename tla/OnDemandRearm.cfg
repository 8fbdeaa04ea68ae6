SPECIFICATION Spec
CONSTANTS
  Groups = {g1}
  Stacks = {s1}
  StackOf <- OneStack
  Requests = {u1}
  Repository = repo
  None = none
  Kinds = {"create", "hold", "resume", "start"}
  External = FALSE
  MemberCount = 1
  MaxProbes = 1
  MaxTransitions = 1
  MaxRev = 5
  MaxGen = 0
  MaxCrashes = 0
INVARIANT ManualActionKeepsPortsFree

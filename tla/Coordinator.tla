---------------------------- MODULE Coordinator ----------------------------
(***************************************************************************)
(* The operation coordinator of internal/operation/deployment.go: an       *)
(* in-memory try-lock with one flag for the repository and one entry per   *)
(* stack.  Nobody waits for it: Try either grants at once or reports a     *)
(* conflict.  A coordinator value is a record; ids is the set holding the  *)
(* requested stack, or {} when Try is called with the empty stack id.      *)
(***************************************************************************)
\* NewCoordinator
FreeCoordinator == [repository |-> FALSE, stacks |-> {}]

CoordinatorOf(S) == [repository : BOOLEAN, stacks : SUBSET S]

\* Mutant: the entry of the stack is not looked up.
TryUnchecked(c, repository, ids) == ~c.repository /\ (repository => c.stacks = {})

\* Whether Try(repository, id) is granted.  The repository needs everything
\* free; a stack needs the repository and itself free.
Try(c, repository, ids) ==
    /\ ~c.repository
    /\ repository => c.stacks = {}
    /\ ids \cap c.stacks = {}

\* What a granted Try records.
Granted(c, repository, ids) ==
    [repository |-> c.repository \/ repository, stacks |-> c.stacks \cup ids]

\* The release closure that a granted Try returns.
Released(c, repository, ids) ==
    [repository |-> c.repository /\ ~repository, stacks |-> c.stacks \ ids]

=============================================================================

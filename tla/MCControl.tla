------------------------------ MODULE MCControl ------------------------------
(***************************************************************************)
(* The modules that are checked for safety only, for TLC in one run:       *)
(* RepositorySetup, OperationAlerts, StackCommit and Sessions.  They share *)
(* no state, so a behaviour moves only one of them and their state graphs  *)
(* add up instead of multiplying.                                          *)
(***************************************************************************)
EXTENDS RepositorySetup, OperationAlerts, StackCommit, Sessions, TLC

CONSTANTS main, porty, filled, bare

VARIABLE part

\* One remote with the branch main, and one without any branch.
OneFilled == filled :> {main} @@ bare :> {}

\* Stacks are interchangeable, and so are the goroutines that commit.  Operations and
\* the calls of Sessions are too, and as only one part moves they have the same names.
ControlSymmetry == Permutations(Stacks) \cup Permutations(Requests)

\* The parts that do not move are in their first initial state.
ControlInit ==
    /\ part \in {"setup", "operations", "commits", "sessions"}
    /\ Init /\ OpsInit /\ GitInit /\ AuthInit
    /\ part # "setup" => path = EmptyPath
    /\ part # "operations" => alerts = [k \in Keys |-> NoAlert]
    /\ part # "commits" => work = EmptyTree /\ commits = <<>>

ControlNext ==
    \/ part = "setup" /\ Next /\ UNCHANGED <<part, opVars, gitVars, authVars>>
    \/ part = "operations" /\ OpsNext /\ UNCHANGED <<part, vars, gitVars, authVars>>
    \/ part = "commits" /\ GitNext /\ UNCHANGED <<part, vars, opVars, authVars>>
    \/ part = "sessions" /\ AuthNext /\ UNCHANGED <<part, vars, opVars, gitVars>>

ControlSpec ==
    ControlInit /\ [][ControlNext]_<<part, vars, opVars, gitVars, authVars>>

\* The variables of all four have their types; the table of completed operations
\* keeps its bound, and a family of refresh tokens is named by its first one.
ControlTypeOK == TypeOK /\ OpsTypeOK /\ GitTypeOK /\ AuthTypeOK

=============================================================================

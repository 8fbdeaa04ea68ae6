--------------------------- MODULE OnDemandStore ---------------------------
(***************************************************************************)
(* The on_demand_groups table of internal/sqlite, one row per group, as    *)
(* guards and effects of its SQL statements.  Reasons are abstracted to    *)
(* "there is one": hold and paused are Booleans.  claimed is               *)
(* "operation_id IS NOT NULL": a group has one worker, which waits for its *)
(* transition, so no other operation id can stand in the column while that *)
(* transition runs.  evid is the container generation the saved evidence   *)
(* (source digest, container ids, bindings) describes.                     *)
(***************************************************************************)
EXTENDS Naturals

Phases == {"running", "sleeping", "starting", "stopping", "unknown"}
Actions == {"wake", "sleep"}

GroupRow == [state : {"absent", "present", "deleted"}, enabled : BOOLEAN,
             rev : Nat, phase : Phases, hold : BOOLEAN, paused : BOOLEAN,
             evid : Nat, claimed : BOOLEAN]

\* A group that was never created.
NoRow == [state |-> "absent", enabled |-> FALSE, rev |-> 0, phase |-> "unknown",
          hold |-> FALSE, paused |-> FALSE, evid |-> 0, claimed |-> FALSE]

\* Ids are random and never reused: a removed group stays removed.
DeletedRow == [NoRow EXCEPT !.state = "deleted"]

\* Automation is allowed at all: the policy is enabled, neither held nor paused.
Armed(r) == r.state = "present" /\ r.enabled /\ ~r.hold /\ ~r.paused

\* The phase an operation of this kind starts from, and the one it records
\* before it touches a container.
From(action) == IF action = "wake" THEN "sleeping" ELSE "running"
During(action) == IF action = "wake" THEN "starting" ELSE "stopping"

\* INSERT of SaveGroup with an empty id.  The snapshot was of running containers.
InsertedGroup(enabled, gen) ==
    [state |-> "present", enabled |-> enabled, rev |-> 1, phase |-> "running",
     hold |-> FALSE, paused |-> FALSE, evid |-> gen, claimed |-> FALSE]

\* The guard that every policy statement shares: WHERE revision=? AND operation_id IS NULL.
Writable(r, expected) == r.state = "present" /\ r.rev = expected /\ ~r.claimed

\* Mutant: saving a policy acknowledges its pause.
SavedUnpaused(r, enabled, evid) ==
    [r EXCEPT !.enabled = enabled, !.evid = evid, !.paused = FALSE, !.rev = @ + 1]

\* UPDATE of SaveGroup: policy and evidence; phase, hold and pause stay.
SavedGroup(r, enabled, evid) ==
    [r EXCEPT !.enabled = enabled, !.evid = evid, !.rev = @ + 1]

HeldGroup(r) == [r EXCEPT !.hold = TRUE, !.rev = @ + 1]

\* PauseGroup is given the row that its caller read; nothing happens if the
\* row has moved on or a transition owns it.
PausedGroup(r, read) ==
    IF r.rev = read.rev /\ ~r.claimed
    THEN [r EXCEPT !.paused = TRUE, !.rev = @ + 1]
    ELSE r

ResumedGroup(r, phase, evid) ==
    [r EXCEPT !.hold = FALSE, !.paused = FALSE, !.phase = phase,
              !.evid = evid, !.rev = @ + 1]

\* BeginTransition: its WHERE clause, and the durable intent it writes.
MayBegin(r, read, action) ==
    /\ Armed(r)
    /\ r.rev = read.rev
    /\ r.phase = From(action)
    /\ ~r.claimed

\* Mutant: the operation id is not written.
BegunUnclaimed(r, action) == [r EXCEPT !.phase = During(action)]

BegunGroup(r, action) == [r EXCEPT !.phase = During(action), !.claimed = TRUE]

\* completeOnDemand, part of the transaction of CompleteOperation.
MayComplete(r, action) == r.claimed /\ r.phase = During(action)

CompletedGroup(r, phase) ==
    [r EXCEPT !.phase = phase, !.paused = (phase = "unknown"), !.claimed = FALSE]

\* Mutant: recovery records a phase the schema does not have.
RecoveredPhaseless(r) ==
    IF r.claimed \/ r.phase \in {"starting", "stopping"}
    THEN [r EXCEPT !.phase = "interrupted", !.paused = TRUE, !.claimed = FALSE, !.rev = @ + 1]
    ELSE r

\* RecoverInterrupted: an unfinished transition is never replayed.
RecoveredGroup(r) ==
    IF r.claimed \/ r.phase \in {"starting", "stopping"}
    THEN [r EXCEPT !.phase = "unknown", !.paused = TRUE, !.claimed = FALSE, !.rev = @ + 1]
    ELSE r

\* Mutant: the interlock holds but does not pause.
InterlockedUnpaused(r, stop) ==
    IF r.state = "present" /\ ~r.claimed
    THEN [r EXCEPT !.hold = @ \/ stop, !.rev = @ + 1]
    ELSE r

\* interlockOnDemand, part of the transaction of CreateOperation.
InterlockedGroup(r, stop) ==
    IF r.state = "present" /\ ~r.claimed
    THEN [r EXCEPT !.paused = TRUE, !.hold = @ \/ stop, !.rev = @ + 1]
    ELSE r

=============================================================================

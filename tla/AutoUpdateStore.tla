-------------------------- MODULE AutoUpdateStore --------------------------
(***************************************************************************)
(* The tables auto_update_policies, auto_update_runs, update_executions    *)
(* and the latest rows of deployments (internal/sqlite), as guards and     *)
(* effects of their SQL statements.  Reasons are abstracted to "there is   *)
(* one"; the schedule to whether the next occurrence is due.               *)
(***************************************************************************)
EXTENDS Naturals

LivePhases == {"queued", "checking", "prepared", "applying", "verifying"}
RunPhases == LivePhases \cup {"none", "terminal"}
MutationPhases == {"applying", "verifying"}
ExecPhases == MutationPhases \cup {"none", "prepared", "terminal"}
PendingExec == ExecPhases \ {"none", "terminal"}
Outcomes == {"", "skipped", "unchanged", "failed", "interrupted", "updated"}

\* rev = 0: the stack has no row yet.
PolicyRow == [rev : Nat, enabled : BOOLEAN, paused : BOOLEAN, due : BOOLEAN]
NoPolicy == [rev |-> 0, enabled |-> FALSE, paused |-> FALSE, due |-> FALSE]

\* What a deployment records of its source: a version of the stack's own files and
\* environment (the Compose digest), and a version of the state the stacks share in
\* their one Git repository (HEAD, and whether the worktree is dirty at all).
Source == [files : Nat, git : Nat]

\* The latest deployment of a stack: its id, whether it succeeded and the source
\* it deployed; good is the source of the latest successful one.
Baseline == [id : Nat, ok : BOOLEAN, src : Source, good : Source]

\* WHERE enabled=1 AND paused_reason='': automation is allowed.
Allowed(p) == p.enabled /\ ~p.paused

\* Mutant: saving a policy acknowledges its pause.
SavedAcknowledged(p, enabled) ==
    [p EXCEPT !.rev = @ + 1, !.enabled = enabled, !.due = FALSE, !.paused = FALSE]

\* INSERT or UPDATE of SavePolicy; the pause stays.
SavedPolicy(p, enabled) == [p EXCEPT !.rev = @ + 1, !.enabled = enabled, !.due = FALSE]

\* Mutant: only the revision moves.
PausedBumped(p) == [p EXCEPT !.rev = @ + 1]

\* The pause of completeUpdate, whatever the revision has become.
PausedPolicy(p) == [p EXCEPT !.paused = TRUE, !.rev = @ + 1]

ResumedPolicy(p) == [p EXCEPT !.paused = FALSE, !.rev = @ + 1, !.due = FALSE]

\* ResetAfterStartup: every schedule moves on to a future occurrence.
ResetPolicy(p) == [p EXCEPT !.due = FALSE]

\* A deployment that started last becomes the latest one.
Deployed(b, ok, src) ==
    [id |-> b.id + 1, ok |-> ok, src |-> src, good |-> IF ok THEN src ELSE b.good]

\* The failed deployment of an interrupted update carries the start time of its
\* operation: it is the latest one only if nothing was deployed since.
Recovered(b, baseline, src) == IF b.id = baseline THEN Deployed(b, FALSE, src) ELSE b

-----------------------------------------------------------------------------
(* The phases of a run and of its execution; one transaction each.         *)

MayCheck(run, p, gone) == run.phase = "queued" /\ Allowed(p) /\ p.rev = run.rev /\ ~gone
MayPrepare(run, p) == run.phase \in {"queued", "checking"} /\ Allowed(p) /\ p.rev = run.rev
MayApply(run, p, gone) == run.phase = "prepared" /\ Allowed(p) /\ p.rev = run.rev /\ ~gone

\* Mutant: the run gets a phase the schema does not have.
FinishedPhaseless(run, outcome) == [run EXCEPT !.phase = "done", !.outcome = outcome]

\* FinishRun: a run ends without a mutation, and takes a prepared execution along.
FinishedRun(run, outcome) ==
    IF run.phase = "terminal" THEN run
    ELSE [run EXCEPT !.phase = "terminal", !.outcome = outcome]

FinishedExec(run, exec) ==
    IF run.phase # "terminal" /\ exec.phase = "prepared"
    THEN [exec EXCEPT !.phase = "terminal"]
    ELSE exec

\* Mutant: an interrupted mutation is discarded like a prepared one.
RecoveryPausesNever(exec) == FALSE

\* RecoverExecution: whether the interrupted execution may have touched containers.
RecoveryPauses(exec) == exec.phase \in MutationPhases

=============================================================================

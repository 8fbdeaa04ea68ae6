----------------------------- MODULE AutoUpdate -----------------------------
(***************************************************************************)
(* Automatic stack updates: the scheduler and its workers                  *)
(* (autoupdate.Scheduler), the check and the mutation of one run           *)
(* (ControlPlane.CheckAndUpdate and the job it starts), recovery after a   *)
(* restart (ReconcileUpdates, FailInterrupted), and the policy requests    *)
(* and manual actions of the same process that interleave with them.       *)
(*                                                                         *)
(* Policies, runs, executions, operations, deployments, the workspace and  *)
(* the containers survive the death of the process; workers, jobs, the     *)
(* queue, the coordinator and updatesBlocked do not.                       *)
(***************************************************************************)
EXTENDS Naturals, FiniteSets, Coordinator, AutoUpdateStore

CONSTANTS
    Stacks,
    Managed,      \* bound: the other stacks of the repository are only edited and committed
    Runs,         \* ids that Admit draws from; the operation of a run shares its id
    Workers,      \* the goroutines of Scheduler.Run
    Clients,      \* request goroutines of the HTTP API
    Kinds,        \* the requests that this instance exercises
    Repository,
    None,
    External,     \* whether containers change behind Porty's back
    MaxRev,       \* bound: clients stop editing a policy at this revision
    MaxVer,       \* bound on what clients do: edits, deployments, replaced containers
    MaxCrashes

GitKinds == {"edit", "commit", "repository"}
WorkKinds == GitKinds \cup {"deploy", "runtime", "remove"}
AllKinds == WorkKinds \cup {"save", "resume"}

ASSUME UpdateConstants ==
    /\ Managed \subseteq Stacks
    /\ Runs \cap Clients = {}
    /\ Repository # None /\ {Repository, None} \cap Stacks = {}
    /\ None \notin Runs
    /\ Kinds \subseteq AllKinds
    /\ External \in BOOLEAN
    /\ {MaxRev, MaxVer, MaxCrashes} \subseteq Nat

VARIABLES
    pol, run, exec, op, base,   \* database rows
    files,     \* files[s]: version of the stack's Compose files and environment
    git,       \* version of HEAD and of the dirty flag of the repository
    gen,       \* gen[s]: identity of the stack's containers
    fit,       \* fit[s]: every container runs and is healthy
    gone,      \* gone[s]: the stack is archived
    unproven,  \* unproven[s]: an update has recreated containers that nobody has
               \* verified or redeployed since (a history variable)
    wk,        \* wk[w]: a scheduler worker inside execute
    job,       \* job[r]: the tracked job of run r
    queue,     \* the runs in Scheduler.Run's channel
    sched,     \* start-up and the life of the scheduler goroutine
    blocked,   \* ControlPlane.updatesBlocked
    cl,        \* cl[c]: the request that goroutine c serves
    coord,
    crashes

store == <<pol, run, exec, op, base>>
runtime == <<files, git, gen, fit, gone, unproven>>
actors == <<wk, job, queue, cl>>
vars == <<store, runtime, actors, sched, blocked, coord, crashes>>

NoSource == [files |-> 0, git |-> 0]
Evidence == [rev : Nat, gen : Nat, src : Source, base : Nat]
NoEvidence == [rev |-> 0, gen |-> 0, src |-> NoSource, base |-> 0]

RunRow == [stack : Stacks \cup {None}, rev : Nat, phase : RunPhases, outcome : Outcomes]
NoRun == [stack |-> None, rev |-> 0, phase |-> "none", outcome |-> ""]

\* base and src: the deployment in baseline_json.
ExecRow == [phase : ExecPhases, base : Nat, src : Source]
NoExec == [phase |-> "none", base |-> 0, src |-> NoSource]

\* A worker with the stack locked, and a job (which always has it locked).
LockedPcs == {"look", "fresh", "start", "unchanged"}
Worker == [pc : LockedPcs \cup {"idle", "mark", "begin", "prepare", "again", "finish",
                                "wait", "dead"},
           run : Runs \cup {None}, ev : Evidence, changes : BOOLEAN, outcome : Outcomes]
NoWork == [pc |-> "idle", run |-> None, ev |-> NoEvidence, changes |-> FALSE, outcome |-> ""]

JobPcs == {"queued", "intent", "admit", "apply", "record", "verify", "complete", "close"}
Job == [pc : JobPcs \cup {"none", "done"}, ev : Evidence, failed : BOOLEAN, err : BOOLEAN]
NoJob == [pc |-> "none", ev |-> NoEvidence, failed |-> FALSE, err |-> FALSE]

Client == [pc : {"idle", "save", "held", "verified", "deployed", "leave"},
           kind : AllKinds \cup {"none"}, scope : Stacks \cup {Repository, None},
           stack : Stacks \cup {None}, rev : Nat, gen : Nat, src : Source, flag : BOOLEAN]
NoClient == [pc |-> "idle", kind |-> "none", scope |-> None, stack |-> None,
             rev |-> 0, gen |-> 0, src |-> NoSource, flag |-> FALSE]

FirstDeployment == Deployed([id |-> 0, ok |-> TRUE, src |-> NoSource, good |-> NoSource],
                            TRUE, [files |-> 1, git |-> 1])

\* A fresh database; every stack was deployed once and runs.
Init ==
    /\ pol = [s \in Stacks |-> NoPolicy]
    /\ run = [r \in Runs |-> NoRun]
    /\ exec = [r \in Runs |-> NoExec]
    /\ op = [r \in Runs |-> "none"]
    /\ base = [s \in Stacks |-> FirstDeployment]
    /\ files = [s \in Stacks |-> 1]
    /\ git = 1
    /\ gen = [s \in Stacks |-> 1]
    /\ fit = [s \in Stacks |-> TRUE]
    /\ gone = [s \in Stacks |-> FALSE]
    /\ unproven = [s \in Stacks |-> FALSE]
    /\ wk = [w \in Workers |-> NoWork]
    /\ job = [r \in Runs |-> NoJob]
    /\ queue = {}
    /\ sched = "boot"
    /\ blocked = TRUE
    /\ cl = [c \in Clients |-> NoClient]
    /\ coord = FreeCoordinator
    /\ crashes = 0

-----------------------------------------------------------------------------
(* Helpers.                                                                *)

Lock(s) == coord' = Granted(coord, FALSE, {s})
Unlock(s) == coord' = Released(coord, FALSE, {s})

PendingRuns == {r \in Runs : run[r].phase \in LivePhases}
PendingExecutions == {r \in Runs : exec[r].phase \in PendingExec}

SourceOf(s) == [files |-> files[s], git |-> git]

\* updateEvidence: what the run may act on, read under the stack lock.
Eligible(r) ==
    LET s == run[r].stack
    IN  /\ Allowed(pol[s]) /\ pol[s].rev = run[r].rev
        /\ ~gone[s]
        /\ base[s].ok /\ base[s].src = SourceOf(s)
        /\ fit[s]

EvidenceOf(s) == [rev |-> pol[s].rev, gen |-> gen[s], src |-> SourceOf(s), base |-> base[s].id]

\* Mutant: only the policy is compared.
SameRevision(a, b) == a.rev = b.rev

\* sameUpdateEvidence
SameEvidence(a, b) == a = b

\* FinishRun, as the next values of run and exec.
Finish(r, outcome) ==
    /\ run' = [run EXCEPT ![r] = FinishedRun(@, outcome)]
    /\ exec' = [exec EXCEPT ![r] = FinishedExec(run[r], @)]

-----------------------------------------------------------------------------
(* Start-up: ReconcileUpdates in app.New, FailInterrupted, then the        *)
(* scheduler goroutine: ReconcileUpdates again and Scheduler.Run.          *)

Reconciling == sched \in {"boot", "reconcile"}

\* RecoverExecution of one pending execution.
RecoverExecution(r) ==
    LET s == run[r].stack
    IN  /\ Reconciling
        /\ exec[r].phase \in PendingExec
        /\ exec' = [exec EXCEPT ![r].phase = "terminal"]
        /\ IF RecoveryPauses(exec[r])
           THEN /\ run' = [run EXCEPT ![r].phase = "terminal", ![r].outcome = "failed"]
                /\ op' = [op EXCEPT ![r] = "failed"]
                /\ base' = [base EXCEPT ![s] = Recovered(@, exec[r].base, exec[r].src)]
                /\ pol' = [pol EXCEPT ![s] = PausedPolicy(@)]
           ELSE /\ run' = [run EXCEPT ![r].phase = "terminal", ![r].outcome = "interrupted"]
                /\ op' = [op EXCEPT ![r] = "cancelled"]
                /\ UNCHANGED <<pol, base>>
        /\ UNCHANGED <<runtime, actors, sched, blocked, coord, crashes>>

\* FinishRun of a run that has no execution.
FinishLeftOver(r) ==
    /\ Reconciling
    /\ PendingExecutions = {}
    /\ run[r].phase \in LivePhases
    /\ Finish(r, "interrupted")
    /\ UNCHANGED <<pol, op, base, runtime, actors, sched, blocked, coord, crashes>>

Reconciled ==
    /\ Reconciling
    /\ PendingRuns = {} /\ PendingExecutions = {}
    /\ blocked' = FALSE
    /\ sched' = IF sched = "boot" THEN "history" ELSE "reset"
    /\ UNCHANGED <<store, runtime, actors, coord, crashes>>

\* app.New goes on without reconciliation; the scheduler goroutine gives up.
ReconcileFails ==
    /\ Reconciling
    /\ sched' = IF sched = "boot" THEN "history" ELSE "stopped"
    /\ UNCHANGED <<store, runtime, actors, blocked, coord, crashes>>

Interrupted == {r \in Runs : op[r] \in {"queued", "running"} /\ exec[r].phase \notin PendingExec}

FailInterrupted ==
    /\ sched = "history"
    /\ op' = [r \in Runs |-> IF r \in Interrupted THEN "failed" ELSE op[r]]
    /\ sched' = "serve"
    /\ UNCHANGED <<pol, run, exec, base, runtime, actors, blocked, coord, crashes>>

\* The repository is set up and the hosting stack is known.
Ready ==
    /\ sched = "serve"
    /\ blocked' = TRUE
    /\ sched' = "reconcile"
    /\ UNCHANGED <<store, runtime, actors, coord, crashes>>

ResetAfterStartup ==
    /\ sched = "reset"
    /\ \/ sched' = "running" /\ pol' = [s \in Stacks |-> ResetPolicy(pol[s])] /\ UNCHANGED blocked
       \/ sched' = "stopped" /\ blocked' = TRUE /\ UNCHANGED pol
    /\ UNCHANGED <<run, exec, op, base, runtime, actors, coord, crashes>>

-----------------------------------------------------------------------------
(* Scheduler.Run.                                                          *)

NoneLive(s) == \A r \in PendingRuns : run[r].stack # s

\* Admit of a policy that ListDue returned: an occurrence is used up; it becomes
\* a queued run, or a skipped one while another run of the stack is pending.
Admit(s, r) ==
    /\ sched = "running"
    /\ Allowed(pol[s]) /\ pol[s].due /\ ~gone[s]
    /\ run[r].phase = "none"
    /\ pol' = [pol EXCEPT ![s].due = FALSE]
    /\ LET row == [stack |-> s, rev |-> pol[s].rev, phase |-> "queued", outcome |-> ""]
       IN  IF NoneLive(s)
           THEN run' = [run EXCEPT ![r] = row] /\ queue' = queue \cup {r}
           ELSE run' = [run EXCEPT ![r] = FinishedRun(row, "skipped")] /\ UNCHANGED queue
    /\ UNCHANGED <<exec, op, base, runtime, wk, job, cl, sched, blocked, coord, crashes>>

\* Run returns an error (its own, or that of a worker): no more admissions.
Fail ==
    /\ sched = "running"
    /\ sched' = "draining"
    /\ UNCHANGED <<store, runtime, actors, blocked, coord, crashes>>

\* stopScheduler, at shutdown.
Shutdown ==
    /\ sched = "running"
    /\ sched' = "closing"
    /\ UNCHANGED <<store, runtime, actors, blocked, coord, crashes>>

\* The workers have returned; after an error updates are suspended.
Drained ==
    /\ sched \in {"draining", "closing"}
    /\ \A w \in Workers : wk[w].pc \in {"idle", "dead"}
    /\ blocked' = (blocked \/ sched = "draining")
    /\ sched' = "stopped"
    /\ UNCHANGED <<store, runtime, actors, coord, crashes>>

-----------------------------------------------------------------------------
(* Scheduler.execute.                                                      *)

Take(w, r) ==
    /\ sched \in {"running", "draining", "closing"}
    /\ wk[w].pc = "idle"
    /\ r \in queue
    /\ queue' = queue \ {r}
    /\ wk' = [wk EXCEPT ![w] = [NoWork EXCEPT !.pc = "mark", !.run = r]]
    /\ UNCHANGED <<store, runtime, job, cl, sched, blocked, coord, crashes>>

MarkChecking(w) ==
    LET r == wk[w].run
        s == run[r].stack
    IN  /\ wk[w].pc = "mark"
        /\ MayCheck(run[r], pol[s], gone[s])
        /\ run' = [run EXCEPT ![r].phase = "checking"]
        /\ wk' = [wk EXCEPT ![w].pc = "begin"]
        /\ UNCHANGED <<pol, exec, op, base, runtime, job, queue, cl, sched, blocked, coord, crashes>>

\* Mutant: the run is dropped and never ended.
MarkDrops(w) ==
    /\ wk[w].pc = "mark"
    /\ wk' = [wk EXCEPT ![w] = NoWork]
    /\ UNCHANGED <<store, runtime, job, queue, cl, sched, blocked, coord, crashes>>

\* The occurrence has expired, or MarkChecking reports a conflict.
MarkSkips(w) ==
    /\ wk[w].pc = "mark"
    /\ Finish(wk[w].run, "skipped")
    /\ wk' = [wk EXCEPT ![w] = NoWork]
    /\ UNCHANGED <<pol, op, base, runtime, job, queue, cl, sched, blocked, coord, crashes>>

\* MarkChecking or the FinishRun above fails: the worker returns.
MarkFails(w) ==
    /\ wk[w].pc = "mark"
    /\ wk' = [wk EXCEPT ![w] = [NoWork EXCEPT !.pc = "dead"]]
    /\ UNCHANGED <<store, runtime, job, queue, cl, sched, blocked, coord, crashes>>

-----------------------------------------------------------------------------
(* CheckAndUpdate: two short looks under the stack lock, and the slow      *)
(* image check between them without it.                                    *)

Skip(w, outcome) == wk' = [wk EXCEPT ![w] = [NoWork EXCEPT !.pc = "finish", !.run = wk[w].run,
                                                         !.outcome = outcome]]

Begin(w) ==
    LET s == run[wk[w].run].stack
    IN  /\ wk[w].pc = "begin"
        /\ ~blocked
        /\ IF Try(coord, FALSE, {s})
           THEN Lock(s) /\ wk' = [wk EXCEPT ![w].pc = "look"]
           ELSE Skip(w, "skipped") /\ UNCHANGED coord
        /\ UNCHANGED <<store, runtime, job, queue, cl, sched, blocked, crashes>>

\* Updates are blocked, or the alerts cannot be read after the first look.
CheckFails(w) ==
    /\ \/ wk[w].pc = "begin" /\ blocked
       \/ wk[w].pc = "prepare"
    /\ wk' = [wk EXCEPT ![w] = [NoWork EXCEPT !.pc = "dead"]]
    /\ UNCHANGED <<store, runtime, job, queue, cl, sched, blocked, coord, crashes>>

Look(w) ==
    LET r == wk[w].run
        s == run[r].stack
    IN  /\ wk[w].pc = "look"
        /\ Eligible(r)
        /\ wk' = [wk EXCEPT ![w].pc = "prepare", ![w].ev = EvidenceOf(s)]
        /\ Unlock(s)
        /\ UNCHANGED <<store, runtime, job, queue, cl, sched, blocked, crashes>>

\* The stack is not eligible, or something could not be read.
LookSkips(w) ==
    /\ wk[w].pc = "look"
    /\ Skip(w, "skipped")
    /\ Unlock(run[wk[w].run].stack)
    /\ UNCHANGED <<store, runtime, job, queue, cl, sched, blocked, crashes>>

\* PrepareUpdate: the registry has other images for the tags, or it has not.
Prepare(w) ==
    /\ wk[w].pc = "prepare"
    /\ \E changes \in BOOLEAN :
          wk' = [wk EXCEPT ![w].pc = "again", ![w].changes = changes]
    /\ UNCHANGED <<store, runtime, job, queue, cl, sched, blocked, coord, crashes>>

PrepareFails(w) ==
    /\ wk[w].pc = "prepare"
    /\ \E outcome \in {"skipped", "failed"} : Skip(w, outcome)
    /\ UNCHANGED <<store, runtime, job, queue, cl, sched, blocked, coord, crashes>>

Again(w) ==
    LET s == run[wk[w].run].stack
    IN  /\ wk[w].pc = "again"
        /\ IF Try(coord, FALSE, {s})
           THEN Lock(s) /\ wk' = [wk EXCEPT ![w].pc = "fresh"]
           ELSE Skip(w, "skipped") /\ UNCHANGED coord
        /\ UNCHANGED <<store, runtime, job, queue, cl, sched, blocked, crashes>>

\* The second look finds what the first one found.
Fresh(w) ==
    LET r == wk[w].run
    IN  /\ wk[w].pc = "fresh"
        /\ Eligible(r)
        /\ SameEvidence(wk[w].ev, EvidenceOf(run[r].stack))
        /\ wk' = [wk EXCEPT ![w].pc = IF wk[w].changes THEN "start" ELSE "unchanged"]
        /\ UNCHANGED <<store, runtime, job, queue, cl, sched, blocked, coord, crashes>>

\* Something changed, could not be read, or the budget is used up.
FreshSkips(w) ==
    /\ wk[w].pc \in {"fresh", "start"}
    /\ Skip(w, "skipped")
    /\ Unlock(run[wk[w].run].stack)
    /\ UNCHANGED <<store, runtime, job, queue, cl, sched, blocked, crashes>>

\* No image changed: the run ends under the lock.
Unchanged(w) ==
    /\ wk[w].pc = "unchanged"
    /\ Unlock(run[wk[w].run].stack)
    /\ \/ /\ Finish(wk[w].run, "unchanged")
          /\ wk' = [wk EXCEPT ![w] = NoWork]
          /\ UNCHANGED blocked
       \/ /\ blocked' = TRUE
          /\ wk' = [wk EXCEPT ![w] = [NoWork EXCEPT !.pc = "dead"]]
          /\ UNCHANGED <<run, exec>>
    /\ UNCHANGED <<pol, op, base, runtime, job, queue, cl, sched, crashes>>

\* finishUpdateCheck
FinishCheck(w) ==
    /\ wk[w].pc = "finish"
    /\ \/ /\ Finish(wk[w].run, wk[w].outcome)
          /\ wk' = [wk EXCEPT ![w] = NoWork]
          /\ UNCHANGED blocked
       \/ /\ blocked' = TRUE
          /\ wk' = [wk EXCEPT ![w] = [NoWork EXCEPT !.pc = "dead"]]
          /\ UNCHANGED <<run, exec>>
    /\ UNCHANGED <<pol, op, base, runtime, job, queue, cl, sched, coord, crashes>>

\* StartTracked: CreateOperation, and the lock now belongs to the job.
Start(w) ==
    LET r == wk[w].run
    IN  /\ wk[w].pc = "start"
        /\ op' = [op EXCEPT ![r] = "queued"]
        /\ job' = [job EXCEPT ![r] = [NoJob EXCEPT !.pc = "queued", !.ev = wk[w].ev]]
        /\ wk' = [wk EXCEPT ![w] = [NoWork EXCEPT !.pc = "wait", !.run = r]]
        /\ UNCHANGED <<pol, run, exec, base, runtime, queue, cl, sched, blocked, coord, crashes>>

StartFails(w) ==
    /\ wk[w].pc = "start"
    /\ Skip(w, "failed")
    /\ Unlock(run[wk[w].run].stack)
    /\ UNCHANGED <<store, runtime, job, queue, cl, sched, blocked, crashes>>

\* Mutant: an error of Wait is only reported.
WaitIgnored(w) == FALSE

\* Wait returns the error of the job, or gives up before the job has ended.
WaitErrs(w) == job[wk[w].run].pc = "done" => job[wk[w].run].err

Wait(w) ==
    /\ wk[w].pc = "wait"
    /\ \/ /\ job[wk[w].run].pc = "done" /\ ~WaitErrs(w)
          /\ wk' = [wk EXCEPT ![w] = NoWork]
          /\ UNCHANGED blocked
       \/ /\ WaitErrs(w)
          /\ blocked' = TRUE
          /\ wk' = [wk EXCEPT ![w] = [NoWork EXCEPT !.pc = "dead"]]
    /\ UNCHANGED <<store, runtime, job, queue, cl, sched, coord, crashes>>

-----------------------------------------------------------------------------
(* The job: OperationService.execute around the callback of CheckAndUpdate.*)

\* UpdateOperation to running; if it fails the callback never runs.
RunJob(r) ==
    /\ job[r].pc = "queued"
    /\ op' = [op EXCEPT ![r] = "running"]
    /\ job' = [job EXCEPT ![r].pc = "intent"]
    /\ UNCHANGED <<pol, run, exec, base, runtime, wk, queue, cl, sched, blocked, coord, crashes>>

RunJobFails(r) ==
    /\ job[r].pc = "queued"
    /\ job' = [job EXCEPT ![r] = [NoJob EXCEPT !.pc = "done", !.err = TRUE]]
    /\ Unlock(run[r].stack)
    /\ UNCHANGED <<store, runtime, wk, queue, cl, sched, blocked, crashes>>

SavePrepared(r) ==
    /\ job[r].pc = "intent"
    /\ MayPrepare(run[r], pol[run[r].stack])
    /\ run' = [run EXCEPT ![r].phase = "prepared"]
    /\ exec' = [exec EXCEPT ![r] = [phase |-> "prepared", base |-> job[r].ev.base,
                                    src |-> job[r].ev.src]]
    /\ job' = [job EXCEPT ![r].pc = "admit"]
    /\ UNCHANGED <<pol, op, base, runtime, wk, queue, cl, sched, blocked, coord, crashes>>

MarkApplying(r) ==
    LET s == run[r].stack
    IN  /\ job[r].pc = "admit"
        /\ MayApply(run[r], pol[s], gone[s])
        /\ run' = [run EXCEPT ![r].phase = "applying"]
        /\ exec' = [exec EXCEPT ![r].phase = "applying"]
        /\ job' = [job EXCEPT ![r].pc = "apply"]
        /\ UNCHANGED <<pol, op, base, runtime, wk, queue, cl, sched, blocked, coord, crashes>>

\* SavePrepared or MarkApplying reports a conflict or an error (which blocks
\* updates); the run ends, or FinishRun fails too (which blocks them as well).
Discard(r) ==
    LET s == run[r].stack
        conflict == IF job[r].pc = "intent" THEN ~MayPrepare(run[r], pol[s])
                                            ELSE ~MayApply(run[r], pol[s], gone[s])
    IN  /\ job[r].pc \in {"intent", "admit"}
        /\ \E finished \in BOOLEAN :
              /\ IF finished THEN Finish(r, "skipped") ELSE UNCHANGED <<run, exec>>
              /\ blocked' = (blocked \/ ~conflict \/ ~finished)
              /\ job' = [job EXCEPT ![r].pc = "close",
                                    ![r].failed = job[r].pc = "intent" \/ ~finished]
        /\ UNCHANGED <<pol, op, base, runtime, wk, queue, cl, sched, coord, crashes>>

\* ApplyUpdate recreates services one after the other: some, or all of them.
Recreate(r) ==
    LET s == run[r].stack
    IN  /\ job[r].pc = "apply"
        /\ gen' = [gen EXCEPT ![s] = @ + 1]
        /\ \E healthy \in BOOLEAN : fit' = [fit EXCEPT ![s] = healthy]
        /\ unproven' = [unproven EXCEPT ![s] = TRUE]
        /\ \E next \in {"record", "verify"} :
              job' = [job EXCEPT ![r].pc = next, ![r].failed = (next = "verify")]
        /\ UNCHANGED <<store, files, git, gone, wk, queue, cl, sched, blocked, coord, crashes>>

\* ApplyUpdate fails before it has recreated anything.
ApplyFails(r) ==
    /\ job[r].pc = "apply"
    /\ job' = [job EXCEPT ![r].pc = "verify", ![r].failed = TRUE]
    /\ UNCHANGED <<store, runtime, wk, queue, cl, sched, blocked, coord, crashes>>

MarkVerifying(r) ==
    /\ job[r].pc = "record"
    /\ \/ /\ run' = [run EXCEPT ![r].phase = "verifying"]
          /\ exec' = [exec EXCEPT ![r].phase = "verifying"]
          /\ job' = [job EXCEPT ![r].pc = "verify"]
          /\ UNCHANGED blocked
       \/ /\ blocked' = TRUE
          /\ job' = [job EXCEPT ![r].pc = "verify", ![r].failed = TRUE]
          /\ UNCHANGED <<run, exec>>
    /\ UNCHANGED <<pol, op, base, runtime, wk, queue, cl, sched, coord, crashes>>

\* VerifyUpdate sees every selected service on its new image, healthy and
\* stable, or gives up.
VerifyUpdate(r) ==
    LET s == run[r].stack
    IN  /\ job[r].pc = "verify"
        /\ \/ /\ fit[s] /\ ~job[r].failed
              /\ unproven' = [unproven EXCEPT ![s] = FALSE]
              /\ job' = [job EXCEPT ![r].pc = "complete"]
           \/ /\ job' = [job EXCEPT ![r].pc = "complete", ![r].failed = TRUE]
              /\ UNCHANGED unproven
        /\ UNCHANGED <<store, files, git, gen, fit, gone, wk, queue, cl, sched, blocked, coord, crashes>>

\* CompleteOperation with completeUpdate in its transaction.
Complete(r) ==
    LET s == run[r].stack
        ok == ~job[r].failed
    IN  /\ job[r].pc = "complete"
        /\ exec[r].phase \in MutationPhases
        /\ base' = [base EXCEPT ![s] = Deployed(@, ok, job[r].ev.src)]
        /\ pol' = [pol EXCEPT ![s] = IF ok THEN @ ELSE PausedPolicy(@)]
        /\ exec' = [exec EXCEPT ![r].phase = "terminal"]
        /\ run' = [run EXCEPT ![r].phase = "terminal",
                              ![r].outcome = IF ok THEN "updated" ELSE "failed"]
        /\ op' = [op EXCEPT ![r] = IF ok THEN "succeeded" ELSE "failed"]
        /\ job' = [job EXCEPT ![r] = [NoJob EXCEPT !.pc = "done"]]
        /\ Unlock(s)
        /\ UNCHANGED <<runtime, wk, queue, cl, sched, blocked, crashes>>

\* CompleteOperation of a job that mutated nothing.
Close(r) ==
    /\ job[r].pc = "close"
    /\ op' = [op EXCEPT ![r] = IF job[r].failed THEN "failed" ELSE "succeeded"]
    /\ job' = [job EXCEPT ![r] = [NoJob EXCEPT !.pc = "done"]]
    /\ Unlock(run[r].stack)
    /\ UNCHANGED <<pol, run, exec, base, runtime, wk, queue, cl, sched, blocked, crashes>>

CompleteFails(r) ==
    /\ job[r].pc \in {"complete", "close"}
    /\ job' = [job EXCEPT ![r] = [NoJob EXCEPT !.pc = "done", !.err = TRUE]]
    /\ Unlock(run[r].stack)
    /\ UNCHANGED <<store, runtime, wk, queue, cl, sched, blocked, crashes>>

-----------------------------------------------------------------------------
(* Requests of the HTTP API, served once app.New has returned.             *)

Serving == sched \notin {"boot", "history"}

Served(kind, scope, s) ==
    [NoClient EXCEPT !.pc = "held", !.kind = kind, !.scope = scope, !.stack = s]

\* The request forgets its locals and goes on to release its lock.
Leaving(r) == [NoClient EXCEPT !.pc = "leave", !.scope = r.scope]

\* PolicyService.Update: enabling asks EnableAutoUpdate first; no lock is taken.
BeginSave(c, s) ==
    /\ Serving
    /\ cl[c].pc = "idle"
    /\ pol[s].rev < MaxRev
    /\ \E enabled \in BOOLEAN :
          /\ enabled => ~blocked
          /\ cl' = [cl EXCEPT ![c] = [NoClient EXCEPT !.pc = "save", !.kind = "save",
                        !.stack = s, !.rev = pol[s].rev, !.flag = enabled]]
    /\ UNCHANGED <<store, runtime, wk, job, queue, sched, blocked, coord, crashes>>

SavePolicy(c) ==
    LET s == cl[c].stack
    IN  /\ cl[c].pc = "save"
        /\ pol[s].rev = cl[c].rev
        /\ ~gone[s]
        /\ pol' = [pol EXCEPT ![s] = SavedPolicy(@, cl[c].flag)]
        /\ cl' = [cl EXCEPT ![c] = NoClient]
        /\ UNCHANGED <<run, exec, op, base, runtime, wk, job, queue, sched, blocked, coord, crashes>>

\* ResumeAutoUpdate: refused while updates are blocked, then under the lock.
BeginResume(c, s) ==
    /\ Serving
    /\ cl[c].pc = "idle"
    /\ ~blocked
    /\ Try(coord, FALSE, {s})
    /\ Lock(s)
    /\ cl' = [cl EXCEPT ![c] = [Served("resume", s, s) EXCEPT !.rev = pol[s].rev]]
    /\ UNCHANGED <<store, runtime, wk, job, queue, sched, blocked, crashes>>

\* The running containers are those of the last successful source, and verify.
VerifyResume(c) ==
    LET s == cl[c].stack
    IN  /\ cl[c].pc = "held" /\ cl[c].kind = "resume"
        /\ pol[s].paused
        /\ base[s].good = SourceOf(s)
        /\ fit[s]
        /\ cl' = [cl EXCEPT ![c].pc = "verified", ![c].gen = gen[s]]
        /\ UNCHANGED <<store, runtime, wk, job, queue, sched, blocked, coord, crashes>>

\* A second snapshot is equal; ResumePolicy records the runtime as the baseline.
ResumePolicy(c) ==
    LET s == cl[c].stack
    IN  /\ cl[c].pc = "verified"
        /\ fit[s] /\ gen[s] = cl[c].gen
        /\ pol[s].rev = cl[c].rev /\ pol[s].paused
        /\ pol' = [pol EXCEPT ![s] = ResumedPolicy(@)]
        /\ base' = [base EXCEPT ![s] = Deployed(@, TRUE, @.good)]
        /\ unproven' = [unproven EXCEPT ![s] = FALSE]
        /\ cl' = [cl EXCEPT ![c] = Leaving(@)]
        /\ UNCHANGED <<run, exec, op, files, git, gen, fit, gone, wk, job, queue, sched, blocked,
                       coord, crashes>>

\* The lock of a manual action: a stack, or the repository and with it all stacks.
BeginWork(c, kind, s) ==
    LET whole == kind = "repository"
        ids == IF whole THEN {} ELSE {s}
    IN  /\ Serving
        /\ cl[c].pc = "idle"
        /\ Try(coord, whole, ids)
        /\ coord' = Granted(coord, whole, ids)
        /\ cl' = [cl EXCEPT ![c] = IF whole THEN Served(kind, Repository, None)
                                            ELSE Served(kind, s, s)]
        /\ UNCHANGED <<store, runtime, wk, job, queue, sched, blocked, crashes>>

\* DeployLocked: containers converge to the source, or the attempt fails with
\* some, or none, of them replaced.
Deploy(c) ==
    LET s == cl[c].stack
    IN  /\ cl[c].pc = "held" /\ cl[c].kind = "deploy"
        /\ base[s].id <= MaxVer
        /\ \E ok \in BOOLEAN :
              /\ \/ /\ gen[s] < MaxVer
                    /\ gen' = [gen EXCEPT ![s] = @ + 1]
                    /\ \E healthy \in BOOLEAN : fit' = [fit EXCEPT ![s] = healthy]
                    /\ unproven' = [unproven EXCEPT ![s] = @ /\ ~ok]
                 \/ ~ok /\ UNCHANGED <<gen, fit, unproven>>
              /\ cl' = [cl EXCEPT ![c].pc = "deployed", ![c].flag = ok, ![c].src = SourceOf(s)]
        /\ UNCHANGED <<store, files, git, gone, wk, job, queue, sched, blocked, coord, crashes>>

SaveDeployment(c) ==
    LET s == cl[c].stack
    IN  /\ cl[c].pc = "deployed"
        /\ base' \in {base, [base EXCEPT ![s] = Deployed(@, cl[c].flag, cl[c].src)]}
        /\ cl' = [cl EXCEPT ![c] = Leaving(@)]
        /\ UNCHANGED <<pol, run, exec, op, runtime, wk, job, queue, sched, blocked, coord, crashes>>

\* Start, stop and restart, of the stack or of a container.
ChangeRuntime(c) ==
    LET s == cl[c].stack
    IN  /\ cl[c].pc = "held" /\ cl[c].kind = "runtime"
        /\ gen[s] < MaxVer
        /\ gen' = [gen EXCEPT ![s] = @ + 1]
        /\ \E healthy \in BOOLEAN : fit' = [fit EXCEPT ![s] = healthy]
        /\ cl' = [cl EXCEPT ![c] = Leaving(@)]
        /\ UNCHANGED <<store, files, git, gone, unproven, wk, job, queue, sched, blocked, coord, crashes>>

\* A workspace edit, which may make the repository dirty or clean.
WriteFile(c) ==
    LET s == cl[c].stack
    IN  /\ cl[c].pc = "held" /\ cl[c].kind = "edit"
        /\ files[s] < MaxVer /\ git < MaxVer
        /\ files' = [files EXCEPT ![s] = @ + 1]
        /\ git' \in {git, git + 1}
        /\ cl' = [cl EXCEPT ![c] = Leaving(@)]
        /\ UNCHANGED <<store, gen, fit, gone, unproven, wk, job, queue, sched, blocked, coord,
                       crashes>>

\* Under the lock of one stack a commit moves the HEAD that all of them share.
CommitStack(c) ==
    /\ cl[c].pc = "held" /\ cl[c].kind = "commit"
    /\ git < MaxVer
    /\ git' = git + 1
    /\ cl' = [cl EXCEPT ![c] = Leaving(@)]
    /\ UNCHANGED <<store, files, gen, fit, gone, unproven, wk, job, queue, sched, blocked, coord,
                   crashes>>

\* A pull; fetch and push leave the worktree and HEAD alone (ClientFails).
RepositoryAction(c) ==
    /\ cl[c].pc = "held" /\ cl[c].kind = "repository"
    /\ git < MaxVer
    /\ \A s \in Stacks : files[s] < MaxVer
    /\ git' = git + 1
    /\ \E changed \in SUBSET Stacks :
          files' = [s \in Stacks |-> IF s \in changed THEN files[s] + 1 ELSE files[s]]
    /\ cl' = [cl EXCEPT ![c] = Leaving(@)]
    /\ UNCHANGED <<store, gen, fit, gone, unproven, wk, job, queue, sched, blocked, coord, crashes>>

\* DeleteStack: Down, then the stack is archived; a failed Down ends it half-way.
DeleteStack(c) ==
    LET s == cl[c].stack
    IN  /\ cl[c].pc = "held" /\ cl[c].kind = "remove"
        /\ fit' = [fit EXCEPT ![s] = FALSE]
        /\ \E down \in BOOLEAN :
              /\ gone' = [gone EXCEPT ![s] = @ \/ down]
              /\ unproven' = [unproven EXCEPT ![s] = @ /\ ~down]
              /\ git' \in {git} \cup {g \in {git + 1} : down /\ git < MaxVer}
        /\ cl' = [cl EXCEPT ![c] = Leaving(@)]
        /\ UNCHANGED <<store, files, gen, wk, job, queue, sched, blocked, coord, crashes>>

\* A check of the request, Docker or the database refuses it.
ClientFails(c) ==
    /\ cl[c].pc \in {"save", "held", "verified"}
    /\ cl' = [cl EXCEPT ![c] = IF cl[c].pc = "save" THEN NoClient ELSE Leaving(@)]
    /\ UNCHANGED <<store, runtime, wk, job, queue, sched, blocked, coord, crashes>>

Leave(c) ==
    /\ cl[c].pc = "leave"
    /\ coord' = Released(coord, cl[c].scope = Repository, {cl[c].scope} \cap Stacks)
    /\ cl' = [cl EXCEPT ![c] = NoClient]
    /\ UNCHANGED <<store, runtime, wk, job, queue, sched, blocked, crashes>>

-----------------------------------------------------------------------------
(* The environment.                                                        *)

\* The next occurrence of the schedule has come.
Due(s) ==
    /\ pol[s].rev > 0 /\ ~pol[s].due
    /\ \E r \in Runs : run[r].phase = "none"
    /\ pol' = [pol EXCEPT ![s].due = TRUE]
    /\ UNCHANGED <<run, exec, op, base, runtime, actors, sched, blocked, coord, crashes>>

\* A container exits, restarts or recovers by itself.
Outside(s) ==
    /\ External
    /\ gen[s] < MaxVer
    /\ gen' = [gen EXCEPT ![s] = @ + 1]
    /\ \E healthy \in BOOLEAN : fit' = [fit EXCEPT ![s] = healthy]
    /\ UNCHANGED <<store, files, git, gone, unproven, actors, sched, blocked, coord, crashes>>

\* The process dies and is started again; ReconcileUpdates begins by blocking.
Crash ==
    /\ crashes < MaxCrashes
    /\ crashes' = crashes + 1
    /\ wk' = [w \in Workers |-> NoWork]
    /\ job' = [r \in Runs |-> NoJob]
    /\ queue' = {}
    /\ cl' = [c \in Clients |-> NoClient]
    /\ coord' = FreeCoordinator
    /\ blocked' = TRUE
    /\ sched' = "boot"
    /\ UNCHANGED <<store, runtime>>

-----------------------------------------------------------------------------

Reconcile ==
    \/ Reconciled \/ ReconcileFails \/ FailInterrupted \/ Ready \/ ResetAfterStartup
    \/ \E r \in Runs : RecoverExecution(r) \/ FinishLeftOver(r)

Schedule == (\E s \in Stacks, r \in Runs : Admit(s, r)) \/ Fail \/ Shutdown \/ Drained

Check(w) ==
    \/ \E r \in Runs : Take(w, r)
    \/ MarkChecking(w) \/ MarkSkips(w) \/ MarkFails(w)
    \/ Begin(w) \/ CheckFails(w) \/ Look(w) \/ LookSkips(w) \/ Prepare(w) \/ PrepareFails(w)
    \/ Again(w) \/ Fresh(w) \/ FreshSkips(w) \/ Unchanged(w) \/ FinishCheck(w)
    \/ Start(w) \/ StartFails(w) \/ Wait(w)

Update(r) ==
    \/ RunJob(r) \/ RunJobFails(r) \/ SavePrepared(r) \/ MarkApplying(r) \/ Discard(r)
    \/ Recreate(r) \/ ApplyFails(r) \/ MarkVerifying(r) \/ VerifyUpdate(r)
    \/ Complete(r) \/ Close(r) \/ CompleteFails(r)

Arrive(c) ==
    \/ \E s \in Managed :
          \/ "save" \in Kinds /\ BeginSave(c, s)
          \/ "resume" \in Kinds /\ BeginResume(c, s)
    \/ \E k \in Kinds \cap WorkKinds :
          \E s \in IF k \in GitKinds THEN Stacks ELSE Managed : BeginWork(c, k, s)

Serve(c) ==
    \/ SavePolicy(c) \/ VerifyResume(c) \/ ResumePolicy(c) \/ Deploy(c) \/ SaveDeployment(c)
    \/ ChangeRuntime(c) \/ WriteFile(c) \/ CommitStack(c) \/ RepositoryAction(c) \/ DeleteStack(c) \/ ClientFails(c) \/ Leave(c)

Environment == (\E s \in Stacks : Due(s) \/ Outside(s)) \/ Crash

Next ==
    \/ Reconcile
    \/ Schedule
    \/ \E w \in Workers : Check(w)
    \/ \E r \in Runs : Update(r)
    \/ \E c \in Clients : Arrive(c) \/ Serve(c)
    \/ Environment

Spec == Init /\ [][Next]_vars

-----------------------------------------------------------------------------
(* Properties.                                                             *)

\* Type correctness of the database, the runtime and the goroutines.
TypeOK ==
    /\ pol \in [Stacks -> PolicyRow]
    /\ run \in [Runs -> RunRow]
    /\ exec \in [Runs -> ExecRow]
    /\ op \in [Runs -> {"none", "queued", "running", "succeeded", "failed", "cancelled"}]
    /\ base \in [Stacks -> Baseline]
    /\ files \in [Stacks -> Nat] /\ git \in Nat /\ gen \in [Stacks -> Nat]
    /\ {fit, gone, unproven} \subseteq [Stacks -> BOOLEAN]
    /\ wk \in [Workers -> Worker]
    /\ job \in [Runs -> Job]
    /\ queue \subseteq Runs
    /\ sched \in {"boot", "history", "serve", "reconcile", "reset", "running", "draining",
                  "closing", "stopped"}
    /\ blocked \in BOOLEAN
    /\ cl \in [Clients -> Client]
    /\ coord \in CoordinatorOf(Stacks)
    /\ crashes \in Nat

\* A run works on its stack while a worker looks at it, or its job exists; the
\* lock passes from the one to the other without being released.
Working(r) ==
    \/ \E w \in Workers : wk[w].run = r /\ wk[w].pc \in LockedPcs
    \/ job[r].pc \in JobPcs

owner == [a \in Runs \cup Clients |->
            IF a \in Runs THEN (IF Working(a) THEN run[a].stack ELSE None) ELSE cl[a].scope]

Excl == INSTANCE Exclusion WITH Actors <- Runs \cup Clients

\* Updates, manual actions, edits and repository actions exclude each other on
\* a stack, across the release between the two looks and the hand-over of the
\* lock to the job (CheckAndUpdate, StartTracked).
MutualExclusion == Excl!Spec

\* What ApplyUpdate recreates is what was prepared: since the first look, which
\* another request may follow with edits and deployments, neither the files, the
\* environment, the baseline nor the containers have changed.  (Containers only
\* if they do not change by themselves; HEAD can move under another stack's lock.)
AppliesWhatItPrepared ==
    \A r \in Runs : job[r].pc = "apply" =>
        LET s == run[r].stack
        IN  /\ files[s] = job[r].ev.src.files
            /\ base[s].id = job[r].ev.base
            /\ External \/ gen[s] = job[r].ev.gen

\* docs/operator-guide.md, "Failure and recovery": containers that an update
\* recreated and did not verify leave the policy paused, or the execution that
\* touched them is still on record in a mutation phase, also after a crash at
\* any point and after an outcome that could not be saved.
AmbiguousUpdatePauses ==
    \A s \in Stacks : unproven[s] =>
        \/ pol[s].paused
        \/ \E r \in Runs : run[r].stack = s /\ exec[r].phase \in MutationPhases

\* No update starts from containers that an earlier one left unproven: there is
\* no automatic retry of a partially changed stack.
NoUpdateOnUnproven ==
    \A r \in Runs : job[r].pc \in {"intent", "admit", "apply"} => ~unproven[run[r].stack]

\* docs/operator-guide.md, "Restart and shutdown safety": when an outcome could
\* not be saved, updates are blocked, or the worker that will block them has
\* not yet looked; only a reconciliation unblocks them.
OrphanBlocksUpdates ==
    \A r \in PendingExecutions :
        \/ job[r].pc \in JobPcs
        \/ blocked
        \/ \E w \in Workers : wk[w].run = r /\ wk[w].pc = "wait"

\* A run that ends as skipped, unchanged or interrupted never reached a
\* mutation phase, and one that did ends as updated or, with the policy
\* paused, as failed.
OutcomeIsHonest ==
    [][\A r \in Runs : run[r].phase # "terminal" /\ run'[r].phase = "terminal" =>
          IF exec[r].phase \in MutationPhases
          THEN run'[r].outcome = "updated" \/ (run'[r].outcome = "failed" /\ pol'[run[r].stack].paused)
          ELSE job[r].pc \notin {"apply", "record", "verify", "complete"}]_vars

\* A recovery pause ends only by the commit of an explicit Resume: edits of the
\* policy, further runs and restarts keep it.
PauseEndsByResume ==
    [][\A s \in Stacks : pol[s].paused => pol'[s].paused
          \/ \E c \in Clients : cl[c].pc = "verified" /\ cl[c].stack = s]_vars

\* Goroutines are scheduled and their calls return or time out.  Nothing is
\* assumed of clients, of the schedule or of crashes.
Fairness ==
    /\ WF_vars(Reconcile) /\ WF_vars(Drained)
    /\ WF_vars(sched = "running" /\ (\E w \in Workers : wk[w].pc = "dead") /\ Fail)
    /\ \A w \in Workers : WF_vars(Check(w))
    /\ \A r \in Runs : WF_vars(Update(r))
    /\ \A c \in Clients : WF_vars(Serve(c))

FairSpec == Spec /\ Fairness

\* Every admitted run ends, unless the scheduler stops or updates are blocked
\* (an outcome could not be saved); then the next start ends it.
AdmittedRunEnds ==
    \A r \in Runs :
        run[r].phase = "queued" ~> run[r].phase = "terminal" \/ blocked \/ sched = "stopped"

\* No path of a check, a job or a request keeps its lock.
LocksAreReleased ==
    /\ \A s \in Stacks : s \in coord.stacks ~> s \notin coord.stacks
    /\ coord.repository ~> ~coord.repository

\* Whatever a worker, a job or a request has begun comes to its end, and with it the
\* lock that it took, also when saving its outcome fails (CheckAndUpdate, execute).
WorkEnds == AdmittedRunEnds /\ LocksAreReleased

=============================================================================

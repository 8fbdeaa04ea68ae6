-------------------------- MODULE AutoUpdateProofs --------------------------
(***************************************************************************)
(* Type correctness and the safety properties of AutoUpdate, for all sets  *)
(* of stacks, runs, workers and requests and for any number of crashes.    *)
(*                                                                         *)
(* Types first, with the control invariant that types alone do not give:   *)
(* where a run is, its row, its execution, its job, its worker and the     *)
(* queue agree on it.  Steps are classified by what they do to these       *)
(* (Walks, Quits, Ends, Moves, Discards, Marks, Enters, Keeps, Drops), and *)
(* the invariant is shown once for each class.                             *)
(*                                                                         *)
(* Then the refinement of Exclusion; then, from exclusion, that nobody     *)
(* touches a stack under the feet of a run (Undisturbed) and that updates  *)
(* only start from what was looked at and proven (SafeInv); then pauses,   *)
(* outcomes, and executions whose outcome could not be saved.              *)
(***************************************************************************)
EXTENDS AutoUpdate, TLAPS

\* A worker inside CheckAndUpdate, before it has started a job.
CheckPcs == {"begin", "look", "prepare", "again", "fresh", "start", "unchanged", "finish"}
\* A worker without a run.
RestPcs == {"idle", "dead"}

\* A run that was admitted has a stack; one that was not has neither an
\* execution nor a job.
RunInv ==
    \A r \in Runs :
        /\ run[r].phase # "none" => run[r].stack \in Stacks
        /\ run[r].phase = "none" => exec[r].phase = "none" /\ job[r].pc = "none"

\* What is in the channel of Scheduler.Run has not been looked at yet.
QueueInv ==
    \A r \in queue : run[r].phase = "queued" /\ exec[r].phase = "none" /\ job[r].pc = "none"

\* Where a worker is, its run is: queued before MarkChecking, checking until the
\* job starts, and without an execution; a run in the channel has no worker.
WorkerInv ==
    \A w \in Workers :
        /\ wk[w].pc \in RestPcs => wk[w].run = None
        /\ wk[w].pc \notin RestPcs => wk[w].run \in Runs \ queue
        /\ wk[w].pc = "mark" => run[wk[w].run].phase = "queued"
        /\ wk[w].pc \in CheckPcs => run[wk[w].run].phase = "checking"
        /\ wk[w].pc \in CheckPcs \cup {"mark"} =>
              exec[wk[w].run].phase = "none" /\ job[wk[w].run].pc = "none"
        /\ wk[w].pc = "wait" => job[wk[w].run].pc # "none"

\* A run is taken from the channel by one worker.
OneWorker == \A v, w \in Workers : wk[v].run = wk[w].run /\ wk[v].run # None => v = w

\* Where a job is, its execution is; only between MarkApplying and the completion
\* is there a mutation to answer for.
JobInv ==
    \A r \in Runs :
        /\ job[r].pc \in {"queued", "intent"} => run[r].phase = "checking" /\ exec[r].phase = "none"
        /\ job[r].pc = "admit" => exec[r].phase = "prepared"
        /\ job[r].pc \in {"apply", "record", "verify", "complete"} => exec[r].phase \in MutationPhases
        /\ job[r].pc = "close" => exec[r].phase \notin MutationPhases

\* The row of a run shows the phase of its pending execution.
ExecInv == \A r \in Runs : exec[r].phase \in PendingExec => run[r].phase = exec[r].phase

\* A stack has one live run at a time (Admit skips the others).
OneLive ==
    \A q, r \in Runs :
        /\ run[q].phase \in LivePhases /\ run[r].phase \in LivePhases
        /\ run[q].stack = run[r].stack
        => q = r

\* app.New and the scheduler goroutine up to Scheduler.Run.
StartingUp == sched \in {"boot", "history", "serve", "reconcile", "reset"}

\* Until then nobody works on a run.
StartInv ==
    StartingUp => /\ queue = {}
                  /\ \A w \in Workers : wk[w].pc = "idle"
                  /\ \A r \in Runs : job[r].pc = "none"

\* What a request knows of the lock it holds.
ClientInv ==
    \A c \in Clients :
        /\ cl[c].pc \in {"idle", "save"} => cl[c].scope = None
        /\ cl[c].pc = "save" => cl[c].stack \in Stacks
        /\ \/ cl[c].pc \in {"verified", "deployed"}
           \/ cl[c].pc = "held" /\ cl[c].kind # "repository"
           => cl[c].stack \in Stacks /\ cl[c].scope = cl[c].stack
        /\ cl[c].pc = "held" /\ cl[c].kind = "repository" => cl[c].scope = Repository
        /\ cl[c].pc = "leave" => cl[c].scope # None

\* The control invariant.
ControlInv ==
    RunInv /\ QueueInv /\ WorkerInv /\ OneWorker /\ JobInv /\ ExecInv /\ OneLive /\ StartInv

-----------------------------------------------------------------------------

\* Every statement on a policy leaves a policy.
LEMMA PolicyTypes ==
  ASSUME NEW p \in PolicyRow
  PROVE  /\ \A b \in BOOLEAN : SavedPolicy(p, b) \in PolicyRow
         /\ PausedPolicy(p) \in PolicyRow /\ ResumedPolicy(p) \in PolicyRow
         /\ ResetPolicy(p) \in PolicyRow /\ [p EXCEPT !.due = TRUE] \in PolicyRow
<1>1. p.rev + 1 \in Nat
  BY DEF PolicyRow
<1>2. QED
  BY <1>1 DEF PolicyRow, SavedPolicy, PausedPolicy, ResumedPolicy, ResetPolicy

\* A deployment is recorded as a baseline.
LEMMA DeployedType ==
  ASSUME NEW b \in Baseline, NEW ok \in BOOLEAN, NEW src \in Source
  PROVE  Deployed(b, ok, src) \in Baseline
<1>1. b.id + 1 \in Nat /\ b.good \in Source
  BY DEF Baseline
<1>2. QED
  BY <1>1 DEF Baseline, Deployed

\* So is the failed deployment of an interrupted update.
LEMMA RecoveredType ==
  ASSUME NEW b \in Baseline, NEW n \in Nat, NEW src \in Source
  PROVE  Recovered(b, n, src) \in Baseline
  BY DeployedType DEF Recovered

\* FinishRun ends the run, keeps its stack, and takes along a prepared execution
\* but no other.
LEMMA FinishTypes ==
  ASSUME NEW x \in RunRow, NEW e \in ExecRow, NEW o \in Outcomes
  PROVE  /\ FinishedRun(x, o) \in RunRow
         /\ FinishedRun(x, o).phase = "terminal"
         /\ FinishedRun(x, o).stack = x.stack
         /\ FinishedExec(x, e) \in ExecRow
         /\ FinishedExec(x, e).phase \in {e.phase, "terminal"}
         /\ FinishedExec(x, e).phase = e.phase \/ e.phase = "prepared"
         /\ x.phase # "terminal" => FinishedExec(x, e).phase # "prepared"
  BY DEF FinishedRun, FinishedExec, RunRow, RunPhases, ExecRow, ExecPhases

\* The initial values of the locals of a check.
LEMMA NoSourceType == NoSource \in Source /\ NoEvidence \in Evidence
  BY DEF NoSource, Source, NoEvidence, Evidence

\* The rows of a fresh database.
LEMMA NoRowTypes == /\ NoRun \in RunRow /\ NoExec \in ExecRow /\ NoPolicy \in PolicyRow
                    /\ FirstDeployment \in Baseline
<1>1. NoRun \in RunRow /\ NoPolicy \in PolicyRow
  BY DEF NoRun, RunRow, RunPhases, Outcomes, NoPolicy, PolicyRow
<1>2. NoExec \in ExecRow
  BY NoSourceType DEF NoExec, ExecRow, ExecPhases
<1>3. [id |-> 0, ok |-> TRUE, src |-> NoSource, good |-> NoSource] \in Baseline
  BY NoSourceType DEF Baseline
<1>4. [files |-> 1, git |-> 1] \in Source
  BY DEF Source
<1>5. QED
  BY <1>1, <1>2, <1>3, <1>4, DeployedType DEF FirstDeployment

\* A worker that has no run, has just got one, or waits for its job.
LEMMA NoWorkType ==
  /\ NoWork \in Worker /\ [NoWork EXCEPT !.pc = "dead"] \in Worker
  /\ \A r \in Runs : [NoWork EXCEPT !.pc = "mark", !.run = r] \in Worker
  /\ \A r \in Runs : [NoWork EXCEPT !.pc = "wait", !.run = r] \in Worker
<1>1. NoWork \in Worker
  BY NoSourceType DEF NoWork, Worker, LockedPcs, Outcomes
<1>2. QED
  BY <1>1 DEF Worker

\* A job that does not exist, has ended, or has just been started.
LEMMA NoJobType ==
  /\ NoJob \in Job /\ [NoJob EXCEPT !.pc = "done"] \in Job
  /\ [NoJob EXCEPT !.pc = "done", !.err = TRUE] \in Job
  /\ \A e \in Evidence : [NoJob EXCEPT !.pc = "queued", !.ev = e] \in Job
<1>1. NoJob \in Job
  BY NoSourceType DEF NoJob, Job
<1>2. QED
  BY <1>1 DEF Job, JobPcs

\* A request that is not there, leaves, or has just taken its lock.
LEMMA NoClientType ==
  /\ NoClient \in Client
  /\ \A r \in Client : Leaving(r) \in Client
  /\ \A s \in Stacks, k \in AllKinds : Served(k, s, s) \in Client
  /\ \A k \in AllKinds : Served(k, Repository, None) \in Client
<1>1. NoClient \in Client
  BY NoSourceType DEF NoClient, Client
<1>2. ASSUME NEW r \in Client PROVE Leaving(r) \in Client
  BY <1>1 DEF Leaving, Client
<1>3. ASSUME NEW s \in Stacks, NEW k \in AllKinds PROVE Served(k, s, s) \in Client
  BY <1>1 DEF Served, Client
<1>4. ASSUME NEW k \in AllKinds PROVE Served(k, Repository, None) \in Client
  BY <1>1 DEF Served, Client
<1>5. QED
  BY <1>1, <1>2, <1>3, <1>4

\* The first state has its types.
LEMMA InitType == Init => TypeOK
<1>. SUFFICES ASSUME Init
              PROVE  TypeOK
  OBVIOUS
<1>1. pol \in [Stacks -> PolicyRow] /\ run \in [Runs -> RunRow] /\ exec \in [Runs -> ExecRow]
  BY NoRowTypes DEF Init
<1>2. base \in [Stacks -> Baseline]
  BY NoRowTypes DEF Init
<1>3. /\ op \in [Runs -> {"none", "queued", "running", "succeeded", "failed", "cancelled"}]
      /\ files \in [Stacks -> Nat] /\ git \in Nat /\ gen \in [Stacks -> Nat]
      /\ {fit, gone, unproven} \subseteq [Stacks -> BOOLEAN]
  BY DEF Init
<1>4. wk \in [Workers -> Worker] /\ job \in [Runs -> Job] /\ cl \in [Clients -> Client]
  BY NoWorkType, NoJobType, NoClientType DEF Init
<1>5. coord \in CoordinatorOf(Stacks)
  BY DEF Init, FreeCoordinator, CoordinatorOf
<1>6. QED
  BY <1>1, <1>2, <1>3, <1>4, <1>5 DEF Init, TypeOK

-----------------------------------------------------------------------------

\* What is known of the run of a worker that has one.
LEMMA WorkerFacts ==
  ASSUME TypeOK, ControlInv, NEW w \in Workers, wk[w].pc \notin RestPcs
  PROVE  /\ wk[w] \in Worker /\ wk[w].run \in Runs
         /\ run[wk[w].run] \in RunRow /\ exec[wk[w].run] \in ExecRow
         /\ run[wk[w].run].phase # "none" /\ run[wk[w].run].stack \in Stacks
<1>1. wk[w] \in Worker /\ wk[w].run \in Runs
  BY DEF TypeOK, ControlInv, WorkerInv
<1>2. run[wk[w].run] \in RunRow /\ exec[wk[w].run] \in ExecRow
  BY <1>1 DEF TypeOK
<1>3. wk[w].pc \in CheckPcs \cup {"mark", "wait"}
  BY <1>1 DEF Worker, LockedPcs, CheckPcs, RestPcs
<1>4. run[wk[w].run].phase # "none"
  BY <1>1, <1>3 DEF ControlInv, WorkerInv, RunInv
<1>5. QED
  BY <1>1, <1>2, <1>4 DEF ControlInv, RunInv

\* Worker w goes on with its run, and no other worker moves.
WorkerGoes(w, pcs) ==
    /\ wk' \in [Workers -> Worker]
    /\ wk'[w].pc \in pcs /\ wk'[w].run = wk[w].run
    /\ \A v \in Workers \ {w} : wk'[v] = wk[v]

\* Worker w lets go of its run, and no other worker moves.
WorkerRests(w) ==
    /\ wk' \in [Workers -> Worker]
    /\ wk'[w].pc \in RestPcs /\ wk'[w].run = None
    /\ \A v \in Workers \ {w} : wk'[v] = wk[v]

\* A skipped check goes on to finishUpdateCheck.
LEMMA SkipGoes ==
  ASSUME TypeOK, NEW w \in Workers, NEW o \in Outcomes, Skip(w, o)
  PROVE  WorkerGoes(w, {"finish"})
<1>1. wk \in [Workers -> Worker] /\ wk[w] \in Worker
  BY DEF TypeOK
<1>2. [NoWork EXCEPT !.pc = "finish", !.run = wk[w].run, !.outcome = o] \in Worker
  BY <1>1, NoWorkType DEF Worker
<1>3. QED
  BY <1>1, <1>2 DEF Skip, WorkerGoes, NoWork

\* A worker that returns, well or with an error, has no run.
LEMMA RestRests ==
  ASSUME TypeOK, NEW w \in Workers,
         wk' = [wk EXCEPT ![w] = NoWork] \/ wk' = [wk EXCEPT ![w] = [NoWork EXCEPT !.pc = "dead"]]
  PROVE  WorkerRests(w)
<1>1. wk \in [Workers -> Worker]
  BY DEF TypeOK
<1>2. NoWork.pc \in RestPcs /\ NoWork.run = None
  BY DEF NoWork, RestPcs
<1>3. [NoWork EXCEPT !.pc = "dead"].pc \in RestPcs /\ [NoWork EXCEPT !.pc = "dead"].run = None
  BY DEF NoWork, RestPcs
<1>4. QED
  BY <1>1, <1>2, <1>3, NoWorkType DEF WorkerRests

\* A step of CheckAndUpdate that changes nothing but the control point.
LEMMA PcGoes ==
  ASSUME TypeOK, NEW w \in Workers, NEW p \in CheckPcs, wk' = [wk EXCEPT ![w].pc = p]
  PROVE  WorkerGoes(w, {p})
  BY DEF TypeOK, Worker, CheckPcs, LockedPcs, WorkerGoes

\* updateEvidence returns evidence.
LEMMA EvidenceType ==
  ASSUME TypeOK, NEW s \in Stacks
  PROVE  SourceOf(s) \in Source /\ EvidenceOf(s) \in Evidence
<1>1. SourceOf(s) \in Source
  BY DEF TypeOK, SourceOf, Source
<1>2. pol[s].rev \in Nat /\ gen[s] \in Nat /\ base[s].id \in Nat
  BY DEF TypeOK, PolicyRow, Baseline
<1>3. QED
  BY <1>1, <1>2 DEF EvidenceOf, Evidence

\* A step inside CheckAndUpdate that changes no row.
Walks(w) ==
    /\ UNCHANGED <<run, exec, job, queue>>
    /\ wk[w].pc \in CheckPcs /\ WorkerGoes(w, CheckPcs)

\* The worker leaves its run as it is.
Quits(w) ==
    /\ UNCHANGED <<run, exec, job, queue>>
    /\ wk[w].pc \notin RestPcs /\ WorkerRests(w)

\* The worker ends its run with FinishRun.
Ends(w) ==
    /\ UNCHANGED <<job, queue>>
    /\ wk[w].pc \in {"mark", "unchanged", "finish"} /\ WorkerRests(w)
    /\ \E o \in Outcomes : Finish(wk[w].run, o)

\* The steps of a worker.
LEMMA CheckKinds ==
  ASSUME TypeOK, ControlInv, NEW w \in Workers, Check(w)
  PROVE  \/ Walks(w) \/ Quits(w) \/ Ends(w)
         \/ MarkChecking(w) \/ Start(w)
         \/ \E r \in Runs : Take(w, r)
<1>1. wk \in [Workers -> Worker] /\ wk[w] \in Worker /\ "skipped" \in Outcomes
      /\ "failed" \in Outcomes /\ "unchanged" \in Outcomes
  BY DEF TypeOK, Outcomes
<1>2. CASE MarkSkips(w)
  BY <1>1, <1>2, RestRests DEF MarkSkips, Ends, runtime
<1>3. CASE MarkFails(w)
  BY <1>3, RestRests DEF MarkFails, Quits, store, RestPcs
<1>4. CASE Begin(w)
  BY <1>1, <1>4, PcGoes, SkipGoes DEF Begin, Walks, store, CheckPcs, WorkerGoes
<1>5. CASE CheckFails(w)
  BY <1>5, RestRests DEF CheckFails, Quits, store, RestPcs
<1>6. CASE Look(w)
  <2>1. run[wk[w].run].stack \in Stacks
    BY <1>6, WorkerFacts DEF Look, RestPcs
  <2>2. EvidenceOf(run[wk[w].run].stack) \in Evidence
    BY <2>1, EvidenceType
  <2>3. WorkerGoes(w, {"prepare"})
    BY <1>1, <1>6, <2>2 DEF Look, WorkerGoes, Worker
  <2>4. QED
    BY <1>6, <2>3 DEF Look, Walks, store, CheckPcs, WorkerGoes
<1>7. CASE LookSkips(w)
  BY <1>1, <1>7, SkipGoes DEF LookSkips, Walks, store, CheckPcs, WorkerGoes
<1>8. CASE Prepare(w)
  <2>1. PICK b \in BOOLEAN : wk' = [wk EXCEPT ![w].pc = "again", ![w].changes = b]
    BY <1>8 DEF Prepare
  <2>2. [wk[w] EXCEPT !.pc = "again", !.changes = b] \in Worker
    BY <1>1 DEF Worker
  <2>3. WorkerGoes(w, {"again"})
    BY <1>1, <2>1, <2>2 DEF WorkerGoes, Worker
  <2>4. QED
    BY <1>8, <2>3 DEF Prepare, Walks, store, CheckPcs, WorkerGoes
<1>9. CASE PrepareFails(w)
  BY <1>1, <1>9, SkipGoes DEF PrepareFails, Walks, store, CheckPcs, WorkerGoes
<1>10. CASE Again(w)
  BY <1>1, <1>10, PcGoes, SkipGoes DEF Again, Walks, store, CheckPcs, WorkerGoes
<1>11. CASE Fresh(w)
  BY <1>1, <1>11, PcGoes DEF Fresh, Walks, store, CheckPcs, WorkerGoes
<1>12. CASE FreshSkips(w)
  BY <1>1, <1>12, SkipGoes DEF FreshSkips, Walks, store, CheckPcs, WorkerGoes
<1>13. CASE Unchanged(w)
  BY <1>1, <1>13, RestRests DEF Unchanged, Ends, Quits, RestPcs
<1>14. CASE FinishCheck(w)
  <2>1. wk[w].outcome \in Outcomes
    BY <1>1 DEF Worker
  <2>2. QED
    BY <1>1, <1>14, <2>1, RestRests DEF FinishCheck, Ends, Quits, RestPcs
<1>15. CASE StartFails(w)
  BY <1>1, <1>15, SkipGoes DEF StartFails, Walks, store, CheckPcs, WorkerGoes
<1>16. CASE Wait(w)
  BY <1>16, RestRests DEF Wait, Quits, store, RestPcs
<1>17. QED
  BY <1>2, <1>3, <1>4, <1>5, <1>6, <1>7, <1>8, <1>9, <1>10, <1>11, <1>12, <1>13, <1>14,
     <1>15, <1>16 DEF Check

\* FinishRun keeps the rows typed.
LEMMA FinishKeepsTypes ==
  ASSUME TypeOK, NEW r \in Runs, NEW o \in Outcomes, Finish(r, o)
  PROVE  run' \in [Runs -> RunRow] /\ exec' \in [Runs -> ExecRow]
<1>1. /\ run \in [Runs -> RunRow] /\ exec \in [Runs -> ExecRow]
      /\ run[r] \in RunRow /\ exec[r] \in ExecRow
  BY DEF TypeOK
<1>2. FinishedRun(run[r], o) \in RunRow /\ FinishedExec(run[r], exec[r]) \in ExecRow
  BY <1>1, FinishTypes
<1>3. QED
  BY <1>1, <1>2 DEF Finish

\* Try and the release closure return coordinators.
LEMMA CoordinatorTypes ==
  ASSUME NEW k \in CoordinatorOf(Stacks), NEW whole \in BOOLEAN, NEW ids \in SUBSET Stacks
  PROVE  Granted(k, whole, ids) \in CoordinatorOf(Stacks) /\ Released(k, whole, ids) \in CoordinatorOf(Stacks)
  BY DEF CoordinatorOf, Granted, Released

\* The coordinator stays one of Stacks.
LEMMA LockKeepsTypes ==
  ASSUME TypeOK, NEW s \in Stacks, Lock(s) \/ Unlock(s)
  PROVE  coord' \in CoordinatorOf(Stacks)
  BY CoordinatorTypes DEF TypeOK, Lock, Unlock

\* Start-up keeps the types.
LEMMA TypeReconcile ==
  ASSUME TypeOK, ControlInv, Reconcile
  PROVE  TypeOK'
<1>1. CASE Reconciled
  BY <1>1 DEF Reconciled, TypeOK, store, runtime, actors
<1>2. CASE ReconcileFails
  BY <1>2 DEF ReconcileFails, TypeOK, store, runtime, actors
<1>3. CASE FailInterrupted
  <2>1. op' \in [Runs -> {"none", "queued", "running", "succeeded", "failed", "cancelled"}]
    BY <1>3 DEF FailInterrupted, TypeOK
  <2>2. QED
    BY <1>3, <2>1 DEF FailInterrupted, TypeOK, runtime, actors
<1>4. CASE Ready
  BY <1>4 DEF Ready, TypeOK, store, runtime, actors
<1>5. CASE ResetAfterStartup
  <2>1. pol' \in [Stacks -> PolicyRow]
    <3>1. pol \in [Stacks -> PolicyRow]
      BY DEF TypeOK
    <3>2. \A s \in Stacks : ResetPolicy(pol[s]) \in PolicyRow
      BY <3>1, PolicyTypes
    <3>3. pol' = [s \in Stacks |-> ResetPolicy(pol[s])] \/ pol' = pol
      BY <1>5 DEF ResetAfterStartup
    <3>4. QED
      BY <3>1, <3>2, <3>3
  <2>2. blocked' \in BOOLEAN /\ sched' \in {"running", "stopped"}
    BY <1>5 DEF ResetAfterStartup, TypeOK
  <2>3. QED
    BY <1>5, <2>1, <2>2 DEF ResetAfterStartup, TypeOK, runtime, actors
<1>6. ASSUME NEW r \in Runs, RecoverExecution(r)
      PROVE  TypeOK'
  <2>1. /\ run \in [Runs -> RunRow] /\ exec \in [Runs -> ExecRow]
        /\ run[r] \in RunRow /\ exec[r] \in ExecRow
        /\ base \in [Stacks -> Baseline] /\ pol \in [Stacks -> PolicyRow]
        /\ exec[r].base \in Nat /\ exec[r].src \in Source
    BY DEF TypeOK, ExecRow
  <2>2. exec' \in [Runs -> ExecRow]
    BY <1>6, <2>1 DEF RecoverExecution, ExecRow, ExecPhases
  <2>3. \A o \in Outcomes : [run[r] EXCEPT !.phase = "terminal", !.outcome = o] \in RunRow
    BY <2>1 DEF RunRow, RunPhases
  <2>4. run' \in [Runs -> RunRow]
    BY <1>6, <2>1, <2>3 DEF RecoverExecution, Outcomes
  <2>5. op' \in [Runs -> {"none", "queued", "running", "succeeded", "failed", "cancelled"}]
    BY <1>6 DEF RecoverExecution, TypeOK
  <2>6. \A s \in Stacks : /\ Recovered(base[s], exec[r].base, exec[r].src) \in Baseline
                          /\ PausedPolicy(pol[s]) \in PolicyRow
    BY <2>1, RecoveredType, PolicyTypes
  <2>7. base' \in [Stacks -> Baseline] /\ pol' \in [Stacks -> PolicyRow]
    BY <1>6, <2>1, <2>6 DEF RecoverExecution
  <2>8. QED
    BY <1>6, <2>2, <2>4, <2>5, <2>7 DEF RecoverExecution, TypeOK, runtime, actors
<1>7. ASSUME NEW r \in Runs, FinishLeftOver(r)
      PROVE  TypeOK'
  BY <1>7, FinishKeepsTypes DEF FinishLeftOver, TypeOK, runtime, actors, Outcomes
<1>8. QED
  BY <1>1, <1>2, <1>3, <1>4, <1>5, <1>6, <1>7 DEF Reconcile

\* Admission and shutdown keep the types.
LEMMA TypeSchedule ==
  ASSUME TypeOK, Schedule
  PROVE  TypeOK'
<1>1. ASSUME NEW s \in Stacks, NEW r \in Runs, Admit(s, r)
      PROVE  TypeOK'
  <2>1. /\ run \in [Runs -> RunRow] /\ pol \in [Stacks -> PolicyRow] /\ pol[s] \in PolicyRow
        /\ exec[r] \in ExecRow
    BY DEF TypeOK
  <2>2. pol' \in [Stacks -> PolicyRow]
    BY <1>1, <2>1 DEF Admit, PolicyRow
  <2>. DEFINE admitted == [stack |-> s, rev |-> pol[s].rev, phase |-> "queued", outcome |-> ""]
  <2>3. admitted \in RunRow
    BY <2>1 DEF RunRow, PolicyRow, RunPhases, LivePhases, Outcomes
  <2>4. FinishedRun(admitted, "skipped") \in RunRow
    BY <2>1, <2>3, FinishTypes DEF Outcomes
  <2>5. run' \in [Runs -> RunRow] /\ queue' \subseteq Runs
    BY <1>1, <2>1, <2>3, <2>4 DEF Admit, TypeOK
  <2>6. QED
    BY <1>1, <2>2, <2>5 DEF Admit, TypeOK, runtime
<1>2. CASE Fail
  BY <1>2 DEF Fail, TypeOK, store, runtime, actors
<1>3. CASE Shutdown
  BY <1>3 DEF Shutdown, TypeOK, store, runtime, actors
<1>4. CASE Drained
  BY <1>4 DEF Drained, TypeOK, store, runtime, actors
<1>5. QED
  BY <1>1, <1>2, <1>3, <1>4 DEF Schedule

\* A worker touches its own record, its run and the lock of its stack.
LEMMA CheckFrame ==
  ASSUME NEW w \in Workers, Check(w)
  PROVE  /\ UNCHANGED <<pol, base, runtime, cl, sched, crashes>>
         /\ op' = op \/ Start(w)
         /\ \/ coord' = coord
            \/ wk[w].pc \notin RestPcs /\ Lock(run[wk[w].run].stack)
            \/ wk[w].pc \notin RestPcs /\ Unlock(run[wk[w].run].stack)
         /\ blocked' = blocked \/ blocked' = TRUE
<1>1. ASSUME NEW r \in Runs, Take(w, r)
      PROVE  /\ UNCHANGED <<pol, base, runtime, cl, sched, crashes>>
             /\ op' = op /\ coord' = coord /\ blocked' = blocked
  BY <1>1 DEF Take, store
<1>2. CASE MarkChecking(w)
  BY <1>2 DEF MarkChecking, store, RestPcs
<1>3. CASE MarkSkips(w)
  BY <1>3 DEF MarkSkips, store, RestPcs
<1>4. CASE MarkFails(w)
  BY <1>4 DEF MarkFails, store, RestPcs
<1>5. CASE Begin(w)
  BY <1>5 DEF Begin, store, RestPcs
<1>6. CASE CheckFails(w)
  BY <1>6 DEF CheckFails, store, RestPcs
<1>7. CASE Look(w)
  BY <1>7 DEF Look, store, RestPcs
<1>8. CASE LookSkips(w)
  BY <1>8 DEF LookSkips, store, RestPcs
<1>9. CASE Prepare(w)
  BY <1>9 DEF Prepare, store, RestPcs
<1>10. CASE PrepareFails(w)
  BY <1>10 DEF PrepareFails, store, RestPcs
<1>11. CASE Again(w)
  BY <1>11 DEF Again, store, RestPcs
<1>12. CASE Fresh(w)
  BY <1>12 DEF Fresh, store, RestPcs
<1>13. CASE FreshSkips(w)
  BY <1>13 DEF FreshSkips, store, RestPcs
<1>14. CASE Unchanged(w)
  BY <1>14 DEF Unchanged, store, RestPcs
<1>15. CASE FinishCheck(w)
  BY <1>15 DEF FinishCheck, store, RestPcs
<1>16. CASE Start(w)
  BY <1>16 DEF Start, store, RestPcs
<1>17. CASE StartFails(w)
  BY <1>17 DEF StartFails, store, RestPcs
<1>18. CASE Wait(w)
  BY <1>18 DEF Wait, store, RestPcs
<1>19. QED
  BY <1>1, <1>2, <1>3, <1>4, <1>5, <1>6, <1>7, <1>8, <1>9, <1>10, <1>11, <1>12, <1>13, <1>14,
     <1>15, <1>16, <1>17, <1>18 DEF Check

\* The check keeps the types.
LEMMA TypeCheck ==
  ASSUME TypeOK, ControlInv, NEW w \in Workers, Check(w)
  PROVE  TypeOK'
<1>1. UNCHANGED <<pol, base, files, git, gen, fit, gone, unproven, cl, sched, crashes>>
  BY CheckFrame DEF runtime
<1>2. coord' \in CoordinatorOf(Stacks) /\ blocked' \in BOOLEAN
  <2>1. wk[w].pc \notin RestPcs => run[wk[w].run].stack \in Stacks
    BY WorkerFacts
  <2>2. QED
    BY <2>1, CheckFrame, LockKeepsTypes DEF TypeOK
<1>3. op' \in [Runs -> {"none", "queued", "running", "succeeded", "failed", "cancelled"}]
  BY CheckFrame DEF Start, TypeOK
<1>4. /\ run' \in [Runs -> RunRow] /\ exec' \in [Runs -> ExecRow] /\ wk' \in [Workers -> Worker]
      /\ job' \in [Runs -> Job] /\ queue' \subseteq Runs
  <2>1. /\ run \in [Runs -> RunRow] /\ exec \in [Runs -> ExecRow]
        /\ wk \in [Workers -> Worker] /\ wk[w] \in Worker
        /\ job \in [Runs -> Job] /\ queue \subseteq Runs
    BY DEF TypeOK
  <2>2. CASE Walks(w) \/ Quits(w)
    BY <2>1, <2>2 DEF Walks, Quits, WorkerGoes, WorkerRests
  <2>3. CASE Ends(w)
    <3>1. wk[w].run \in Runs
      BY <2>3, WorkerFacts DEF Ends, RestPcs
    <3>2. QED
      BY <2>1, <2>3, <3>1, FinishKeepsTypes DEF Ends, WorkerRests
  <2>4. CASE MarkChecking(w)
    BY <2>1, <2>4 DEF MarkChecking, RunRow, RunPhases, LivePhases, Worker
  <2>5. CASE Start(w)
    <3>1. wk[w].run \in Runs /\ wk[w].ev \in Evidence
      BY <2>1, <2>5, WorkerFacts DEF Start, RestPcs, Worker
    <3>2. QED
      BY <2>1, <2>5, <3>1, NoJobType, NoWorkType DEF Start
  <2>6. ASSUME NEW r \in Runs, Take(w, r)
        PROVE  wk' \in [Workers -> Worker] /\ UNCHANGED <<run, exec, job>> /\ queue' \subseteq Runs
    BY <2>1, <2>6, NoWorkType DEF Take, store
  <2>7. QED
    BY <2>1, <2>2, <2>3, <2>4, <2>5, <2>6, CheckKinds
<1>5. QED
  BY <1>1, <1>2, <1>3, <1>4 DEF TypeOK

\* The job of run r goes on, and no other job moves.
JobGoes(r, pcs) ==
    /\ job' \in [Runs -> Job]
    /\ job'[r].pc \in pcs
    /\ \A q \in Runs \ {r} : job'[q] = job[q]

\* A step of the job that changes neither the run nor its execution.
Moves(r) ==
    /\ UNCHANGED <<run, exec>>
    /\ \/ job[r].pc = "queued" /\ JobGoes(r, {"intent", "done"})
       \/ job[r].pc \in {"apply", "record", "verify"} /\ JobGoes(r, {"record", "verify", "complete"})
       \/ job[r].pc \in {"complete", "close"} /\ JobGoes(r, {"done"})

\* The job gives up before it has touched a container.
Discards(r) ==
    /\ job[r].pc \in {"intent", "admit"} /\ JobGoes(r, {"close"})
    /\ UNCHANGED <<run, exec>> \/ Finish(r, "skipped")

\* The job moves its run and its execution on, together.
Marks(r) ==
    /\ run' \in [Runs -> RunRow] /\ exec' \in [Runs -> ExecRow]
    /\ \A q \in Runs \ {r} : run'[q] = run[q] /\ exec'[q] = exec[q]
    /\ job[r].pc \in JobPcs
    /\ run[r].phase \in LivePhases /\ run'[r].stack = run[r].stack
    /\ run'[r].phase = exec'[r].phase
    /\ \/ exec'[r].phase = "prepared" /\ JobGoes(r, {"admit"})
       \/ exec'[r].phase = "applying" /\ JobGoes(r, {"apply"})
       \/ exec'[r].phase = "verifying" /\ JobGoes(r, {"verify"})
       \/ exec'[r].phase = "terminal" /\ JobGoes(r, {"done"})

\* A job that has ended, with or without an error.
LEMMA DoneGoes ==
  ASSUME TypeOK, NEW r \in Runs,
         \/ job' = [job EXCEPT ![r] = [NoJob EXCEPT !.pc = "done"]]
         \/ job' = [job EXCEPT ![r] = [NoJob EXCEPT !.pc = "done", !.err = TRUE]]
  PROVE  JobGoes(r, {"done"})
<1>1. job \in [Runs -> Job]
  BY DEF TypeOK
<1>2. [NoJob EXCEPT !.pc = "done"].pc = "done" /\ [NoJob EXCEPT !.pc = "done", !.err = TRUE].pc = "done"
  BY DEF NoJob
<1>3. QED
  BY <1>1, <1>2, NoJobType DEF JobGoes

\* A step of the job to another control point.
LEMMA JobPcGoes ==
  ASSUME TypeOK, NEW r \in Runs, NEW p \in JobPcs,
         \/ job' = [job EXCEPT ![r].pc = p]
         \/ \E b \in BOOLEAN : job' = [job EXCEPT ![r].pc = p, ![r].failed = b]
  PROVE  JobGoes(r, {p})
<1>1. job \in [Runs -> Job] /\ job[r] \in Job
  BY DEF TypeOK
<1>2. [job[r] EXCEPT !.pc = p] \in Job /\ [job[r] EXCEPT !.pc = p].pc = p
  BY <1>1 DEF Job
<1>3. ASSUME NEW b \in BOOLEAN
      PROVE  [job[r] EXCEPT !.pc = p, !.failed = b] \in Job /\ [job[r] EXCEPT !.pc = p, !.failed = b].pc = p
  BY <1>1 DEF Job
<1>4. QED
  BY <1>1, <1>2, <1>3 DEF JobGoes

\* The steps of a job.
LEMMA UpdateKinds ==
  ASSUME TypeOK, ControlInv, NEW r \in Runs, Update(r)
  PROVE  Moves(r) \/ Discards(r) \/ Marks(r)
<1>1. /\ run \in [Runs -> RunRow] /\ run[r] \in RunRow
      /\ exec \in [Runs -> ExecRow] /\ exec[r] \in ExecRow
      /\ job \in [Runs -> Job] /\ job[r] \in Job
  BY DEF TypeOK
<1>2. CASE RunJob(r)
  BY <1>2, JobPcGoes DEF RunJob, Moves, JobPcs, JobGoes
<1>3. CASE RunJobFails(r)
  BY <1>3, DoneGoes DEF RunJobFails, Moves, JobGoes, store
<1>4. CASE SavePrepared(r)
  <2>1. job[r].ev \in Evidence
    BY <1>1 DEF Job
  <2>2. [phase |-> "prepared", base |-> job[r].ev.base, src |-> job[r].ev.src] \in ExecRow
    BY <2>1 DEF Evidence, ExecRow, ExecPhases
  <2>3. run' = [run EXCEPT ![r].phase = "prepared"]
    BY <1>4 DEF SavePrepared
  <2>4. run[r].phase \in LivePhases
    BY <1>4 DEF SavePrepared, MayPrepare, LivePhases
  <2>5. run' \in [Runs -> RunRow] /\ run'[r].phase = "prepared" /\ run'[r].stack = run[r].stack
    BY <1>1, <2>3 DEF RunRow, RunPhases, LivePhases
  <2>6. /\ exec' \in [Runs -> ExecRow] /\ exec'[r].phase = "prepared"
        /\ \A q \in Runs \ {r} : run'[q] = run[q] /\ exec'[q] = exec[q]
    BY <1>1, <1>4, <2>2, <2>3 DEF SavePrepared
  <2>7. JobGoes(r, {"admit"}) /\ job[r].pc \in JobPcs
    BY <1>4, JobPcGoes DEF SavePrepared, JobPcs
  <2>8. QED
    BY <2>4, <2>5, <2>6, <2>7 DEF Marks
<1>5. CASE MarkApplying(r)
  <2>1. run[r].phase \in LivePhases
    BY <1>5 DEF MarkApplying, MayApply, LivePhases
  <2>2. /\ run' \in [Runs -> RunRow] /\ run'[r].phase = "applying" /\ run'[r].stack = run[r].stack
        /\ \A q \in Runs \ {r} : run'[q] = run[q]
    BY <1>1, <1>5 DEF MarkApplying, RunRow, RunPhases, LivePhases
  <2>3. /\ exec' \in [Runs -> ExecRow] /\ exec'[r].phase = "applying"
        /\ \A q \in Runs \ {r} : exec'[q] = exec[q]
    BY <1>1, <1>5 DEF MarkApplying, ExecRow, ExecPhases, MutationPhases
  <2>4. JobGoes(r, {"apply"}) /\ job[r].pc \in JobPcs
    BY <1>5, JobPcGoes DEF MarkApplying, JobPcs
  <2>5. QED
    BY <2>1, <2>2, <2>3, <2>4 DEF Marks
<1>6. CASE Discard(r)
  <2>1. JobGoes(r, {"close"}) /\ job[r].pc \in {"intent", "admit"}
    <3>1. PICK finished \in BOOLEAN :
             job' = [job EXCEPT ![r].pc = "close", ![r].failed = job[r].pc = "intent" \/ ~finished]
      BY <1>6 DEF Discard
    <3>2. (job[r].pc = "intent" \/ ~finished) \in BOOLEAN
      OBVIOUS
    <3>3. QED
      BY <1>6, <3>1, <3>2, JobPcGoes DEF JobPcs, Discard
  <2>2. QED
    BY <1>6, <2>1 DEF Discard, Discards
<1>7. CASE Recreate(r)
  <2>1. PICK p \in {"record", "verify"} : job' = [job EXCEPT ![r].pc = p, ![r].failed = (p = "verify")]
    BY <1>7 DEF Recreate
  <2>2. (p = "verify") \in BOOLEAN /\ p \in JobPcs
    BY DEF JobPcs
  <2>3. JobGoes(r, {p})
    BY <2>1, <2>2, JobPcGoes
  <2>4. QED
    BY <1>7, <2>3 DEF Recreate, Moves, store, JobGoes
<1>8. CASE ApplyFails(r)
  BY <1>8, JobPcGoes DEF ApplyFails, Moves, JobGoes, store, JobPcs
<1>9. CASE MarkVerifying(r)
  <2>1. JobGoes(r, {"verify"}) /\ job[r].pc = "record"
    BY <1>9, JobPcGoes DEF MarkVerifying, JobPcs
  <2>2. CASE UNCHANGED <<run, exec>>
    BY <2>1, <2>2 DEF Moves, JobGoes
  <2>3. CASE /\ run' = [run EXCEPT ![r].phase = "verifying"]
             /\ exec' = [exec EXCEPT ![r].phase = "verifying"]
    <3>1. run[r].phase \in LivePhases
      BY <2>1 DEF ControlInv, JobInv, ExecInv, MutationPhases, PendingExec, ExecPhases, LivePhases
    <3>2. /\ run' \in [Runs -> RunRow] /\ run'[r].phase = "verifying" /\ run'[r].stack = run[r].stack
          /\ \A q \in Runs \ {r} : run'[q] = run[q]
      BY <1>1, <2>3 DEF RunRow, RunPhases, LivePhases
    <3>3. /\ exec' \in [Runs -> ExecRow] /\ exec'[r].phase = "verifying"
          /\ \A q \in Runs \ {r} : exec'[q] = exec[q]
      BY <1>1, <2>3 DEF ExecRow, ExecPhases, MutationPhases
    <3>4. QED
      BY <2>1, <3>1, <3>2, <3>3 DEF Marks, JobPcs
  <2>4. QED
    BY <1>9, <2>2, <2>3 DEF MarkVerifying
<1>10. CASE VerifyUpdate(r)
  <2>1. JobGoes(r, {"complete"})
    BY <1>10, JobPcGoes DEF VerifyUpdate, JobPcs
  <2>2. QED
    BY <1>10, <2>1 DEF VerifyUpdate, Moves, JobGoes, store
<1>11. CASE Complete(r)
  <2>1. PICK o \in Outcomes : run' = [run EXCEPT ![r].phase = "terminal", ![r].outcome = o]
    BY <1>11 DEF Complete, Outcomes
  <2>2. [run[r] EXCEPT !.phase = "terminal", !.outcome = o] \in RunRow
    BY <1>1 DEF RunRow, RunPhases
  <2>3. /\ run' \in [Runs -> RunRow] /\ run'[r].phase = "terminal" /\ run'[r].stack = run[r].stack
        /\ \A q \in Runs \ {r} : run'[q] = run[q]
    BY <1>1, <2>1, <2>2 DEF RunRow
  <2>4. /\ exec' \in [Runs -> ExecRow] /\ exec'[r].phase = "terminal"
        /\ \A q \in Runs \ {r} : exec'[q] = exec[q]
    BY <1>1, <1>11 DEF Complete, ExecRow, ExecPhases
  <2>5. JobGoes(r, {"done"}) /\ job[r].pc = "complete"
    BY <1>11, DoneGoes DEF Complete
  <2>6. run[r].phase \in LivePhases
    BY <2>5 DEF ControlInv, JobInv, ExecInv, MutationPhases, PendingExec, ExecPhases, LivePhases
  <2>7. QED
    BY <2>3, <2>4, <2>5, <2>6 DEF Marks, JobPcs
<1>12. CASE Close(r)
  BY <1>12, DoneGoes DEF Close, Moves, JobGoes
<1>13. CASE CompleteFails(r)
  BY <1>13, DoneGoes DEF CompleteFails, Moves, JobGoes, store
<1>14. QED
  BY <1>2, <1>3, <1>4, <1>5, <1>6, <1>7, <1>8, <1>9, <1>10, <1>11, <1>12, <1>13 DEF Update

\* A job touches its own record, its run, the containers of its stack, and the
\* lock that it returns.
LEMMA UpdateFrame ==
  ASSUME NEW r \in Runs, Update(r)
  PROVE  /\ UNCHANGED <<files, git, gone, wk, queue, cl, sched, crashes>>
         /\ coord' = coord \/ Unlock(run[r].stack)
         /\ job[r].pc \in JobPcs
<1>1. CASE RunJob(r)
  BY <1>1 DEF RunJob, store, runtime, JobPcs
<1>2. CASE RunJobFails(r)
  BY <1>2 DEF RunJobFails, store, runtime, JobPcs
<1>3. CASE SavePrepared(r)
  BY <1>3 DEF SavePrepared, store, runtime, JobPcs
<1>4. CASE MarkApplying(r)
  BY <1>4 DEF MarkApplying, store, runtime, JobPcs
<1>5. CASE Discard(r)
  BY <1>5 DEF Discard, store, runtime, JobPcs
<1>6. CASE Recreate(r)
  BY <1>6 DEF Recreate, store, runtime, JobPcs
<1>7. CASE ApplyFails(r)
  BY <1>7 DEF ApplyFails, store, runtime, JobPcs
<1>8. CASE MarkVerifying(r)
  BY <1>8 DEF MarkVerifying, store, runtime, JobPcs
<1>9. CASE VerifyUpdate(r)
  BY <1>9 DEF VerifyUpdate, store, runtime, JobPcs
<1>10. CASE Complete(r)
  BY <1>10 DEF Complete, store, runtime, JobPcs
<1>11. CASE Close(r)
  BY <1>11 DEF Close, store, runtime, JobPcs
<1>12. CASE CompleteFails(r)
  BY <1>12 DEF CompleteFails, store, runtime, JobPcs
<1>13. QED
  BY <1>1, <1>2, <1>3, <1>4, <1>5, <1>6, <1>7, <1>8, <1>9, <1>10, <1>11, <1>12 DEF Update

\* The job keeps the types.
LEMMA TypeUpdate ==
  ASSUME TypeOK, ControlInv, NEW r \in Runs, Update(r)
  PROVE  TypeOK'
<1>1. /\ run \in [Runs -> RunRow] /\ run[r] \in RunRow
      /\ exec \in [Runs -> ExecRow] /\ job[r] \in Job
      /\ base \in [Stacks -> Baseline] /\ pol \in [Stacks -> PolicyRow]
      /\ gen \in [Stacks -> Nat]
  BY DEF TypeOK
<1>2. job[r].pc \in JobPcs /\ run[r].stack \in Stacks
  BY UpdateFrame DEF ControlInv, RunInv, JobPcs
<1>3. coord' \in CoordinatorOf(Stacks)
  BY <1>2, UpdateFrame, LockKeepsTypes DEF TypeOK
<1>4. run' \in [Runs -> RunRow] /\ exec' \in [Runs -> ExecRow] /\ job' \in [Runs -> Job]
  BY <1>1, UpdateKinds, FinishKeepsTypes DEF Moves, Discards, Marks, JobGoes, Outcomes
<1>5. op' \in [Runs -> {"none", "queued", "running", "succeeded", "failed", "cancelled"}]
  <2>1. op' = op \/ \E o \in {"running", "succeeded", "failed"} : op' = [op EXCEPT ![r] = o]
    BY DEF Update, RunJob, RunJobFails, SavePrepared, MarkApplying, Discard, Recreate,
       ApplyFails, MarkVerifying, VerifyUpdate, Complete, Close, CompleteFails, store
  <2>2. QED
    BY <2>1 DEF TypeOK
<1>6. /\ gen' \in [Stacks -> Nat]
      /\ fit' \in [Stacks -> BOOLEAN] /\ unproven' \in [Stacks -> BOOLEAN]
      /\ pol' \in [Stacks -> PolicyRow] /\ base' \in [Stacks -> Baseline] /\ blocked' \in BOOLEAN
  <2>1. CASE Recreate(r)
    <3>1. fit \in [Stacks -> BOOLEAN] /\ unproven \in [Stacks -> BOOLEAN]
      BY DEF TypeOK
    <3>2. gen[run[r].stack] + 1 \in Nat
      BY <1>1, <1>2
    <3>3. gen' \in [Stacks -> Nat]
      BY <1>1, <2>1, <3>2 DEF Recreate
    <3>4. fit' \in [Stacks -> BOOLEAN] /\ unproven' \in [Stacks -> BOOLEAN]
      BY <2>1, <3>1 DEF Recreate
    <3>5. QED
      BY <1>1, <2>1, <3>3, <3>4 DEF Recreate, store, TypeOK
  <2>2. CASE VerifyUpdate(r)
    BY <1>1, <2>2 DEF VerifyUpdate, store, TypeOK
  <2>3. CASE Complete(r)
    <3>1. job[r].ev.src \in Source /\ job[r].failed \in BOOLEAN
      BY <1>1 DEF Job, Evidence
    <3>2. \A b \in BOOLEAN : Deployed(base[run[r].stack], b, job[r].ev.src) \in Baseline
      BY <1>1, <1>2, <3>1, DeployedType
    <3>3. PausedPolicy(pol[run[r].stack]) \in PolicyRow
      BY <1>1, <1>2, PolicyTypes
    <3>4. base' \in [Stacks -> Baseline]
      BY <1>1, <2>3, <3>1, <3>2 DEF Complete
    <3>5. pol' \in [Stacks -> PolicyRow]
      BY <1>1, <2>3, <3>3 DEF Complete
    <3>6. QED
      BY <2>3, <3>4, <3>5 DEF Complete, runtime, TypeOK
  <2>4. CASE MarkVerifying(r) \/ Discard(r)
    BY <2>4 DEF MarkVerifying, Discard, runtime, TypeOK
  <2>5. CASE RunJob(r) \/ RunJobFails(r) \/ SavePrepared(r) \/ MarkApplying(r)
    BY <2>5 DEF RunJob, RunJobFails, SavePrepared, MarkApplying, store, runtime, TypeOK
  <2>6. CASE ApplyFails(r) \/ Close(r) \/ CompleteFails(r)
    BY <2>6 DEF ApplyFails, Close, CompleteFails, store, runtime, TypeOK
  <2>7. QED
    BY <2>1, <2>2, <2>3, <2>4, <2>5, <2>6 DEF Update
<1>7. QED
  BY <1>3, <1>4, <1>5, <1>6, UpdateFrame DEF TypeOK

\* Request c goes on, and no other request moves.
ClientGoes(c, pcs) ==
    /\ cl' \in [Clients -> Client]
    /\ cl'[c].pc \in pcs
    /\ \A d \in Clients \ {c} : cl'[d] = cl[d]

\* A new request: a save without a lock, or one that took the lock of its scope.
Enters(c) ==
    /\ cl[c].pc = "idle" /\ ClientGoes(c, {"save", "held"})
    /\ \/ /\ cl'[c].pc = "save" /\ cl'[c].scope = None /\ cl'[c].stack \in Stacks
          /\ coord' = coord
       \/ \E s \in Stacks :
             /\ cl'[c].pc = "held" /\ cl'[c].kind # "repository"
             /\ cl'[c].scope = s /\ cl'[c].stack = s
             /\ Try(coord, FALSE, {s}) /\ coord' = Granted(coord, FALSE, {s})
       \/ /\ cl'[c].pc = "held" /\ cl'[c].kind = "repository" /\ cl'[c].scope = Repository
          /\ Try(coord, TRUE, {}) /\ coord' = Granted(coord, TRUE, {})

\* A new request takes the lock of its scope, or needs none.
LEMMA ArriveKinds ==
  ASSUME TypeOK, NEW c \in Clients, Arrive(c)
  PROVE  Enters(c) /\ UNCHANGED <<store, runtime, wk, job, queue, sched, blocked, crashes>>
<1>1. cl \in [Clients -> Client] /\ Managed \subseteq Stacks /\ Kinds \subseteq AllKinds
  BY UpdateConstants DEF TypeOK
<1>2. ASSUME NEW s \in Stacks, BeginSave(c, s)
      PROVE  Enters(c) /\ UNCHANGED <<store, runtime, wk, job, queue, sched, blocked, crashes>>
  <2>1. PICK b \in BOOLEAN :
          cl' = [cl EXCEPT ![c] = [NoClient EXCEPT !.pc = "save", !.kind = "save",
                        !.stack = s, !.rev = pol[s].rev, !.flag = b]]
    BY <1>2 DEF BeginSave
  <2>. DEFINE e == [NoClient EXCEPT !.pc = "save", !.kind = "save", !.stack = s, !.rev = pol[s].rev, !.flag = b]
  <2>2. pol[s].rev \in Nat
    BY DEF TypeOK, PolicyRow
  <2>3. e \in Client
    BY <2>2, NoClientType DEF Client, AllKinds
  <2>4. e.pc = "save" /\ e.scope = None /\ e.stack = s
    BY DEF NoClient
  <2>5. cl' \in [Clients -> Client] /\ cl'[c] = e /\ \A d \in Clients \ {c} : cl'[d] = cl[d]
    BY <1>1, <2>1, <2>3
  <2>6. QED
    BY <1>2, <2>4, <2>5 DEF BeginSave, Enters, ClientGoes
<1>3. ASSUME NEW s \in Stacks, BeginResume(c, s)
      PROVE  Enters(c) /\ UNCHANGED <<store, runtime, wk, job, queue, sched, blocked, crashes>>
  <2>. DEFINE e == [Served("resume", s, s) EXCEPT !.rev = pol[s].rev]
  <2>1. pol[s].rev \in Nat
    BY DEF TypeOK, PolicyRow
  <2>2. e \in Client
    BY <2>1, NoClientType DEF Client, AllKinds
  <2>3. e.pc = "held" /\ e.kind = "resume" /\ e.scope = s /\ e.stack = s
    BY DEF NoClient, Served
  <2>4. cl' \in [Clients -> Client] /\ cl'[c] = e /\ \A d \in Clients \ {c} : cl'[d] = cl[d]
    BY <1>1, <1>3, <2>2 DEF BeginResume
  <2>5. QED
    BY <1>3, <2>3, <2>4 DEF BeginResume, Enters, ClientGoes, Lock
<1>4. ASSUME NEW k \in AllKinds, NEW s \in Stacks, BeginWork(c, k, s)
      PROVE  Enters(c) /\ UNCHANGED <<store, runtime, wk, job, queue, sched, blocked, crashes>>
  <2>1. CASE k = "repository"
    <3>. DEFINE e == Served(k, Repository, None)
    <3>1. e \in Client
      BY NoClientType
    <3>2. e.pc = "held" /\ e.kind = k /\ e.scope = Repository
      BY DEF NoClient, Served
    <3>3. cl' = [cl EXCEPT ![c] = e] /\ Try(coord, TRUE, {}) /\ coord' = Granted(coord, TRUE, {})
      BY <1>4, <2>1 DEF BeginWork
    <3>4. cl' \in [Clients -> Client] /\ cl'[c] = e /\ \A d \in Clients \ {c} : cl'[d] = cl[d]
      BY <1>1, <3>1, <3>3
    <3>5. QED
      BY <1>4, <2>1, <3>2, <3>3, <3>4 DEF BeginWork, Enters, ClientGoes
  <2>2. CASE k # "repository"
    <3>. DEFINE e == Served(k, s, s)
    <3>1. e \in Client
      BY NoClientType
    <3>2. e.pc = "held" /\ e.kind = k /\ e.scope = s /\ e.stack = s
      BY DEF NoClient, Served
    <3>3. cl' = [cl EXCEPT ![c] = e] /\ Try(coord, FALSE, {s}) /\ coord' = Granted(coord, FALSE, {s})
      BY <1>4, <2>2 DEF BeginWork
    <3>4. cl' \in [Clients -> Client] /\ cl'[c] = e /\ \A d \in Clients \ {c} : cl'[d] = cl[d]
      BY <1>1, <3>1, <3>3
    <3>5. QED
      BY <1>4, <2>2, <3>2, <3>3, <3>4 DEF BeginWork, Enters, ClientGoes
  <2>3. QED
    BY <2>1, <2>2
<1>5. QED
  BY <1>1, <1>2, <1>3, <1>4 DEF Arrive

\* A request that holds a lock goes on with it, or leaves.
Keeps(c) ==
    /\ cl[c].pc \in {"held", "verified", "deployed"}
    /\ ClientGoes(c, {"verified", "deployed", "leave"})
    /\ cl'[c].scope = cl[c].scope
    /\ cl'[c].pc # "leave" => cl'[c].stack = cl[c].stack /\ cl[c].kind # "repository"
    /\ coord' = coord

\* It forgets the lock: it had none, or has returned it.
Drops(c) ==
    /\ ClientGoes(c, {"idle"}) /\ cl'[c].scope = None
    /\ \/ cl[c].pc = "save" /\ coord' = coord
       \/ /\ cl[c].pc = "leave"
          /\ coord' = Released(coord, cl[c].scope = Repository, {cl[c].scope} \cap Stacks)

\* A request on its way out still holds its lock.
LEMMA LeavingKeeps ==
  ASSUME TypeOK, NEW c \in Clients, cl[c].pc \in {"held", "verified", "deployed"},
         cl' = [cl EXCEPT ![c] = Leaving(@)], coord' = coord
  PROVE  Keeps(c)
<1>1. cl \in [Clients -> Client] /\ cl[c] \in Client
  BY DEF TypeOK
<1>2. Leaving(cl[c]).pc = "leave" /\ Leaving(cl[c]).scope = cl[c].scope
  BY DEF Leaving, NoClient
<1>3. QED
  BY <1>1, <1>2, NoClientType DEF Keeps, ClientGoes

\* A request that is answered holds nothing.
LEMMA NoneDrops ==
  ASSUME TypeOK, NEW c \in Clients, cl' = [cl EXCEPT ![c] = NoClient]
  PROVE  ClientGoes(c, {"idle"}) /\ cl'[c].scope = None
<1>1. cl \in [Clients -> Client]
  BY DEF TypeOK
<1>2. NoClient.pc = "idle" /\ NoClient.scope = None
  BY DEF NoClient
<1>3. QED
  BY <1>1, <1>2, NoClientType DEF ClientGoes

\* Every step of a request keeps its lock, or drops what it has.
LEMMA ServeKinds ==
  ASSUME TypeOK, ClientInv, NEW c \in Clients, Serve(c)
  PROVE  Keeps(c) \/ Drops(c)
<1>1. cl \in [Clients -> Client] /\ cl[c] \in Client
  BY DEF TypeOK
<1>2. CASE SavePolicy(c)
  BY <1>2, NoneDrops DEF SavePolicy, Drops
<1>3. CASE VerifyResume(c)
  <2>1. cl[c].stack \in Stacks
    BY <1>3 DEF VerifyResume, ClientInv
  <2>2. gen[cl[c].stack] \in Nat
    BY <2>1 DEF TypeOK
  <2>3. [cl[c] EXCEPT !.pc = "verified", !.gen = gen[cl[c].stack]] \in Client
    BY <1>1, <2>2 DEF Client
  <2>4. /\ cl' \in [Clients -> Client] /\ cl'[c] = [cl[c] EXCEPT !.pc = "verified", !.gen = gen[cl[c].stack]]
        /\ \A d \in Clients \ {c} : cl'[d] = cl[d]
    BY <1>1, <1>3, <2>3 DEF VerifyResume
  <2>5. cl'[c].pc = "verified" /\ cl'[c].scope = cl[c].scope /\ cl'[c].stack = cl[c].stack
    BY <1>1, <2>4 DEF Client
  <2>6. QED
    BY <1>3, <2>4, <2>5 DEF VerifyResume, Keeps, ClientGoes
<1>4. CASE ResumePolicy(c)
  BY <1>4, LeavingKeeps DEF ResumePolicy
<1>5. CASE Deploy(c)
  <2>1. cl[c].stack \in Stacks
    BY <1>5 DEF Deploy, ClientInv
  <2>2. SourceOf(cl[c].stack) \in Source
    BY <2>1, EvidenceType
  <2>3. PICK ok \in BOOLEAN : cl' = [cl EXCEPT ![c].pc = "deployed", ![c].flag = ok, ![c].src = SourceOf(cl[c].stack)]
    BY <1>5 DEF Deploy
  <2>. DEFINE e == [cl[c] EXCEPT !.pc = "deployed", !.flag = ok, !.src = SourceOf(cl[c].stack)]
  <2>4. e \in Client
    BY <1>1, <2>2 DEF Client
  <2>5. cl' \in [Clients -> Client] /\ cl'[c] = e /\ \A d \in Clients \ {c} : cl'[d] = cl[d]
    BY <1>1, <2>3, <2>4
  <2>6. e.pc = "deployed" /\ e.scope = cl[c].scope /\ e.stack = cl[c].stack
    BY <1>1 DEF Client
  <2>7. QED
    BY <1>5, <2>5, <2>6 DEF Deploy, Keeps, ClientGoes
<1>6. CASE SaveDeployment(c)
  BY <1>6, LeavingKeeps DEF SaveDeployment
<1>7. CASE ChangeRuntime(c)
  BY <1>7, LeavingKeeps DEF ChangeRuntime
<1>8. CASE WriteFile(c)
  BY <1>8, LeavingKeeps DEF WriteFile
<1>9. CASE CommitStack(c)
  BY <1>9, LeavingKeeps DEF CommitStack
<1>10. CASE RepositoryAction(c)
  BY <1>10, LeavingKeeps DEF RepositoryAction
<1>11. CASE DeleteStack(c)
  BY <1>11, LeavingKeeps DEF DeleteStack
<1>12. CASE ClientFails(c)
  <2>1. CASE cl[c].pc = "save"
    BY <1>12, <2>1, NoneDrops DEF ClientFails, Drops
  <2>2. CASE cl[c].pc # "save"
    BY <1>12, <2>2, LeavingKeeps DEF ClientFails
  <2>3. QED
    BY <2>1, <2>2
<1>13. CASE Leave(c)
  BY <1>13, NoneDrops DEF Leave, Drops
<1>14. QED
  BY <1>2, <1>3, <1>4, <1>5, <1>6, <1>7, <1>8, <1>9, <1>10, <1>11, <1>12, <1>13 DEF Serve

\* A request changes no run and nothing of the scheduler.
LEMMA ServeFrame ==
  ASSUME NEW c \in Clients, Serve(c)
  PROVE  UNCHANGED <<run, exec, op, wk, job, queue, sched, blocked, crashes>>
<1>1. CASE SavePolicy(c)
  BY <1>1 DEF SavePolicy, store
<1>2. CASE VerifyResume(c)
  BY <1>2 DEF VerifyResume, store
<1>3. CASE ResumePolicy(c)
  BY <1>3 DEF ResumePolicy, store
<1>4. CASE Deploy(c)
  BY <1>4 DEF Deploy, store
<1>5. CASE SaveDeployment(c)
  BY <1>5 DEF SaveDeployment, store
<1>6. CASE ChangeRuntime(c)
  BY <1>6 DEF ChangeRuntime, store
<1>7. CASE WriteFile(c)
  BY <1>7 DEF WriteFile, store
<1>8. CASE CommitStack(c)
  BY <1>8 DEF CommitStack, store
<1>9. CASE RepositoryAction(c)
  BY <1>9 DEF RepositoryAction, store
<1>10. CASE DeleteStack(c)
  BY <1>10 DEF DeleteStack, store
<1>11. CASE ClientFails(c)
  BY <1>11 DEF ClientFails, store
<1>12. CASE Leave(c)
  BY <1>12 DEF Leave, store
<1>13. QED
  BY <1>1, <1>2, <1>3, <1>4, <1>5, <1>6, <1>7, <1>8, <1>9, <1>10, <1>11, <1>12 DEF Serve

\* Arrivals keep the types.
LEMMA TypeArrive ==
  ASSUME TypeOK, NEW c \in Clients, Arrive(c)
  PROVE  TypeOK'
<1>1. cl' \in [Clients -> Client]
  BY ArriveKinds DEF Enters, ClientGoes
<1>2. coord' \in CoordinatorOf(Stacks)
  <2>1. coord \in CoordinatorOf(Stacks)
    BY DEF TypeOK
  <2>2. Granted(coord, TRUE, {}) \in CoordinatorOf(Stacks)
    BY <2>1, CoordinatorTypes
  <2>3. \A s \in Stacks : Granted(coord, FALSE, {s}) \in CoordinatorOf(Stacks)
    BY <2>1, CoordinatorTypes
  <2>4. QED
    BY <2>1, <2>2, <2>3, ArriveKinds DEF Enters
<1>3. QED
  BY <1>1, <1>2, ArriveKinds DEF TypeOK, store, runtime

\* Requests keep the types.
LEMMA TypeServe ==
  ASSUME TypeOK, ClientInv, NEW c \in Clients, Serve(c)
  PROVE  TypeOK'
<1>1. cl' \in [Clients -> Client] /\ coord' \in CoordinatorOf(Stacks)
  <2>1. coord \in CoordinatorOf(Stacks) /\ (cl[c].scope = Repository) \in BOOLEAN
    BY DEF TypeOK
  <2>2. Released(coord, cl[c].scope = Repository, {cl[c].scope} \cap Stacks) \in CoordinatorOf(Stacks)
    BY <2>1, CoordinatorTypes
  <2>3. QED
    BY <2>1, <2>2, ServeKinds DEF Keeps, Drops, ClientGoes
<1>2. /\ pol \in [Stacks -> PolicyRow] /\ base \in [Stacks -> Baseline]
      /\ files \in [Stacks -> Nat] /\ git \in Nat /\ gen \in [Stacks -> Nat]
      /\ fit \in [Stacks -> BOOLEAN] /\ gone \in [Stacks -> BOOLEAN] /\ unproven \in [Stacks -> BOOLEAN]
      /\ cl[c] \in Client
  BY DEF TypeOK
<1>3. /\ \A s \in Stacks : gen[s] + 1 \in Nat /\ files[s] + 1 \in Nat
      /\ git + 1 \in Nat
  BY <1>2
<1>4. pol' \in [Stacks -> PolicyRow] /\ base' \in [Stacks -> Baseline]
  <2>1. CASE SavePolicy(c)
    BY <1>2, <2>1, PolicyTypes DEF SavePolicy, Client
  <2>2. CASE ResumePolicy(c)
    <3>1. \A s \in Stacks : ResumedPolicy(pol[s]) \in PolicyRow
      BY <1>2, PolicyTypes
    <3>2. \A s \in Stacks : base[s].good \in Source
      BY <1>2 DEF Baseline
    <3>3. \A s \in Stacks : Deployed(base[s], TRUE, base[s].good) \in Baseline
      BY <1>2, <3>2, DeployedType
    <3>4. QED
      BY <1>2, <2>2, <3>1, <3>3 DEF ResumePolicy
  <2>3. CASE SaveDeployment(c)
    <3>1. cl[c].flag \in BOOLEAN /\ cl[c].src \in Source
      BY <1>2 DEF Client
    <3>2. \A s \in Stacks : Deployed(base[s], cl[c].flag, cl[c].src) \in Baseline
      BY <1>2, <3>1, DeployedType
    <3>3. QED
      BY <1>2, <2>3, <3>2 DEF SaveDeployment
  <2>4. CASE \/ VerifyResume(c) \/ Deploy(c) \/ ChangeRuntime(c) \/ WriteFile(c) \/ CommitStack(c)
    BY <1>2, <2>4 DEF VerifyResume, Deploy, ChangeRuntime, WriteFile, CommitStack, store
  <2>5. CASE \/ RepositoryAction(c) \/ DeleteStack(c) \/ ClientFails(c) \/ Leave(c)
    BY <1>2, <2>5 DEF RepositoryAction, DeleteStack, ClientFails, Leave, store
  <2>6. QED
    BY <2>1, <2>2, <2>3, <2>4, <2>5 DEF Serve
<1>5. /\ files' \in [Stacks -> Nat] /\ git' \in Nat /\ gen' \in [Stacks -> Nat]
      /\ fit' \in [Stacks -> BOOLEAN] /\ gone' \in [Stacks -> BOOLEAN] /\ unproven' \in [Stacks -> BOOLEAN]
  <2>1. CASE ResumePolicy(c)
    BY <1>2, <2>1 DEF ResumePolicy
  <2>2. CASE Deploy(c)
    <3>. DEFINE s == cl[c].stack
    <3>1. files' = files /\ git' = git /\ gone' = gone
      BY <2>2 DEF Deploy
    <3>2. PICK ok \in BOOLEAN :
             \/ /\ gen' = [gen EXCEPT ![s] = @ + 1]
                /\ \E healthy \in BOOLEAN : fit' = [fit EXCEPT ![s] = healthy]
                /\ unproven' = [unproven EXCEPT ![s] = @ /\ ~ok]
             \/ UNCHANGED <<gen, fit, unproven>>
      BY <2>2 DEF Deploy
    <3>3. gen' \in [Stacks -> Nat]
      BY <1>2, <1>3, <3>2
    <3>4. fit' \in [Stacks -> BOOLEAN]
      BY <1>2, <3>2
    <3>5. unproven' \in [Stacks -> BOOLEAN]
      BY <1>2, <3>2
    <3>6. QED
      BY <1>2, <3>1, <3>3, <3>4, <3>5
  <2>3. CASE ChangeRuntime(c)
    BY <1>2, <1>3, <2>3 DEF ChangeRuntime
  <2>4. CASE WriteFile(c)
    BY <1>2, <1>3, <2>4 DEF WriteFile
  <2>5. CASE CommitStack(c)
    BY <1>2, <1>3, <2>5 DEF CommitStack
  <2>6. CASE RepositoryAction(c)
    BY <1>2, <1>3, <2>6 DEF RepositoryAction
  <2>7. CASE DeleteStack(c)
    BY <1>2, <1>3, <2>7 DEF DeleteStack
  <2>8. CASE SavePolicy(c) \/ VerifyResume(c) \/ SaveDeployment(c)
    BY <1>2, <2>8 DEF SavePolicy, VerifyResume, SaveDeployment, runtime
  <2>9. CASE ClientFails(c) \/ Leave(c)
    BY <1>2, <2>9 DEF ClientFails, Leave, runtime
  <2>10. QED
    BY <2>1, <2>2, <2>3, <2>4, <2>5, <2>6, <2>7, <2>8, <2>9 DEF Serve
<1>6. QED
  BY <1>1, <1>4, <1>5, ServeFrame DEF TypeOK

\* The schedule, the containers and the death of the process keep the types.
LEMMA TypeEnvironment ==
  ASSUME TypeOK, Environment
  PROVE  TypeOK'
<1>1. ASSUME NEW s \in Stacks, Due(s)
      PROVE  TypeOK'
  <2>1. pol' \in [Stacks -> PolicyRow]
    BY <1>1 DEF Due, TypeOK, PolicyRow
  <2>2. QED
    BY <1>1, <2>1 DEF Due, TypeOK, runtime, actors
<1>2. ASSUME NEW s \in Stacks, Outside(s)
      PROVE  TypeOK'
  <2>1. gen' \in [Stacks -> Nat]
    BY <1>2 DEF Outside, TypeOK
  <2>2. fit \in [Stacks -> BOOLEAN]
    BY DEF TypeOK
  <2>3. fit' \in [Stacks -> BOOLEAN]
    BY <1>2, <2>2 DEF Outside
  <2>4. QED
    BY <1>2, <2>1, <2>3 DEF Outside, TypeOK, store, actors
<1>3. CASE Crash
  <2>1. coord' \in CoordinatorOf(Stacks) /\ crashes' \in Nat /\ blocked' \in BOOLEAN /\ sched' = "boot"
    BY <1>3 DEF Crash, TypeOK, FreeCoordinator, CoordinatorOf
  <2>2. /\ wk' \in [Workers -> Worker] /\ job' \in [Runs -> Job] /\ queue' \subseteq Runs
        /\ cl' \in [Clients -> Client]
    BY <1>3, NoWorkType, NoJobType, NoClientType DEF Crash
  <2>3. QED
    BY <1>3, <2>1, <2>2 DEF Crash, TypeOK, store, runtime
<1>4. QED
  BY <1>1, <1>2, <1>3 DEF Environment

\* Every step keeps the types.
LEMMA TypeNext ==
  ASSUME TypeOK, ControlInv, ClientInv, [Next]_vars
  PROVE  TypeOK'
<1>1. CASE UNCHANGED vars
  BY <1>1 DEF TypeOK, vars, store, runtime, actors
<1>2. QED
  BY <1>1, TypeReconcile, TypeSchedule, TypeCheck, TypeUpdate, TypeArrive, TypeServe,
     TypeEnvironment
     DEF Next

\* Only the step of a request, and the death of the process, change requests.
LEMMA ClientFrame ==
  ASSUME [Next]_vars
  PROVE  \/ cl' = cl
         \/ \E c \in Clients : Arrive(c) \/ Serve(c)
         \/ Crash
<1>1. CASE Reconcile
  BY <1>1 DEF Reconcile, Reconciled, ReconcileFails, FailInterrupted, Ready, ResetAfterStartup,
     RecoverExecution, FinishLeftOver, actors
<1>2. CASE Schedule
  BY <1>2 DEF Schedule, Admit, Fail, Shutdown, Drained, actors
<1>3. ASSUME NEW w \in Workers, Check(w)
      PROVE  cl' = cl
  BY <1>3, CheckFrame
<1>4. ASSUME NEW r \in Runs, Update(r)
      PROVE  cl' = cl
  BY <1>4, UpdateFrame
<1>5. CASE Environment
  BY <1>5 DEF Environment, Due, Outside, actors
<1>6. CASE UNCHANGED vars
  BY <1>6 DEF vars, actors
<1>7. QED
  BY <1>1, <1>2, <1>3, <1>4, <1>5, <1>6 DEF Next

\* What requests know of their locks stays true.
LEMMA ClientNext ==
  ASSUME TypeOK, ClientInv, [Next]_vars
  PROVE  ClientInv'
<1>1. Repository # None /\ Repository \notin Stacks /\ None \notin Stacks
  BY UpdateConstants
<1>2. CASE cl' = cl
  BY <1>2 DEF ClientInv
<1>. DEFINE Knows(x) ==
       /\ x.pc \in {"idle", "save"} => x.scope = None
       /\ x.pc = "save" => x.stack \in Stacks
       /\ \/ x.pc \in {"verified", "deployed"}
          \/ x.pc = "held" /\ x.kind # "repository"
          => x.stack \in Stacks /\ x.scope = x.stack
       /\ x.pc = "held" /\ x.kind = "repository" => x.scope = Repository
       /\ x.pc = "leave" => x.scope # None
<1>3. (\A d \in Clients : Knows(cl[d])) /\ ((\A d \in Clients : Knows(cl'[d])) => ClientInv')
  BY DEF ClientInv
<1>4. ASSUME NEW c \in Clients, Arrive(c)
      PROVE  ClientInv'
  <2>1. Enters(c)
    BY <1>4, ArriveKinds
  <2>2. Knows(cl'[c])
    BY <1>1, <2>1 DEF Enters
  <2>3. \A d \in Clients \ {c} : cl'[d] = cl[d]
    BY <2>1 DEF Enters, ClientGoes
  <2>. HIDE DEF Knows
  <2>4. QED
    BY <1>3, <2>2, <2>3
<1>5. ASSUME NEW c \in Clients, Serve(c)
      PROVE  ClientInv'
  <2>1. Keeps(c) \/ Drops(c)
    BY <1>5, ServeKinds
  <2>2. Knows(cl[c])
    BY <1>3
  <2>3. Knows(cl'[c])
    <3>1. CASE Keeps(c)
      BY <1>1, <2>2, <3>1 DEF Keeps, ClientGoes
    <3>2. CASE Drops(c)
      BY <3>2 DEF Drops, ClientGoes
    <3>3. QED
      BY <2>1, <3>1, <3>2
  <2>4. \A d \in Clients \ {c} : cl'[d] = cl[d]
    BY <2>1 DEF Keeps, Drops, ClientGoes
  <2>. HIDE DEF Knows
  <2>5. QED
    BY <1>3, <2>3, <2>4
<1>6. CASE Crash
  BY <1>6 DEF Crash, ClientInv, NoClient
<1>7. QED
  BY <1>2, <1>4, <1>5, <1>6, ClientFrame

-----------------------------------------------------------------------------

\* FinishRun, row by row.
LEMMA FinishRows ==
  ASSUME TypeOK, NEW r \in Runs, NEW o \in Outcomes, Finish(r, o)
  PROVE  /\ run'[r].phase = "terminal" /\ run'[r].stack = run[r].stack
         /\ exec'[r].phase = exec[r].phase \/ (exec[r].phase = "prepared" /\ exec'[r].phase = "terminal")
         /\ run[r].phase # "terminal" => exec'[r].phase # "prepared"
         /\ \A q \in Runs \ {r} : run'[q] = run[q] /\ exec'[q] = exec[q]
<1>1. /\ run \in [Runs -> RunRow] /\ exec \in [Runs -> ExecRow]
      /\ run[r] \in RunRow /\ exec[r] \in ExecRow
  BY DEF TypeOK
<1>2. run'[r] = FinishedRun(run[r], o) /\ exec'[r] = FinishedExec(run[r], exec[r])
  BY <1>1 DEF Finish
<1>3. QED
  BY <1>1, <1>2, FinishTypes DEF Finish

\* A run, its execution, its job and its worker are where they were.
LEMMA ControlFrame ==
  ASSUME ControlInv, UNCHANGED <<run, exec, wk, job, queue>>, StartingUp' => StartingUp
  PROVE  ControlInv'
<1>0. RunInv /\ QueueInv /\ WorkerInv /\ OneWorker /\ JobInv /\ ExecInv /\ OneLive /\ StartInv
  BY DEF ControlInv
<1>1. RunInv'
  BY <1>0 DEF RunInv
<1>2. QueueInv'
  BY <1>0 DEF QueueInv
<1>3. WorkerInv'
  BY <1>0 DEF WorkerInv
<1>4. OneWorker'
  BY <1>0 DEF OneWorker
<1>5. JobInv'
  BY <1>0 DEF JobInv
<1>6. ExecInv'
  BY <1>0 DEF ExecInv
<1>7. OneLive'
  BY <1>0 DEF OneLive
<1>8. StartInv'
  BY <1>0 DEF StartInv
<1>9. QED
  BY <1>1, <1>2, <1>3, <1>4, <1>5, <1>6, <1>7, <1>8 DEF ControlInv

\* The process dies: rows stay, goroutines do not.
LEMMA ControlCrash ==
  ASSUME ControlInv, Crash
  PROVE  ControlInv'
<1>0. RunInv /\ QueueInv /\ WorkerInv /\ OneWorker /\ JobInv /\ ExecInv /\ OneLive /\ StartInv
  BY DEF ControlInv
<1>a. /\ run' = run /\ exec' = exec /\ queue' = {}
      /\ \A w \in Workers : wk'[w].pc = "idle" /\ wk'[w].run = None
      /\ \A r \in Runs : job'[r].pc = "none"
  BY DEF Crash, store, NoWork, NoJob
<1>1. RunInv'
  BY <1>0, <1>a DEF RunInv, RestPcs, CheckPcs
<1>2. QueueInv'
  BY <1>0, <1>a DEF QueueInv, RestPcs, CheckPcs
<1>3. WorkerInv'
  BY <1>0, <1>a DEF WorkerInv, RestPcs, CheckPcs
<1>4. OneWorker'
  BY <1>0, <1>a DEF OneWorker, RestPcs, CheckPcs
<1>5. JobInv'
  BY <1>0, <1>a DEF JobInv, RestPcs, CheckPcs
<1>6. ExecInv'
  BY <1>0, <1>a DEF ExecInv, RestPcs, CheckPcs
<1>7. OneLive'
  BY <1>0, <1>a DEF OneLive, RestPcs, CheckPcs
<1>8. StartInv'
  BY <1>0, <1>a DEF StartInv, RestPcs, CheckPcs
<1>9. QED
  BY <1>1, <1>2, <1>3, <1>4, <1>5, <1>6, <1>7, <1>8 DEF ControlInv

\* Recovery ends a pending execution and its run.
LEMMA ControlRecover ==
  ASSUME TypeOK, ControlInv, NEW r \in Runs, RecoverExecution(r)
  PROVE  ControlInv'
<1>0. RunInv /\ QueueInv /\ WorkerInv /\ OneWorker /\ JobInv /\ ExecInv /\ OneLive /\ StartInv
  BY DEF ControlInv
<1>a. /\ run \in [Runs -> RunRow] /\ exec \in [Runs -> ExecRow]
  BY DEF TypeOK
<1>b. /\ run'[r].phase = "terminal" /\ run'[r].stack = run[r].stack
      /\ exec'[r].phase = "terminal"
      /\ \A q \in Runs \ {r} : run'[q] = run[q] /\ exec'[q] = exec[q]
  BY <1>a DEF RecoverExecution, RunRow, ExecRow
<1>c. UNCHANGED <<wk, job, queue, sched>>
  BY DEF RecoverExecution, actors
<1>d. /\ queue = {} /\ exec[r].phase \in PendingExec
      /\ \A w \in Workers : wk[w].pc = "idle"
      /\ \A q \in Runs : job[q].pc = "none"
  BY <1>0 DEF RecoverExecution, Reconciling, StartInv, StartingUp
<1>e. run[r].phase \in LivePhases
  BY <1>0, <1>d DEF ExecInv, PendingExec, ExecPhases, MutationPhases, LivePhases
<1>1. RunInv'
  BY <1>0, <1>b, <1>c, <1>d, <1>e DEF RunInv, RestPcs, CheckPcs, LivePhases, PendingExec,
     StartingUp
<1>2. QueueInv'
  BY <1>0, <1>b, <1>c, <1>d, <1>e DEF QueueInv, RestPcs, CheckPcs, LivePhases, PendingExec,
     StartingUp
<1>3. WorkerInv'
  BY <1>0, <1>b, <1>c, <1>d, <1>e DEF WorkerInv, RestPcs, CheckPcs, LivePhases, PendingExec,
     StartingUp
<1>4. OneWorker'
  BY <1>0, <1>b, <1>c, <1>d, <1>e DEF OneWorker, RestPcs, CheckPcs, LivePhases, PendingExec,
     StartingUp
<1>5. JobInv'
  BY <1>0, <1>b, <1>c, <1>d, <1>e DEF JobInv, RestPcs, CheckPcs, LivePhases, PendingExec,
     StartingUp
<1>6. ExecInv'
  BY <1>0, <1>b, <1>c, <1>d, <1>e DEF ExecInv, RestPcs, CheckPcs, LivePhases, PendingExec,
     StartingUp
<1>7. OneLive'
  BY <1>0, <1>b, <1>c, <1>d, <1>e DEF OneLive, RestPcs, CheckPcs, LivePhases, PendingExec,
     StartingUp
<1>8. StartInv'
  BY <1>0, <1>b, <1>c, <1>d, <1>e DEF StartInv, RestPcs, CheckPcs, LivePhases, PendingExec,
     StartingUp
<1>9. QED
  BY <1>1, <1>2, <1>3, <1>4, <1>5, <1>6, <1>7, <1>8 DEF ControlInv

\* FinishRun of a run that no goroutine and no execution has.
LEMMA ControlLeftOver ==
  ASSUME TypeOK, ControlInv, NEW r \in Runs, FinishLeftOver(r)
  PROVE  ControlInv'
<1>0. RunInv /\ QueueInv /\ WorkerInv /\ OneWorker /\ JobInv /\ ExecInv /\ OneLive /\ StartInv
  BY DEF ControlInv
<1>a. /\ run'[r].phase = "terminal" /\ run'[r].stack = run[r].stack
      /\ exec'[r].phase = exec[r].phase \/ exec'[r].phase = "terminal"
      /\ \A q \in Runs \ {r} : run'[q] = run[q] /\ exec'[q] = exec[q]
  BY FinishRows DEF FinishLeftOver, Outcomes
<1>b. UNCHANGED <<wk, job, queue, sched>>
  BY DEF FinishLeftOver, actors
<1>c. /\ queue = {} /\ run[r].phase \in LivePhases
      /\ \A w \in Workers : wk[w].pc = "idle"
      /\ \A q \in Runs : job[q].pc = "none" /\ exec[q].phase \notin PendingExec
  BY <1>0 DEF FinishLeftOver, Reconciling, StartInv, StartingUp, PendingExecutions
<1>1. RunInv'
  BY <1>0, <1>a, <1>b, <1>c DEF RunInv, RestPcs, CheckPcs, LivePhases, PendingExec, StartingUp
<1>2. QueueInv'
  BY <1>0, <1>a, <1>b, <1>c DEF QueueInv, RestPcs, CheckPcs, LivePhases, PendingExec, StartingUp
<1>3. WorkerInv'
  BY <1>0, <1>a, <1>b, <1>c DEF WorkerInv, RestPcs, CheckPcs, LivePhases, PendingExec, StartingUp
<1>4. OneWorker'
  BY <1>0, <1>a, <1>b, <1>c DEF OneWorker, RestPcs, CheckPcs, LivePhases, PendingExec, StartingUp
<1>5. JobInv'
  BY <1>0, <1>a, <1>b, <1>c DEF JobInv, RestPcs, CheckPcs, LivePhases, PendingExec, StartingUp
<1>6. ExecInv'
  BY <1>0, <1>a, <1>b, <1>c DEF ExecInv, RestPcs, CheckPcs, LivePhases, PendingExec, StartingUp
<1>7. OneLive'
  BY <1>0, <1>a, <1>b, <1>c DEF OneLive, RestPcs, CheckPcs, LivePhases, PendingExec, StartingUp
<1>8. StartInv'
  BY <1>0, <1>a, <1>b, <1>c DEF StartInv, RestPcs, CheckPcs, LivePhases, PendingExec, StartingUp
<1>9. QED
  BY <1>1, <1>2, <1>3, <1>4, <1>5, <1>6, <1>7, <1>8 DEF ControlInv

\* Admission: a new run of a stack that has no live one, or one that ends at once.
LEMMA ControlAdmit ==
  ASSUME TypeOK, ControlInv, NEW s \in Stacks, NEW r \in Runs, Admit(s, r)
  PROVE  ControlInv'
<1>0. RunInv /\ QueueInv /\ WorkerInv /\ OneWorker /\ JobInv /\ ExecInv /\ OneLive /\ StartInv
  BY DEF ControlInv
<1>a. run \in [Runs -> RunRow] /\ queue \subseteq Runs
  BY DEF TypeOK
<1>. DEFINE admitted == [stack |-> s, rev |-> pol[s].rev, phase |-> "queued", outcome |-> ""]
<1>b. FinishedRun(admitted, "skipped").phase = "terminal" /\ FinishedRun(admitted, "skipped").stack = s
  BY DEF FinishedRun
<1>c. /\ run'[r].stack = s
      /\ \A q \in Runs \ {r} : run'[q] = run[q]
      /\ \/ NoneLive(s) /\ run'[r].phase = "queued" /\ queue' = queue \cup {r}
         \/ run'[r].phase = "terminal" /\ queue' = queue
  <2>1. CASE NoneLive(s)
    <3>1. run' = [run EXCEPT ![r] = admitted] /\ queue' = queue \cup {r}
      BY <2>1 DEF Admit
    <3>2. QED
      BY <1>a, <2>1, <3>1
  <2>2. CASE ~NoneLive(s)
    <3>1. run' = [run EXCEPT ![r] = FinishedRun(admitted, "skipped")] /\ queue' = queue
      BY <2>2 DEF Admit
    <3>2. QED
      BY <1>a, <1>b, <3>1
  <2>3. QED
    BY <2>1, <2>2
<1>d. /\ UNCHANGED <<exec, wk, job, sched>> /\ sched = "running"
      /\ run[r].phase = "none"
  BY DEF Admit
<1>e. exec[r].phase = "none" /\ job[r].pc = "none" /\ r \notin queue
  BY <1>0, <1>d DEF RunInv, QueueInv
<1>f. \A w \in Workers : wk[w].run # r
  <2>1. SUFFICES ASSUME NEW w \in Workers, wk[w].run = r
                 PROVE  FALSE
    OBVIOUS
  <2>2. wk[w].pc \notin RestPcs
    BY <1>0, <2>1, UpdateConstants DEF WorkerInv
  <2>3. QED
    BY <1>d, <2>1, <2>2, WorkerFacts
<1>1. RunInv'
  BY <1>0, <1>c, <1>d, <1>e, <1>f DEF RunInv, RestPcs, CheckPcs, PendingExec, StartingUp
<1>2. QueueInv'
  BY <1>0, <1>a, <1>c, <1>d, <1>e, <1>f DEF QueueInv, RestPcs, CheckPcs, PendingExec, StartingUp
<1>3. WorkerInv'
  BY <1>0, <1>c, <1>d, <1>e, <1>f DEF WorkerInv, RestPcs, CheckPcs, PendingExec, StartingUp
<1>4. OneWorker'
  BY <1>0, <1>c, <1>d, <1>e, <1>f DEF OneWorker, RestPcs, CheckPcs, PendingExec, StartingUp
<1>5. JobInv'
  BY <1>0, <1>c, <1>d, <1>e, <1>f DEF JobInv, RestPcs, CheckPcs, PendingExec, StartingUp
<1>6. ExecInv'
  BY <1>0, <1>c, <1>d, <1>e, <1>f DEF ExecInv, RestPcs, CheckPcs, PendingExec, StartingUp
<1>7. OneLive'
  BY <1>0, <1>c DEF OneLive, NoneLive, PendingRuns, LivePhases
<1>8. StartInv'
  BY <1>0, <1>c, <1>d, <1>e, <1>f DEF StartInv, RestPcs, CheckPcs, PendingExec, StartingUp
<1>9. QED
  BY <1>1, <1>2, <1>3, <1>4, <1>5, <1>6, <1>7, <1>8 DEF ControlInv

\* A worker takes a run from the queue.
LEMMA ControlTake ==
  ASSUME TypeOK, ControlInv, NEW w \in Workers, NEW r \in Runs, Take(w, r)
  PROVE  ControlInv'
<1>0. RunInv /\ QueueInv /\ WorkerInv /\ OneWorker /\ JobInv /\ ExecInv /\ OneLive /\ StartInv
  BY DEF ControlInv
<1>a. wk \in [Workers -> Worker] /\ queue \subseteq Runs
  BY DEF TypeOK
<1>b. /\ wk'[w].pc = "mark" /\ wk'[w].run = r
      /\ \A v \in Workers \ {w} : wk'[v] = wk[v]
  BY <1>a DEF Take, NoWork
<1>c. /\ UNCHANGED <<run, exec, job, sched>> /\ sched \in {"running", "draining", "closing"}
      /\ r \in queue /\ queue' = queue \ {r} /\ wk[w].pc = "idle"
  BY DEF Take, store
<1>d. run[r].phase = "queued" /\ exec[r].phase = "none" /\ job[r].pc = "none"
  BY <1>0, <1>c DEF QueueInv
<1>e. \A v \in Workers : wk[v].run # r
  BY <1>0, <1>c, UpdateConstants DEF WorkerInv
<1>1. RunInv'
  BY <1>0, <1>a, <1>b, <1>c, <1>d, <1>e DEF RunInv, RestPcs, CheckPcs, PendingExec, StartingUp
<1>2. QueueInv'
  BY <1>0, <1>a, <1>b, <1>c, <1>d, <1>e DEF QueueInv, RestPcs, CheckPcs, PendingExec, StartingUp
<1>3. WorkerInv'
  BY <1>0, <1>a, <1>b, <1>c, <1>d, <1>e DEF WorkerInv, RestPcs, CheckPcs, PendingExec, StartingUp
<1>4. OneWorker'
  BY <1>0, <1>a, <1>b, <1>c, <1>d, <1>e DEF OneWorker, RestPcs, CheckPcs, PendingExec, StartingUp
<1>5. JobInv'
  BY <1>0, <1>a, <1>b, <1>c, <1>d, <1>e DEF JobInv, RestPcs, CheckPcs, PendingExec, StartingUp
<1>6. ExecInv'
  BY <1>0, <1>a, <1>b, <1>c, <1>d, <1>e DEF ExecInv, RestPcs, CheckPcs, PendingExec, StartingUp
<1>7. OneLive'
  BY <1>0, <1>a, <1>b, <1>c, <1>d, <1>e DEF OneLive, RestPcs, CheckPcs, PendingExec, StartingUp
<1>8. StartInv'
  BY <1>0, <1>a, <1>b, <1>c, <1>d, <1>e DEF StartInv, RestPcs, CheckPcs, PendingExec, StartingUp
<1>9. QED
  BY <1>1, <1>2, <1>3, <1>4, <1>5, <1>6, <1>7, <1>8 DEF ControlInv

\* A run of a worker moves on without a change of rows.
LEMMA ControlWalks ==
  ASSUME TypeOK, ControlInv, NEW w \in Workers, Walks(w), sched' = sched
  PROVE  ControlInv'
<1>0. RunInv /\ QueueInv /\ WorkerInv /\ OneWorker /\ JobInv /\ ExecInv /\ OneLive /\ StartInv
  BY DEF ControlInv
<1>a. /\ UNCHANGED <<run, exec, job, queue, sched>>
      /\ wk[w].pc \in CheckPcs /\ wk'[w].pc \in CheckPcs /\ wk'[w].run = wk[w].run
      /\ \A v \in Workers \ {w} : wk'[v] = wk[v]
  BY DEF Walks, WorkerGoes
<1>1. RunInv'
  BY <1>0, <1>a DEF RunInv, RestPcs, CheckPcs, PendingExec, StartingUp
<1>2. QueueInv'
  BY <1>0, <1>a DEF QueueInv, RestPcs, CheckPcs, PendingExec, StartingUp
<1>3. WorkerInv'
  BY <1>0, <1>a DEF WorkerInv, RestPcs, CheckPcs, PendingExec, StartingUp
<1>4. OneWorker'
  BY <1>0, <1>a DEF OneWorker, RestPcs, CheckPcs, PendingExec, StartingUp
<1>5. JobInv'
  BY <1>0, <1>a DEF JobInv, RestPcs, CheckPcs, PendingExec, StartingUp
<1>6. ExecInv'
  BY <1>0, <1>a DEF ExecInv, RestPcs, CheckPcs, PendingExec, StartingUp
<1>7. OneLive'
  BY <1>0, <1>a DEF OneLive, RestPcs, CheckPcs, PendingExec, StartingUp
<1>8. StartInv'
  BY <1>0, <1>a DEF StartInv, RestPcs, CheckPcs, PendingExec, StartingUp
<1>9. QED
  BY <1>1, <1>2, <1>3, <1>4, <1>5, <1>6, <1>7, <1>8 DEF ControlInv

\* A worker lets go of its run.
LEMMA ControlQuits ==
  ASSUME TypeOK, ControlInv, NEW w \in Workers, Quits(w), sched' = sched
  PROVE  ControlInv'
<1>0. RunInv /\ QueueInv /\ WorkerInv /\ OneWorker /\ JobInv /\ ExecInv /\ OneLive /\ StartInv
  BY DEF ControlInv
<1>a. /\ UNCHANGED <<run, exec, job, queue, sched>>
      /\ wk[w].pc \notin RestPcs /\ wk'[w].pc \in RestPcs /\ wk'[w].run = None
      /\ \A v \in Workers \ {w} : wk'[v] = wk[v]
  BY DEF Quits, WorkerRests
<1>1. RunInv'
  BY <1>0, <1>a DEF RunInv, RestPcs, CheckPcs, PendingExec, StartingUp
<1>2. QueueInv'
  BY <1>0, <1>a DEF QueueInv, RestPcs, CheckPcs, PendingExec, StartingUp
<1>3. WorkerInv'
  BY <1>0, <1>a DEF WorkerInv, RestPcs, CheckPcs, PendingExec, StartingUp
<1>4. OneWorker'
  BY <1>0, <1>a DEF OneWorker, RestPcs, CheckPcs, PendingExec, StartingUp
<1>5. JobInv'
  BY <1>0, <1>a DEF JobInv, RestPcs, CheckPcs, PendingExec, StartingUp
<1>6. ExecInv'
  BY <1>0, <1>a DEF ExecInv, RestPcs, CheckPcs, PendingExec, StartingUp
<1>7. OneLive'
  BY <1>0, <1>a DEF OneLive, RestPcs, CheckPcs, PendingExec, StartingUp
<1>8. StartInv'
  BY <1>0, <1>a DEF StartInv, RestPcs, CheckPcs, PendingExec, StartingUp
<1>9. QED
  BY <1>1, <1>2, <1>3, <1>4, <1>5, <1>6, <1>7, <1>8 DEF ControlInv

\* A worker ends its run, which has no execution and no job.
LEMMA ControlEnds ==
  ASSUME TypeOK, ControlInv, NEW w \in Workers, Ends(w), sched' = sched
  PROVE  ControlInv'
<1>0. RunInv /\ QueueInv /\ WorkerInv /\ OneWorker /\ JobInv /\ ExecInv /\ OneLive /\ StartInv
  BY DEF ControlInv
<1>a. /\ UNCHANGED <<job, queue, sched>>
      /\ wk[w].pc \in {"mark", "unchanged", "finish"} /\ wk[w].pc \notin RestPcs
      /\ wk'[w].pc \in RestPcs /\ wk'[w].run = None
      /\ \A v \in Workers \ {w} : wk'[v] = wk[v]
  BY DEF Ends, WorkerRests, RestPcs
<1>. DEFINE r == wk[w].run
<1>b. /\ r \in Runs /\ r \notin queue /\ r # None
      /\ exec[r].phase = "none" /\ job[r].pc = "none" /\ run[r].phase \in LivePhases
  BY <1>0, <1>a, UpdateConstants DEF WorkerInv, CheckPcs, LivePhases
<1>c. /\ run'[r].phase = "terminal" /\ run'[r].stack = run[r].stack
      /\ exec'[r].phase = "none"
      /\ \A q \in Runs \ {r} : run'[q] = run[q] /\ exec'[q] = exec[q]
  BY <1>b, FinishRows DEF Ends
<1>d. \A v \in Workers \ {w} : wk[v].run # r
  BY <1>0, <1>b DEF OneWorker
<1>e. queue \subseteq Runs
  BY DEF TypeOK
<1>. HIDE DEF r
<1>1. RunInv'
  BY <1>0, <1>a, <1>b, <1>c DEF RunInv, LivePhases
<1>2. QueueInv'
  BY <1>0, <1>a, <1>b, <1>c, <1>d, <1>e DEF QueueInv, RestPcs, CheckPcs, PendingExec, StartingUp
<1>3. WorkerInv'
  BY <1>0, <1>a, <1>b, <1>c, <1>d, <1>e DEF WorkerInv, RestPcs, CheckPcs, PendingExec, StartingUp
<1>4. OneWorker'
  BY <1>0, <1>a, <1>b, <1>c, <1>d, <1>e DEF OneWorker, RestPcs, CheckPcs, PendingExec, StartingUp
<1>5. JobInv'
  BY <1>0, <1>a, <1>b, <1>c, <1>d, <1>e DEF JobInv, RestPcs, CheckPcs, PendingExec, StartingUp
<1>6. ExecInv'
  BY <1>0, <1>a, <1>b, <1>c, <1>d, <1>e DEF ExecInv, RestPcs, CheckPcs, PendingExec, StartingUp
<1>7. OneLive'
  BY <1>0, <1>b, <1>c DEF OneLive, LivePhases
<1>8. StartInv'
  BY <1>0, <1>a, <1>b, <1>c, <1>d, <1>e DEF StartInv, RestPcs, CheckPcs, PendingExec, StartingUp
<1>9. QED
  BY <1>1, <1>2, <1>3, <1>4, <1>5, <1>6, <1>7, <1>8 DEF ControlInv

\* MarkChecking.
LEMMA ControlMarks ==
  ASSUME TypeOK, ControlInv, NEW w \in Workers, MarkChecking(w)
  PROVE  ControlInv'
<1>0. RunInv /\ QueueInv /\ WorkerInv /\ OneWorker /\ JobInv /\ ExecInv /\ OneLive /\ StartInv
  BY DEF ControlInv
<1>. DEFINE r == wk[w].run
<1>a. /\ run \in [Runs -> RunRow] /\ wk \in [Workers -> Worker] /\ queue \subseteq Runs
  BY DEF TypeOK
<1>b. /\ UNCHANGED <<exec, job, queue, sched>> /\ wk[w].pc = "mark"
      /\ run' = [run EXCEPT ![r].phase = "checking"]
      /\ wk' = [wk EXCEPT ![w].pc = "begin"]
  BY DEF MarkChecking
<1>c. /\ r \in Runs /\ r \notin queue /\ r # None /\ run[r].phase = "queued"
      /\ exec[r].phase = "none" /\ job[r].pc = "none"
  BY <1>0, <1>b, UpdateConstants DEF WorkerInv, RestPcs
<1>d. /\ run'[r].phase = "checking" /\ run'[r].stack = run[r].stack
      /\ \A q \in Runs \ {r} : run'[q] = run[q]
  BY <1>a, <1>b, <1>c DEF RunRow
<1>e. /\ wk'[w].pc = "begin" /\ wk'[w].run = r
      /\ \A v \in Workers \ {w} : wk'[v] = wk[v]
  BY <1>a, <1>b DEF Worker
<1>f. \A v \in Workers \ {w} : wk[v].run # r
  BY <1>0, <1>c DEF OneWorker
<1>g. /\ UNCHANGED <<exec, job, queue, sched>> /\ wk[w].pc = "mark" /\ wk[w].run = r
  BY <1>b
<1>. HIDE DEF r
<1>1. RunInv'
  BY <1>0, <1>a, <1>c, <1>d, <1>e, <1>f, <1>g DEF RunInv, RestPcs, CheckPcs, PendingExec,
     StartingUp
<1>2. QueueInv'
  BY <1>0, <1>a, <1>c, <1>d, <1>e, <1>f, <1>g DEF QueueInv, RestPcs, CheckPcs, PendingExec,
     StartingUp
<1>3. WorkerInv'
  BY <1>0, <1>a, <1>c, <1>d, <1>e, <1>f, <1>g DEF WorkerInv, RestPcs, CheckPcs, PendingExec,
     StartingUp
<1>4. OneWorker'
  BY <1>0, <1>a, <1>c, <1>d, <1>e, <1>f, <1>g DEF OneWorker, RestPcs, CheckPcs, PendingExec,
     StartingUp
<1>5. JobInv'
  BY <1>0, <1>a, <1>c, <1>d, <1>e, <1>f, <1>g DEF JobInv, RestPcs, CheckPcs, PendingExec,
     StartingUp
<1>6. ExecInv'
  BY <1>0, <1>a, <1>c, <1>d, <1>e, <1>f, <1>g DEF ExecInv, RestPcs, CheckPcs, PendingExec,
     StartingUp
<1>7. OneLive'
  BY <1>0, <1>c, <1>d DEF OneLive, LivePhases
<1>8. StartInv'
  BY <1>0, <1>a, <1>c, <1>d, <1>e, <1>f, <1>g DEF StartInv, RestPcs, CheckPcs, PendingExec,
     StartingUp
<1>9. QED
  BY <1>1, <1>2, <1>3, <1>4, <1>5, <1>6, <1>7, <1>8 DEF ControlInv

\* StartTracked.
LEMMA ControlStart ==
  ASSUME TypeOK, ControlInv, NEW w \in Workers, Start(w)
  PROVE  ControlInv'
<1>0. RunInv /\ QueueInv /\ WorkerInv /\ OneWorker /\ JobInv /\ ExecInv /\ OneLive /\ StartInv
  BY DEF ControlInv
<1>. DEFINE r == wk[w].run
<1>a. job \in [Runs -> Job] /\ wk \in [Workers -> Worker] /\ queue \subseteq Runs
  BY DEF TypeOK
<1>b. /\ UNCHANGED <<run, exec, queue, sched>> /\ wk[w].pc = "start" /\ wk[w].run = r
  BY DEF Start
<1>c. /\ r \in Runs /\ r \notin queue /\ r # None /\ run[r].phase = "checking"
      /\ exec[r].phase = "none" /\ job[r].pc = "none"
  BY <1>0, <1>b, UpdateConstants DEF WorkerInv, RestPcs, CheckPcs
<1>d. /\ job'[r].pc = "queued" /\ \A q \in Runs \ {r} : job'[q] = job[q]
  BY <1>a, <1>c DEF Start, NoJob
<1>e. /\ wk'[w].pc = "wait" /\ wk'[w].run = r
      /\ \A v \in Workers \ {w} : wk'[v] = wk[v]
  BY <1>a DEF Start, NoWork
<1>f. \A v \in Workers \ {w} : wk[v].run # r
  BY <1>0, <1>c DEF OneWorker
<1>. HIDE DEF r
<1>1. RunInv'
  BY <1>0, <1>a, <1>b, <1>c, <1>d, <1>e, <1>f DEF RunInv, RestPcs, CheckPcs, PendingExec,
     StartingUp
<1>2. QueueInv'
  BY <1>0, <1>a, <1>b, <1>c, <1>d, <1>e, <1>f DEF QueueInv, RestPcs, CheckPcs, PendingExec,
     StartingUp
<1>3. WorkerInv'
  BY <1>0, <1>a, <1>b, <1>c, <1>d, <1>e, <1>f DEF WorkerInv, RestPcs, CheckPcs, PendingExec,
     StartingUp
<1>4. OneWorker'
  BY <1>0, <1>a, <1>b, <1>c, <1>d, <1>e, <1>f DEF OneWorker, RestPcs, CheckPcs, PendingExec,
     StartingUp
<1>5. JobInv'
  BY <1>0, <1>a, <1>b, <1>c, <1>d, <1>e, <1>f DEF JobInv, RestPcs, CheckPcs, PendingExec,
     StartingUp
<1>6. ExecInv'
  BY <1>0, <1>a, <1>b, <1>c, <1>d, <1>e, <1>f DEF ExecInv, RestPcs, CheckPcs, PendingExec,
     StartingUp
<1>7. OneLive'
  BY <1>0, <1>a, <1>b, <1>c, <1>d, <1>e, <1>f DEF OneLive, RestPcs, CheckPcs, PendingExec,
     StartingUp
<1>8. StartInv'
  BY <1>0, <1>a, <1>b, <1>c, <1>d, <1>e, <1>f DEF StartInv, RestPcs, CheckPcs, PendingExec,
     StartingUp
<1>9. QED
  BY <1>1, <1>2, <1>3, <1>4, <1>5, <1>6, <1>7, <1>8 DEF ControlInv

\* What a run with a job is not.
LEMMA JobFacts ==
  ASSUME TypeOK, ControlInv, NEW r \in Runs, job[r].pc \in JobPcs
  PROVE  /\ r \notin queue /\ run[r].phase # "none" /\ run[r].stack \in Stacks
         /\ \A w \in Workers : wk[w].run = r => wk[w].pc = "wait"
         /\ ~StartingUp
<1>1. job[r].pc # "none"
  BY DEF JobPcs
<1>2. r \notin queue /\ run[r].phase # "none" /\ run[r].stack \in Stacks /\ ~StartingUp
  BY <1>1 DEF ControlInv, QueueInv, RunInv, StartInv
<1>3. ASSUME NEW w \in Workers, wk[w].run = r
      PROVE  wk[w].pc = "wait"
  <2>1. wk[w].pc \notin RestPcs /\ wk[w].pc \notin CheckPcs \cup {"mark"}
    BY <1>1, <1>3, UpdateConstants DEF ControlInv, WorkerInv
  <2>2. wk[w] \in Worker
    BY DEF TypeOK
  <2>3. QED
    BY <2>1, <2>2 DEF Worker, RestPcs, CheckPcs, LockedPcs
<1>4. QED
  BY <1>2, <1>3

\* A job moves on without a change of rows.
LEMMA ControlMoves ==
  ASSUME TypeOK, ControlInv, NEW r \in Runs, Moves(r), UNCHANGED <<wk, queue, sched>>
  PROVE  ControlInv'
<1>0. RunInv /\ QueueInv /\ WorkerInv /\ OneWorker /\ JobInv /\ ExecInv /\ OneLive /\ StartInv
  BY DEF ControlInv
<1>a. UNCHANGED <<run, exec>> /\ (\A q \in Runs \ {r} : job'[q] = job[q]) /\ queue \subseteq Runs
  BY DEF Moves, JobGoes, TypeOK
<1>b. \/ job[r].pc = "queued" /\ job'[r].pc \in {"intent", "done"}
      \/ job[r].pc \in {"apply", "record", "verify"} /\ job'[r].pc \in {"record", "verify", "complete"}
      \/ job[r].pc \in {"complete", "close"} /\ job'[r].pc = "done"
  BY DEF Moves, JobGoes
<1>c. job[r].pc \in JobPcs
  BY <1>b DEF JobPcs
<1>d. /\ r \notin queue /\ run[r].phase # "none" /\ ~StartingUp
      /\ \A w \in Workers : wk[w].run = r => wk[w].pc = "wait"
  BY <1>c, JobFacts
<1>1. RunInv'
  BY <1>0, <1>a, <1>b, <1>d DEF RunInv, RestPcs, CheckPcs, PendingExec, StartingUp
<1>2. QueueInv'
  BY <1>0, <1>a, <1>b, <1>d DEF QueueInv, RestPcs, CheckPcs, PendingExec, StartingUp
<1>3. WorkerInv'
  BY <1>0, <1>a, <1>b, <1>d DEF WorkerInv, RestPcs, CheckPcs, PendingExec, StartingUp
<1>4. OneWorker'
  BY <1>0, <1>a, <1>b, <1>d DEF OneWorker, RestPcs, CheckPcs, PendingExec, StartingUp
<1>5. JobInv'
  BY <1>0, <1>a, <1>b, <1>d DEF JobInv, RestPcs, CheckPcs, PendingExec, StartingUp
<1>6. ExecInv'
  BY <1>0, <1>a, <1>b, <1>d DEF ExecInv, RestPcs, CheckPcs, PendingExec, StartingUp
<1>7. OneLive'
  BY <1>0, <1>a, <1>b, <1>d DEF OneLive, RestPcs, CheckPcs, PendingExec, StartingUp
<1>8. StartInv'
  BY <1>0, <1>a, <1>b, <1>d DEF StartInv, RestPcs, CheckPcs, PendingExec, StartingUp
<1>9. QED
  BY <1>1, <1>2, <1>3, <1>4, <1>5, <1>6, <1>7, <1>8 DEF ControlInv

\* A job ends its run before the mutation.
LEMMA ControlDiscards ==
  ASSUME TypeOK, ControlInv, NEW r \in Runs, Discards(r), UNCHANGED <<wk, queue, sched>>
  PROVE  ControlInv'
<1>0. RunInv /\ QueueInv /\ WorkerInv /\ OneWorker /\ JobInv /\ ExecInv /\ OneLive /\ StartInv
  BY DEF ControlInv
<1>a. /\ \A q \in Runs \ {r} : job'[q] = job[q]
      /\ queue \subseteq Runs /\ job[r].pc \in {"intent", "admit"} /\ job'[r].pc = "close"
  BY DEF Discards, JobGoes, TypeOK
<1>b. exec[r].phase \in {"none", "prepared"} /\ run[r].phase \in LivePhases
  BY <1>0, <1>a DEF JobInv, ExecInv, PendingExec, ExecPhases, LivePhases
<1>c. \/ UNCHANGED <<run, exec>>
      \/ /\ run'[r].phase = "terminal" /\ run'[r].stack = run[r].stack
         /\ exec'[r].phase \in {"none", "terminal"}
         /\ \A q \in Runs \ {r} : run'[q] = run[q] /\ exec'[q] = exec[q]
  BY <1>b, FinishRows DEF Discards, Outcomes, LivePhases
<1>d. job[r].pc \in JobPcs
  BY <1>a DEF JobPcs
<1>e. /\ r \notin queue /\ run[r].stack \in Stacks /\ ~StartingUp /\ run[r].phase # "none"
      /\ \A w \in Workers : wk[w].run = r => wk[w].pc = "wait"
  BY <1>d, JobFacts
<1>f. "none" \notin LivePhases /\ "terminal" \notin LivePhases
  BY DEF LivePhases
<1>1. RunInv'
  BY <1>0, <1>a, <1>b, <1>c, <1>e DEF RunInv
<1>2. QueueInv'
  BY <1>0, <1>a, <1>b, <1>c, <1>e, <1>f DEF QueueInv, RestPcs, CheckPcs, PendingExec,
     StartingUp, MutationPhases
<1>3. WorkerInv'
  BY <1>0, <1>a, <1>b, <1>c, <1>e, <1>f DEF WorkerInv, RestPcs, CheckPcs, PendingExec,
     StartingUp, MutationPhases
<1>4. OneWorker'
  BY <1>0, <1>a, <1>b, <1>c, <1>e, <1>f DEF OneWorker, RestPcs, CheckPcs, PendingExec,
     StartingUp, MutationPhases
<1>5. JobInv'
  BY <1>0, <1>a, <1>b, <1>c, <1>e, <1>f DEF JobInv, RestPcs, CheckPcs, PendingExec, StartingUp,
     MutationPhases
<1>6. ExecInv'
  BY <1>0, <1>a, <1>b, <1>c, <1>e, <1>f DEF ExecInv, RestPcs, CheckPcs, PendingExec, StartingUp,
     MutationPhases
<1>7. OneLive'
  BY <1>0, <1>b, <1>c, <1>f DEF OneLive
<1>8. StartInv'
  BY <1>0, <1>a, <1>b, <1>c, <1>e, <1>f DEF StartInv, RestPcs, CheckPcs, PendingExec,
     StartingUp, MutationPhases
<1>9. QED
  BY <1>1, <1>2, <1>3, <1>4, <1>5, <1>6, <1>7, <1>8 DEF ControlInv

\* SavePrepared, MarkApplying, MarkVerifying and the final transaction.
LEMMA ControlJobMarks ==
  ASSUME TypeOK, ControlInv, NEW r \in Runs, Marks(r), UNCHANGED <<wk, queue, sched>>
  PROVE  ControlInv'
<1>0. RunInv /\ QueueInv /\ WorkerInv /\ OneWorker /\ JobInv /\ ExecInv /\ OneLive /\ StartInv
  BY DEF ControlInv
<1>a. /\ \A q \in Runs \ {r} : job'[q] = job[q] /\ run'[q] = run[q] /\ exec'[q] = exec[q]
      /\ run'[r].stack = run[r].stack /\ run[r].phase \in LivePhases /\ queue \subseteq Runs
  BY DEF Marks, JobGoes, TypeOK
<1>b. /\ run'[r].phase = exec'[r].phase
      /\ \/ exec'[r].phase = "prepared" /\ job'[r].pc = "admit"
         \/ exec'[r].phase = "applying" /\ job'[r].pc = "apply"
         \/ exec'[r].phase = "verifying" /\ job'[r].pc = "verify"
         \/ exec'[r].phase = "terminal" /\ job'[r].pc = "done"
  BY DEF Marks, JobGoes
<1>c. /\ r \notin queue /\ run[r].stack \in Stacks /\ ~StartingUp
      /\ \A w \in Workers : wk[w].run = r => wk[w].pc = "wait"
  BY JobFacts DEF Marks
<1>1. RunInv'
  BY <1>0, <1>a, <1>b, <1>c DEF RunInv, RestPcs, CheckPcs, PendingExec, StartingUp, MutationPhases
<1>2. QueueInv'
  BY <1>0, <1>a, <1>b, <1>c DEF QueueInv, RestPcs, CheckPcs, PendingExec, StartingUp,
     MutationPhases
<1>3. WorkerInv'
  BY <1>0, <1>a, <1>b, <1>c DEF WorkerInv, RestPcs, CheckPcs, PendingExec, StartingUp,
     MutationPhases
<1>4. OneWorker'
  BY <1>0, <1>a, <1>b, <1>c DEF OneWorker, RestPcs, CheckPcs, PendingExec, StartingUp,
     MutationPhases
<1>5. JobInv'
  BY <1>0, <1>a, <1>b, <1>c DEF JobInv, RestPcs, CheckPcs, PendingExec, StartingUp, MutationPhases
<1>6. ExecInv'
  BY <1>0, <1>a, <1>b, <1>c DEF ExecInv, RestPcs, CheckPcs, PendingExec, StartingUp,
     MutationPhases
<1>7. OneLive'
  BY <1>0, <1>a, <1>b DEF OneLive
<1>8. StartInv'
  BY <1>0, <1>a, <1>b, <1>c DEF StartInv, RestPcs, CheckPcs, PendingExec, StartingUp,
     MutationPhases
<1>9. QED
  BY <1>1, <1>2, <1>3, <1>4, <1>5, <1>6, <1>7, <1>8 DEF ControlInv

\* Every step keeps the control invariant.
LEMMA ControlNext ==
  ASSUME TypeOK, ControlInv, [Next]_vars
  PROVE  ControlInv'
<1>1. CASE Reconcile
  <2>1. CASE Reconciled \/ ReconcileFails \/ FailInterrupted \/ Ready \/ ResetAfterStartup
    <3>1. UNCHANGED <<run, exec, wk, job, queue>> /\ StartingUp
      BY <2>1 DEF Reconciled, ReconcileFails, FailInterrupted, Ready, ResetAfterStartup, store,
         actors,
         Reconciling, StartingUp
    <3>2. QED
      BY <3>1, ControlFrame
  <2>2. QED
    BY <1>1, <2>1, ControlRecover, ControlLeftOver DEF Reconcile
<1>2. CASE Schedule
  <2>1. CASE Fail \/ Shutdown \/ Drained
    <3>1. UNCHANGED <<run, exec, wk, job, queue>> /\ ~StartingUp'
      BY <2>1 DEF Fail, Shutdown, Drained, store, actors, StartingUp
    <3>2. QED
      BY <3>1, ControlFrame
  <2>2. QED
    BY <1>2, <2>1, ControlAdmit DEF Schedule
<1>3. ASSUME NEW w \in Workers, Check(w)
      PROVE  ControlInv'
  BY <1>3, CheckKinds, CheckFrame, ControlWalks, ControlQuits, ControlEnds, ControlMarks,
     ControlStart,
     ControlTake
<1>4. ASSUME NEW r \in Runs, Update(r)
      PROVE  ControlInv'
  BY <1>4, UpdateKinds, UpdateFrame, ControlMoves, ControlDiscards, ControlJobMarks
<1>5. ASSUME NEW c \in Clients, Arrive(c) \/ Serve(c)
      PROVE  ControlInv'
  <2>1. UNCHANGED <<run, exec, wk, job, queue, sched>>
    BY <1>5, ArriveKinds, ServeFrame DEF store
  <2>2. QED
    BY <2>1, ControlFrame DEF StartingUp
<1>6. CASE Environment
  <2>1. ASSUME NEW s \in Stacks, Due(s) \/ Outside(s)
        PROVE  ControlInv'
    <3>1. UNCHANGED <<run, exec, wk, job, queue, sched>>
      BY <2>1 DEF Due, Outside, store, actors
    <3>2. QED
      BY <3>1, ControlFrame DEF StartingUp
  <2>2. QED
    BY <1>6, <2>1, ControlCrash DEF Environment
<1>7. CASE UNCHANGED vars
  BY <1>7, ControlFrame DEF vars, store, actors, StartingUp
<1>8. QED
  BY <1>1, <1>2, <1>3, <1>4, <1>5, <1>6, <1>7 DEF Next

\* The control invariant and that of the requests hold at first.
LEMMA InitControl == Init => ControlInv /\ ClientInv
<1>. SUFFICES ASSUME Init
              PROVE  ControlInv /\ ClientInv
  OBVIOUS
<1>1. /\ \A r \in Runs : run[r].phase = "none" /\ exec[r].phase = "none" /\ job[r].pc = "none"
      /\ \A w \in Workers : wk[w].pc = "idle" /\ wk[w].run = None
      /\ queue = {}
  BY DEF Init, NoRun, NoExec, NoJob, NoWork
<1>2. \A c \in Clients : cl[c].pc = "idle" /\ cl[c].scope = None
  BY DEF Init, NoClient
<1>3. ControlInv
  BY <1>1 DEF ControlInv, RunInv, QueueInv, WorkerInv, OneWorker, JobInv, ExecInv, OneLive,
     StartInv,
     RestPcs, CheckPcs, LivePhases, PendingExec
<1>4. ClientInv
  BY <1>2 DEF ClientInv
<1>5. QED
  BY <1>3, <1>4

\* The inductive invariant.
IInv == TypeOK /\ ControlInv /\ ClientInv

\* It is one.
LEMMA InvariantHolds == Spec => []IInv
<1>1. Init => IInv
  BY InitType, InitControl DEF IInv
<1>2. IInv /\ [Next]_vars => IInv'
  BY TypeNext, ControlNext, ClientNext DEF IInv
<1>3. QED
  BY <1>1, <1>2, PTL DEF Spec

\* The rows, the runtime and the goroutines of automatic updates keep their types,
\* whatever the scheduler, workers, jobs, requests and crashes do.
THEOREM TypeCorrect == Spec => []TypeOK
<1>1. IInv => TypeOK
  BY DEF IInv
<1>2. QED
  BY <1>1, InvariantHolds, PTL

-----------------------------------------------------------------------------
(* Exclusion.                                                              *)

\* Whoever may own a scope: a run (its worker or its job), or a request.
Actors == Runs \cup Clients
\* What may be owned.
Scopes == Stacks \cup {Repository}

\* The flag that Try set for a scope.
Locked(x) == IF x = Repository THEN coord.repository ELSE x \in coord.stacks

\* Every owner's flag is set, and no two owners conflict.
LockInv ==
    /\ \A a \in Actors : owner[a] # None => Locked(owner[a])
    /\ \A a, b \in Actors :
          (a # b /\ owner[a] # None /\ owner[b] # None) =>
             ~Excl!Conflict(owner[a], owner[b])

\* What a step can do to the owners.
OwnerKeeps == owner' = owner /\ coord' = coord

\* Try grants a stack.
TakesStack(a, s) ==
    /\ owner[a] = None
    /\ Try(coord, FALSE, {s})
    /\ coord' = Granted(coord, FALSE, {s})
    /\ owner' = [owner EXCEPT ![a] = s]

\* Try grants the repository.
TakesRepository(a) ==
    /\ owner[a] = None
    /\ Try(coord, TRUE, {})
    /\ coord' = Granted(coord, TRUE, {})
    /\ owner' = [owner EXCEPT ![a] = Repository]

\* The owner releases what it was granted.
Returns(a) ==
    /\ owner[a] # None
    /\ coord' = Released(coord, owner[a] = Repository, {owner[a]} \cap Stacks)
    /\ owner' = [owner EXCEPT ![a] = None]

\* The process dies, and its locks with it.
Dies == owner' = [a \in Actors |-> None] /\ coord' = FreeCoordinator

\* The steps of the owners.
OwnerStep ==
    \/ OwnerKeeps
    \/ \E a \in Actors : Returns(a) \/ TakesRepository(a) \/ \E s \in Stacks : TakesStack(a, s)
    \/ Dies

\* owner, actor by actor.
OwnerFacts ==
    /\ owner \in [Actors -> Scopes \cup {None}]
    /\ \A r \in Runs : owner[r] = IF Working(r) THEN run[r].stack ELSE None
    /\ \A c \in Clients : owner[c] = cl[c].scope

\* What owner says, actor by actor.
LEMMA OwnerValues == TypeOK => OwnerFacts
<1>. SUFFICES ASSUME TypeOK
              PROVE  OwnerFacts
  OBVIOUS
<1>1. \A r \in Runs : run[r].stack \in Stacks \cup {None}
  BY DEF TypeOK, RunRow
<1>2. \A c \in Clients : cl[c].scope \in Scopes \cup {None} /\ c \notin Runs
  BY UpdateConstants DEF TypeOK, Client, Scopes
<1>3. QED
  BY <1>1, <1>2 DEF OwnerFacts, owner, Actors, Scopes

\* The same after a step.
LEMMA OwnerValuesNext == TypeOK' => OwnerFacts'
  BY OwnerValues, PTL

\* Whatever a step does to the owners, the flags of the coordinator still stand
\* for them.
LEMMA LockStep ==
  ASSUME TypeOK, TypeOK', LockInv, OwnerStep
  PROVE  LockInv'
<1>1. owner \in [Actors -> Scopes \cup {None}]
  BY OwnerValues DEF OwnerFacts
<1>2. coord.repository \in BOOLEAN /\ coord.stacks \subseteq Stacks
      /\ coord \in CoordinatorOf(Stacks)
  BY DEF TypeOK, CoordinatorOf
<1>3. Repository # None /\ Repository \notin Stacks /\ None \notin Stacks
  BY UpdateConstants
<1>4. CASE OwnerKeeps
  BY <1>4 DEF OwnerKeeps, LockInv, Locked
<1>5. ASSUME NEW a \in Actors, Returns(a)
      PROVE  LockInv'
  BY <1>1, <1>2, <1>3, <1>5 DEF Returns, LockInv, Locked, Released, Excl!Conflict, Scopes
<1>6. ASSUME NEW a \in Actors, TakesRepository(a)
      PROVE  LockInv'
  BY <1>1, <1>2, <1>3, <1>6 DEF TakesRepository, Try, LockInv, Locked, Granted, Excl!Conflict,
     Scopes
<1>7. ASSUME NEW a \in Actors, NEW s \in Stacks, TakesStack(a, s)
      PROVE  LockInv'
  BY <1>1, <1>2, <1>3, <1>7 DEF TakesStack, Try, LockInv, Locked, Granted, Excl!Conflict, Scopes
<1>8. CASE Dies
  BY <1>8 DEF Dies, LockInv
<1>9. QED
  BY <1>4, <1>5, <1>6, <1>7, <1>8 DEF OwnerStep

\* Such a step is a step of Exclusion.
LEMMA OwnerStepRefines ==
  ASSUME TypeOK, LockInv, OwnerStep
  PROVE  [Excl!Next]_owner
<1>1. owner \in [Actors -> Scopes \cup {None}]
  BY OwnerValues DEF OwnerFacts
<1>2. coord.repository \in BOOLEAN /\ coord.stacks \subseteq Stacks
  BY DEF TypeOK, CoordinatorOf
<1>3. Repository # None /\ Repository \notin Stacks /\ None \notin Stacks
  BY UpdateConstants
<1>4. CASE OwnerKeeps
  BY <1>4 DEF OwnerKeeps
<1>5. ASSUME NEW a \in Actors, Returns(a)
      PROVE  Excl!Next
  BY <1>5 DEF Returns, Excl!Next, Excl!Leave, Actors
<1>6. ASSUME NEW a \in Actors, TakesRepository(a)
      PROVE  Excl!Next
  <2>1. \A b \in Actors : owner[b] = None
    BY <1>1, <1>3, <1>6 DEF TakesRepository, Try, LockInv, Locked, Scopes
  <2>2. QED
    BY <1>6, <2>1 DEF TakesRepository, Excl!Next, Excl!Acquire, Excl!Scopes, Actors
<1>7. ASSUME NEW a \in Actors, NEW s \in Stacks, TakesStack(a, s)
      PROVE  Excl!Next
  <2>1. \A b \in Actors : owner[b] # None => ~Excl!Conflict(owner[b], s)
    BY <1>1, <1>3, <1>7 DEF TakesStack, Try, LockInv, Locked, Scopes, Excl!Conflict
  <2>2. Excl!Acquire(a, s)
    BY <1>7, <2>1 DEF TakesStack, Excl!Acquire, Actors
  <2>3. QED
    BY <2>2 DEF Excl!Next, Excl!Scopes, Actors
<1>8. CASE Dies
  BY <1>8 DEF Dies, Excl!Next, Excl!Die, Actors
<1>9. QED
  BY <1>4, <1>5, <1>6, <1>7, <1>8 DEF OwnerStep

\* The owners after a step that only concerns run r.
LEMMA RunOwners ==
  ASSUME TypeOK, TypeOK', NEW r \in Runs, cl' = cl, \A q \in Runs \ {r} : owner'[q] = owner[q]
  PROVE  /\ owner'[r] = owner[r] /\ coord' = coord => OwnerStep
         /\ \A s \in Stacks :
               owner[r] = None /\ owner'[r] = s /\ Try(coord, FALSE, {s}) /\ Lock(s) => OwnerStep
         /\ \A s \in Stacks : owner[r] = s /\ owner'[r] = None /\ Unlock(s) => OwnerStep
<1>1. OwnerFacts /\ OwnerFacts'
  BY OwnerValues, OwnerValuesNext
<1>2. Repository # None /\ Repository \notin Stacks /\ None \notin Stacks
  BY UpdateConstants
<1>3. owner' = [owner EXCEPT ![r] = owner'[r]] /\ r \in Actors
  BY <1>1 DEF OwnerFacts, Actors
<1>4. ASSUME owner'[r] = owner[r], coord' = coord
      PROVE  OwnerStep
  BY <1>1, <1>3, <1>4 DEF OwnerFacts, OwnerStep, OwnerKeeps
<1>5. ASSUME NEW s \in Stacks, owner[r] = None, owner'[r] = s, Try(coord, FALSE, {s}), Lock(s)
      PROVE  OwnerStep
  <2>1. TakesStack(r, s)
    BY <1>3, <1>5 DEF TakesStack, Lock
  <2>2. QED
    BY <1>3, <2>1 DEF OwnerStep
<1>6. ASSUME NEW s \in Stacks, owner[r] = s, owner'[r] = None, Unlock(s)
      PROVE  OwnerStep
  <2>1. (s = Repository) = FALSE /\ {s} \cap Stacks = {s}
    BY <1>2
  <2>2. Returns(r)
    BY <1>2, <1>3, <1>6, <2>1 DEF Returns, Unlock
  <2>3. QED
    BY <1>3, <2>2 DEF OwnerStep
<1>7. QED
  BY <1>4, <1>5, <1>6

\* What a step of a worker does to its lock.
LEMMA CheckLock ==
  ASSUME TypeOK, ControlInv, NEW w \in Workers, Check(w)
  PROVE  \/ /\ coord' = coord
            /\ wk[w].pc \in LockedPcs <=> (wk'[w].pc \in LockedPcs \/ Start(w))
         \/ /\ wk[w].pc \in {"begin", "again"} /\ wk'[w].pc \in LockedPcs
            /\ Try(coord, FALSE, {run[wk[w].run].stack}) /\ Lock(run[wk[w].run].stack)
         \/ /\ wk[w].pc \in LockedPcs /\ wk'[w].pc \notin LockedPcs /\ ~Start(w)
            /\ Unlock(run[wk[w].run].stack)
<1>0. wk \in [Workers -> Worker] /\ wk[w] \in Worker
  BY DEF TypeOK
<1>a. \A o \in {"skipped", "failed"} : Skip(w, o) => wk'[w].pc = "finish"
  BY <1>0, SkipGoes DEF WorkerGoes, Outcomes
<1>b. \/ wk' = [wk EXCEPT ![w] = NoWork] \/ wk' = [wk EXCEPT ![w] = [NoWork EXCEPT !.pc = "dead"]]
      => wk'[w].pc \in RestPcs
  BY RestRests DEF WorkerRests
<1>c. \A p \in CheckPcs : wk' = [wk EXCEPT ![w].pc = p] => wk'[w].pc = p
  BY PcGoes DEF WorkerGoes
<1>1. ASSUME NEW r \in Runs, Take(w, r)
      PROVE  coord' = coord /\ wk[w].pc \notin LockedPcs /\ wk'[w].pc \notin LockedPcs /\ ~Start(w)
  BY <1>0, <1>1 DEF Take, LockedPcs, NoWork, Start
<1>2. CASE MarkChecking(w)
  BY <1>0, <1>a, <1>b, <1>c, <1>2 DEF MarkChecking, Start, LockedPcs, RestPcs, CheckPcs
<1>3. CASE MarkSkips(w)
  BY <1>0, <1>a, <1>b, <1>c, <1>3 DEF MarkSkips, Start, LockedPcs, RestPcs, CheckPcs
<1>4. CASE MarkFails(w)
  BY <1>0, <1>a, <1>b, <1>c, <1>4 DEF MarkFails, Start, LockedPcs, RestPcs, CheckPcs
<1>5. CASE Begin(w)
  BY <1>0, <1>a, <1>b, <1>c, <1>5 DEF Begin, Start, LockedPcs, RestPcs, CheckPcs
<1>6. CASE CheckFails(w)
  BY <1>0, <1>a, <1>b, <1>c, <1>6 DEF CheckFails, Start, LockedPcs, RestPcs, CheckPcs
<1>7. CASE Look(w)
  BY <1>0, <1>a, <1>b, <1>c, <1>7 DEF Look, Start, LockedPcs, RestPcs, CheckPcs, Worker
<1>8. CASE LookSkips(w)
  BY <1>0, <1>a, <1>b, <1>c, <1>8 DEF LookSkips, Start, LockedPcs, RestPcs, CheckPcs
<1>9. CASE Prepare(w)
  BY <1>0, <1>a, <1>b, <1>c, <1>9 DEF Prepare, Start, LockedPcs, RestPcs, CheckPcs, Worker
<1>10. CASE PrepareFails(w)
  BY <1>0, <1>a, <1>b, <1>c, <1>10 DEF PrepareFails, Start, LockedPcs, RestPcs, CheckPcs
<1>11. CASE Again(w)
  BY <1>0, <1>a, <1>b, <1>c, <1>11 DEF Again, Start, LockedPcs, RestPcs, CheckPcs
<1>12. CASE Fresh(w)
  BY <1>0, <1>a, <1>b, <1>c, <1>12 DEF Fresh, Start, LockedPcs, RestPcs, CheckPcs
<1>13. CASE FreshSkips(w)
  BY <1>0, <1>a, <1>b, <1>c, <1>13 DEF FreshSkips, Start, LockedPcs, RestPcs, CheckPcs
<1>14. CASE Unchanged(w)
  BY <1>0, <1>a, <1>b, <1>c, <1>14 DEF Unchanged, Start, LockedPcs, RestPcs, CheckPcs
<1>15. CASE FinishCheck(w)
  BY <1>0, <1>a, <1>b, <1>c, <1>15 DEF FinishCheck, Start, LockedPcs, RestPcs, CheckPcs
<1>16. CASE Start(w)
  BY <1>0, <1>a, <1>b, <1>c, <1>16 DEF Start, LockedPcs, NoWork
<1>17. CASE StartFails(w)
  BY <1>0, <1>a, <1>b, <1>c, <1>17 DEF StartFails, Start, LockedPcs, RestPcs, CheckPcs
<1>18. CASE Wait(w)
  BY <1>0, <1>a, <1>b, <1>c, <1>18 DEF Wait, Start, LockedPcs, RestPcs, CheckPcs
<1>19. QED
  BY <1>1, <1>2, <1>3, <1>4, <1>5, <1>6, <1>7, <1>8, <1>9, <1>10, <1>11, <1>12, <1>13, <1>14,
     <1>15, <1>16, <1>17, <1>18 DEF Check

\* A step of a worker leaves the stacks of all runs, and the jobs and workers of
\* the other runs.
LEMMA CheckRows ==
  ASSUME TypeOK, ControlInv, NEW w \in Workers, Check(w)
  PROVE  /\ \A q \in Runs : run'[q].stack = run[q].stack
         /\ \A q \in Runs : job'[q] = job[q] \/ (Start(w) /\ q = wk[w].run)
         /\ \A v \in Workers \ {w} : wk'[v] = wk[v]
         /\ wk[w].pc \notin RestPcs => wk'[w].run \in {wk[w].run, None}
<1>0. /\ wk \in [Workers -> Worker] /\ run \in [Runs -> RunRow] /\ job \in [Runs -> Job]
  BY DEF TypeOK
<1>1. CASE Walks(w) \/ Quits(w)
  BY <1>1 DEF Walks, Quits, WorkerGoes, WorkerRests
<1>2. CASE Ends(w)
  <2>1. wk[w].run \in Runs
    BY <1>2, WorkerFacts DEF Ends, RestPcs
  <2>2. QED
    BY <1>2, <2>1, FinishRows DEF Ends, WorkerRests
<1>3. CASE MarkChecking(w)
  BY <1>0, <1>3 DEF MarkChecking, RunRow, Worker
<1>4. CASE Start(w)
  BY <1>0, <1>4 DEF Start, NoWork
<1>5. ASSUME NEW r \in Runs, Take(w, r)
      PROVE  /\ UNCHANGED <<run, job>> /\ wk[w].pc \in RestPcs
             /\ \A v \in Workers \ {w} : wk'[v] = wk[v]
  BY <1>0, <1>5 DEF Take, store, RestPcs
<1>6. QED
  BY <1>1, <1>2, <1>3, <1>4, <1>5, CheckKinds

\* What a worker at a control point before its job tells of its run.
LEMMA WorkingWorker ==
  ASSUME TypeOK, ControlInv, NEW w \in Workers, wk[w].pc \notin RestPcs
  PROVE  wk[w].pc # "wait" => (Working(wk[w].run) <=> wk[w].pc \in LockedPcs)
<1>1. wk[w].run \in Runs /\ wk[w] \in Worker /\ wk[w].run # None
  BY WorkerFacts, UpdateConstants
<1>2. \A v \in Workers : wk[v].run = wk[w].run => v = w
  BY <1>1 DEF ControlInv, OneWorker
<1>3. wk[w].pc # "wait" => job[wk[w].run].pc = "none"
  BY <1>1 DEF ControlInv, WorkerInv, Worker, LockedPcs, CheckPcs, RestPcs
<1>4. QED
  BY <1>2, <1>3 DEF Working, JobPcs

\* A step of a worker, as a step of owners.
LEMMA OwnerCheck ==
  ASSUME TypeOK, TypeOK', ControlInv, ControlInv', NEW w \in Workers, Check(w)
  PROVE  OwnerStep
<1>1. cl' = cl
  BY CheckFrame
<1>2. CASE wk[w].pc \in RestPcs
  <2>1. PICK r \in Runs : Take(w, r)
    BY <1>2, CheckKinds DEF Walks, Quits, Ends, MarkChecking, Start, RestPcs, CheckPcs
  <2>2. /\ run' = run /\ job' = job /\ coord' = coord /\ wk'[w].pc = "mark" /\ wk[w].pc = "idle"
        /\ \A v \in Workers \ {w} : wk'[v] = wk[v]
    BY <2>1 DEF Take, store, TypeOK, NoWork
  <2>3. \A q \in Runs : owner'[q] = owner[q]
    BY <2>2, OwnerValues, OwnerValuesNext DEF OwnerFacts, Working, LockedPcs
  <2>4. QED
    BY <1>1, <2>1, <2>2, <2>3, RunOwners
<1>3. CASE wk[w].pc \notin RestPcs
  <2>0. PICK r \in Runs : r = wk[w].run
    BY <1>3, WorkerFacts
  <2>1. r \in Runs /\ run[r].stack \in Stacks /\ r # None
    BY <1>3, <2>0, WorkerFacts, UpdateConstants
  <2>2. /\ \A q \in Runs : run'[q].stack = run[q].stack
        /\ \A q \in Runs \ {r} : job'[q] = job[q]
        /\ \A v \in Workers \ {w} : wk'[v] = wk[v]
        /\ wk'[w].run \in {r, None}
    BY <1>3, <2>0, CheckRows
  <2>3. \A q \in Runs \ {r} : owner'[q] = owner[q]
    BY <2>0, <2>1, <2>2, OwnerValues, OwnerValuesNext, UpdateConstants DEF OwnerFacts, Working
  <2>4. \A v \in Workers : wk[v].run = r => v = w
    BY <2>0, <2>1 DEF ControlInv, OneWorker
  <2>5. CASE Start(w)
    <3>1. wk[w].pc = "start" /\ coord' = coord /\ job'[r].pc = "queued"
      BY <2>0, <2>1, <2>5 DEF Start, TypeOK, NoJob
    <3>2. owner'[r] = owner[r]
      BY <2>0, <2>1, <2>2, <3>1, OwnerValues, OwnerValuesNext DEF OwnerFacts, Working,
         LockedPcs, JobPcs
    <3>3. QED
      BY <1>1, <2>1, <2>3, <3>1, <3>2, RunOwners
  <2>6. CASE wk[w].pc = "wait"
    <3>1. ~Start(w) /\ wk[w].pc \notin LockedPcs /\ wk[w].pc \notin {"begin", "again"}
      BY <2>6 DEF Start, LockedPcs
    <3>2. coord' = coord /\ wk'[w].pc \notin LockedPcs
      BY <3>1, CheckLock
    <3>3. job'[r] = job[r]
      BY <2>0, <2>1, <3>1, CheckRows
    <3>4. owner'[r] = owner[r]
      BY <2>0, <2>1, <2>2, <2>4, <3>1, <3>2, <3>3, OwnerValues, OwnerValuesNext DEF OwnerFacts,
         Working
    <3>5. QED
      BY <1>1, <2>1, <2>3, <3>2, <3>4, RunOwners
  <2>7. CASE wk[w].pc # "wait" /\ ~Start(w)
    <3>1. job'[r] = job[r] /\ job[r].pc = "none"
      BY <1>3, <2>0, <2>1, <2>7, CheckRows DEF ControlInv, WorkerInv, TypeOK, Worker, LockedPcs,
         CheckPcs, RestPcs
    <3>2. owner[r] = IF wk[w].pc \in LockedPcs THEN run[r].stack ELSE None
      BY <1>3, <2>0, <2>1, <2>7, WorkingWorker, OwnerValues DEF OwnerFacts
    <3>3. wk'[w].pc \in LockedPcs => wk'[w].run = r
      <4>1. wk'[w].pc \in LockedPcs => wk'[w].run \in Runs
        BY DEF ControlInv, WorkerInv, LockedPcs, RestPcs
      <4>2. QED
        BY <2>2, <4>1, UpdateConstants
    <3>4. owner'[r] = IF wk'[w].pc \in LockedPcs THEN run[r].stack ELSE None
      BY <2>0, <2>1, <2>2, <2>4, <3>1, <3>3, OwnerValuesNext DEF OwnerFacts, Working, JobPcs
    <3>5. wk[w].pc \in {"begin", "again"} => wk[w].pc \notin LockedPcs
      BY DEF LockedPcs
    <3>6. CASE coord' = coord /\ (wk[w].pc \in LockedPcs <=> wk'[w].pc \in LockedPcs)
      BY <1>1, <2>1, <2>2, <2>3, <3>2, <3>4, <3>6, RunOwners
    <3>7. CASE /\ wk[w].pc \in {"begin", "again"} /\ wk'[w].pc \in LockedPcs
               /\ Try(coord, FALSE, {run[r].stack}) /\ Lock(run[r].stack)
      BY <1>1, <2>1, <2>2, <2>3, <3>2, <3>4, <3>5, <3>7, RunOwners
    <3>8. CASE /\ wk[w].pc \in LockedPcs /\ wk'[w].pc \notin LockedPcs
               /\ Unlock(run[r].stack)
      BY <1>1, <2>1, <2>2, <2>3, <3>2, <3>4, <3>8, RunOwners
    <3>9. QED
      BY <2>0, <2>7, <3>6, <3>7, <3>8, CheckLock
  <2>8. QED
    BY <2>5, <2>6, <2>7
<1>4. QED
  BY <1>2, <1>3

\* A job returns the lock when it ends, and only then.
LEMMA UpdateLock ==
  ASSUME TypeOK, NEW r \in Runs, Update(r)
  PROVE  \/ coord' = coord /\ job'[r].pc \in JobPcs
         \/ Unlock(run[r].stack) /\ job'[r].pc \notin JobPcs
<1>0. job \in [Runs -> Job]
  BY DEF TypeOK
<1>1. CASE RunJob(r)
  BY <1>0, <1>1 DEF RunJob, JobPcs, Job, NoJob
<1>2. CASE RunJobFails(r)
  BY <1>0, <1>2 DEF RunJobFails, JobPcs, Job, NoJob
<1>3. CASE SavePrepared(r)
  BY <1>0, <1>3 DEF SavePrepared, JobPcs, Job, NoJob
<1>4. CASE MarkApplying(r)
  BY <1>0, <1>4 DEF MarkApplying, JobPcs, Job, NoJob
<1>5. CASE Discard(r)
  BY <1>0, <1>5 DEF Discard, JobPcs, Job, NoJob
<1>6. CASE Recreate(r)
  BY <1>0, <1>6 DEF Recreate, JobPcs, Job, NoJob
<1>7. CASE ApplyFails(r)
  BY <1>0, <1>7 DEF ApplyFails, JobPcs, Job, NoJob
<1>8. CASE MarkVerifying(r)
  BY <1>0, <1>8 DEF MarkVerifying, JobPcs, Job, NoJob
<1>9. CASE VerifyUpdate(r)
  BY <1>0, <1>9 DEF VerifyUpdate, JobPcs, Job, NoJob
<1>10. CASE Complete(r)
  BY <1>0, <1>10 DEF Complete, JobPcs, Job, NoJob
<1>11. CASE Close(r)
  BY <1>0, <1>11 DEF Close, JobPcs, Job, NoJob
<1>12. CASE CompleteFails(r)
  BY <1>0, <1>12 DEF CompleteFails, JobPcs, Job, NoJob
<1>13. QED
  BY <1>1, <1>2, <1>3, <1>4, <1>5, <1>6, <1>7, <1>8, <1>9, <1>10, <1>11, <1>12 DEF Update

\* A step of a job leaves the stacks of all runs and the jobs of the others.
LEMMA UpdateRows ==
  ASSUME TypeOK, ControlInv, NEW r \in Runs, Update(r)
  PROVE  /\ \A q \in Runs : run'[q].stack = run[q].stack
         /\ \A q \in Runs \ {r} : job'[q] = job[q] /\ run'[q] = run[q] /\ exec'[q] = exec[q]
<1>1. CASE Moves(r)
  BY <1>1 DEF Moves, JobGoes
<1>2. CASE Discards(r)
  BY <1>2, FinishRows DEF Discards, JobGoes, Outcomes
<1>3. CASE Marks(r)
  BY <1>3 DEF Marks, JobGoes
<1>4. QED
  BY <1>1, <1>2, <1>3, UpdateKinds

\* A step of a job, as a step of owners.
LEMMA OwnerUpdate ==
  ASSUME TypeOK, TypeOK', ControlInv, NEW r \in Runs, Update(r)
  PROVE  OwnerStep
<1>1. cl' = cl /\ wk' = wk /\ job[r].pc \in JobPcs
  BY UpdateFrame
<1>2. /\ \A q \in Runs : run'[q].stack = run[q].stack
      /\ \A q \in Runs \ {r} : job'[q] = job[q]
  BY UpdateRows
<1>3. /\ run[r].stack \in Stacks
      /\ \A w \in Workers : wk[w].run = r => wk[w].pc = "wait"
  BY <1>1, JobFacts
<1>4. owner[r] = run[r].stack /\ owner'[r] = IF job'[r].pc \in JobPcs THEN run[r].stack ELSE None
  BY <1>1, <1>2, <1>3, OwnerValues, OwnerValuesNext DEF OwnerFacts, Working, LockedPcs
<1>5. \A q \in Runs \ {r} : owner'[q] = owner[q]
  BY <1>1, <1>2, OwnerValues, OwnerValuesNext DEF OwnerFacts, Working
<1>6. CASE coord' = coord /\ job'[r].pc \in JobPcs
  BY <1>1, <1>2, <1>4, <1>5, <1>6, RunOwners
<1>7. CASE Unlock(run[r].stack) /\ job'[r].pc \notin JobPcs
  BY <1>1, <1>3, <1>4, <1>5, <1>7, RunOwners
<1>8. QED
  BY <1>6, <1>7, UpdateLock

\* The owners after a step that only concerns request c.
LEMMA ClientOwners ==
  ASSUME TypeOK, TypeOK', NEW c \in Clients, UNCHANGED <<run, wk, job>>,
         \A d \in Clients \ {c} : cl'[d] = cl[d]
  PROVE  owner' = [owner EXCEPT ![c] = cl'[c].scope] /\ owner[c] = cl[c].scope /\ c \in Actors
<1>1. OwnerFacts /\ OwnerFacts'
  BY OwnerValues, OwnerValuesNext
<1>2. \A r \in Runs : (Working(r)' <=> Working(r)) /\ r # c
  BY UpdateConstants DEF Working
<1>3. QED
  BY <1>1, <1>2 DEF OwnerFacts, Actors

\* A step of a request, as a step of owners.
LEMMA OwnerClient ==
  ASSUME TypeOK, TypeOK', ClientInv, NEW c \in Clients, Arrive(c) \/ Serve(c)
  PROVE  OwnerStep
<1>0. UNCHANGED <<run, wk, job>>
  BY ArriveKinds, ServeFrame DEF store
<1>a. Enters(c) \/ Keeps(c) \/ Drops(c)
  BY ArriveKinds, ServeKinds
<1>b. /\ owner' = [owner EXCEPT ![c] = cl'[c].scope] /\ owner[c] = cl[c].scope /\ c \in Actors
  BY <1>0, <1>a, ClientOwners DEF Enters, Keeps, Drops, ClientGoes
<1>c. owner \in [Actors -> Scopes \cup {None}]
  BY OwnerValues DEF OwnerFacts
<1>1. CASE Enters(c)
  <2>1. owner[c] = None
    BY <1>1, <1>b DEF Enters, ClientInv
  <2>2. CASE cl'[c].scope = None /\ coord' = coord
    BY <1>b, <1>c, <2>1, <2>2 DEF OwnerStep, OwnerKeeps
  <2>3. ASSUME NEW s \in Stacks, cl'[c].scope = s, Try(coord, FALSE, {s}), coord' = Granted(coord, FALSE, {s})
        PROVE  OwnerStep
    <3>1. TakesStack(c, s)
      BY <1>b, <2>1, <2>3 DEF TakesStack
    <3>2. QED
      BY <1>b, <3>1 DEF OwnerStep
  <2>4. CASE /\ cl'[c].scope = Repository
             /\ Try(coord, TRUE, {}) /\ coord' = Granted(coord, TRUE, {})
    <3>1. TakesRepository(c)
      BY <1>b, <2>1, <2>4 DEF TakesRepository
    <3>2. QED
      BY <1>b, <3>1 DEF OwnerStep
  <2>5. QED
    BY <1>1, <2>2, <2>3, <2>4 DEF Enters
<1>2. CASE Keeps(c)
  BY <1>2, <1>b, <1>c DEF Keeps, OwnerStep, OwnerKeeps
<1>3. CASE Drops(c)
  <2>1. CASE cl[c].pc = "save" /\ coord' = coord
    <3>1. cl[c].scope = None /\ cl'[c].scope = None
      BY <1>3, <2>1 DEF Drops, ClientInv
    <3>2. QED
      BY <1>b, <1>c, <2>1, <3>1 DEF OwnerStep, OwnerKeeps
  <2>2. CASE /\ cl[c].pc = "leave"
             /\ coord' = Released(coord, cl[c].scope = Repository, {cl[c].scope} \cap Stacks)
    <3>1. cl[c].scope # None /\ cl'[c].scope = None
      BY <1>3, <2>2 DEF Drops, ClientInv
    <3>2. Returns(c)
      BY <1>b, <2>2, <3>1 DEF Returns
    <3>3. QED
      BY <1>b, <3>2 DEF OwnerStep
  <2>3. QED
    BY <1>3, <2>1, <2>2 DEF Drops
<1>4. QED
  BY <1>a, <1>1, <1>2, <1>3

\* Nobody's lock changes.
LEMMA OwnerFrame ==
  ASSUME TypeOK, TypeOK', UNCHANGED <<wk, job, cl, coord>>,
         \A r \in Runs : Working(r) => run'[r].stack = run[r].stack
  PROVE  OwnerStep
<1>1. OwnerFacts /\ OwnerFacts'
  BY OwnerValues, OwnerValuesNext
<1>2. \A r \in Runs : Working(r)' <=> Working(r)
  BY DEF Working
<1>3. owner' = owner
  BY <1>1, <1>2 DEF OwnerFacts, Actors
<1>4. QED
  BY <1>3 DEF OwnerStep, OwnerKeeps

\* Every step is a step of owners.
LEMMA OwnerNext ==
  ASSUME IInv, IInv', [Next]_vars
  PROVE  OwnerStep
<1>0. TypeOK /\ TypeOK' /\ ControlInv /\ ControlInv' /\ ClientInv
  BY DEF IInv
<1>1. CASE Reconcile
  <2>1. UNCHANGED <<wk, job, cl, coord>>
    BY <1>1 DEF Reconcile, Reconciled, ReconcileFails, FailInterrupted, Ready, ResetAfterStartup,
       RecoverExecution, FinishLeftOver, actors
  <2>2. StartingUp
    BY <1>1 DEF Reconcile, Reconciled, ReconcileFails, FailInterrupted, Ready, ResetAfterStartup,
       RecoverExecution, FinishLeftOver, Reconciling, StartingUp
  <2>3. \A r \in Runs : ~Working(r)
    BY <1>0, <2>2 DEF ControlInv, StartInv, Working, LockedPcs, JobPcs
  <2>4. QED
    BY <1>0, <2>1, <2>3, OwnerFrame
<1>2. CASE Schedule
  <2>1. ASSUME NEW s \in Stacks, NEW r \in Runs, Admit(s, r)
        PROVE  OwnerStep
    <3>1. /\ UNCHANGED <<wk, job, cl, coord>> /\ run[r].phase = "none"
          /\ \A q \in Runs \ {r} : run'[q] = run[q]
      BY <1>0, <2>1 DEF Admit, TypeOK
    <3>2. ~Working(r)
      <4>1. job[r].pc = "none"
        BY <1>0, <3>1 DEF ControlInv, RunInv
      <4>2. ASSUME NEW w \in Workers, wk[w].run = r, wk[w].pc \in LockedPcs
            PROVE  FALSE
        <5>1. wk[w].pc \notin RestPcs
          BY <4>2 DEF LockedPcs, RestPcs
        <5>2. QED
          BY <1>0, <3>1, <4>2, <5>1, WorkerFacts
      <4>3. QED
        BY <4>1, <4>2 DEF Working, JobPcs
    <3>3. QED
      BY <1>0, <3>1, <3>2, OwnerFrame
  <2>2. CASE Fail \/ Shutdown \/ Drained
    <3>1. UNCHANGED <<wk, job, cl, coord, run>>
      BY <2>2 DEF Fail, Shutdown, Drained, store, actors
    <3>2. QED
      BY <1>0, <3>1, OwnerFrame
  <2>3. QED
    BY <1>2, <2>1, <2>2 DEF Schedule
<1>3. ASSUME NEW w \in Workers, Check(w)
      PROVE  OwnerStep
  BY <1>0, <1>3, OwnerCheck
<1>4. ASSUME NEW r \in Runs, Update(r)
      PROVE  OwnerStep
  BY <1>0, <1>4, OwnerUpdate
<1>5. ASSUME NEW c \in Clients, Arrive(c) \/ Serve(c)
      PROVE  OwnerStep
  BY <1>0, <1>5, OwnerClient
<1>6. CASE Environment
  <2>1. ASSUME NEW s \in Stacks, Due(s) \/ Outside(s)
        PROVE  OwnerStep
    <3>1. UNCHANGED <<wk, job, cl, coord, run>>
      BY <2>1 DEF Due, Outside, store, actors
    <3>2. QED
      BY <1>0, <3>1, OwnerFrame
  <2>2. CASE Crash
    <3>1. /\ \A r \in Runs : ~Working(r)'
          /\ \A c \in Clients : cl'[c].scope = None
      BY <2>2 DEF Crash, Working, NoWork, NoJob, NoClient, LockedPcs, JobPcs
    <3>2. owner' = [a \in Actors |-> None]
      BY <1>0, <3>1, OwnerValuesNext DEF OwnerFacts, Actors
    <3>3. QED
      BY <2>2, <3>2 DEF Crash, OwnerStep, Dies
  <2>3. QED
    BY <1>6, <2>1, <2>2 DEF Environment
<1>7. CASE UNCHANGED vars
  BY <1>0, <1>7, OwnerFrame DEF vars, store, actors
<1>8. QED
  BY <1>1, <1>2, <1>3, <1>4, <1>5, <1>6, <1>7 DEF Next

\* At first nobody owns anything.
LEMMA InitOwner == Init => owner = [a \in Actors |-> None] /\ LockInv
<1>. SUFFICES ASSUME Init
              PROVE  owner = [a \in Actors |-> None] /\ LockInv
  OBVIOUS
<1>1. /\ \A r \in Runs : ~Working(r)
      /\ \A c \in Clients : cl[c].scope = None
  BY DEF Init, Working, NoWork, NoJob, NoClient, LockedPcs, JobPcs
<1>2. owner = [a \in Actors |-> None]
  BY <1>1, InitType, OwnerValues DEF OwnerFacts, Actors
<1>3. QED
  BY <1>2 DEF LockInv

\* LockInv holds in every state.
LEMMA LockInvariant == Spec => []LockInv
<1>1. Init => LockInv
  BY InitOwner
<1>2. IInv /\ IInv' /\ LockInv /\ [Next]_vars => LockInv'
  BY OwnerNext, LockStep DEF IInv
<1>3. QED
  BY <1>1, <1>2, InvariantHolds, PTL DEF Spec

\* AutoUpdate implements Exclusion: the two looks of CheckAndUpdate, the job that
\* inherits the lock, manual actions, edits and repository actions never own
\* conflicting scopes, for every number of stacks, runs and requests.
THEOREM ImplementsExclusion == Spec => MutualExclusion
<1>1. Init => Excl!Init
  BY InitOwner DEF Excl!Init, Actors
<1>2. IInv /\ IInv' /\ LockInv /\ [Next]_vars => [Excl!Next]_owner
  BY OwnerNext, OwnerStepRefines DEF IInv
<1>3. QED
  BY <1>1, <1>2, InvariantHolds, LockInvariant, PTL DEF Spec, MutualExclusion, Excl!Spec

-----------------------------------------------------------------------------

\* Nobody else owns the stack of a run that works on it.
LEMMA Alone ==
  ASSUME IInv, LockInv, NEW r \in Runs, Working(r)
  PROVE  /\ run[r].stack \in Stacks /\ ~StartingUp
         /\ \A c \in Clients : cl[c].scope # None => cl[c].scope # run[r].stack /\ cl[c].scope # Repository
         /\ \A q \in Runs \ {r} : Working(q) => run[q].stack # run[r].stack
<1>0. TypeOK /\ ControlInv /\ ClientInv /\ None \notin Stacks
  BY UpdateConstants DEF IInv
<1>1. \A q \in Runs : Working(q) => run[q].stack \in Stacks /\ ~StartingUp
  <2>1. ASSUME NEW q \in Runs, NEW w \in Workers, wk[w].run = q, wk[w].pc \in LockedPcs
        PROVE  run[q].stack \in Stacks /\ ~StartingUp
    <3>1. wk[w].pc \notin RestPcs
      BY <2>1 DEF LockedPcs, RestPcs
    <3>2. QED
      BY <1>0, <2>1, <3>1, WorkerFacts DEF ControlInv, StartInv, RestPcs
  <2>2. QED
    BY <1>0, <2>1, JobFacts DEF Working
<1>2. OwnerFacts
  BY <1>0, OwnerValues
<1>3. owner[r] = run[r].stack /\ owner[r] # None /\ r \in Actors
  BY <1>0, <1>1, <1>2 DEF OwnerFacts, Actors
<1>4. ASSUME NEW c \in Clients, cl[c].scope # None
      PROVE  cl[c].scope # run[r].stack /\ cl[c].scope # Repository
  <2>1. owner[c] = cl[c].scope /\ c \in Actors /\ c # r
    BY <1>2, UpdateConstants DEF OwnerFacts, Actors
  <2>2. QED
    BY <1>3, <1>4, <2>1 DEF LockInv, Excl!Conflict
<1>5. ASSUME NEW q \in Runs \ {r}, Working(q)
      PROVE  run[q].stack # run[r].stack
  <2>1. owner[q] = run[q].stack /\ owner[q] # None /\ q \in Actors
    BY <1>0, <1>1, <1>2, <1>5 DEF OwnerFacts, Actors
  <2>2. QED
    BY <1>3, <2>1 DEF LockInv, Excl!Conflict
<1>6. QED
  BY <1>1, <1>4, <1>5

\* What a run relies on while it has the lock.
Kept(t) ==
    /\ files'[t] = files[t] /\ base'[t] = base[t] /\ unproven'[t] = unproven[t]
    /\ External \/ gen'[t] = gen[t]

\* A request only changes the stack whose lock it has.
LEMMA ServeKeeps ==
  ASSUME IInv, NEW c \in Clients, Serve(c), NEW t \in Stacks,
         cl[c].scope # None => cl[c].scope # t /\ cl[c].scope # Repository
  PROVE  Kept(t)
<1>0. TypeOK /\ ClientInv
  BY DEF IInv
<1>a. /\ files \in [Stacks -> Nat] /\ base \in [Stacks -> Baseline] /\ gen \in [Stacks -> Nat]
      /\ unproven \in [Stacks -> BOOLEAN]
  BY <1>0 DEF TypeOK
<1>b. \/ cl[c].pc \in {"verified", "deployed"}
      \/ cl[c].pc = "held" /\ cl[c].kind # "repository"
      => cl[c].stack # t
  BY <1>0, UpdateConstants DEF ClientInv
<1>1. CASE ResumePolicy(c)
  BY <1>1, <1>a, <1>b DEF ResumePolicy, Kept
<1>2. CASE Deploy(c)
  <2>1. cl[c].stack # t
    BY <1>2, <1>b DEF Deploy
  <2>2. /\ base' = base /\ files' = files
        /\ gen' = gen \/ gen' = [gen EXCEPT ![cl[c].stack] = @ + 1]
        /\ \/ unproven' = unproven
           \/ \E ok \in BOOLEAN : unproven' = [unproven EXCEPT ![cl[c].stack] = @ /\ ~ok]
    BY <1>2 DEF Deploy, store
  <2>3. QED
    BY <1>a, <2>1, <2>2 DEF Kept
<1>3. CASE SaveDeployment(c)
  BY <1>3, <1>a, <1>b DEF SaveDeployment, Kept, runtime
<1>4. CASE ChangeRuntime(c)
  BY <1>4, <1>a, <1>b DEF ChangeRuntime, Kept, store
<1>5. CASE WriteFile(c)
  BY <1>5, <1>a, <1>b DEF WriteFile, Kept, store
<1>6. CASE RepositoryAction(c)
  BY <1>6, <1>0, UpdateConstants DEF RepositoryAction, ClientInv
<1>7. CASE DeleteStack(c)
  <2>1. cl[c].stack # t
    BY <1>7, <1>b DEF DeleteStack
  <2>2. /\ base' = base /\ files' = files /\ gen' = gen
        /\ \E down \in BOOLEAN : unproven' = [unproven EXCEPT ![cl[c].stack] = @ /\ ~down]
    BY <1>7 DEF DeleteStack, store
  <2>3. QED
    BY <1>a, <2>1, <2>2 DEF Kept
<1>8. CASE SavePolicy(c) \/ VerifyResume(c) \/ CommitStack(c) \/ ClientFails(c) \/ Leave(c)
  BY <1>8 DEF SavePolicy, VerifyResume, CommitStack, ClientFails, Leave, Kept, runtime, store
<1>9. QED
  BY <1>1, <1>2, <1>3, <1>4, <1>5, <1>6, <1>7, <1>8 DEF Serve

\* A job only changes its own stack.
LEMMA UpdateKeeps ==
  ASSUME TypeOK, NEW r \in Runs, Update(r), NEW t \in Stacks, run[r].stack # t
  PROVE  Kept(t)
<1>a. /\ base \in [Stacks -> Baseline] /\ gen \in [Stacks -> Nat] /\ unproven \in [Stacks -> BOOLEAN]
      /\ files' = files
  BY UpdateFrame DEF TypeOK
<1>1. CASE Recreate(r)
  BY <1>1, <1>a DEF Recreate, Kept, store
<1>2. CASE VerifyUpdate(r)
  BY <1>2, <1>a DEF VerifyUpdate, Kept, store
<1>3. CASE Complete(r)
  BY <1>3, <1>a DEF Complete, Kept, runtime
<1>4. CASE RunJob(r) \/ RunJobFails(r) \/ SavePrepared(r) \/ MarkApplying(r) \/ Discard(r)
  BY <1>4, <1>a DEF RunJob, RunJobFails, SavePrepared, MarkApplying, Discard, Kept, store, runtime
<1>5. CASE ApplyFails(r) \/ MarkVerifying(r) \/ Close(r) \/ CompleteFails(r)
  BY <1>5, <1>a DEF ApplyFails, MarkVerifying, Close, CompleteFails, Kept, store, runtime
<1>6. QED
  BY <1>1, <1>2, <1>3, <1>4, <1>5 DEF Update

\* While a run works on its stack, nobody else disturbs it.
LEMMA Undisturbed ==
  ASSUME IInv, LockInv, [Next]_vars, ~Crash, NEW r \in Runs, Working(r), ~Update(r)
  PROVE  Kept(run[r].stack) /\ run'[r].stack = run[r].stack
<1>0. TypeOK /\ ControlInv /\ ClientInv
  BY DEF IInv
<1>a. /\ run[r].stack \in Stacks /\ ~StartingUp
      /\ \A c \in Clients : cl[c].scope # None => cl[c].scope # run[r].stack /\ cl[c].scope # Repository
      /\ \A q \in Runs \ {r} : Working(q) => run[q].stack # run[r].stack
  BY Alone
<1>1. CASE Reconcile
  BY <1>1, <1>a DEF Reconcile, Reconciled, ReconcileFails, FailInterrupted, Ready,
     ResetAfterStartup,
     RecoverExecution, FinishLeftOver, Reconciling, StartingUp
<1>2. CASE Schedule
  <2>1. ASSUME NEW s \in Stacks, NEW q \in Runs, Admit(s, q)
        PROVE  UNCHANGED <<base, runtime>> /\ run'[r] = run[r]
    <3>1. UNCHANGED <<base, runtime>> /\ run[q].phase = "none" /\ \A p \in Runs \ {q} : run'[p] = run[p]
      BY <1>0, <2>1 DEF Admit, TypeOK
    <3>2. run[r].phase # "none"
      <4>1. CASE job[r].pc \in JobPcs
        BY <1>0, <4>1, JobFacts
      <4>2. ASSUME NEW w \in Workers, wk[w].run = r, wk[w].pc \in LockedPcs
            PROVE  run[r].phase # "none"
        <5>1. wk[w].pc \notin RestPcs
          BY <4>2 DEF LockedPcs, RestPcs
        <5>2. QED
          BY <1>0, <4>2, <5>1, WorkerFacts
      <4>3. QED
        BY <4>1, <4>2 DEF Working
    <3>3. QED
      BY <3>1, <3>2
  <2>2. CASE Fail \/ Shutdown \/ Drained
    BY <2>2 DEF Fail, Shutdown, Drained, store, runtime, Kept
  <2>3. QED
    BY <1>2, <2>1, <2>2 DEF Schedule, Kept, runtime
<1>3. ASSUME NEW w \in Workers, Check(w)
      PROVE  Kept(run[r].stack) /\ run'[r].stack = run[r].stack
  BY <1>0, <1>3, CheckFrame, CheckRows DEF Kept, runtime
<1>4. ASSUME NEW q \in Runs, Update(q)
      PROVE  Kept(run[r].stack) /\ run'[r].stack = run[r].stack
  <2>1. q # r /\ Working(q)
    BY <1>4, UpdateFrame DEF Working
  <2>2. QED
    BY <1>0, <1>a, <1>4, <2>1, UpdateKeeps, UpdateRows
<1>5. ASSUME NEW c \in Clients, Arrive(c)
      PROVE  Kept(run[r].stack) /\ run'[r].stack = run[r].stack
  BY <1>0, <1>5, ArriveKinds DEF Kept, store, runtime
<1>6. ASSUME NEW c \in Clients, Serve(c)
      PROVE  Kept(run[r].stack) /\ run'[r].stack = run[r].stack
  BY <1>a, <1>6, ServeKeeps, ServeFrame
<1>7. CASE Environment
  <2>1. ASSUME NEW s \in Stacks, Due(s)
        PROVE  Kept(run[r].stack) /\ run'[r].stack = run[r].stack
    BY <2>1 DEF Due, Kept, runtime
  <2>2. ASSUME NEW s \in Stacks, Outside(s)
        PROVE  Kept(run[r].stack) /\ run'[r].stack = run[r].stack
    BY <2>2 DEF Outside, Kept, store
  <2>3. QED
    BY <1>7, <2>1, <2>2 DEF Environment
<1>8. CASE UNCHANGED vars
  BY <1>8 DEF vars, store, runtime, Kept
<1>9. QED
  BY <1>1, <1>2, <1>3, <1>4, <1>5, <1>6, <1>7, <1>8 DEF Next

-----------------------------------------------------------------------------

\* The job has not recreated a container yet.
ReadyPcs == {"queued", "intent", "admit", "apply"}

\* The stack is what the evidence says, and no earlier update left it unproven.
ReadyOn(t, ev) ==
    /\ files[t] = ev.src.files /\ base[t].id = ev.base
    /\ External \/ gen[t] = ev.gen
    /\ ~unproven[t]

\* From the second look to ApplyUpdate: the stack is as it was looked at.
ReadyInv ==
    /\ \A w \in Workers : wk[w].pc = "start" => ReadyOn(run[wk[w].run].stack, wk[w].ev)
    /\ \A r \in Runs : job[r].pc \in ReadyPcs => ReadyOn(run[r].stack, job[r].ev)

\* An update that is about to be recorded as a success has been verified.
VerifiedInv == \A r \in Runs : job[r].pc = "complete" /\ ~job[r].failed => ~unproven[run[r].stack]

\* The three together are inductive: that no unproven stack is looked at as ready
\* needs the pause, and that the pause is missing only after a verification needs
\* what the job has verified.
SafeInv == AmbiguousUpdatePauses /\ ReadyInv /\ VerifiedInv

\* Only the second look leads to a start.
LEMMA StartedFresh ==
  ASSUME TypeOK, ControlInv, NEW w \in Workers, Check(w), wk'[w].pc = "start"
  PROVE  Fresh(w)
<1>0. wk \in [Workers -> Worker] /\ wk[w] \in Worker
  BY DEF TypeOK
<1>a. \A o \in {"skipped", "failed"} : Skip(w, o) => wk'[w].pc = "finish"
  BY <1>0, SkipGoes DEF WorkerGoes, Outcomes
<1>b. \/ wk' = [wk EXCEPT ![w] = NoWork] \/ wk' = [wk EXCEPT ![w] = [NoWork EXCEPT !.pc = "dead"]]
      => wk'[w].pc \in RestPcs
  BY RestRests DEF WorkerRests
<1>c. \A p \in CheckPcs : wk' = [wk EXCEPT ![w].pc = p] => wk'[w].pc = p
  BY PcGoes DEF WorkerGoes
<1>1. ASSUME NEW r \in Runs, Take(w, r)
      PROVE  FALSE
  BY <1>0, <1>1 DEF Take, NoWork
<1>2. ASSUME MarkChecking(w) PROVE FALSE
  BY <1>0, <1>a, <1>b, <1>c, <1>2 DEF MarkChecking, RestPcs, CheckPcs
<1>3. ASSUME MarkSkips(w) PROVE FALSE
  BY <1>0, <1>a, <1>b, <1>c, <1>3 DEF MarkSkips, RestPcs, CheckPcs
<1>4. ASSUME MarkFails(w) PROVE FALSE
  BY <1>0, <1>a, <1>b, <1>c, <1>4 DEF MarkFails, RestPcs, CheckPcs
<1>5. ASSUME Begin(w) PROVE FALSE
  BY <1>0, <1>a, <1>b, <1>c, <1>5 DEF Begin, RestPcs, CheckPcs
<1>6. ASSUME CheckFails(w) PROVE FALSE
  BY <1>0, <1>a, <1>b, <1>c, <1>6 DEF CheckFails, RestPcs, CheckPcs
<1>7. ASSUME Look(w) PROVE FALSE
  BY <1>0, <1>a, <1>b, <1>c, <1>7 DEF Look, RestPcs, CheckPcs, Worker
<1>8. ASSUME LookSkips(w) PROVE FALSE
  BY <1>0, <1>a, <1>b, <1>c, <1>8 DEF LookSkips, RestPcs, CheckPcs
<1>9. ASSUME Prepare(w) PROVE FALSE
  BY <1>0, <1>a, <1>b, <1>c, <1>9 DEF Prepare, RestPcs, CheckPcs, Worker
<1>10. ASSUME PrepareFails(w) PROVE FALSE
  BY <1>0, <1>a, <1>b, <1>c, <1>10 DEF PrepareFails, RestPcs, CheckPcs
<1>11. ASSUME Again(w) PROVE FALSE
  BY <1>0, <1>a, <1>b, <1>c, <1>11 DEF Again, RestPcs, CheckPcs
<1>12. ASSUME FreshSkips(w) PROVE FALSE
  BY <1>0, <1>a, <1>b, <1>c, <1>12 DEF FreshSkips, RestPcs, CheckPcs
<1>13. ASSUME Unchanged(w) PROVE FALSE
  BY <1>0, <1>a, <1>b, <1>c, <1>13 DEF Unchanged, RestPcs, CheckPcs
<1>14. ASSUME FinishCheck(w) PROVE FALSE
  BY <1>0, <1>a, <1>b, <1>c, <1>14 DEF FinishCheck, RestPcs, CheckPcs
<1>15. ASSUME Start(w) PROVE FALSE
  BY <1>0, <1>a, <1>b, <1>c, <1>15 DEF Start, RestPcs, CheckPcs, NoWork
<1>16. ASSUME StartFails(w) PROVE FALSE
  BY <1>0, <1>a, <1>b, <1>c, <1>16 DEF StartFails, RestPcs, CheckPcs
<1>17. ASSUME Wait(w) PROVE FALSE
  BY <1>0, <1>a, <1>b, <1>c, <1>17 DEF Wait, RestPcs, CheckPcs
<1>18. QED
  BY <1>1, <1>2, <1>3, <1>4, <1>5, <1>6, <1>7, <1>8, <1>9, <1>10, <1>11, <1>12, <1>13, <1>14,
     <1>15, <1>16, <1>17 DEF Check

\* A job that is ready after its own step was so before, on the same evidence.
LEMMA ReadyUpdate ==
  ASSUME TypeOK, NEW r \in Runs, Update(r), job'[r].pc \in ReadyPcs
  PROVE  /\ job[r].pc \in ReadyPcs /\ job'[r].ev = job[r].ev
         /\ UNCHANGED <<files, base, gen, unproven>>
<1>0. job \in [Runs -> Job]
  BY DEF TypeOK
<1>1. CASE RunJob(r)
  BY <1>0, <1>1 DEF RunJob, ReadyPcs, runtime, Job
<1>2. CASE SavePrepared(r)
  BY <1>0, <1>2 DEF SavePrepared, ReadyPcs, runtime, Job
<1>3. CASE MarkApplying(r)
  BY <1>0, <1>3 DEF MarkApplying, ReadyPcs, runtime, Job
<1>4. ASSUME RunJobFails(r) PROVE FALSE
  BY <1>0, <1>4 DEF RunJobFails, ReadyPcs, Job, NoJob
<1>5. ASSUME Discard(r) PROVE FALSE
  BY <1>0, <1>5 DEF Discard, ReadyPcs, Job, NoJob
<1>6. ASSUME Recreate(r) PROVE FALSE
  BY <1>0, <1>6 DEF Recreate, ReadyPcs, Job, NoJob
<1>7. ASSUME ApplyFails(r) PROVE FALSE
  BY <1>0, <1>7 DEF ApplyFails, ReadyPcs, Job, NoJob
<1>8. ASSUME MarkVerifying(r) PROVE FALSE
  BY <1>0, <1>8 DEF MarkVerifying, ReadyPcs, Job, NoJob
<1>9. ASSUME VerifyUpdate(r) PROVE FALSE
  BY <1>0, <1>9 DEF VerifyUpdate, ReadyPcs, Job, NoJob
<1>10. ASSUME Complete(r) PROVE FALSE
  BY <1>0, <1>10 DEF Complete, ReadyPcs, Job, NoJob
<1>11. ASSUME Close(r) PROVE FALSE
  BY <1>0, <1>11 DEF Close, ReadyPcs, Job, NoJob
<1>12. ASSUME CompleteFails(r) PROVE FALSE
  BY <1>0, <1>12 DEF CompleteFails, ReadyPcs, Job, NoJob
<1>13. QED
  BY <1>1, <1>2, <1>3, <1>4, <1>5, <1>6, <1>7, <1>8, <1>9, <1>10, <1>11, <1>12 DEF Update

\* A job that is not the one that steps stays as it is; StartTracked makes a new one.
LEMMA OtherJobs ==
  ASSUME TypeOK, ControlInv, [Next]_vars, NEW r \in Runs, ~Update(r), job'[r].pc # "none"
  PROVE  \/ job'[r] = job[r] /\ ~Crash
         \/ \E w \in Workers : Start(w) /\ wk[w].run = r
<1>0. ~Crash
  BY DEF Crash, NoJob
<1>1. CASE Reconcile
  BY <1>0, <1>1 DEF Reconcile, Reconciled, ReconcileFails, FailInterrupted, Ready,
     ResetAfterStartup,
     RecoverExecution, FinishLeftOver, actors
<1>2. CASE Schedule
  BY <1>0, <1>2 DEF Schedule, Admit, Fail, Shutdown, Drained, actors
<1>3. ASSUME NEW w \in Workers, Check(w)
      PROVE  job'[r] = job[r] \/ (Start(w) /\ wk[w].run = r)
  BY <1>3, CheckRows
<1>4. ASSUME NEW q \in Runs, Update(q)
      PROVE  job'[r] = job[r]
  BY <1>4, UpdateRows
<1>5. ASSUME NEW c \in Clients, Arrive(c) \/ Serve(c)
      PROVE  job'[r] = job[r]
  BY <1>5, ArriveKinds, ServeFrame
<1>6. CASE Environment
  BY <1>0, <1>6 DEF Environment, Due, Outside, actors
<1>7. CASE UNCHANGED vars
  BY <1>0, <1>7 DEF vars, actors
<1>8. QED
  BY <1>0, <1>1, <1>2, <1>3, <1>4, <1>5, <1>6, <1>7 DEF Next

\* A worker that is ready to start its job has just looked, or stays as it is.
LEMMA OtherWorkers ==
  ASSUME TypeOK, ControlInv, [Next]_vars, NEW w \in Workers, wk'[w].pc = "start"
  PROVE  Fresh(w) \/ (wk'[w] = wk[w] /\ ~Crash)
<1>0. ~Crash
  <2>1. NoWork.pc = "idle"
    BY DEF NoWork
  <2>2. QED
    BY <2>1 DEF Crash
<1>1. CASE Reconcile
  BY <1>0, <1>1 DEF Reconcile, Reconciled, ReconcileFails, FailInterrupted, Ready,
     ResetAfterStartup,
     RecoverExecution, FinishLeftOver, actors
<1>2. CASE Schedule
  BY <1>0, <1>2 DEF Schedule, Admit, Fail, Shutdown, Drained, actors
<1>3. ASSUME NEW v \in Workers, Check(v)
      PROVE  Fresh(w) \/ wk'[w] = wk[w]
  BY <1>3, CheckRows, StartedFresh
<1>4. ASSUME NEW q \in Runs, Update(q)
      PROVE  wk'[w] = wk[w]
  BY <1>4, UpdateFrame
<1>5. ASSUME NEW c \in Clients, Arrive(c) \/ Serve(c)
      PROVE  wk'[w] = wk[w]
  BY <1>5, ArriveKinds, ServeFrame
<1>6. CASE Environment
  BY <1>0, <1>6 DEF Environment, Due, Outside, actors
<1>7. CASE UNCHANGED vars
  BY <1>0, <1>7 DEF vars, actors
<1>8. QED
  BY <1>0, <1>1, <1>2, <1>3, <1>4, <1>5, <1>6, <1>7 DEF Next

\* The second look establishes what the update relies on: the policy is not
\* paused, so no earlier update of the stack is unproven.
LEMMA FreshReady ==
  ASSUME TypeOK, ControlInv, AmbiguousUpdatePauses, NEW w \in Workers, Fresh(w)
  PROVE  ReadyOn(run[wk[w].run].stack, wk[w].ev)
<1>. DEFINE r == wk[w].run
            t == run[r].stack
<1>1. wk[w].pc = "fresh" /\ wk[w].pc \notin RestPcs
  BY DEF Fresh, RestPcs
<1>2. r \in Runs /\ t \in Stacks
  BY <1>1, WorkerFacts
<1>3. run[r].phase = "checking" /\ exec[r].phase = "none"
  BY <1>1 DEF ControlInv, WorkerInv, CheckPcs
<1>4. wk[w].ev = EvidenceOf(t) /\ ~pol[t].paused
  BY DEF Fresh, SameEvidence, Eligible, Allowed
<1>5. ~unproven[t]
  <2>1. ASSUME NEW q \in Runs, run[q].stack = t, exec[q].phase \in MutationPhases
        PROVE  FALSE
    <3>1. run[q].phase \in LivePhases /\ run[r].phase \in LivePhases
      BY <1>3, <2>1 DEF ControlInv, ExecInv, PendingExec, ExecPhases, MutationPhases, LivePhases
    <3>2. q = r
      BY <1>2, <2>1, <3>1 DEF ControlInv, OneLive
    <3>3. QED
      BY <1>3, <2>1, <3>2 DEF MutationPhases
  <2>2. QED
    BY <1>2, <1>4, <2>1 DEF AmbiguousUpdatePauses
<1>6. wk[w].ev.src.files = files[t] /\ wk[w].ev.base = base[t].id /\ wk[w].ev.gen = gen[t]
  BY <1>4 DEF EvidenceOf, SourceOf
<1>7. QED
  BY <1>5, <1>6 DEF ReadyOn

\* What was looked at stays as it was, until the job itself changes it.
LEMMA ReadyNext ==
  ASSUME IInv, LockInv, SafeInv, [Next]_vars
  PROVE  ReadyInv'
<1>0. TypeOK /\ ControlInv /\ AmbiguousUpdatePauses /\ ReadyInv
  BY DEF IInv, SafeInv
<1>1. ASSUME NEW w \in Workers, wk'[w].pc = "start"
      PROVE  ReadyOn(run[wk[w].run].stack, wk[w].ev)'
  <2>1. CASE Fresh(w)
    <3>1. UNCHANGED <<run, files, base, gen, unproven>>
      BY <2>1 DEF Fresh, store, runtime
    <3>2. wk'[w].run = wk[w].run /\ wk'[w].ev = wk[w].ev
      BY <1>0, <2>1 DEF Fresh, TypeOK, Worker
    <3>3. QED
      BY <1>0, <2>1, <3>1, <3>2, FreshReady DEF ReadyOn
  <2>2. CASE wk'[w] = wk[w] /\ ~Crash
    <3>1. PICK r \in Runs : r = wk[w].run
      BY <1>0, <1>1, <2>2 DEF ControlInv, WorkerInv, RestPcs
    <3>2. Working(r) /\ job[r].pc = "none"
      BY <1>0, <1>1, <2>2, <3>1 DEF Working, LockedPcs, ControlInv, WorkerInv, CheckPcs
    <3>3. ~Update(r)
      BY <3>2, UpdateFrame DEF JobPcs
    <3>4. Kept(run[r].stack) /\ run'[r].stack = run[r].stack
      BY <2>2, <3>2, <3>3, Undisturbed
    <3>5. ReadyOn(run[r].stack, wk[w].ev)
      BY <1>0, <1>1, <2>2, <3>1 DEF ReadyInv
    <3>6. QED
      BY <2>2, <3>1, <3>4, <3>5 DEF ReadyOn, Kept
  <2>3. QED
    BY <1>0, <1>1, <2>1, <2>2, OtherWorkers
<1>2. ASSUME NEW r \in Runs, job'[r].pc \in ReadyPcs
      PROVE  ReadyOn(run[r].stack, job[r].ev)'
  <2>1. CASE Update(r)
    BY <1>0, <1>2, <2>1, ReadyUpdate, UpdateRows DEF ReadyInv, ReadyOn
  <2>2. ASSUME NEW w \in Workers, Start(w), wk[w].run = r
        PROVE  ReadyOn(run[r].stack, job[r].ev)'
    <3>1. /\ UNCHANGED <<run, files, base, gen, unproven>> /\ job'[r].ev = wk[w].ev
          /\ wk[w].pc = "start"
      BY <1>0, <2>2 DEF Start, runtime, TypeOK, NoJob
    <3>2. QED
      BY <1>0, <2>2, <3>1 DEF ReadyInv, ReadyOn
  <2>3. CASE job'[r] = job[r] /\ ~Crash /\ ~Update(r)
    <3>1. Working(r)
      BY <1>2, <2>3 DEF Working, ReadyPcs, JobPcs
    <3>2. Kept(run[r].stack) /\ run'[r].stack = run[r].stack
      BY <2>3, <3>1, Undisturbed
    <3>3. ReadyOn(run[r].stack, job[r].ev)
      BY <1>0, <1>2, <2>3 DEF ReadyInv
    <3>4. QED
      BY <2>3, <3>2, <3>3 DEF ReadyOn, Kept
  <2>4. job'[r].pc # "none"
    BY <1>2 DEF ReadyPcs
  <2>5. QED
    BY <1>0, <2>1, <2>2, <2>3, <2>4, OtherJobs
<1>3. QED
  BY <1>1, <1>2 DEF ReadyInv

\* Verified containers stay verified until the outcome is committed.
LEMMA VerifiedNext ==
  ASSUME IInv, LockInv, SafeInv, [Next]_vars
  PROVE  VerifiedInv'
<1>0. TypeOK /\ ControlInv /\ VerifiedInv
  BY DEF IInv, SafeInv
<1>. SUFFICES ASSUME NEW r \in Runs, job'[r].pc = "complete", ~job'[r].failed
              PROVE  ~unproven'[run'[r].stack]
  BY DEF VerifiedInv
<1>a. job \in [Runs -> Job] /\ job[r] \in Job
  BY <1>0 DEF TypeOK
<1>1. CASE Update(r)
  <2>1. VerifyUpdate(r)
    <3>1. ASSUME RunJob(r) PROVE FALSE
      BY <1>a, <3>1 DEF RunJob, Job, NoJob
    <3>2. ASSUME RunJobFails(r) PROVE FALSE
      BY <1>a, <3>2 DEF RunJobFails, Job, NoJob
    <3>3. ASSUME SavePrepared(r) PROVE FALSE
      BY <1>a, <3>3 DEF SavePrepared, Job, NoJob
    <3>4. ASSUME MarkApplying(r) PROVE FALSE
      BY <1>a, <3>4 DEF MarkApplying, Job, NoJob
    <3>5. ASSUME Discard(r) PROVE FALSE
      BY <1>a, <3>5 DEF Discard, Job, NoJob
    <3>6. ASSUME Recreate(r) PROVE FALSE
      BY <1>a, <3>6 DEF Recreate, Job, NoJob
    <3>7. ASSUME ApplyFails(r) PROVE FALSE
      BY <1>a, <3>7 DEF ApplyFails, Job, NoJob
    <3>8. ASSUME MarkVerifying(r) PROVE FALSE
      BY <1>a, <3>8 DEF MarkVerifying, Job, NoJob
    <3>9. ASSUME Complete(r) PROVE FALSE
      BY <1>a, <3>9 DEF Complete, Job, NoJob
    <3>10. ASSUME Close(r) PROVE FALSE
      BY <1>a, <3>10 DEF Close, Job, NoJob
    <3>11. ASSUME CompleteFails(r) PROVE FALSE
      BY <1>a, <3>11 DEF CompleteFails, Job, NoJob
    <3>12. QED
      BY <1>1, <3>1, <3>2, <3>3, <3>4, <3>5, <3>6, <3>7, <3>8, <3>9, <3>10, <3>11 DEF Update
  <2>2. run' = run /\ job[r].pc \in JobPcs
    BY <2>1 DEF VerifyUpdate, store, JobPcs
  <2>3. run[r].stack \in Stacks
    BY <1>0, <2>2, JobFacts
  <2>4. unproven' = [unproven EXCEPT ![run[r].stack] = FALSE]
    BY <1>a, <2>1 DEF VerifyUpdate, Job
  <2>5. QED
    BY <1>0, <2>2, <2>3, <2>4 DEF TypeOK
<1>2. CASE ~Update(r)
  <2>1. job'[r].pc # "none"
    OBVIOUS
  <2>2. ASSUME NEW w \in Workers, Start(w), wk[w].run = r
        PROVE  FALSE
    BY <1>a, <2>2 DEF Start, NoJob
  <2>3. job'[r] = job[r] /\ ~Crash
    BY <1>0, <1>2, <2>1, <2>2, OtherJobs
  <2>4. Working(r)
    BY <2>3 DEF Working, JobPcs
  <2>5. Kept(run[r].stack) /\ run'[r].stack = run[r].stack
    BY <1>2, <2>3, <2>4, Undisturbed
  <2>6. QED
    BY <1>0, <2>3, <2>5 DEF VerifiedInv, Kept
<1>3. QED
  BY <1>1, <1>2

-----------------------------------------------------------------------------

\* A step that makes no stack unproven, and lets neither a pause nor a mutating
\* execution of an unproven stack disappear.
LEMMA AmbiguousKeeps ==
  ASSUME ControlInv, AmbiguousUpdatePauses,
         \A t \in Stacks : unproven'[t] => unproven[t],
         \A t \in Stacks : unproven'[t] /\ pol[t].paused => pol'[t].paused,
         \A r \in Runs : exec[r].phase \in MutationPhases /\ run[r].stack \in Stacks =>
            \/ exec'[r].phase \in MutationPhases /\ run'[r].stack = run[r].stack
            \/ pol'[run[r].stack].paused
            \/ ~unproven'[run[r].stack]
  PROVE  AmbiguousUpdatePauses'
  BY DEF AmbiguousUpdatePauses

\* Policies that a step does not resume stay paused.
LEMMA PolicyPauses ==
  ASSUME NEW p \in PolicyRow
  PROVE  /\ \A b \in BOOLEAN : SavedPolicy(p, b).paused = p.paused
         /\ PausedPolicy(p).paused = TRUE
         /\ ResetPolicy(p).paused = p.paused
         /\ \A b \in BOOLEAN : [p EXCEPT !.due = b].paused = p.paused
  BY DEF PolicyRow, SavedPolicy, PausedPolicy, ResetPolicy

\* Start-up drops no unproven mutation: RecoverExecution pauses for each.
LEMMA AmbiguousReconcile ==
  ASSUME TypeOK, ControlInv, AmbiguousUpdatePauses, Reconcile
  PROVE  AmbiguousUpdatePauses'
<1>a. /\ pol \in [Stacks -> PolicyRow] /\ run \in [Runs -> RunRow] /\ exec \in [Runs -> ExecRow]
  BY DEF TypeOK
<1>1. CASE Reconciled \/ ReconcileFails \/ FailInterrupted \/ Ready
  <2>1. UNCHANGED <<pol, run, exec, unproven>>
    BY <1>1 DEF Reconciled, ReconcileFails, FailInterrupted, Ready, store, runtime
  <2>2. QED
    BY <2>1, AmbiguousKeeps
<1>2. CASE ResetAfterStartup
  <2>1. UNCHANGED <<run, exec, unproven>> /\ \A t \in Stacks : pol'[t].paused = pol[t].paused
    BY <1>2, <1>a, PolicyPauses DEF ResetAfterStartup, runtime
  <2>2. QED
    BY <2>1, AmbiguousKeeps
<1>3. ASSUME NEW r \in Runs, RecoverExecution(r)
      PROVE  AmbiguousUpdatePauses'
  <2>1. /\ unproven' = unproven
        /\ \A q \in Runs \ {r} : run'[q] = run[q] /\ exec'[q] = exec[q]
    BY <1>3, <1>a DEF RecoverExecution, runtime
  <2>2. \A t \in Stacks : PausedPolicy(pol[t]).paused = TRUE
    BY <1>a, PolicyPauses
  <2>3. PICK s : s = run[r].stack
    OBVIOUS
  <2>4. CASE exec[r].phase \in MutationPhases
    <3>1. pol' = [pol EXCEPT ![s] = PausedPolicy(@)]
      BY <1>3, <2>3, <2>4 DEF RecoverExecution, RecoveryPauses
    <3>2. \A t \in Stacks : pol'[t] = IF t = s THEN PausedPolicy(pol[t]) ELSE pol[t]
      BY <1>a, <3>1
    <3>3. \A t \in Stacks : (pol[t].paused => pol'[t].paused) /\ (t = s => pol'[t].paused)
      BY <2>2, <3>2
    <3>4. QED
      BY <2>1, <2>3, <3>3, AmbiguousKeeps
  <2>5. CASE exec[r].phase \notin MutationPhases
    <3>1. pol' = pol
      BY <1>3, <2>5 DEF RecoverExecution, RecoveryPauses
    <3>2. QED
      BY <2>1, <2>5, <3>1, AmbiguousKeeps
  <2>6. QED
    BY <2>4, <2>5
<1>4. ASSUME NEW r \in Runs, FinishLeftOver(r)
      PROVE  AmbiguousUpdatePauses'
  <2>1. UNCHANGED <<pol, unproven>> /\ exec[r].phase \notin MutationPhases
    BY <1>4 DEF FinishLeftOver, runtime, PendingExecutions, PendingExec, ExecPhases,
       MutationPhases
  <2>2. \A q \in Runs \ {r} : run'[q] = run[q] /\ exec'[q] = exec[q]
    BY <1>4, FinishRows DEF FinishLeftOver, Outcomes
  <2>3. QED
    BY <2>1, <2>2, AmbiguousKeeps
<1>5. QED
  BY <1>1, <1>2, <1>3, <1>4 DEF Reconcile

\* The scheduler touches neither pauses nor executions.
LEMMA AmbiguousSchedule ==
  ASSUME TypeOK, ControlInv, AmbiguousUpdatePauses, Schedule
  PROVE  AmbiguousUpdatePauses'
<1>a. pol \in [Stacks -> PolicyRow] /\ run \in [Runs -> RunRow]
  BY DEF TypeOK
<1>1. ASSUME NEW s \in Stacks, NEW r \in Runs, Admit(s, r)
      PROVE  AmbiguousUpdatePauses'
  <2>1. /\ UNCHANGED <<exec, unproven>> /\ run[r].phase = "none"
        /\ pol' = [pol EXCEPT ![s] = [@ EXCEPT !.due = FALSE]]
        /\ \A q \in Runs \ {r} : run'[q] = run[q]
    BY <1>1, <1>a DEF Admit, runtime
  <2>2. exec[r].phase = "none"
    BY <2>1 DEF ControlInv, RunInv
  <2>3. \A t \in Stacks : pol'[t].paused = pol[t].paused
    BY <1>a, <2>1, PolicyPauses
  <2>4. QED
    BY <2>1, <2>2, <2>3, AmbiguousKeeps DEF MutationPhases
<1>2. CASE Fail \/ Shutdown \/ Drained
  <2>1. UNCHANGED <<pol, run, exec, unproven>>
    BY <1>2 DEF Fail, Shutdown, Drained, store, runtime
  <2>2. QED
    BY <2>1, AmbiguousKeeps
<1>3. QED
  BY <1>1, <1>2 DEF Schedule

\* A worker ends no mutation.
LEMMA CheckExec ==
  ASSUME TypeOK, ControlInv, NEW w \in Workers, Check(w)
  PROVE  \A r \in Runs : exec'[r].phase = exec[r].phase
<1>1. CASE Walks(w) \/ Quits(w)
  BY <1>1 DEF Walks, Quits
<1>2. CASE Ends(w)
  <2>1. wk[w].run \in Runs /\ exec[wk[w].run].phase = "none"
    BY <1>2 DEF Ends, ControlInv, WorkerInv, CheckPcs, RestPcs
  <2>2. QED
    BY <1>2, <2>1, FinishRows DEF Ends
<1>3. CASE MarkChecking(w)
  BY <1>3 DEF MarkChecking
<1>4. CASE Start(w)
  BY <1>4 DEF Start
<1>5. ASSUME NEW r \in Runs, Take(w, r)
      PROVE  exec' = exec
  BY <1>5 DEF Take, store
<1>6. QED
  BY <1>1, <1>2, <1>3, <1>4, <1>5, CheckKinds

\* A job makes its stack unproven under an execution in a mutation phase, which it
\* ends only with a verification or a pause.
LEMMA AmbiguousUpdate ==
  ASSUME TypeOK, ControlInv, AmbiguousUpdatePauses, VerifiedInv, NEW r \in Runs, Update(r)
  PROVE  AmbiguousUpdatePauses'
<1>a. /\ pol \in [Stacks -> PolicyRow] /\ exec \in [Runs -> ExecRow] /\ unproven \in [Stacks -> BOOLEAN]
      /\ run[r].stack \in Stacks /\ job[r] \in Job
  BY UpdateFrame, JobFacts DEF TypeOK
<1>b. /\ \A q \in Runs : run'[q].stack = run[q].stack
      /\ \A q \in Runs \ {r} : exec'[q] = exec[q]
  BY UpdateRows
<1>1. CASE Recreate(r)
  <2>1. /\ UNCHANGED <<pol, run, exec>> /\ unproven' = [unproven EXCEPT ![run[r].stack] = TRUE]
        /\ job[r].pc = "apply"
    BY <1>1 DEF Recreate, store
  <2>2. exec[r].phase \in MutationPhases
    BY <2>1 DEF ControlInv, JobInv
  <2>3. QED
    BY <1>a, <2>1, <2>2 DEF AmbiguousUpdatePauses
<1>2. CASE VerifyUpdate(r)
  <2>1. UNCHANGED <<pol, run, exec>>
    BY <1>2 DEF VerifyUpdate, store
  <2>2. \A t \in Stacks : unproven'[t] => unproven[t]
    BY <1>a, <1>2 DEF VerifyUpdate
  <2>3. QED
    BY <2>1, <2>2, AmbiguousKeeps
<1>3. CASE Complete(r)
  <2>1. unproven' = unproven /\ job[r].pc = "complete"
    BY <1>3 DEF Complete, runtime
  <2>2. CASE job[r].failed
    <3>1. pol' = [pol EXCEPT ![run[r].stack] = PausedPolicy(@)]
      BY <1>a, <1>3, <2>2 DEF Complete
    <3>2. pol'[run[r].stack].paused /\ \A t \in Stacks : pol[t].paused => pol'[t].paused
      BY <1>a, <3>1, PolicyPauses
    <3>3. QED
      BY <1>b, <2>1, <3>2, AmbiguousKeeps
  <2>3. CASE ~job[r].failed
    <3>1. pol' = pol
      BY <1>a, <1>3, <2>3 DEF Complete
    <3>2. ~unproven[run[r].stack]
      BY <2>1, <2>3 DEF VerifiedInv
    <3>3. QED
      BY <1>b, <2>1, <3>1, <3>2, AmbiguousKeeps
  <2>4. QED
    BY <2>2, <2>3
<1>4. CASE RunJob(r) \/ RunJobFails(r) \/ ApplyFails(r) \/ Close(r) \/ CompleteFails(r)
  <2>1. UNCHANGED <<pol, run, exec, unproven>>
    BY <1>4 DEF RunJob, RunJobFails, ApplyFails, Close, CompleteFails, store, runtime
  <2>2. QED
    BY <2>1, AmbiguousKeeps
<1>5. CASE SavePrepared(r) \/ Discard(r)
  <2>1. UNCHANGED <<pol, unproven>> /\ job[r].pc \in {"intent", "admit"}
    BY <1>5 DEF SavePrepared, Discard, runtime
  <2>2. exec[r].phase \notin MutationPhases
    BY <2>1 DEF ControlInv, JobInv, MutationPhases
  <2>3. QED
    BY <1>b, <2>1, <2>2, AmbiguousKeeps
<1>6. CASE MarkApplying(r) \/ MarkVerifying(r)
  <2>1. UNCHANGED <<pol, unproven>>
    BY <1>6 DEF MarkApplying, MarkVerifying, runtime
  <2>2. exec'[r].phase \in {exec[r].phase} \cup MutationPhases
    BY <1>a, <1>6 DEF MarkApplying, MarkVerifying, ExecRow, MutationPhases
  <2>3. QED
    BY <1>b, <2>1, <2>2, AmbiguousKeeps
<1>7. QED
  BY <1>1, <1>2, <1>3, <1>4, <1>5, <1>6 DEF Update

\* A request only ends a pause when it has verified the stack.
LEMMA ServePauses ==
  ASSUME TypeOK, ClientInv, NEW c \in Clients, Serve(c)
  PROVE  /\ \A t \in Stacks : unproven'[t] => unproven[t]
         /\ \A t \in Stacks : unproven'[t] /\ pol[t].paused => pol'[t].paused
         /\ \A t \in Stacks : pol[t].paused => pol'[t].paused \/ (cl[c].pc = "verified" /\ cl[c].stack = t)
<1>a. pol \in [Stacks -> PolicyRow] /\ unproven \in [Stacks -> BOOLEAN] /\ cl[c] \in Client
  BY DEF TypeOK
<1>1. CASE SavePolicy(c)
  <2>1. unproven' = unproven /\ pol' = [pol EXCEPT ![cl[c].stack] = SavedPolicy(@, cl[c].flag)]
    BY <1>1 DEF SavePolicy, runtime
  <2>2. cl[c].flag \in BOOLEAN
    BY <1>a DEF Client
  <2>3. \A t \in Stacks : SavedPolicy(pol[t], cl[c].flag).paused = pol[t].paused
    BY <1>a, <2>2, PolicyPauses
  <2>4. \A t \in Stacks :
           pol'[t] = IF t = cl[c].stack THEN SavedPolicy(pol[t], cl[c].flag) ELSE pol[t]
    BY <1>a, <2>1
  <2>5. QED
    BY <2>1, <2>3, <2>4
<1>2. CASE ResumePolicy(c)
  <2>1. /\ cl[c].pc = "verified"
        /\ pol' = [pol EXCEPT ![cl[c].stack] = ResumedPolicy(@)]
        /\ unproven' = [unproven EXCEPT ![cl[c].stack] = FALSE]
    BY <1>2 DEF ResumePolicy
  <2>2. QED
    BY <1>a, <2>1
<1>3. CASE Deploy(c)
  <2>1. /\ pol' = pol
        /\ \/ unproven' = unproven
           \/ \E ok \in BOOLEAN : unproven' = [unproven EXCEPT ![cl[c].stack] = @ /\ ~ok]
    BY <1>3 DEF Deploy, store
  <2>2. QED
    BY <1>a, <2>1
<1>4. CASE DeleteStack(c)
  <2>1. /\ pol' = pol
        /\ \E down \in BOOLEAN : unproven' = [unproven EXCEPT ![cl[c].stack] = @ /\ ~down]
    BY <1>4 DEF DeleteStack, store
  <2>2. QED
    BY <1>a, <2>1
<1>5. CASE VerifyResume(c) \/ SaveDeployment(c) \/ ClientFails(c) \/ Leave(c)
  BY <1>5 DEF VerifyResume, SaveDeployment, ClientFails, Leave, store, runtime
<1>6. CASE ChangeRuntime(c) \/ WriteFile(c) \/ CommitStack(c) \/ RepositoryAction(c)
  BY <1>6 DEF ChangeRuntime, WriteFile, CommitStack, RepositoryAction, store
<1>7. QED
  BY <1>1, <1>2, <1>3, <1>4, <1>5, <1>6 DEF Serve

\* An unproven stack stays paused or answered for by an execution.
LEMMA AmbiguousNext ==
  ASSUME IInv, SafeInv, [Next]_vars
  PROVE  AmbiguousUpdatePauses'
<1>0. TypeOK /\ ControlInv /\ ClientInv /\ AmbiguousUpdatePauses /\ VerifiedInv
  BY DEF IInv, SafeInv
<1>a. pol \in [Stacks -> PolicyRow]
  BY <1>0 DEF TypeOK
<1>1. CASE Reconcile
  BY <1>0, <1>1, AmbiguousReconcile
<1>2. CASE Schedule
  BY <1>0, <1>2, AmbiguousSchedule
<1>3. ASSUME NEW w \in Workers, Check(w)
      PROVE  AmbiguousUpdatePauses'
  <2>1. UNCHANGED <<pol, unproven>>
    BY <1>3, CheckFrame DEF runtime
  <2>2. \A r \in Runs : exec'[r].phase = exec[r].phase /\ run'[r].stack = run[r].stack
    BY <1>0, <1>3, CheckExec, CheckRows
  <2>3. QED
    BY <1>0, <2>1, <2>2, AmbiguousKeeps
<1>4. ASSUME NEW r \in Runs, Update(r)
      PROVE  AmbiguousUpdatePauses'
  BY <1>0, <1>4, AmbiguousUpdate
<1>5. ASSUME NEW c \in Clients, Arrive(c)
      PROVE  AmbiguousUpdatePauses'
  <2>1. UNCHANGED <<pol, run, exec, unproven>>
    BY <1>0, <1>5, ArriveKinds DEF store, runtime
  <2>2. QED
    BY <1>0, <2>1, AmbiguousKeeps
<1>6. ASSUME NEW c \in Clients, Serve(c)
      PROVE  AmbiguousUpdatePauses'
  BY <1>0, <1>6, ServePauses, ServeFrame, AmbiguousKeeps
<1>7. CASE Environment
  <2>1. ASSUME NEW s \in Stacks, Due(s)
        PROVE  AmbiguousUpdatePauses'
    <3>1. UNCHANGED <<run, exec, unproven>> /\ pol' = [pol EXCEPT ![s] = [@ EXCEPT !.due = TRUE]]
      BY <1>a, <2>1 DEF Due, runtime
    <3>2. \A t \in Stacks : pol'[t].paused = pol[t].paused
      BY <1>a, <3>1, PolicyPauses
    <3>3. QED
      BY <1>0, <3>1, <3>2, AmbiguousKeeps
  <2>2. CASE Crash \/ \E s \in Stacks : Outside(s)
    <3>1. UNCHANGED <<pol, run, exec, unproven>>
      BY <2>2 DEF Crash, Outside, store, runtime
    <3>2. QED
      BY <1>0, <3>1, AmbiguousKeeps
  <2>3. QED
    BY <1>7, <2>1, <2>2 DEF Environment
<1>8. CASE UNCHANGED vars
  BY <1>0, <1>8, AmbiguousKeeps DEF vars, store, runtime
<1>9. QED
  BY <1>1, <1>2, <1>3, <1>4, <1>5, <1>6, <1>7, <1>8 DEF Next

\* At first nothing is unproven and nothing under way.
LEMMA InitSafe == Init => SafeInv
<1>. SUFFICES ASSUME Init
              PROVE  SafeInv
  OBVIOUS
<1>1. /\ \A r \in Runs : job[r].pc = "none"
      /\ \A w \in Workers : wk[w].pc = "idle"
      /\ \A t \in Stacks : ~unproven[t]
  BY DEF Init, NoJob, NoWork
<1>2. QED
  BY <1>1 DEF SafeInv, AmbiguousUpdatePauses, ReadyInv, VerifiedInv, ReadyPcs

\* SafeInv holds, on top of the control invariant and of exclusion.
LEMMA SafeInvariant == Spec => []SafeInv
<1>1. IInv /\ LockInv /\ SafeInv /\ [Next]_vars => SafeInv'
  BY AmbiguousNext, ReadyNext, VerifiedNext DEF SafeInv
<1>2. QED
  BY <1>1, InitSafe, InvariantHolds, LockInvariant, PTL DEF Spec

\* docs/operator-guide.md, "Failure and recovery": containers that an update has
\* recreated and not verified leave the policy paused, or an execution on record in a
\* mutation phase, for any number of crashes and lost outcomes.
THEOREM AmbiguityPauses == Spec => []AmbiguousUpdatePauses
<1>1. SafeInv => AmbiguousUpdatePauses
  BY DEF SafeInv
<1>2. QED
  BY <1>1, SafeInvariant, PTL

\* No job goes on to ApplyUpdate on containers that an earlier update left unproven.
THEOREM NoRetryOnUnproven == Spec => []NoUpdateOnUnproven
<1>1. SafeInv => NoUpdateOnUnproven
  BY DEF SafeInv, ReadyInv, ReadyOn, ReadyPcs, NoUpdateOnUnproven
<1>2. QED
  BY <1>1, SafeInvariant, PTL

\* ApplyUpdate starts from the files, the environment, the deployment and the
\* containers that the first look of CheckAndUpdate saw, although the lock was free
\* during the image check.
THEOREM AppliesPrepared == Spec => []AppliesWhatItPrepared
<1>1. SafeInv => AppliesWhatItPrepared
  BY DEF SafeInv, ReadyInv, ReadyOn, ReadyPcs, AppliesWhatItPrepared
<1>2. QED
  BY <1>1, SafeInvariant, PTL

-----------------------------------------------------------------------------

\* Whatever changes a policy keeps its pause, the commit of a Resume apart.
LEMMA PausesNext ==
  ASSUME IInv, [Next]_vars
  PROVE  \A t \in Stacks : pol[t].paused => pol'[t].paused
            \/ \E c \in Clients : cl[c].pc = "verified" /\ cl[c].stack = t
<1>0. TypeOK /\ ControlInv /\ ClientInv
  BY DEF IInv
<1>a. pol \in [Stacks -> PolicyRow]
  BY <1>0 DEF TypeOK
<1>b. \A t \in Stacks : PausedPolicy(pol[t]).paused = TRUE
  BY <1>a, PolicyPauses
<1>1. CASE Reconcile
  <2>1. CASE Reconciled \/ ReconcileFails \/ FailInterrupted \/ Ready
    BY <2>1 DEF Reconciled, ReconcileFails, FailInterrupted, Ready, store
  <2>2. CASE ResetAfterStartup
    <3>1. pol' = pol \/ \A t \in Stacks : pol'[t] = ResetPolicy(pol[t])
      BY <2>2 DEF ResetAfterStartup
    <3>2. \A t \in Stacks : ResetPolicy(pol[t]).paused = pol[t].paused
      BY <1>a, PolicyPauses
    <3>3. QED
      BY <3>1, <3>2
  <2>3. ASSUME NEW r \in Runs, RecoverExecution(r)
        PROVE  \A t \in Stacks : pol[t].paused => pol'[t].paused
    <3>1. PICK s : s = run[r].stack
      OBVIOUS
    <3>2. pol' = pol \/ pol' = [pol EXCEPT ![s] = PausedPolicy(@)]
      BY <2>3, <3>1 DEF RecoverExecution
    <3>3. \A t \in Stacks : pol'[t] = pol[t] \/ pol'[t] = PausedPolicy(pol[t])
      BY <1>a, <3>2
    <3>4. QED
      BY <1>b, <3>3
  <2>4. ASSUME NEW r \in Runs, FinishLeftOver(r)
        PROVE  pol' = pol
    BY <2>4 DEF FinishLeftOver
  <2>5. QED
    BY <1>1, <2>1, <2>2, <2>3, <2>4 DEF Reconcile
<1>2. CASE Schedule
  <2>1. ASSUME NEW s \in Stacks, NEW r \in Runs, Admit(s, r)
        PROVE  \A t \in Stacks : pol'[t].paused = pol[t].paused
    BY <1>a, <2>1, PolicyPauses DEF Admit
  <2>2. CASE Fail \/ Shutdown \/ Drained
    BY <2>2 DEF Fail, Shutdown, Drained, store
  <2>3. QED
    BY <1>2, <2>1, <2>2 DEF Schedule
<1>3. ASSUME NEW w \in Workers, Check(w)
      PROVE  pol' = pol
  BY <1>3, CheckFrame
<1>4. ASSUME NEW r \in Runs, Update(r)
      PROVE  \A t \in Stacks : pol[t].paused => pol'[t].paused
  <2>1. CASE Complete(r)
    <3>1. run[r].stack \in Stacks
      BY <1>0, <1>4, UpdateFrame, JobFacts
    <3>2. \A t \in Stacks : pol'[t] = pol[t] \/ pol'[t] = PausedPolicy(pol[t])
      BY <1>a, <2>1, <3>1 DEF Complete
    <3>3. QED
      BY <1>b, <3>2
  <2>2. CASE RunJob(r) \/ RunJobFails(r) \/ SavePrepared(r) \/ MarkApplying(r) \/ Discard(r)
    BY <2>2 DEF RunJob, RunJobFails, SavePrepared, MarkApplying, Discard, store
  <2>3. CASE Recreate(r) \/ ApplyFails(r) \/ MarkVerifying(r) \/ VerifyUpdate(r) \/ Close(r)
             \/ CompleteFails(r)
    BY <2>3 DEF Recreate, ApplyFails, MarkVerifying, VerifyUpdate, Close, CompleteFails, store
  <2>4. QED
    BY <1>4, <2>1, <2>2, <2>3 DEF Update
<1>5. ASSUME NEW c \in Clients, Arrive(c)
      PROVE  pol' = pol
  BY <1>0, <1>5, ArriveKinds DEF store
<1>6. ASSUME NEW c \in Clients, Serve(c)
      PROVE  \A t \in Stacks : pol[t].paused => pol'[t].paused
                \/ (cl[c].pc = "verified" /\ cl[c].stack = t)
  BY <1>0, <1>6, ServePauses
<1>7. CASE Environment
  <2>1. ASSUME NEW s \in Stacks, Due(s)
        PROVE  \A t \in Stacks : pol'[t].paused = pol[t].paused
    BY <1>a, <2>1, PolicyPauses DEF Due
  <2>2. CASE Crash \/ \E s \in Stacks : Outside(s)
    BY <2>2 DEF Crash, Outside, store
  <2>3. QED
    BY <1>7, <2>1, <2>2 DEF Environment
<1>8. CASE UNCHANGED vars
  BY <1>8 DEF vars, store
<1>9. QED
  BY <1>1, <1>2, <1>3, <1>4, <1>5, <1>6, <1>7, <1>8 DEF Next

\* A recovery pause ends only by the commit of an explicit Resume (ResumePolicy in
\* ResumeAutoUpdate): no save of the policy, run, recovery or restart ends it.
THEOREM PauseNeedsResume == Spec => PauseEndsByResume
<1>1. IInv /\ [Next]_vars =>
         [\A s \in Stacks : pol[s].paused => pol'[s].paused
             \/ \E c \in Clients : cl[c].pc = "verified" /\ cl[c].stack = s]_vars
  BY PausesNext
<1>2. QED
  BY <1>1, InvariantHolds, PTL DEF Spec, PauseEndsByResume

-----------------------------------------------------------------------------

\* What OutcomeIsHonest says of one run.
Honest(r) ==
    run[r].phase # "terminal" /\ run'[r].phase = "terminal" =>
       IF exec[r].phase \in MutationPhases
       THEN run'[r].outcome = "updated" \/ (run'[r].outcome = "failed" /\ pol'[run[r].stack].paused)
       ELSE job[r].pc \notin {"apply", "record", "verify", "complete"}

\* A run whose execution mutates nothing may end in any way: its job is not
\* inside a mutation.
LEMMA HonestWithout ==
  ASSUME ControlInv, NEW r \in Runs, exec[r].phase \notin MutationPhases
  PROVE  Honest(r)
  BY DEF Honest, ControlInv, JobInv

\* Recovery ends a mutation as failed, with a pause.
LEMMA HonestReconcile ==
  ASSUME TypeOK, ControlInv, Reconcile, NEW r \in Runs
  PROVE  Honest(r)
<1>a. /\ pol \in [Stacks -> PolicyRow] /\ run \in [Runs -> RunRow]
  BY DEF TypeOK
<1>1. CASE Reconciled \/ ReconcileFails \/ FailInterrupted \/ Ready \/ ResetAfterStartup
  BY <1>1 DEF Reconciled, ReconcileFails, FailInterrupted, Ready, ResetAfterStartup, store, Honest
<1>2. ASSUME NEW q \in Runs, RecoverExecution(q)
      PROVE  Honest(r)
  <2>1. CASE q = r /\ exec[r].phase \in MutationPhases
    <3>1. run[r].phase \in MutationPhases
      BY <2>1 DEF ControlInv, ExecInv, PendingExec, ExecPhases, MutationPhases
    <3>2. run[r].stack \in Stacks
      BY <3>1 DEF ControlInv, RunInv, MutationPhases
    <3>3. /\ run' = [run EXCEPT ![r].phase = "terminal", ![r].outcome = "failed"]
          /\ pol' = [pol EXCEPT ![run[r].stack] = PausedPolicy(@)]
      BY <1>2, <2>1 DEF RecoverExecution, RecoveryPauses
    <3>4. run'[r].outcome = "failed"
      BY <1>a, <3>3 DEF RunRow
    <3>5. pol'[run[r].stack].paused
      <4>1. PausedPolicy(pol[run[r].stack]).paused = TRUE
        BY <1>a, <3>2, PolicyPauses
      <4>2. QED
        BY <1>a, <3>2, <3>3, <4>1
    <3>6. QED
      BY <2>1, <3>4, <3>5 DEF Honest
  <2>2. CASE q # r
    <3>1. run'[r] = run[r]
      BY <1>2, <1>a, <2>2 DEF RecoverExecution
    <3>2. QED
      BY <3>1 DEF Honest
  <2>3. QED
    BY <2>1, <2>2, HonestWithout
<1>3. ASSUME NEW q \in Runs, FinishLeftOver(q)
      PROVE  Honest(r)
  <2>1. exec[r].phase \notin MutationPhases
    BY <1>3 DEF FinishLeftOver, PendingExecutions, PendingExec, ExecPhases, MutationPhases
  <2>2. QED
    BY <2>1, HonestWithout
<1>4. QED
  BY <1>1, <1>2, <1>3 DEF Reconcile

\* So does the job, unless it has verified it.
LEMMA HonestUpdate ==
  ASSUME TypeOK, ControlInv, NEW q \in Runs, Update(q), NEW r \in Runs
  PROVE  Honest(r)
<1>a. /\ pol \in [Stacks -> PolicyRow] /\ run \in [Runs -> RunRow] /\ job[q] \in Job
      /\ run[q].stack \in Stacks
  BY UpdateFrame, JobFacts DEF TypeOK
<1>1. CASE q # r
  <2>1. run'[r] = run[r]
    BY <1>1, UpdateRows
  <2>2. QED
    BY <2>1 DEF Honest
<1>2. CASE Complete(q) /\ q = r
  <2>1. CASE job[r].failed
    <3>1. /\ run' = [run EXCEPT ![r].phase = "terminal", ![r].outcome = "failed"]
          /\ pol' = [pol EXCEPT ![run[r].stack] = PausedPolicy(@)]
          /\ exec[r].phase \in MutationPhases
      BY <1>2, <2>1 DEF Complete
    <3>2. run'[r].outcome = "failed"
      BY <1>a, <3>1 DEF RunRow
    <3>3. PausedPolicy(pol[run[r].stack]).paused = TRUE
      BY <1>a, <1>2, PolicyPauses
    <3>4. pol'[run[r].stack].paused
      BY <1>a, <1>2, <3>1, <3>3
    <3>5. QED
      BY <3>1, <3>2, <3>4 DEF Honest
  <2>2. CASE ~job[r].failed
    <3>1. /\ run' = [run EXCEPT ![r].phase = "terminal", ![r].outcome = "updated"]
          /\ exec[r].phase \in MutationPhases
      BY <1>2, <2>2 DEF Complete
    <3>2. run'[r].outcome = "updated"
      BY <1>a, <3>1 DEF RunRow
    <3>3. QED
      BY <3>1, <3>2 DEF Honest
  <2>3. QED
    BY <2>1, <2>2
<1>3. CASE Discard(q) /\ q = r
  <2>1. exec[r].phase \notin MutationPhases
    BY <1>3 DEF Discard, ControlInv, JobInv, MutationPhases
  <2>2. QED
    BY <2>1, HonestWithout
<1>4. CASE (SavePrepared(q) \/ MarkApplying(q) \/ MarkVerifying(q)) /\ q = r
  <2>1. run' = run \/ \E p \in {"prepared", "applying", "verifying"} : run' = [run EXCEPT ![r].phase = p]
    BY <1>4 DEF SavePrepared, MarkApplying, MarkVerifying
  <2>2. run'[r].phase \in {run[r].phase, "prepared", "applying", "verifying"}
    BY <1>a, <2>1 DEF RunRow
  <2>3. QED
    BY <2>2 DEF Honest
<1>5. CASE RunJob(q) \/ RunJobFails(q) \/ Recreate(q) \/ ApplyFails(q) \/ VerifyUpdate(q)
           \/ Close(q) \/ CompleteFails(q)
  BY <1>5 DEF RunJob, RunJobFails, Recreate, ApplyFails, VerifyUpdate, Close, CompleteFails,
     store,
     Honest
<1>6. QED
  BY <1>1, <1>2, <1>3, <1>4, <1>5 DEF Update

\* Every step that ends a run gives it an honest outcome.
LEMMA HonestNext ==
  ASSUME IInv, [Next]_vars, NEW r \in Runs
  PROVE  Honest(r)
<1>0. TypeOK /\ ControlInv /\ ClientInv
  BY DEF IInv
<1>1. CASE Reconcile
  BY <1>0, <1>1, HonestReconcile
<1>2. CASE Schedule
  <2>1. ASSUME NEW s \in Stacks, NEW q \in Runs, Admit(s, q)
        PROVE  Honest(r)
    <3>1. CASE q = r
      <4>1. exec[r].phase = "none"
        BY <1>0, <2>1, <3>1 DEF Admit, ControlInv, RunInv
      <4>2. QED
        BY <1>0, <4>1, HonestWithout DEF MutationPhases
    <3>2. CASE q # r
      <4>1. run \in [Runs -> RunRow]
        BY <1>0 DEF TypeOK
      <4>2. run'[r] = run[r]
        BY <2>1, <3>2, <4>1 DEF Admit
      <4>3. QED
        BY <4>2 DEF Honest
    <3>3. QED
      BY <3>1, <3>2
  <2>2. CASE Fail \/ Shutdown \/ Drained
    BY <2>2 DEF Fail, Shutdown, Drained, store, Honest
  <2>3. QED
    BY <1>2, <2>1, <2>2 DEF Schedule
<1>3. ASSUME NEW w \in Workers, Check(w)
      PROVE  Honest(r)
  <2>1. CASE Walks(w) \/ Quits(w)
    BY <2>1 DEF Walks, Quits, Honest
  <2>2. CASE Ends(w)
    <3>1. wk[w].run \in Runs /\ exec[wk[w].run].phase = "none"
      BY <1>0, <2>2 DEF Ends, ControlInv, WorkerInv, CheckPcs, RestPcs
    <3>2. CASE wk[w].run = r
      BY <1>0, <3>1, <3>2, HonestWithout DEF MutationPhases
    <3>3. CASE wk[w].run # r
      <4>1. run'[r] = run[r]
        BY <1>0, <2>2, <3>1, <3>3, FinishRows DEF Ends
      <4>2. QED
        BY <4>1 DEF Honest
    <3>4. QED
      BY <3>2, <3>3
  <2>3. CASE MarkChecking(w)
    <3>1. run \in [Runs -> RunRow]
      BY <1>0 DEF TypeOK
    <3>2. run'[r].phase \in {run[r].phase, "checking"}
      BY <2>3, <3>1 DEF MarkChecking, RunRow
    <3>3. QED
      BY <3>2 DEF Honest
  <2>4. CASE Start(w)
    BY <2>4 DEF Start, Honest
  <2>5. ASSUME NEW q \in Runs, Take(w, q)
        PROVE  Honest(r)
    BY <2>5 DEF Take, store, Honest
  <2>6. QED
    BY <1>0, <1>3, <2>1, <2>2, <2>3, <2>4, <2>5, CheckKinds
<1>4. ASSUME NEW q \in Runs, Update(q)
      PROVE  Honest(r)
  BY <1>0, <1>4, HonestUpdate
<1>5. ASSUME NEW c \in Clients, Arrive(c)
      PROVE  Honest(r)
  BY <1>0, <1>5, ArriveKinds DEF store, Honest
<1>6. ASSUME NEW c \in Clients, Serve(c)
      PROVE  Honest(r)
  BY <1>6, ServeFrame DEF Honest
<1>7. CASE Environment
  BY <1>7 DEF Environment, Due, Outside, Crash, store, Honest
<1>8. CASE UNCHANGED vars
  BY <1>8 DEF vars, store, Honest
<1>9. QED
  BY <1>1, <1>2, <1>3, <1>4, <1>5, <1>6, <1>7, <1>8 DEF Next

\* The outcome that history shows of a run never hides a mutation: FinishRun ends
\* only runs whose containers were not touched, and completeUpdate and
\* RecoverExecution end the others as updated, or as failed with a pause.
THEOREM HonestOutcome == Spec => OutcomeIsHonest
<1>1. IInv /\ [Next]_vars =>
        [\A r \in Runs : run[r].phase # "terminal" /\ run'[r].phase = "terminal" =>
          IF exec[r].phase \in MutationPhases
          THEN run'[r].outcome = "updated" \/ (run'[r].outcome = "failed" /\ pol'[run[r].stack].paused)
          ELSE job[r].pc \notin {"apply", "record", "verify", "complete"}]_vars
  BY HonestNext DEF Honest
<1>2. QED
  BY <1>1, InvariantHolds, PTL DEF Spec, OutcomeIsHonest

-----------------------------------------------------------------------------

\* The scheduler worker inside Wait for the job of a run.
Awaited(r) == \E w \in Workers : wk[w].run = r /\ wk[w].pc = "wait"

\* Unless updates are blocked already: a job has a worker that waits for it; one
\* that mutated nothing leaves no execution open; and an execution that is open
\* after its job has a worker that is about to see the error of the job.
OrphanOn(r) ==
    /\ job[r].pc \in JobPcs => Awaited(r)
    /\ job[r].pc = "close" => exec[r].phase \notin PendingExec
    /\ exec[r].phase \in PendingExec =>
          job[r].pc \in JobPcs \/ (Awaited(r) /\ job[r].pc = "done" /\ job[r].err)

\* What blocks updates, as an inductive invariant.
OrphanInv == ~blocked => \A r \in Runs : OrphanOn(r)

\* A step that leaves a run's execution, its job and those who wait alone.
LEMMA OrphanKeeps ==
  ASSUME NEW r \in Runs, OrphanOn(r), exec'[r].phase = exec[r].phase, job'[r] = job[r],
         \A w \in Workers : wk[w].run = r /\ wk[w].pc = "wait" => wk'[w] = wk[w]
  PROVE  OrphanOn(r)'
  BY DEF OrphanOn, Awaited

\* Only a reconciliation unblocks updates.
LEMMA BlockedStays ==
  ASSUME TypeOK, [Next]_vars, ~blocked'
  PROVE  ~blocked \/ Reconciled
<1>1. CASE Reconcile
  BY <1>1 DEF Reconcile, ReconcileFails, FailInterrupted, Ready, ResetAfterStartup,
     RecoverExecution, FinishLeftOver
<1>2. CASE Schedule
  BY <1>2 DEF Schedule, Admit, Fail, Shutdown, Drained
<1>3. ASSUME NEW w \in Workers, Check(w)
      PROVE  ~blocked
  BY <1>3, CheckFrame
<1>4. ASSUME NEW r \in Runs, Update(r)
      PROVE  ~blocked
  BY <1>4 DEF Update, RunJob, RunJobFails, SavePrepared, MarkApplying, Discard, Recreate,
     ApplyFails,
     MarkVerifying, VerifyUpdate, Complete, Close, CompleteFails
<1>5. ASSUME NEW c \in Clients, Arrive(c) \/ Serve(c)
      PROVE  ~blocked
  BY <1>5, ArriveKinds, ServeFrame
<1>6. CASE Environment
  BY <1>6 DEF Environment, Due, Outside, Crash
<1>7. CASE UNCHANGED vars
  BY <1>7 DEF vars
<1>8. QED
  BY <1>1, <1>2, <1>3, <1>4, <1>5, <1>6, <1>7 DEF Next

\* ReconcileUpdates unblocks updates only when no execution is open.
LEMMA OrphanReconcile ==
  ASSUME TypeOK, ControlInv, ControlInv', OrphanInv, Reconcile, ~blocked', NEW r \in Runs
  PROVE  OrphanOn(r)'
<1>1. CASE Reconciled
  <2>1. /\ exec' = exec /\ job' = job /\ exec[r].phase \notin PendingExec
        /\ StartingUp
    BY <1>1 DEF Reconciled, Reconciling, StartingUp, PendingExecutions, store, actors
  <2>2. job[r].pc = "none"
    BY <2>1 DEF ControlInv, StartInv
  <2>3. QED
    BY <2>1, <2>2 DEF OrphanOn, JobPcs
<1>2. CASE ReconcileFails \/ FailInterrupted \/ Ready \/ ResetAfterStartup
  <2>1. UNCHANGED <<exec, wk, job>> /\ ~blocked
    BY <1>2 DEF ReconcileFails, FailInterrupted, Ready, ResetAfterStartup, store, actors
  <2>2. QED
    BY <2>1, OrphanKeeps DEF OrphanInv
<1>3. ASSUME NEW q \in Runs, RecoverExecution(q)
      PROVE  OrphanOn(r)'
  <2>1. /\ UNCHANGED <<wk, job>> /\ ~blocked /\ StartingUp
        /\ exec' = [exec EXCEPT ![q].phase = "terminal"] /\ exec \in [Runs -> ExecRow]
    BY <1>3 DEF RecoverExecution, actors, Reconciling, StartingUp, TypeOK
  <2>2. CASE q = r
    <3>1. exec'[r].phase = "terminal"
      BY <2>1, <2>2 DEF ExecRow
    <3>2. job[r].pc = "none"
      BY <2>1 DEF ControlInv, StartInv
    <3>3. QED
      BY <2>1, <3>1, <3>2 DEF OrphanOn, JobPcs, PendingExec
  <2>3. CASE q # r
    <3>1. exec'[r] = exec[r]
      BY <2>1, <2>3
    <3>2. QED
      BY <2>1, <3>1, OrphanKeeps DEF OrphanInv
  <2>4. QED
    BY <2>2, <2>3
<1>4. ASSUME NEW q \in Runs, FinishLeftOver(q)
      PROVE  OrphanOn(r)'
  <2>1. /\ UNCHANGED <<wk, job>> /\ ~blocked
        /\ exec[q].phase \notin PendingExec /\ Finish(q, "interrupted")
    BY <1>4 DEF FinishLeftOver, actors, PendingExecutions
  <2>2. "interrupted" \in Outcomes /\ exec[q].phase # "prepared"
    BY <2>1 DEF Outcomes, PendingExec, ExecPhases
  <2>3. exec'[r].phase = exec[r].phase
    BY <2>1, <2>2, FinishRows
  <2>4. QED
    BY <2>1, <2>3, OrphanKeeps DEF OrphanInv
<1>5. QED
  BY <1>1, <1>2, <1>3, <1>4 DEF Reconcile

\* A worker stops waiting only for a job that has ended well, or blocks updates.
LEMMA OrphanCheck ==
  ASSUME TypeOK, ControlInv, OrphanInv, NEW w \in Workers, Check(w), ~blocked', NEW r \in Runs
  PROVE  OrphanOn(r)'
<1>a. /\ exec'[r].phase = exec[r].phase /\ ~blocked
      /\ \A v \in Workers \ {w} : wk'[v] = wk[v]
      /\ job'[r] = job[r] \/ (Start(w) /\ r = wk[w].run)
  BY CheckExec, CheckFrame, CheckRows
<1>b. OrphanOn(r)
  BY <1>a DEF OrphanInv
<1>1. CASE Start(w) /\ r = wk[w].run
  <2>1. wk \in [Workers -> Worker] /\ job \in [Runs -> Job]
    BY DEF TypeOK
  <2>2. wk[w].pc = "start" /\ exec[r].phase = "none"
    BY <1>1 DEF Start, ControlInv, WorkerInv, CheckPcs
  <2>3. wk'[w] = [NoWork EXCEPT !.pc = "wait", !.run = r]
    BY <1>1, <2>1 DEF Start
  <2>4. wk'[w].pc = "wait" /\ wk'[w].run = r
    BY <2>3 DEF NoWork
  <2>5. job'[r] = [NoJob EXCEPT !.pc = "queued", !.ev = wk[w].ev]
    BY <1>1, <2>1 DEF Start
  <2>6. job'[r].pc = "queued"
    BY <2>5 DEF NoJob
  <2>7. QED
    BY <1>a, <2>2, <2>4, <2>6 DEF OrphanOn, Awaited, JobPcs, PendingExec
<1>2. CASE wk[w].pc # "wait" /\ job'[r] = job[r]
  BY <1>a, <1>b, <1>2, OrphanKeeps
<1>3. CASE wk[w].pc = "wait" /\ job'[r] = job[r]
  <2>1. CASE wk[w].run # r
    BY <1>a, <1>b, <1>3, <2>1, OrphanKeeps
  <2>2. CASE wk[w].run = r
    <3>1. Wait(w)
      BY <1>3 DEF Check, Take, MarkChecking, MarkSkips, MarkFails, Begin, CheckFails, Look,
         LookSkips,
         Prepare, PrepareFails, Again, Fresh, FreshSkips, Unchanged, FinishCheck, Start, StartFails
    <3>2. job[r].pc = "done" /\ ~job[r].err
      BY <2>2, <3>1 DEF Wait, WaitErrs
    <3>3. exec[r].phase \notin PendingExec
      BY <1>b, <3>2 DEF OrphanOn, JobPcs
    <3>4. QED
      BY <1>a, <1>3, <3>2, <3>3 DEF OrphanOn, JobPcs
  <2>3. QED
    BY <2>1, <2>2
<1>4. QED
  BY <1>1, <1>2, <1>3, <1>a

\* A job leaves an open execution only with an error for the worker that waits.
LEMMA OrphanUpdate ==
  ASSUME TypeOK, ControlInv, OrphanInv, NEW q \in Runs, Update(q), ~blocked, ~blocked', NEW r \in Runs
  PROVE  OrphanOn(r)'
<1>a. /\ wk' = wk /\ job[q].pc \in JobPcs /\ OrphanOn(r) /\ job[q] \in Job
      /\ job \in [Runs -> Job] /\ exec \in [Runs -> ExecRow]
  BY UpdateFrame DEF OrphanInv, TypeOK
<1>1. CASE q # r
  <2>1. exec'[r] = exec[r] /\ job'[r] = job[r]
    BY <1>1, UpdateRows
  <2>2. QED
    BY <1>a, <2>1, OrphanKeeps
<1>b. q = r => Awaited(r)
  BY <1>a DEF OrphanOn
\* The job goes on.
<1>2. CASE q = r /\ job'[r].pc \in JobPcs \ {"close"}
  BY <1>a, <1>b, <1>2 DEF OrphanOn, Awaited
\* Nothing is open.
<1>3. CASE q = r /\ exec'[r].phase \notin PendingExec
  BY <1>a, <1>b, <1>3 DEF OrphanOn, Awaited
<1>4. CASE q = r /\ RunJobFails(q)
  <2>1. exec' = exec /\ exec[r].phase = "none"
    BY <1>4 DEF RunJobFails, store, ControlInv, JobInv
  <2>2. QED
    BY <1>3, <1>4, <2>1 DEF PendingExec
<1>5. CASE q = r /\ Discard(q)
  <2>1. Finish(r, "skipped") /\ job[r].pc \in {"intent", "admit"}
    BY <1>5 DEF Discard
  <2>2. "skipped" \in Outcomes /\ run[r].phase # "terminal" /\ exec[r].phase \in {"none", "prepared"}
    BY <2>1 DEF Outcomes, ControlInv, JobInv, ExecInv, PendingExec, ExecPhases, MutationPhases
  <2>3. exec'[r].phase \notin PendingExec
    BY <2>1, <2>2, FinishRows DEF PendingExec, ExecPhases, MutationPhases
  <2>4. QED
    BY <1>3, <1>5, <2>3
<1>6. CASE q = r /\ Complete(q)
  <2>1. exec'[r].phase = "terminal"
    BY <1>a, <1>6 DEF Complete, ExecRow
  <2>2. QED
    BY <1>3, <1>6, <2>1 DEF PendingExec
<1>7. CASE q = r /\ Close(q)
  <2>1. exec' = exec /\ job[r].pc = "close"
    BY <1>7 DEF Close
  <2>2. exec[r].phase \notin PendingExec
    BY <1>a, <2>1 DEF OrphanOn
  <2>3. QED
    BY <1>3, <1>7, <2>1, <2>2
<1>8. CASE q = r /\ CompleteFails(q)
  <2>1. exec' = exec /\ job'[r] = [NoJob EXCEPT !.pc = "done", !.err = TRUE]
    BY <1>a, <1>8 DEF CompleteFails, store
  <2>2. job'[r].pc = "done" /\ job'[r].err = TRUE
    BY <2>1 DEF NoJob
  <2>3. QED
    BY <1>a, <1>b, <1>8, <2>2 DEF OrphanOn, Awaited, JobPcs
<1>9. CASE q = r /\ (RunJob(q) \/ SavePrepared(q) \/ MarkApplying(q) \/ ApplyFails(q))
  <2>1. job'[r].pc \in {"intent", "admit", "apply", "verify"}
    BY <1>a, <1>9 DEF RunJob, SavePrepared, MarkApplying, ApplyFails, Job
  <2>2. QED
    BY <1>2, <1>9, <2>1 DEF JobPcs
<1>10. CASE q = r /\ (Recreate(q) \/ MarkVerifying(q) \/ VerifyUpdate(q))
  <2>1. \E p \in {"record", "verify", "complete"}, b \in BOOLEAN :
           job' = [job EXCEPT ![r].pc = p, ![r].failed = b] \/ job' = [job EXCEPT ![r].pc = p]
    BY <1>10 DEF Recreate, MarkVerifying, VerifyUpdate
  <2>2. job'[r].pc \in {"record", "verify", "complete"}
    BY <1>a, <2>1 DEF Job
  <2>3. QED
    BY <1>2, <1>10, <2>2 DEF JobPcs
<1>11. QED
  BY <1>1, <1>4, <1>5, <1>6, <1>7, <1>8, <1>9, <1>10 DEF Update

\* No step leaves an open execution that nobody will see.
LEMMA OrphanNext ==
  ASSUME IInv, IInv', OrphanInv, [Next]_vars
  PROVE  OrphanInv'
<1>. SUFFICES ASSUME ~blocked', NEW r \in Runs
              PROVE  OrphanOn(r)'
  BY DEF OrphanInv
<1>0. TypeOK /\ ControlInv /\ ControlInv' /\ ClientInv
  BY DEF IInv
<1>a. ~blocked \/ Reconciled
  BY <1>0, BlockedStays
<1>1. CASE Reconcile
  BY <1>0, <1>1, OrphanReconcile
<1>b. ~Reconcile => OrphanOn(r) /\ ~blocked
  BY <1>a DEF Reconcile, OrphanInv
<1>2. CASE Schedule /\ ~Reconcile
  <2>1. UNCHANGED <<exec, wk, job>>
    BY <1>2 DEF Schedule, Admit, Fail, Shutdown, Drained, store, actors
  <2>2. QED
    BY <1>b, <1>2, <2>1, OrphanKeeps
<1>3. ASSUME NEW w \in Workers, Check(w)
      PROVE  OrphanOn(r)'
  BY <1>0, <1>3, OrphanCheck
<1>4. ASSUME NEW q \in Runs, Update(q), ~Reconcile
      PROVE  OrphanOn(r)'
  BY <1>0, <1>b, <1>4, OrphanUpdate
<1>5. ASSUME NEW c \in Clients, Arrive(c) \/ Serve(c), ~Reconcile
      PROVE  OrphanOn(r)'
  <2>1. UNCHANGED <<exec, wk, job>>
    BY <1>0, <1>5, ArriveKinds, ServeFrame DEF store
  <2>2. QED
    BY <1>b, <1>5, <2>1, OrphanKeeps
<1>6. CASE Environment /\ ~Reconcile
  <2>1. UNCHANGED <<exec, wk, job>>
    BY <1>6 DEF Environment, Due, Outside, Crash, store, actors
  <2>2. QED
    BY <1>b, <1>6, <2>1, OrphanKeeps
<1>7. CASE UNCHANGED vars /\ ~Reconcile
  <2>1. UNCHANGED <<exec, wk, job>>
    BY <1>7 DEF vars, store, actors
  <2>2. QED
    BY <1>b, <1>7, <2>1, OrphanKeeps
<1>8. QED
  BY <1>1, <1>2, <1>3, <1>4, <1>5, <1>6, <1>7 DEF Next

\* docs/operator-guide.md, "Restart and shutdown safety": while an execution whose
\* outcome could not be saved is on record, CheckAndUpdate starts nothing new, or the
\* worker that will see to this is still inside Wait.
THEOREM OrphanBlocks == Spec => []OrphanBlocksUpdates
<1>1. Init => OrphanInv
  BY DEF Init, OrphanInv
<1>2. OrphanInv => OrphanBlocksUpdates
  BY DEF OrphanInv, OrphanOn, Awaited, OrphanBlocksUpdates, PendingExecutions
<1>3. IInv /\ IInv' /\ OrphanInv /\ [Next]_vars => OrphanInv'
  BY OrphanNext
<1>4. QED
  BY <1>1, <1>2, <1>3, InvariantHolds, PTL DEF Spec

=============================================================================

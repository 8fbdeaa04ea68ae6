--------------------------- MODULE OnDemandProofs ---------------------------
(***************************************************************************)
(* OnDemand: types, locks, the safety of automatic transitions, and the    *)
(* truth of what rows say about containers.                                *)
(*                                                                         *)
(* Types: one lemma per group of actions, one step per action; the lemmas  *)
(* on the store's statements and the controller's helpers come first.      *)
(*                                                                         *)
(* Locks: OnDemand implements Exclusion.  Every step is classified by what *)
(* it does to the owners of scopes (OwnerStep); that classification alone  *)
(* gives that the coordinator's flags stand for the owners (LockInv) and   *)
(* that the step is one of Exclusion.                                      *)
(*                                                                         *)
(* Transitions: the inductive invariant relates each worker to its row     *)
(* (GroupInv) and each request to the rows it holds (RequestInv).  Between *)
(* the decision and the job the row is protected by the stack lock         *)
(* (LockInv): RequestIsAlone is where the two meet.                        *)
(*                                                                         *)
(* Containers: on top of that invariant, what a row says and what a job    *)
(* has done so far are true of the members that run (TruthInv).            *)
(* What an accepted stop has recorded follows from the first invariant.    *)
(***************************************************************************)
EXTENDS OnDemand, TLAPS

-----------------------------------------------------------------------------
(* Types.                                                                  *)

\* The rows the store starts and ends with are rows.
LEMMA NoRowType == NoRow \in GroupRow /\ DeletedRow \in GroupRow
  BY DEF NoRow, DeletedRow, GroupRow, Phases

\* Member counters stay in range (StartOnDemand and StopOnDemand handle one
\* member after the other).
LEMMA StepType == /\ 0 \in 0..MemberCount
                  /\ \A n \in 0..MemberCount : n + 1 \in Members => n + 1 \in 0..MemberCount
                  /\ \A n \in 0..MemberCount : MemberCount - n \in Members => n + 1 \in 0..MemberCount
  BY ConstantsOK DEF Members

\* A worker that does not run is a worker.
LEMMA NoWorkerType == NoWorker \in Worker
  BY NoRowType, StepType DEF NoWorker, Worker, WorkerPcs

\* A goroutine that serves no request is typed.
LEMMA NoRequestType == NoRequest \in Request
  BY DEF NoRequest, Request, Phases

\* The helpers of the controller return workers.
LEMMA WorkerFacts ==
  ASSUME NEW w \in Worker
  PROVE  /\ Closed(w) \in Worker
         /\ PortsReleased(w) \in Worker
         /\ Suspended(w) \in Worker
         /\ Idle(w) \in Worker
         /\ Idle(Closed(w)) \in Worker
         /\ Idle(PortsReleased(w)) \in Worker
         /\ [w EXCEPT !.quiet = FALSE] \in Worker
         /\ [w EXCEPT !.mapped = FALSE] \in Worker
<1>1. ASSUME NEW v \in Worker PROVE Closed(v) \in Worker
  BY DEF Closed, Worker
<1>2. ASSUME NEW v \in Worker PROVE Idle(v) \in Worker
  BY NoRowType, StepType DEF Idle, Worker, WorkerPcs
<1>3. ASSUME NEW v \in Worker PROVE PortsReleased(v) \in Worker
  BY <1>1 DEF PortsReleased
<1>4. Suspended(w) \in Worker
  BY <1>1 DEF Suspended, Worker
<1>5. [w EXCEPT !.quiet = FALSE] \in Worker /\ [w EXCEPT !.mapped = FALSE] \in Worker
  BY DEF Worker
<1>6. QED
  BY <1>1, <1>2, <1>3, <1>4, <1>5

\* The statements of the store return rows.
LEMMA RowFacts ==
  ASSUME NEW r \in GroupRow
  PROVE  /\ \A read : PausedGroup(r, read) \in GroupRow
         /\ \A a : BegunGroup(r, a) \in GroupRow
         /\ \A p \in Phases : CompletedGroup(r, p) \in GroupRow
         /\ RecoveredGroup(r) \in GroupRow
         /\ \A b \in BOOLEAN : InterlockedGroup(r, b) \in GroupRow
         /\ \A b \in BOOLEAN, e \in Nat : SavedGroup(r, b, e) \in GroupRow
         /\ HeldGroup(r) \in GroupRow
         /\ \A p \in Phases, e \in Nat : ResumedGroup(r, p, e) \in GroupRow
<1>1. r.rev + 1 \in Nat
  BY DEF GroupRow
<1>. USE <1>1 DEF GroupRow
<1>2. ASSUME NEW read PROVE PausedGroup(r, read) \in GroupRow
  BY DEF PausedGroup
<1>3. ASSUME NEW a PROVE BegunGroup(r, a) \in GroupRow
  BY DEF BegunGroup, During, Phases
<1>4. ASSUME NEW p \in Phases PROVE CompletedGroup(r, p) \in GroupRow
  BY DEF CompletedGroup
<1>5. RecoveredGroup(r) \in GroupRow
  BY DEF RecoveredGroup, Phases
<1>6. ASSUME NEW b \in BOOLEAN PROVE InterlockedGroup(r, b) \in GroupRow
  BY DEF InterlockedGroup
<1>7. ASSUME NEW b \in BOOLEAN, NEW e \in Nat PROVE SavedGroup(r, b, e) \in GroupRow
  BY DEF SavedGroup
<1>8. HeldGroup(r) \in GroupRow
  BY DEF HeldGroup
<1>9. ASSUME NEW p \in Phases, NEW e \in Nat PROVE ResumedGroup(r, p, e) \in GroupRow
  BY DEF ResumedGroup
<1>10. QED
  BY <1>2, <1>3, <1>4, <1>5, <1>6, <1>7, <1>8, <1>9

\* An iteration of runGroup keeps the types.
LEMMA TypeLoop ==
  ASSUME TypeOK, NEW g \in Groups, Loop(g)
  PROVE  TypeOK'
<1>1. /\ wk \in [Groups -> Worker] /\ wk[g] \in Worker
      /\ row \in [Groups -> GroupRow] /\ row[g] \in GroupRow
      /\ PausedGroup(row[g], wk[g].read) \in GroupRow
  BY RowFacts DEF TypeOK
<1>2. /\ Closed(wk[g]) \in Worker /\ PortsReleased(wk[g]) \in Worker
      /\ Idle(wk[g]) \in Worker /\ Idle(Closed(wk[g])) \in Worker
      /\ Idle(PortsReleased(wk[g])) \in Worker
  BY <1>1, WorkerFacts
<1>3. CASE Exit(g)
  BY <1>1, <1>3 DEF Exit, TypeOK, runtime, Worker, WorkerPcs, Closed
<1>4. CASE Read(g)
  BY <1>1, <1>4 DEF Read, TypeOK, runtime, Worker, WorkerPcs
<1>5. CASE ReadFails(g)
  BY <1>1, <1>5, <1>2 DEF ReadFails, TypeOK, runtime
<1>6. CASE Apply(g)
  <2>1. StillSuspended(wk[g]) \in BOOLEAN /\ wk[g].read.rev \in Nat
    BY <1>1 DEF StillSuspended, Worker, GroupRow
  <2>2. Applied(wk[g]) \in Worker
    BY <1>1, <2>1 DEF Applied, Worker
  <2>3. [Applied(wk[g]) EXCEPT !.pc = "probe"] \in Worker /\ Idle(Applied(wk[g])) \in Worker
    BY <2>2, WorkerFacts DEF Worker, WorkerPcs
  <2>4. QED
    BY <1>1, <1>6, <2>3 DEF Apply, TypeOK, runtime
<1>7. CASE Probe(g)
  <2>1. [wk[g] EXCEPT !.pc = "observe"] \in Worker
    BY <1>1 DEF Worker, WorkerPcs
  <2>2. QED
    BY <1>1, <1>2, <1>7, <2>1 DEF Probe, TypeOK, runtime
<1>8. CASE Observe(g)
  BY <1>1, <1>8 DEF Observe, TypeOK, runtime, Worker, WorkerPcs, PhaseOf
<1>9. CASE ObserveChanged(g)
  <2>1. wk' \in [Groups -> Worker]
    BY <1>1, <1>9, <1>2 DEF ObserveChanged
  <2>2. row' \in [Groups -> GroupRow]
    BY <1>1, <1>9 DEF ObserveChanged, TypeOK
  <2>3. QED
    BY <1>9, <2>1, <2>2 DEF ObserveChanged, TypeOK, runtime
<1>10. CASE ObserveFails(g)
  BY <1>1, <1>10, <1>2 DEF ObserveFails, TypeOK, runtime
<1>11. CASE Reserve(g)
  <2>1. wk' \in [Groups -> Worker]
    BY <1>1, <1>11 DEF Reserve, Worker, WorkerPcs
  <2>2. QED
    BY <1>11, <2>1 DEF Reserve, TypeOK, runtime
<1>12. CASE ReserveFails(g)
  <2>1. wk' \in [Groups -> Worker]
    BY <1>1, <1>12, <1>2 DEF ReserveFails
  <2>2. row' \in [Groups -> GroupRow]
    BY <1>1, <1>12 DEF ReserveFails, TypeOK
  <2>3. QED
    BY <1>12, <2>1, <2>2 DEF ReserveFails, TypeOK, runtime
<1>13. CASE SnapshotFails(g)
  BY <1>1, <1>13, <1>2 DEF SnapshotFails, TypeOK, runtime
<1>14. CASE DecideAction(g)
  <2>. DEFINE action == IF wk[g].seen = "sleeping" THEN "wake" ELSE "sleep"
  <2>1. [wk[g] EXCEPT !.pc = "exec", !.action = action] \in Worker
    BY <1>1 DEF Worker, WorkerPcs, Actions
  <2>2. wk' \in [Groups -> Worker]
    BY <1>1, <1>2, <1>14, <2>1 DEF DecideAction
  <2>3. QED
    BY <1>14, <2>2 DEF DecideAction, TypeOK, runtime
<1>15. CASE DecidePause(g)
  <2>1. wk' \in [Groups -> Worker]
    BY <1>1, <1>15, <1>2 DEF DecidePause
  <2>2. row' \in [Groups -> GroupRow]
    BY <1>1, <1>15 DEF DecidePause, TypeOK
  <2>3. QED
    BY <1>15, <2>1, <2>2 DEF DecidePause, TypeOK, runtime
<1>16. CASE DecideNothing(g)
  BY <1>1, <1>16, <1>2 DEF DecideNothing, TypeOK, runtime
<1>17. QED
  BY <1>3, <1>4, <1>5, <1>6, <1>7, <1>8, <1>9, <1>10, <1>11, <1>12, <1>13, <1>14, <1>15, <1>16 DEF Loop

\* The admission of ExecuteOnDemand keeps the types.
LEMMA TypeExecute ==
  ASSUME TypeOK, NEW g \in Groups, Execute(g)
  PROVE  TypeOK'
<1>1. /\ wk \in [Groups -> Worker] /\ wk[g] \in Worker
      /\ row \in [Groups -> GroupRow] /\ row[g] \in GroupRow
      /\ PausedGroup(row[g], wk[g].read) \in GroupRow
  BY RowFacts DEF TypeOK
<1>2. /\ Closed(wk[g]) \in Worker /\ PortsReleased(wk[g]) \in Worker
      /\ Idle(wk[g]) \in Worker /\ Idle(Closed(wk[g])) \in Worker
      /\ Idle(PortsReleased(wk[g])) \in Worker
  BY <1>1, WorkerFacts
<1>3. CASE TryStack(g)
  <2>1. wk' \in [Groups -> Worker]
    BY <1>1, <1>3 DEF TryStack, Worker, WorkerPcs, CriticalPcs
  <2>2. coord' \in CoordinatorOf(Stacks)
    BY <1>1, <1>3, ConstantsOK DEF TryStack, TypeOK, CoordinatorOf, TakeStack, Granted
  <2>3. QED
    BY <1>3, <2>1, <2>2 DEF TryStack, TypeOK, runtime
<1>4. CASE TryFails(g)
  BY <1>1, <1>4, <1>2 DEF TryFails, TypeOK, runtime
<1>5. CASE Fresh(g)
  BY <1>1, <1>5 DEF Fresh, TypeOK, runtime, Worker, WorkerPcs, CriticalPcs
<1>6. CASE Verify(g)
  BY <1>1, <1>6 DEF Verify, TypeOK, runtime, Worker, WorkerPcs, CriticalPcs
<1>7. CASE Admit(g)
  BY <1>1, <1>7 DEF Admit, TypeOK, runtime, Worker, WorkerPcs, CriticalPcs
<1>8. CASE Refuse(g)
  <2>1. wk' \in [Groups -> Worker]
    BY <1>1, <1>8, <1>2 DEF Refuse
  <2>2. row' \in [Groups -> GroupRow]
    BY <1>1, <1>8 DEF Refuse, TypeOK
  <2>3. coord' \in CoordinatorOf(Stacks)
    BY <1>1, <1>8, ConstantsOK DEF Refuse, TypeOK, CoordinatorOf, DropStack, Released
  <2>4. QED
    BY <1>8, <2>1, <2>2, <2>3 DEF Refuse, TypeOK, runtime
<1>9. QED
  BY <1>3, <1>4, <1>5, <1>6, <1>7, <1>8 DEF Execute

\* The job of ExecuteOnDemand keeps the types.
LEMMA TypeJob ==
  ASSUME TypeOK, NEW g \in Groups, Job(g)
  PROVE  TypeOK'
<1>1. /\ wk \in [Groups -> Worker] /\ wk[g] \in Worker
      /\ row \in [Groups -> GroupRow] /\ row[g] \in GroupRow
      /\ PausedGroup(row[g], wk[g].read) \in GroupRow
  BY RowFacts DEF TypeOK
<1>2. /\ Closed(wk[g]) \in Worker /\ PortsReleased(wk[g]) \in Worker
      /\ Idle(wk[g]) \in Worker /\ Idle(Closed(wk[g])) \in Worker
      /\ Idle(PortsReleased(wk[g])) \in Worker
  BY <1>1, WorkerFacts
<1>3. CASE RunJob(g)
  BY <1>1, <1>3 DEF RunJob, TypeOK, runtime, Worker, WorkerPcs, CriticalPcs
<1>4. CASE RunJobFails(g)
  <2>1. wk' \in [Groups -> Worker]
    BY <1>1, <1>4 DEF RunJobFails, Worker, WorkerPcs
  <2>2. coord' \in CoordinatorOf(Stacks)
    BY <1>1, <1>4, ConstantsOK DEF RunJobFails, TypeOK, CoordinatorOf, DropStack, Released
  <2>3. QED
    BY <1>4, <2>1, <2>2 DEF RunJobFails, TypeOK, runtime
<1>5. CASE BeginTransition(g)
  <2>1. wk' \in [Groups -> Worker]
    BY <1>1, <1>5 DEF BeginTransition, Worker, WorkerPcs, CriticalPcs
  <2>2. row' \in [Groups -> GroupRow]
    BY <1>1, <1>5, RowFacts DEF BeginTransition, TypeOK
  <2>3. QED
    BY <1>5, <2>1, <2>2 DEF BeginTransition, TypeOK, runtime
<1>6. CASE BeginFails(g)
  BY <1>1, <1>6 DEF BeginFails, TypeOK, runtime, Worker, WorkerPcs, CriticalPcs
<1>7. CASE ReleasePorts(g)
  <2>1. \A p \in {"start", "abort"} : [PortsReleased(wk[g]) EXCEPT !.pc = p] \in Worker
    BY <1>2 DEF Worker, WorkerPcs, CriticalPcs
  <2>2. QED
    BY <1>1, <1>7, <2>1 DEF ReleasePorts, TypeOK, runtime
<1>8. CASE StartMember(g)
  <2>1. wk' \in [Groups -> Worker]
    BY <1>1, <1>8, StepType DEF StartMember, Worker
  <2>2. up' \in [Groups -> SUBSET Members]
    BY <1>1, <1>8 DEF StartMember, TypeOK
  <2>3. QED
    BY <1>8, <2>1, <2>2 DEF StartMember, TypeOK, runtime
<1>9. CASE Started(g)
  <2>1. wk' \in [Groups -> Worker]
    BY <1>1, <1>9 DEF Started, Worker, WorkerPcs, CriticalPcs
  <2>2. QED
    BY <1>9, <2>1 DEF Started, TypeOK, runtime
<1>10. CASE StartFails(g)
  <2>1. wk' \in [Groups -> Worker]
    BY <1>1, <1>10 DEF StartFails, Worker, WorkerPcs, CriticalPcs
  <2>2. up' \in [Groups -> SUBSET Members]
    BY <1>1, <1>10 DEF StartFails, TypeOK
  <2>3. QED
    BY <1>10, <2>1, <2>2 DEF StartFails, TypeOK, runtime
<1>11. CASE StopMember(g)
  <2>1. wk' \in [Groups -> Worker]
    BY <1>1, <1>11, StepType DEF StopMember, Worker
  <2>2. up' \in [Groups -> SUBSET Members]
    BY <1>1, <1>11 DEF StopMember, TypeOK
  <2>3. QED
    BY <1>11, <2>1, <2>2 DEF StopMember, TypeOK, runtime
<1>12. CASE Stopped(g)
  BY <1>1, <1>12 DEF Stopped, TypeOK, runtime, Worker, WorkerPcs, CriticalPcs
<1>13. CASE StopFails(g)
  <2>1. wk' \in [Groups -> Worker]
    BY <1>1, <1>13 DEF StopFails, Worker, WorkerPcs, CriticalPcs
  <2>2. up' \in [Groups -> SUBSET Members]
    BY <1>1, <1>13 DEF StopFails, TypeOK
  <2>3. QED
    BY <1>13, <2>1, <2>2 DEF StopFails, TypeOK, runtime
<1>14. CASE Rearm(g)
  <2>1. wk' \in [Groups -> Worker]
    BY <1>1, <1>14 DEF Rearm, Worker, WorkerPcs, CriticalPcs
  <2>2. QED
    BY <1>14, <2>1 DEF Rearm, TypeOK, runtime
<1>15. CASE Abort(g)
  <2>1. "complete" \in WorkerPcs
    BY DEF WorkerPcs, CriticalPcs
  <2>2. ASSUME NEW w \in Worker
        PROVE  [w EXCEPT !.pc = "complete", !.outcome = "unknown"] \in Worker
    BY <2>1 DEF Worker
  <2>3. QED
    BY <1>1, <1>2, <1>15, <2>2 DEF Abort, TypeOK, runtime
<1>16. CASE Complete(g)
  <2>1. wk' \in [Groups -> Worker]
    BY <1>1, <1>16, <1>2 DEF Complete
  <2>2. row' \in [Groups -> GroupRow]
    BY <1>1, <1>16, RowFacts DEF Complete, TypeOK, Worker, Phases
  <2>3. coord' \in CoordinatorOf(Stacks)
    BY <1>1, <1>16, ConstantsOK DEF Complete, TypeOK, CoordinatorOf, DropStack, Released
  <2>4. QED
    BY <1>16, <2>1, <2>2, <2>3 DEF Complete, TypeOK, runtime
<1>17. CASE CompleteFails(g)
  <2>1. wk' \in [Groups -> Worker]
    BY <1>1, <1>17 DEF CompleteFails, Worker, WorkerPcs
  <2>2. coord' \in CoordinatorOf(Stacks)
    BY <1>1, <1>17, ConstantsOK DEF CompleteFails, TypeOK, CoordinatorOf, DropStack, Released
  <2>3. QED
    BY <1>17, <2>1, <2>2 DEF CompleteFails, TypeOK, runtime
<1>18. CASE WaitErr(g)
  BY <1>1, <1>18, <1>2 DEF WaitErr, TypeOK, runtime
<1>19. QED
  BY <1>3, <1>4, <1>5, <1>6, <1>7, <1>8, <1>9, <1>10, <1>11, <1>12, <1>13, <1>14, <1>15, <1>16, <1>17, <1>18 DEF Job

\* Serving a request keeps the types.
LEMMA TypeServe ==
  ASSUME TypeOK, NEW u \in Requests, Serve(u)
  PROVE  TypeOK'
<1>1. /\ req \in [Requests -> Request] /\ req[u] \in Request
      /\ req[u].hit \subseteq Groups
      /\ row \in [Groups -> GroupRow] /\ wk \in [Groups -> Worker]
  BY DEF TypeOK, Request
<1>2. CASE Snapshot(u)
  <2>1. PICK g \in req[u].hit :
           req' = [req EXCEPT ![u].pc = "commit", ![u].rev = row[g].rev,
                              ![u].phase = PhaseOf(g), ![u].evid = gen[g]]
    BY <1>2 DEF Snapshot
  <2>2. row[g].rev \in Nat /\ gen[g] \in Nat /\ PhaseOf(g) \in Phases
    BY <1>1 DEF TypeOK, GroupRow, PhaseOf, Phases
  <2>3. req' \in [Requests -> Request]
    BY <1>1, <2>1, <2>2 DEF Request
  <2>4. QED
    BY <1>2, <2>3 DEF Snapshot, TypeOK, runtime
<1>3. CASE Commit(u)
  <2>1. PICK g \in req[u].hit, enabled \in BOOLEAN :
           row' = [row EXCEPT ![g] = CASE req[u].kind = "create" -> InsertedGroup(enabled, req[u].evid)
                                       [] req[u].kind = "save" -> SavedGroup(@, enabled, req[u].evid)
                                       [] OTHER -> ResumedGroup(@, req[u].phase, req[u].evid)]
    BY <1>3 DEF Commit
  <2>2. InsertedGroup(enabled, req[u].evid) \in GroupRow
    BY <1>1 DEF InsertedGroup, GroupRow, Phases, Request
  <2>3. SavedGroup(row[g], enabled, req[u].evid) \in GroupRow
    BY <1>1, RowFacts DEF Request
  <2>4. ResumedGroup(row[g], req[u].phase, req[u].evid) \in GroupRow
    BY <1>1, RowFacts DEF Request
  <2>5. row' \in [Groups -> GroupRow]
    BY <1>1, <2>1, <2>2, <2>3, <2>4
  <2>6. req' \in [Requests -> Request]
    BY <1>1, <1>3 DEF Commit, Request
  <2>7. QED
    BY <1>3, <2>5, <2>6 DEF Commit, TypeOK, runtime
<1>4. CASE CommitInactive(u)
  <2>1. PICK g \in req[u].hit :
           row' = [row EXCEPT ![g] = CASE req[u].kind = "disable" -> SavedGroup(@, FALSE, @.evid)
                                       [] req[u].kind = "hold" -> HeldGroup(@)
                                       [] OTHER -> DeletedRow]
    BY <1>4 DEF CommitInactive
  <2>2. row[g] \in GroupRow /\ row[g].evid \in Nat
    BY <1>1 DEF GroupRow
  <2>3. SavedGroup(row[g], FALSE, row[g].evid) \in GroupRow /\ HeldGroup(row[g]) \in GroupRow
    BY <2>2, RowFacts
  <2>4. row' \in [Groups -> GroupRow]
    BY <1>1, <2>1, <2>3, NoRowType
  <2>5. req' \in [Requests -> Request]
    BY <1>1, <1>4 DEF CommitInactive, Request
  <2>6. QED
    BY <1>4, <2>4, <2>5 DEF CommitInactive, TypeOK, runtime
<1>5. CASE PolicyFails(u)
  BY <1>1, <1>5 DEF PolicyFails, TypeOK, Request, runtime
<1>6. CASE SuspendGroup(u)
  <2>1. wk' \in [Groups -> Worker]
    BY <1>1, <1>6, WorkerFacts DEF SuspendGroup
  <2>2. req' \in [Requests -> Request]
    BY <1>1, <1>6 DEF SuspendGroup, Request
  <2>3. QED
    BY <1>6, <2>1, <2>2 DEF SuspendGroup, TypeOK, runtime
<1>7. CASE Leave(u)
  <2>1. coord' \in CoordinatorOf(Stacks)
    BY <1>7 DEF Leave, TypeOK, CoordinatorOf, Released
  <2>2. QED
    BY <1>1, <1>7, <2>1, NoRequestType DEF Leave, TypeOK, runtime
<1>8. CASE AdmitAction(u)
  <2>1. \A g \in Groups : InterlockedGroup(row[g], req[u].kind = "stop") \in GroupRow
    BY <1>1, RowFacts
  <2>2. row' \in [Groups -> GroupRow]
    BY <1>1, <1>8, <2>1 DEF AdmitAction
  <2>3. req' \in [Requests -> Request]
    BY <1>1, <1>8 DEF AdmitAction, Request
  <2>4. QED
    BY <1>8, <2>2, <2>3 DEF AdmitAction, TypeOK, runtime
<1>9. CASE ActionFails(u)
  BY <1>1, <1>9 DEF ActionFails, TypeOK, Request, runtime
<1>10. CASE RunAction(u)
  BY <1>1, <1>10 DEF RunAction, TypeOK, Request, runtime
<1>11. CASE ReleaseHolds(u)
  <2>1. wk' \in [Groups -> Worker]
    BY <1>1, <1>11, WorkerFacts DEF ReleaseHolds
  <2>2. req' \in [Requests -> Request]
    BY <1>1, <1>11 DEF ReleaseHolds, Request
  <2>3. QED
    BY <1>11, <2>1, <2>2 DEF ReleaseHolds, TypeOK, runtime
<1>12. CASE FinishAction(u)
  <2>1. row' \in [Groups -> GroupRow]
    BY <1>1, <1>12, NoRowType DEF FinishAction
  <2>2. req' \in [Requests -> Request]
    BY <1>1, <1>12 DEF FinishAction, Request
  <2>3. QED
    BY <1>12, <2>1, <2>2 DEF FinishAction, TypeOK, runtime
<1>13. QED
  BY <1>2, <1>3, <1>4, <1>5, <1>6, <1>7, <1>8, <1>9, <1>10, <1>11, <1>12 DEF Serve

\* The arrival of a request keeps the types.
LEMMA TypeArrive ==
  ASSUME TypeOK, NEW u \in Requests, Arrive(u)
  PROVE  TypeOK'
<1>1. req \in [Requests -> Request] /\ coord \in CoordinatorOf(Stacks)
  BY DEF TypeOK
<1>2. ASSUME NEW k \in Kinds \cap PolicyKinds, NEW g \in Groups, BeginPolicy(u, k, g)
      PROVE  TypeOK'
  <2>1. k \in AllKinds /\ StackOf[g] \in Stacks
    BY ConstantsOK
  <2>2. [NoRequest EXCEPT !.pc = "held", !.kind = k, !.hit = {g}, !.scope = StackOf[g]] \in Request
    BY <2>1, NoRequestType DEF Request
  <2>3. coord' \in CoordinatorOf(Stacks)
    BY <1>1, <1>2, <2>1 DEF BeginPolicy, TakeStack, Granted, CoordinatorOf
  <2>4. QED
    BY <1>1, <1>2, <2>2, <2>3 DEF BeginPolicy, TypeOK, runtime
<1>3. ASSUME NEW k \in Kinds \cap StackKinds, NEW s \in Stacks, NEW hit \in SUBSET GroupsOf(s),
             BeginAction(u, k, s, hit)
      PROVE  TypeOK'
  <2>1. k \in AllKinds /\ hit \subseteq Groups
    BY ConstantsOK DEF GroupsOf
  <2>2. [NoRequest EXCEPT !.pc = "held", !.kind = k, !.hit = hit, !.scope = s] \in Request
    BY <2>1, NoRequestType DEF Request
  <2>3. coord' \in CoordinatorOf(Stacks)
    BY <1>1, <1>3 DEF BeginAction, Granted, CoordinatorOf
  <2>4. QED
    BY <1>1, <1>3, <2>2, <2>3 DEF BeginAction, TypeOK, runtime
<1>4. CASE BeginRepository(u)
  <2>1. [NoRequest EXCEPT !.pc = "leave", !.kind = "repository", !.scope = Repository] \in Request
    BY NoRequestType DEF Request, AllKinds
  <2>2. coord' \in CoordinatorOf(Stacks)
    BY <1>1, <1>4 DEF BeginRepository, Granted, CoordinatorOf
  <2>3. QED
    BY <1>1, <1>4, <2>1, <2>2 DEF BeginRepository, TypeOK, runtime
<1>5. QED
  BY <1>2, <1>3, <1>4 DEF Arrive

\* A runtime call of a manual action keeps the types.
LEMMA TypeMutate ==
  ASSUME TypeOK, NEW u \in Requests, NEW g \in Groups, Mutate(u, g)
  PROVE  TypeOK'
<1>1. wk' \in [Groups -> Worker]
  BY WorkerFacts DEF Mutate, TypeOK
<1>2. up' \in [Groups -> SUBSET Members]
  BY DEF Mutate, TypeOK
<1>3. gen' \in [Groups -> Nat]
  BY DEF Mutate, TypeOK
<1>4. QED
  BY <1>1, <1>2, <1>3 DEF Mutate, TypeOK

\* The controller keeps the types.
LEMMA TypeManage ==
  ASSUME TypeOK, Manage
  PROVE  TypeOK'
<1>1. row \in [Groups -> GroupRow] /\ wk \in [Groups -> Worker]
  BY DEF TypeOK
<1>2. CASE Recover
  BY <1>1, <1>2, RowFacts DEF Recover, TypeOK, runtime
<1>3. CASE Drain
  BY <1>3 DEF Drain, TypeOK, runtime
<1>4. CASE Drained
  BY <1>4, NoWorkerType DEF Drained, TypeOK, runtime
<1>5. ASSUME NEW g \in Groups, Spawn(g)
      PROVE  TypeOK'
  <2>1. row[g].rev \in Nat
    BY <1>1 DEF GroupRow
  <2>2. [NoWorker EXCEPT !.pc = "idle", !.mapped = TRUE, !.rev = row[g].rev] \in Worker
    BY <2>1, NoWorkerType DEF Worker, WorkerPcs
  <2>3. QED
    BY <1>1, <1>5, <2>2 DEF Spawn, TypeOK, runtime
<1>6. ASSUME NEW g \in Groups, Remove(g)
      PROVE  TypeOK'
  BY <1>1, <1>6, WorkerFacts DEF Remove, TypeOK, runtime
<1>7. QED
  BY <1>2, <1>3, <1>4, <1>5, <1>6 DEF Manage

\* Clients, containers and crashes keep the types.
LEMMA TypeEnvironment ==
  ASSUME TypeOK, Environment
  PROVE  TypeOK'
<1>1. wk \in [Groups -> Worker]
  BY DEF TypeOK
<1>2. ASSUME NEW g \in Groups, Attempt(g)
      PROVE  TypeOK'
  BY <1>1, <1>2 DEF Attempt, TypeOK, Worker, runtime
<1>3. ASSUME NEW g \in Groups, Traffic(g)
      PROVE  TypeOK'
  BY <1>1, <1>3, WorkerFacts DEF Traffic, TypeOK, runtime
<1>4. ASSUME NEW g \in Groups, Outside(g)
      PROVE  TypeOK'
  <2>1. wk' \in [Groups -> Worker]
    BY <1>1, <1>4, WorkerFacts DEF Outside
  <2>2. up' \in [Groups -> SUBSET Members]
    BY <1>4 DEF Outside, TypeOK
  <2>3. QED
    BY <1>4, <2>1, <2>2 DEF Outside, TypeOK
<1>5. CASE Crash
  BY <1>5, NoWorkerType, NoRequestType DEF Crash, TypeOK, CoordinatorOf, FreeCoordinator, runtime
<1>6. QED
  BY <1>2, <1>3, <1>4, <1>5 DEF Environment

\* Every step keeps the types.
LEMMA TypeStep == TypeOK /\ [Next]_vars => TypeOK'
<1>1. CASE UNCHANGED vars
  BY <1>1 DEF vars, TypeOK
<1>2. CASE Next
  BY <1>2, TypeLoop, TypeExecute, TypeJob, TypeServe, TypeArrive, TypeMutate,
     TypeManage, TypeEnvironment DEF Next, WorkerStep
<1>3. QED
  BY <1>1, <1>2

\* The initial state is typed.
LEMMA TypeInit == Init => TypeOK
  BY NoRowType, NoWorkerType, NoRequestType DEF Init, TypeOK, CoordinatorOf, FreeCoordinator

\* Rows, workers, requests, the coordinator and the runtime stay in their types,
\* for every number of groups, stacks, requests and members.
THEOREM TypeCorrect == Spec => []TypeOK
  BY TypeInit, TypeStep, PTL DEF Spec

-----------------------------------------------------------------------------
(* Locks.                                                                  *)

\* Only Idle moves a worker to another control point.
LEMMA PcFacts ==
  ASSUME NEW w \in Worker
  PROVE  /\ Closed(w) \in Worker /\ Closed(w).pc = w.pc
         /\ PortsReleased(w) \in Worker /\ PortsReleased(w).pc = w.pc
         /\ Suspended(w).pc = w.pc
         /\ Applied(w) \in Worker /\ Applied(w).pc = w.pc
         /\ Idle(w).pc = "idle"
<1>1. Closed(w) \in Worker /\ Closed(w).pc = w.pc
  BY DEF Closed, Worker
<1>2. PortsReleased(w) \in Worker /\ PortsReleased(w).pc = w.pc
  BY <1>1 DEF PortsReleased
<1>3. Suspended(w).pc = w.pc
  BY <1>1 DEF Suspended, Worker
<1>4. StillSuspended(w) \in BOOLEAN /\ w.read.rev \in Nat
  BY DEF StillSuspended, Worker, GroupRow
<1>5. Applied(w) \in Worker /\ Applied(w).pc = w.pc
  BY <1>4 DEF Applied, Worker
<1>6. Idle(w).pc = "idle"
  BY DEF Idle, Worker
<1>7. QED
  BY <1>1, <1>2, <1>3, <1>5, <1>6

\* A worker's step touches its own group and no request.
LEMMA WorkerFrame ==
  ASSUME TypeOK, NEW g \in Groups, WorkerStep(g)
  PROVE  /\ req' = req /\ ctl' = ctl
         /\ \A h \in Groups \ {g} : wk'[h] = wk[h] /\ row'[h] = row[h]
<1>1. wk \in [Groups -> Worker] /\ row \in [Groups -> GroupRow]
  BY DEF TypeOK
<1>2. CASE Loop(g)
  BY <1>1, <1>2 DEF Loop, Exit, Read, ReadFails, Apply, Probe, Observe, ObserveChanged,
     ObserveFails, Reserve, ReserveFails, SnapshotFails, DecideAction, DecidePause, DecideNothing
<1>3. CASE Execute(g)
  BY <1>1, <1>3 DEF Execute, TryStack, TryFails, Fresh, Verify, Admit, Refuse
<1>4. CASE Job(g)
  BY <1>1, <1>4 DEF Job, RunJob, RunJobFails, BeginTransition, BeginFails, ReleasePorts,
     StartMember, Started, StartFails, StopMember, Stopped, StopFails, Rearm, Abort,
     Complete, CompleteFails, WaitErr
<1>5. QED
  BY <1>2, <1>3, <1>4 DEF WorkerStep

\* Whoever may own a scope: the worker of a group, or a request.
Actors == Groups \cup Requests
\* What may be owned.
Scopes == Stacks \cup {Repository}

\* A goroutine holds a scope exactly while it serves a request.
ScopeInv == \A u \in Requests : req[u].pc = "idle" <=> req[u].scope = None

\* The flag that Try set for a scope.
Locked(x) == IF x = Repository THEN coord.repository ELSE x \in coord.stacks

\* Every owner's flag is set, and no two owners conflict.
LockInv ==
    /\ \A a \in Actors : owner[a] # None => Locked(owner[a])
    /\ \A a, b \in Actors :
          (a # b /\ owner[a] # None /\ owner[b] # None) =>
             ~Excl!Conflict(owner[a], owner[b])

\* A step may leave owners and flags alone.
OwnerKeeps == owner' = owner /\ coord' = coord

\* Try grants a stack.
TakesStack(a, s) ==
    /\ owner[a] = None
    /\ Try(coord, FALSE, {s})
    /\ coord' = Granted(coord, FALSE, {s})
    /\ owner' = [owner EXCEPT ![a] = s]

\* Try grants the repository.
TakesRepository(a) ==
    /\ owner[a] = None
    /\ Try(coord, TRUE, {})
    /\ coord' = Granted(coord, TRUE, {})
    /\ owner' = [owner EXCEPT ![a] = Repository]

\* The owner releases what it was granted.
Returns(a) ==
    /\ owner[a] # None
    /\ coord' = Released(coord, owner[a] = Repository, {owner[a]} \cap Stacks)
    /\ owner' = [owner EXCEPT ![a] = None]

\* The process dies, and its locks with it.
Dies == owner' = [a \in Actors |-> None] /\ coord' = FreeCoordinator

\* The five things a step can do to the owners.
OwnerStep ==
    \/ OwnerKeeps
    \/ \E a \in Actors : Returns(a) \/ TakesRepository(a) \/ \E s \in Stacks : TakesStack(a, s)
    \/ Dies

\* owner, actor by actor.
OwnerFacts ==
    /\ owner \in [Actors -> Scopes \cup {None}]
    /\ \A g \in Groups : owner[g] = IF wk[g].pc \in CriticalPcs THEN StackOf[g] ELSE None
    /\ \A u \in Requests : owner[u] = req[u].scope

\* What owner says, actor by actor.
LEMMA OwnerValues == TypeOK => OwnerFacts
<1>. SUFFICES ASSUME TypeOK
              PROVE  OwnerFacts
  OBVIOUS
<1>1. \A g \in Groups : StackOf[g] \in Stacks
  BY ConstantsOK
<1>2. \A u \in Requests : req[u].scope \in Scopes \cup {None} /\ u \notin Groups
  BY ConstantsOK DEF TypeOK, Request, Scopes
<1>3. QED
  BY <1>1, <1>2 DEF OwnerFacts, owner, Actors, Scopes

\* The same after a step.
LEMMA OwnerValuesNext == TypeOK' => OwnerFacts'
  BY OwnerValues, PTL

\* The owner of everyone but a is the same.
LEMMA OwnerUpdate ==
  ASSUME TypeOK, TypeOK', NEW a \in Actors,
         \A h \in Groups \ {a} : wk'[h].pc = wk[h].pc,
         \A v \in Requests \ {a} : req'[v].scope = req[v].scope
  PROVE  owner' = [owner EXCEPT ![a] = owner'[a]]
  BY OwnerValues, OwnerValuesNext DEF OwnerFacts, Actors

\* A worker that neither takes nor drops the lock changes no owner.
LEMMA WorkerOwnerKeeps ==
  ASSUME TypeOK, TypeOK', NEW g \in Groups, WorkerStep(g), coord' = coord,
         wk'[g].pc \in CriticalPcs <=> wk[g].pc \in CriticalPcs
  PROVE  OwnerStep
<1>1. owner'[g] = owner[g]
  BY OwnerValues, OwnerValuesNext DEF OwnerFacts
<1>2. owner' = [owner EXCEPT ![g] = owner'[g]]
  BY OwnerUpdate, WorkerFrame DEF Actors
<1>3. owner' = owner
  BY <1>1, <1>2, OwnerValues DEF OwnerFacts, Actors
<1>4. QED
  BY <1>3 DEF OwnerStep, OwnerKeeps

\* A worker that drops the lock leaves its stack.
LEMMA WorkerOwnerReturns ==
  ASSUME TypeOK, TypeOK', NEW g \in Groups, WorkerStep(g), DropStack(g),
         wk'[g].pc \notin CriticalPcs, wk[g].pc \in CriticalPcs
  PROVE  OwnerStep
<1>1. owner[g] = StackOf[g] /\ owner'[g] = None
  BY OwnerValues, OwnerValuesNext DEF OwnerFacts
<1>2. owner' = [owner EXCEPT ![g] = None]
  BY <1>1, OwnerUpdate, WorkerFrame DEF Actors
<1>3. StackOf[g] \in Stacks /\ StackOf[g] # Repository /\ StackOf[g] # None
  BY ConstantsOK
<1>4. Returns(g)
  BY <1>1, <1>2, <1>3 DEF Returns, DropStack, Released
<1>5. QED
  BY <1>4 DEF OwnerStep, Actors

\* TryStack makes the worker the owner of its stack.
LEMMA WorkerOwnerTakes ==
  ASSUME TypeOK, TypeOK', NEW g \in Groups, TryStack(g)
  PROVE  OwnerStep
<1>1. /\ wk[g].pc \notin CriticalPcs /\ wk'[g].pc \in CriticalPcs
      /\ \A h \in Groups \ {g} : wk'[h].pc = wk[h].pc
  BY DEF TryStack, TypeOK, Worker, CriticalPcs
<1>2. owner[g] = None /\ owner'[g] = StackOf[g]
  BY <1>1, OwnerValues, OwnerValuesNext DEF OwnerFacts
<1>3. owner' = [owner EXCEPT ![g] = StackOf[g]]
  BY <1>1, <1>2, OwnerUpdate DEF TryStack, Actors
<1>4. TakesStack(g, StackOf[g])
  BY <1>2, <1>3 DEF TakesStack, TryStack, TakeStack
<1>5. QED
  BY <1>4, ConstantsOK DEF OwnerStep, Actors

\* Whatever a step does to the owners, the flags of the coordinator still stand
\* for them.  The release closure clears a flag without looking who set it; it is
\* harmless because no second owner can exist.
LEMMA LockStep ==
  ASSUME TypeOK, TypeOK', LockInv, OwnerStep
  PROVE  LockInv'
<1>1. owner \in [Actors -> Scopes \cup {None}]
  BY OwnerValues DEF OwnerFacts
<1>2. coord.repository \in BOOLEAN /\ coord.stacks \subseteq Stacks
      /\ coord \in CoordinatorOf(Stacks)
  BY DEF TypeOK, CoordinatorOf
<1>3. Repository # None /\ Repository \notin Stacks /\ None \notin Stacks
  BY ConstantsOK
<1>4. CASE OwnerKeeps
  BY <1>4 DEF OwnerKeeps, LockInv, Locked
<1>5. ASSUME NEW a \in Actors, Returns(a)
      PROVE  LockInv'
  BY <1>1, <1>2, <1>3, <1>5 DEF Returns, LockInv, Locked, Released, Excl!Conflict, Scopes
<1>6. ASSUME NEW a \in Actors, TakesRepository(a)
      PROVE  LockInv'
  BY <1>1, <1>2, <1>3, <1>6 DEF TakesRepository, Try, LockInv, Locked, Granted, Excl!Conflict, Scopes
<1>7. ASSUME NEW a \in Actors, NEW s \in Stacks, TakesStack(a, s)
      PROVE  LockInv'
  BY <1>1, <1>2, <1>3, <1>7 DEF TakesStack, Try, LockInv, Locked, Granted, Excl!Conflict, Scopes
<1>8. CASE Dies
  BY <1>8 DEF Dies, LockInv
<1>9. QED
  BY <1>4, <1>5, <1>6, <1>7, <1>8 DEF OwnerStep

\* Such a step is a step of Exclusion.
LEMMA OwnerStepRefines ==
  ASSUME TypeOK, LockInv, OwnerStep
  PROVE  [Excl!Next]_owner
<1>1. owner \in [Actors -> Scopes \cup {None}]
  BY OwnerValues DEF OwnerFacts
<1>2. coord.repository \in BOOLEAN /\ coord.stacks \subseteq Stacks
  BY DEF TypeOK, CoordinatorOf
<1>3. Repository # None /\ Repository \notin Stacks /\ None \notin Stacks
  BY ConstantsOK
<1>4. CASE OwnerKeeps
  BY <1>4 DEF OwnerKeeps
<1>5. ASSUME NEW a \in Actors, Returns(a)
      PROVE  Excl!Next
  BY <1>5 DEF Returns, Excl!Next, Excl!Leave, Actors
<1>6. ASSUME NEW a \in Actors, TakesRepository(a)
      PROVE  Excl!Next
  <2>1. \A b \in Actors : owner[b] = None
    BY <1>1, <1>3, <1>6 DEF TakesRepository, Try, LockInv, Locked, Scopes
  <2>2. QED
    BY <1>6, <2>1 DEF TakesRepository, Excl!Next, Excl!Acquire, Excl!Scopes, Actors
<1>7. ASSUME NEW a \in Actors, NEW s \in Stacks, TakesStack(a, s)
      PROVE  Excl!Next
  <2>1. \A b \in Actors : owner[b] # None => ~Excl!Conflict(owner[b], s)
    BY <1>1, <1>3, <1>7 DEF TakesStack, Try, LockInv, Locked, Scopes, Excl!Conflict
  <2>2. Excl!Acquire(a, s)
    BY <1>7, <2>1 DEF TakesStack, Excl!Acquire, Actors
  <2>3. QED
    BY <2>2 DEF Excl!Next, Excl!Scopes, Actors
<1>8. CASE Dies
  BY <1>8 DEF Dies, Excl!Next, Excl!Die, Actors
<1>9. QED
  BY <1>4, <1>5, <1>6, <1>7, <1>8 DEF OwnerStep

\* An iteration of runGroup does not hold the lock.
LEMMA LoopScope ==
  ASSUME TypeOK, NEW g \in Groups, Loop(g)
  PROVE  coord' = coord /\ wk[g].pc \notin CriticalPcs /\ wk'[g].pc \notin CriticalPcs
<1>1. wk \in [Groups -> Worker] /\ wk[g] \in Worker
  BY DEF TypeOK
<1>2. CASE Exit(g)
  BY <1>1, <1>2, PcFacts DEF Exit, Worker, CriticalPcs
<1>3. CASE Read(g)
  BY <1>1, <1>3, PcFacts DEF Read, Worker, CriticalPcs
<1>4. CASE ReadFails(g)
  BY <1>1, <1>4, PcFacts DEF ReadFails, Worker, CriticalPcs
<1>5. CASE Apply(g)
  BY <1>1, <1>5, PcFacts DEF Apply, Worker, CriticalPcs
<1>6. CASE Probe(g)
  BY <1>1, <1>6, PcFacts DEF Probe, Worker, CriticalPcs
<1>7. CASE Observe(g)
  BY <1>1, <1>7, PcFacts DEF Observe, Worker, CriticalPcs
<1>8. CASE ObserveChanged(g)
  BY <1>1, <1>8, PcFacts DEF ObserveChanged, Worker, CriticalPcs
<1>9. CASE ObserveFails(g)
  BY <1>1, <1>9, PcFacts DEF ObserveFails, Worker, CriticalPcs
<1>10. CASE Reserve(g)
  BY <1>1, <1>10, PcFacts DEF Reserve, Worker, CriticalPcs
<1>11. CASE ReserveFails(g)
  BY <1>1, <1>11, PcFacts DEF ReserveFails, Worker, CriticalPcs
<1>12. CASE SnapshotFails(g)
  BY <1>1, <1>12, PcFacts DEF SnapshotFails, Worker, CriticalPcs
<1>13. CASE DecideAction(g)
  BY <1>1, <1>13, PcFacts DEF DecideAction, Worker, CriticalPcs
<1>14. CASE DecidePause(g)
  BY <1>1, <1>14, PcFacts DEF DecidePause, Worker, CriticalPcs
<1>15. CASE DecideNothing(g)
  BY <1>1, <1>15, PcFacts DEF DecideNothing, Worker, CriticalPcs
<1>16. QED
  BY <1>2, <1>3, <1>4, <1>5, <1>6, <1>7, <1>8, <1>9, <1>10, <1>11, <1>12, <1>13, <1>14, <1>15 DEF Loop

\* An iteration of runGroup changes no owner.
LEMMA OwnerLoop ==
  ASSUME TypeOK, TypeOK', NEW g \in Groups, Loop(g)
  PROVE  OwnerStep
  BY LoopScope, WorkerOwnerKeeps DEF WorkerStep

\* Admission takes the lock, keeps it or returns it.
LEMMA OwnerExecute ==
  ASSUME TypeOK, TypeOK', NEW g \in Groups, Execute(g)
  PROVE  OwnerStep
<1>1. wk \in [Groups -> Worker] /\ wk[g] \in Worker /\ WorkerStep(g)
  BY DEF TypeOK, WorkerStep
<1>2. CASE TryStack(g)
  BY <1>2, WorkerOwnerTakes
<1>3. CASE TryFails(g)
  <2>1. (wk[g].pc \in CriticalPcs <=> wk'[g].pc \in CriticalPcs) /\ coord' = coord
    BY <1>1, <1>3, PcFacts DEF TryFails, Worker, CriticalPcs
  <2>2. QED
    BY <1>1, <2>1, WorkerOwnerKeeps
<1>4. CASE Fresh(g)
  <2>1. (wk[g].pc \in CriticalPcs <=> wk'[g].pc \in CriticalPcs) /\ coord' = coord
    BY <1>1, <1>4, PcFacts DEF Fresh, Worker, CriticalPcs
  <2>2. QED
    BY <1>1, <2>1, WorkerOwnerKeeps
<1>5. CASE Verify(g)
  <2>1. (wk[g].pc \in CriticalPcs <=> wk'[g].pc \in CriticalPcs) /\ coord' = coord
    BY <1>1, <1>5, PcFacts DEF Verify, Worker, CriticalPcs
  <2>2. QED
    BY <1>1, <2>1, WorkerOwnerKeeps
<1>6. CASE Admit(g)
  <2>1. (wk[g].pc \in CriticalPcs <=> wk'[g].pc \in CriticalPcs) /\ coord' = coord
    BY <1>1, <1>6, PcFacts DEF Admit, Worker, CriticalPcs
  <2>2. QED
    BY <1>1, <2>1, WorkerOwnerKeeps
<1>7. CASE Refuse(g)
  <2>1. wk[g].pc \in CriticalPcs /\ wk'[g].pc \notin CriticalPcs /\ DropStack(g)
    BY <1>1, <1>7, PcFacts DEF Refuse, Worker, CriticalPcs
  <2>2. QED
    BY <1>1, <2>1, WorkerOwnerReturns
<1>8. QED
  BY <1>2, <1>3, <1>4, <1>5, <1>6, <1>7 DEF Execute

\* The job keeps the lock until it returns it.
LEMMA OwnerJob ==
  ASSUME TypeOK, TypeOK', NEW g \in Groups, Job(g)
  PROVE  OwnerStep
<1>1. wk \in [Groups -> Worker] /\ wk[g] \in Worker /\ WorkerStep(g)
  BY DEF TypeOK, WorkerStep
<1>2. CASE RunJob(g)
  <2>1. (wk[g].pc \in CriticalPcs <=> wk'[g].pc \in CriticalPcs) /\ coord' = coord
    BY <1>1, <1>2, PcFacts DEF RunJob, Worker, CriticalPcs
  <2>2. QED
    BY <1>1, <2>1, WorkerOwnerKeeps
<1>3. CASE RunJobFails(g)
  <2>1. wk[g].pc \in CriticalPcs /\ wk'[g].pc \notin CriticalPcs /\ DropStack(g)
    BY <1>1, <1>3, PcFacts DEF RunJobFails, Worker, CriticalPcs
  <2>2. QED
    BY <1>1, <2>1, WorkerOwnerReturns
<1>4. CASE BeginTransition(g)
  <2>1. (wk[g].pc \in CriticalPcs <=> wk'[g].pc \in CriticalPcs) /\ coord' = coord
    BY <1>1, <1>4, PcFacts DEF BeginTransition, Worker, CriticalPcs
  <2>2. QED
    BY <1>1, <2>1, WorkerOwnerKeeps
<1>5. CASE BeginFails(g)
  <2>1. (wk[g].pc \in CriticalPcs <=> wk'[g].pc \in CriticalPcs) /\ coord' = coord
    BY <1>1, <1>5, PcFacts DEF BeginFails, Worker, CriticalPcs
  <2>2. QED
    BY <1>1, <2>1, WorkerOwnerKeeps
<1>6. CASE ReleasePorts(g)
  <2>1. (wk[g].pc \in CriticalPcs <=> wk'[g].pc \in CriticalPcs) /\ coord' = coord
    BY <1>1, <1>6, PcFacts DEF ReleasePorts, Worker, CriticalPcs
  <2>2. QED
    BY <1>1, <2>1, WorkerOwnerKeeps
<1>7. CASE StartMember(g)
  <2>1. (wk[g].pc \in CriticalPcs <=> wk'[g].pc \in CriticalPcs) /\ coord' = coord
    BY <1>1, <1>7, PcFacts DEF StartMember, Worker, CriticalPcs
  <2>2. QED
    BY <1>1, <2>1, WorkerOwnerKeeps
<1>8. CASE Started(g)
  <2>1. (wk[g].pc \in CriticalPcs <=> wk'[g].pc \in CriticalPcs) /\ coord' = coord
    BY <1>1, <1>8, PcFacts DEF Started, Worker, CriticalPcs
  <2>2. QED
    BY <1>1, <2>1, WorkerOwnerKeeps
<1>9. CASE StartFails(g)
  <2>1. (wk[g].pc \in CriticalPcs <=> wk'[g].pc \in CriticalPcs) /\ coord' = coord
    BY <1>1, <1>9, PcFacts DEF StartFails, Worker, CriticalPcs
  <2>2. QED
    BY <1>1, <2>1, WorkerOwnerKeeps
<1>10. CASE StopMember(g)
  <2>1. (wk[g].pc \in CriticalPcs <=> wk'[g].pc \in CriticalPcs) /\ coord' = coord
    BY <1>1, <1>10, PcFacts DEF StopMember, Worker, CriticalPcs
  <2>2. QED
    BY <1>1, <2>1, WorkerOwnerKeeps
<1>11. CASE Stopped(g)
  <2>1. (wk[g].pc \in CriticalPcs <=> wk'[g].pc \in CriticalPcs) /\ coord' = coord
    BY <1>1, <1>11, PcFacts DEF Stopped, Worker, CriticalPcs
  <2>2. QED
    BY <1>1, <2>1, WorkerOwnerKeeps
<1>12. CASE StopFails(g)
  <2>1. (wk[g].pc \in CriticalPcs <=> wk'[g].pc \in CriticalPcs) /\ coord' = coord
    BY <1>1, <1>12, PcFacts DEF StopFails, Worker, CriticalPcs
  <2>2. QED
    BY <1>1, <2>1, WorkerOwnerKeeps
<1>13. CASE Rearm(g)
  <2>1. (wk[g].pc \in CriticalPcs <=> wk'[g].pc \in CriticalPcs) /\ coord' = coord
    BY <1>1, <1>13, PcFacts DEF Rearm, Worker, CriticalPcs
  <2>2. QED
    BY <1>1, <2>1, WorkerOwnerKeeps
<1>14. CASE Abort(g)
  <2>1. (wk[g].pc \in CriticalPcs <=> wk'[g].pc \in CriticalPcs) /\ coord' = coord
    BY <1>1, <1>14, PcFacts DEF Abort, Worker, CriticalPcs
  <2>2. QED
    BY <1>1, <2>1, WorkerOwnerKeeps
<1>15. CASE Complete(g)
  <2>1. wk[g].pc \in CriticalPcs /\ wk'[g].pc \notin CriticalPcs /\ DropStack(g)
    BY <1>1, <1>15, PcFacts DEF Complete, Worker, CriticalPcs
  <2>2. QED
    BY <1>1, <2>1, WorkerOwnerReturns
<1>16. CASE CompleteFails(g)
  <2>1. wk[g].pc \in CriticalPcs /\ wk'[g].pc \notin CriticalPcs /\ DropStack(g)
    BY <1>1, <1>16, PcFacts DEF CompleteFails, Worker, CriticalPcs
  <2>2. QED
    BY <1>1, <2>1, WorkerOwnerReturns
<1>17. CASE WaitErr(g)
  <2>1. (wk[g].pc \in CriticalPcs <=> wk'[g].pc \in CriticalPcs) /\ coord' = coord
    BY <1>1, <1>17, PcFacts DEF WaitErr, Worker, CriticalPcs
  <2>2. QED
    BY <1>1, <2>1, WorkerOwnerKeeps
<1>18. QED
  BY <1>2, <1>3, <1>4, <1>5, <1>6, <1>7, <1>8, <1>9, <1>10, <1>11, <1>12, <1>13, <1>14, <1>15, <1>16, <1>17 DEF Job

\* No owner changes when no control point enters or leaves a critical section.
LEMMA OwnerSame ==
  ASSUME TypeOK, TypeOK', coord' = coord,
         \A g \in Groups : wk'[g].pc \in CriticalPcs <=> wk[g].pc \in CriticalPcs,
         \A u \in Requests : req'[u].scope = req[u].scope
  PROVE  OwnerStep
<1>1. \A a \in Actors : owner'[a] = owner[a]
  BY OwnerValues, OwnerValuesNext DEF OwnerFacts, Actors
<1>2. owner' = owner
  BY <1>1, OwnerValues, OwnerValuesNext DEF OwnerFacts
<1>3. QED
  BY <1>2 DEF OwnerStep, OwnerKeeps

\* Serving a request touches no other request and moves no worker.
LEMMA ServeFrame ==
  ASSUME TypeOK, NEW u \in Requests, Serve(u)
  PROVE  /\ \A v \in Requests \ {u} : req'[v] = req[v]
         /\ \A g \in Groups : wk'[g] \in {wk[g], Suspended(wk[g])}
         /\ ctl' = ctl
         /\ req'[u] = NoRequest \/ (req'[u].hit = req[u].hit /\ req'[u].kind = req[u].kind)
         /\ req[u].pc # "idle"
<1>1. /\ req \in [Requests -> Request] /\ req[u] \in Request
      /\ wk \in [Groups -> Worker]
  BY DEF TypeOK
<1>. USE <1>1 DEF Request
<1>2. CASE Snapshot(u)
  BY <1>2 DEF Snapshot
<1>3. CASE SuspendGroup(u) \/ ReleaseHolds(u)
  BY <1>3 DEF SuspendGroup, ReleaseHolds
<1>4. CASE Leave(u)
  BY <1>4 DEF Leave, NoRequest
<1>5. CASE AdmitAction(u) \/ ActionFails(u) \/ RunAction(u) \/ FinishAction(u)
  BY <1>5 DEF AdmitAction, ActionFails, RunAction, FinishAction
<1>6. CASE Commit(u)
  BY <1>6 DEF Commit
<1>7. CASE CommitInactive(u) \/ PolicyFails(u)
  BY <1>7 DEF CommitInactive, PolicyFails
<1>8. QED
  BY <1>2, <1>3, <1>4, <1>5, <1>6, <1>7 DEF Serve

\* A request keeps its scope until it leaves.
LEMMA ServeScope ==
  ASSUME TypeOK, NEW u \in Requests, Serve(u), ~Leave(u)
  PROVE  coord' = coord /\ req'[u].scope = req[u].scope /\ req'[u].pc # "idle"
<1>1. req \in [Requests -> Request] /\ req[u] \in Request
  BY DEF TypeOK
<1>. USE <1>1 DEF Request
<1>2. CASE Snapshot(u)
  BY <1>2 DEF Snapshot
<1>3. CASE SuspendGroup(u) \/ ReleaseHolds(u)
  BY <1>3 DEF SuspendGroup, ReleaseHolds
<1>4. CASE AdmitAction(u) \/ ActionFails(u) \/ RunAction(u) \/ FinishAction(u)
  BY <1>4 DEF AdmitAction, ActionFails, RunAction, FinishAction
<1>5. CASE Commit(u)
  BY <1>5 DEF Commit
<1>6. CASE CommitInactive(u) \/ PolicyFails(u)
  BY <1>6 DEF CommitInactive, PolicyFails
<1>7. QED
  BY <1>2, <1>3, <1>4, <1>5, <1>6 DEF Serve

\* A request returns its scope when it leaves, and only then.
LEMMA OwnerServe ==
  ASSUME TypeOK, TypeOK', ScopeInv, NEW u \in Requests, Serve(u)
  PROVE  OwnerStep /\ ScopeInv'
<1>1. \A g \in Groups : wk'[g].pc = wk[g].pc
  BY ServeFrame, PcFacts DEF TypeOK
<1>2. CASE Leave(u)
  <2>1. owner[u] = req[u].scope /\ owner[u] # None /\ owner'[u] = None /\ req'[u] = NoRequest
    BY <1>2, OwnerValues, OwnerValuesNext DEF Leave, OwnerFacts, ScopeInv, NoRequest, TypeOK
  <2>2. owner' = [owner EXCEPT ![u] = None]
    BY <1>1, <2>1, ServeFrame, OwnerUpdate DEF Actors
  <2>3. Returns(u)
    BY <1>2, <2>1, <2>2 DEF Leave, Returns
  <2>4. ScopeInv'
    BY <2>1, ServeFrame DEF ScopeInv, NoRequest
  <2>5. QED
    BY <2>3, <2>4 DEF OwnerStep, Actors
<1>3. CASE ~Leave(u)
  <2>1. \A v \in Requests : req'[v].scope = req[v].scope
    BY <1>3, ServeScope, ServeFrame
  <2>2. ScopeInv'
    BY <1>3, ServeScope, ServeFrame DEF ScopeInv
  <2>3. QED
    BY <1>1, <1>3, <2>1, <2>2, ServeScope, OwnerSame
<1>4. QED
  BY <1>2, <1>3

\* A request arrives with a scope that Try granted.
LEMMA ArriveFrame ==
  ASSUME TypeOK, NEW u \in Requests, Arrive(u)
  PROVE  /\ UNCHANGED <<row, wk, ctl>> /\ req[u].pc = "idle"
         /\ \A v \in Requests \ {u} : req'[v] = req[v]
         /\ req'[u].pc \in {"held", "leave"}
         /\ \A g \in req'[u].hit : g \in Groups /\ StackOf[g] = req'[u].scope
         /\ req'[u].kind \in PolicyKinds => \E g \in Groups : req'[u].hit = {g}
         /\ \/ /\ req'[u].scope = Repository /\ Try(coord, TRUE, {})
               /\ coord' = Granted(coord, TRUE, {})
            \/ \E s \in Stacks : /\ req'[u].scope = s /\ Try(coord, FALSE, {s})
                                 /\ coord' = Granted(coord, FALSE, {s})
<1>1. req \in [Requests -> Request]
  BY DEF TypeOK
<1>2. ASSUME NEW k \in Kinds \cap PolicyKinds, NEW g \in Groups, BeginPolicy(u, k, g)
      PROVE  /\ UNCHANGED <<row, wk, ctl>> /\ req[u].pc = "idle"
             /\ \A v \in Requests \ {u} : req'[v] = req[v]
             /\ req'[u].pc = "held" /\ req'[u].hit = {g} /\ req'[u].scope = StackOf[g]
             /\ Try(coord, FALSE, {StackOf[g]}) /\ coord' = Granted(coord, FALSE, {StackOf[g]})
  BY <1>1, <1>2 DEF BeginPolicy, TakeStack, NoRequest
<1>3. ASSUME NEW k \in Kinds \cap StackKinds, NEW s \in Stacks, NEW hit \in SUBSET GroupsOf(s),
             BeginAction(u, k, s, hit)
      PROVE  /\ UNCHANGED <<row, wk, ctl>> /\ req[u].pc = "idle"
             /\ \A v \in Requests \ {u} : req'[v] = req[v]
             /\ req'[u].pc = "held" /\ req'[u].hit = hit /\ req'[u].scope = s /\ req'[u].kind = k
             /\ Try(coord, FALSE, {s}) /\ coord' = Granted(coord, FALSE, {s})
  BY <1>1, <1>3 DEF BeginAction, NoRequest
<1>4. ASSUME BeginRepository(u)
      PROVE  /\ UNCHANGED <<row, wk, ctl>> /\ req[u].pc = "idle"
             /\ \A v \in Requests \ {u} : req'[v] = req[v]
             /\ req'[u].pc = "leave" /\ req'[u].hit = {} /\ req'[u].scope = Repository
             /\ req'[u].kind = "repository"
             /\ Try(coord, TRUE, {}) /\ coord' = Granted(coord, TRUE, {})
  BY <1>1, <1>4 DEF BeginRepository, NoRequest
<1>5. \A g \in Groups : StackOf[g] \in Stacks
  BY ConstantsOK
<1>6. CASE \E k \in Kinds \cap PolicyKinds, g \in Groups : BeginPolicy(u, k, g)
  BY <1>2, <1>5, <1>6
<1>7. CASE \E k \in Kinds \cap StackKinds, s \in Stacks :
              \E hit \in SUBSET GroupsOf(s) : BeginAction(u, k, s, hit)
  <2>1. PICK k \in Kinds \cap StackKinds, s \in Stacks :
           \E hit \in SUBSET GroupsOf(s) : BeginAction(u, k, s, hit)
    BY <1>7
  <2>2. k \notin PolicyKinds
    BY DEF StackKinds, InterlockKinds, PolicyKinds
  <2>3. PICK hit \in SUBSET GroupsOf(s) : BeginAction(u, k, s, hit)
    BY <2>1
  <2>4. \A g \in hit : g \in Groups /\ StackOf[g] = s
    BY DEF GroupsOf
  <2>5. /\ UNCHANGED <<row, wk, ctl>> /\ req[u].pc = "idle"
        /\ \A v \in Requests \ {u} : req'[v] = req[v]
        /\ req'[u].pc = "held" /\ req'[u].hit = hit /\ req'[u].scope = s /\ req'[u].kind = k
        /\ Try(coord, FALSE, {s}) /\ coord' = Granted(coord, FALSE, {s})
    BY <1>3, <2>3
  <2>6. QED
    BY <2>2, <2>4, <2>5
<1>8. CASE BeginRepository(u)
  BY <1>4, <1>8 DEF PolicyKinds
<1>9. QED
  BY <1>6, <1>7, <1>8 DEF Arrive

\* An arriving request becomes an owner.
LEMMA OwnerArrive ==
  ASSUME TypeOK, TypeOK', ScopeInv, NEW u \in Requests, Arrive(u)
  PROVE  OwnerStep /\ ScopeInv'
<1>1. /\ wk' = wk /\ req[u].pc = "idle" /\ req'[u].pc # "idle"
      /\ \A v \in Requests \ {u} : req'[v] = req[v]
  BY ArriveFrame
<1>2. req[u].scope = None
  BY <1>1 DEF ScopeInv
<1>3. owner[u] = None /\ owner'[u] = req'[u].scope
  BY <1>2, OwnerValues, OwnerValuesNext DEF OwnerFacts
<1>4. owner' = [owner EXCEPT ![u] = req'[u].scope]
  BY <1>1, <1>3, OwnerUpdate DEF Actors
<1>5. OwnerStep
  BY <1>3, <1>4, ArriveFrame DEF OwnerStep, TakesRepository, TakesStack, Actors
<1>6. req'[u].scope \in Stacks \cup {Repository}
  BY ArriveFrame
<1>7. req'[u].scope # None
  BY <1>6, ConstantsOK
<1>8. QED
  BY <1>1, <1>5, <1>7 DEF ScopeInv

\* Nothing else changes an owner, except a crash, which frees all of them.
LEMMA OwnerRest ==
  ASSUME TypeOK, TypeOK', ScopeInv, Manage \/ Environment \/ \E u \in Requests, g \in Groups : Mutate(u, g)
  PROVE  OwnerStep /\ ScopeInv'
<1>1. wk \in [Groups -> Worker]
  BY DEF TypeOK
<1>2. CASE Crash
  <2>1. \A a \in Actors : owner'[a] = None
    BY <1>2, OwnerValuesNext DEF Crash, OwnerFacts, Actors, NoWorker, NoRequest, CriticalPcs
  <2>2. owner' = [a \in Actors |-> None]
    BY <2>1, OwnerValuesNext DEF OwnerFacts
  <2>3. QED
    BY <1>2, <2>2 DEF Crash, OwnerStep, Dies, ScopeInv, NoRequest
<1>3. CASE ~Crash
  <2>1. coord' = coord /\ req' = req
    BY <1>3 DEF Manage, Environment, Mutate, Recover, Drain, Drained, Spawn, Remove, Attempt, Traffic, Outside
  <2>2. \A h \in Groups : wk'[h].pc \in CriticalPcs <=> wk[h].pc \in CriticalPcs
    <3>1. CASE Recover \/ Drain
      BY <3>1 DEF Recover, Drain
    <3>2. CASE Drained
      BY <3>2 DEF Drained, NoWorker, CriticalPcs
    <3>3. ASSUME NEW g \in Groups, Spawn(g)
          PROVE  \A h \in Groups : wk'[h].pc \in CriticalPcs <=> wk[h].pc \in CriticalPcs
      BY <1>1, <3>3 DEF Spawn, NoWorker, CriticalPcs
    <3>4. ASSUME NEW g \in Groups, Remove(g) \/ Attempt(g) \/ Traffic(g) \/ Outside(g)
                                   \/ \E u \in Requests : Mutate(u, g)
          PROVE  \A h \in Groups : wk'[h].pc = wk[h].pc
      BY <1>1, <3>4 DEF Remove, Attempt, Traffic, Outside, Mutate, Worker
    <3>5. QED
      BY <1>3, <3>1, <3>2, <3>3, <3>4 DEF Manage, Environment
  <2>3. QED
    BY <2>1, <2>2, OwnerSame DEF ScopeInv
<1>4. QED
  BY <1>2, <1>3

\* Every step is one of the five things that can happen to the owners.
LEMMA OwnerNext ==
  ASSUME TypeOK, TypeOK', ScopeInv, [Next]_vars
  PROVE  OwnerStep /\ ScopeInv'
<1>1. CASE UNCHANGED vars
  BY <1>1, OwnerSame DEF vars, ScopeInv
<1>2. ASSUME NEW g \in Groups, WorkerStep(g)
      PROVE  OwnerStep /\ ScopeInv'
  <2>1. OwnerStep
    BY <1>2, OwnerLoop, OwnerExecute, OwnerJob DEF WorkerStep
  <2>2. QED
    BY <1>2, <2>1, WorkerFrame DEF ScopeInv
<1>3. QED
  BY <1>1, <1>2, OwnerServe, OwnerArrive, OwnerRest DEF Next

\* At the start nobody owns anything.
LEMMA LockInit == Init => ScopeInv /\ LockInv
<1>. SUFFICES ASSUME Init
              PROVE  ScopeInv /\ LockInv
  OBVIOUS
<1>1. \A a \in Actors : owner[a] = None
  BY TypeInit, OwnerValues DEF OwnerFacts, Actors, Init, NoWorker, NoRequest, CriticalPcs
<1>2. QED
  BY <1>1 DEF Init, ScopeInv, LockInv, NoRequest

\* The coordinator's flags stand for the owners, in every reachable state.
LEMMA LocksHold == Spec => [](TypeOK /\ ScopeInv /\ LockInv)
<1>1. Init => TypeOK /\ ScopeInv /\ LockInv
  BY TypeInit, LockInit
<1>2. TypeOK /\ ScopeInv /\ LockInv /\ [Next]_vars => (TypeOK /\ ScopeInv /\ LockInv)'
  BY TypeStep, OwnerNext, LockStep
<1>3. QED
  BY <1>1, <1>2, PTL DEF Spec

\* Workers, policy requests, manual actions and repository actions implement
\* mutual exclusion on stacks, for every number of them: Coordinator.Try and its
\* unconditional release closure are enough.
THEOREM SpecImplementsExclusion == Spec => MutualExclusion
<1>1. Init => Excl!Init
  BY TypeInit, OwnerValues DEF OwnerFacts, Actors, Init, NoWorker, NoRequest, CriticalPcs, Excl!Init
<1>2. TypeOK /\ TypeOK' /\ ScopeInv /\ LockInv /\ [Next]_vars => [Excl!Next]_owner
  BY OwnerNext, OwnerStepRefines
<1>3. QED
  BY <1>1, <1>2, LocksHold, PTL DEF Spec, MutualExclusion, Excl!Spec

-----------------------------------------------------------------------------
(* Automatic transitions.                                                  *)

\* Control points after Apply: the worker's revision is the one it read.
Past == WorkerPcs \ {"none", "idle", "apply"}
\* Under the lock, the row re-read and found unchanged.
Admitting == {"verify", "admit", "queued", "begin"}
\* Between BeginTransition and the completion it reports.
Mutating(w) == \/ w.pc \in {"ports", "start", "stop", "rearm", "abort"}
               \/ w.pc = "complete" /\ w.outcome # "none"

\* The inductive invariant of one group: what its worker w may rely on about the
\* row r at each control point.  A suspension can outlive its revision, but not
\* while the row it is compared with is armed.
GroupInv(w, r) ==
    /\ r.state = "absent" => r = NoRow
    /\ w.pc # "none" => r.state # "absent"
    /\ (w.pc # "none" /\ r.state = "present") => w.mapped
    /\ r.state # "deleted" => w.rev <= r.rev /\ w.read.rev <= r.rev
    /\ w.pc \in Past => w.rev = w.read.rev
    /\ (w.suspended /\ w.rev = r.rev) => ~Armed(r)
    /\ w.pc \in Admitting =>
          Armed(r) /\ r.rev = w.read.rev /\ r.phase = w.read.phase
    /\ Mutating(w) =>
          Armed(r) /\ r.rev = w.read.rev /\ r.claimed /\ r.phase = During(w.action)
    /\ w.pc = "start" => w.listener = "closed"
    /\ w.outcome # "none" => w.pc \in {"complete", "waitErr"}

\* A worker that goes back to the top of its loop keeps the invariant.
LEMMA IdleInv ==
  ASSUME NEW w \in Worker, NEW r \in GroupRow, GroupInv(w, r), w.pc # "none"
  PROVE  GroupInv(Idle(w), r)
<1>1. /\ Idle(w).pc = "idle" /\ Idle(w).rev = w.rev /\ Idle(w).mapped = w.mapped
      /\ Idle(w).suspended = w.suspended /\ Idle(w).read.rev = 0
      /\ Idle(w).outcome = "none"
  BY DEF Idle, Worker, NoRow
<1>2. r.rev \in Nat
  BY DEF GroupRow
<1>3. QED
  BY <1>1, <1>2 DEF GroupInv, Past, Admitting, Mutating

\* Closing the listener keeps the invariant.
LEMMA ClosedInv ==
  ASSUME NEW w \in Worker, NEW r \in GroupRow, GroupInv(w, r)
  PROVE  GroupInv(Closed(w), r)
<1>1. /\ Closed(w).pc = w.pc /\ Closed(w).rev = w.rev /\ Closed(w).mapped = w.mapped
      /\ Closed(w).suspended = w.suspended /\ Closed(w).read = w.read
      /\ Closed(w).outcome = w.outcome /\ Closed(w).action = w.action
      /\ Closed(w).listener = "closed"
  BY DEF Closed, Worker
<1>2. QED
  BY <1>1 DEF GroupInv, Past, Admitting, Mutating

\* PauseGroup suits an idle worker.
LEMMA PausedInv ==
  ASSUME NEW w \in Worker, NEW r \in GroupRow, NEW read, GroupInv(w, r), w.pc = "idle"
  PROVE  GroupInv(w, PausedGroup(r, read))
  BY DEF GroupInv, Past, Admitting, Mutating, PausedGroup, GroupRow, Armed, Worker

\* completeOnDemand suits the worker whose job it completes.
LEMMA CompletedInv ==
  ASSUME NEW w \in Worker, NEW r \in GroupRow, NEW p \in Phases, GroupInv(w, r),
         Mutating(w)
  PROVE  GroupInv(Idle(w), CompletedGroup(r, p))
<1>1. /\ Idle(w).pc = "idle" /\ Idle(w).rev = w.rev /\ Idle(w).mapped = w.mapped
      /\ Idle(w).suspended = w.suspended /\ Idle(w).read.rev = 0
      /\ Idle(w).outcome = "none"
  BY DEF Idle, Worker, NoRow
<1>2. /\ CompletedGroup(r, p).rev = r.rev /\ CompletedGroup(r, p).state = r.state
      /\ r.rev \in Nat
  BY DEF CompletedGroup, GroupRow
<1>3. w.rev = r.rev /\ ~w.suspended /\ r.state = "present" /\ w.mapped
  BY DEF GroupInv, Mutating, Past, WorkerPcs, CriticalPcs, Armed
<1>4. QED
  BY <1>1, <1>2, <1>3 DEF GroupInv, Past, Admitting, Mutating

\* An iteration of runGroup keeps the invariant of its group.
LEMMA LoopInv ==
  ASSUME TypeOK, NEW g \in Groups, Loop(g), GroupInv(wk[g], row[g])
  PROVE  GroupInv(wk'[g], row'[g])
<1>1. /\ wk \in [Groups -> Worker] /\ wk[g] \in Worker
      /\ row \in [Groups -> GroupRow] /\ row[g] \in GroupRow
  BY DEF TypeOK
<1>2. wk[g].pc # "none" =>
        /\ GroupInv(Idle(wk[g]), row[g])
        /\ GroupInv(Idle(Closed(wk[g])), row[g])
        /\ \A read : GroupInv(Idle(wk[g]), PausedGroup(row[g], read))
        /\ \A read : GroupInv(Idle(Closed(wk[g])), PausedGroup(row[g], read))
  BY <1>1, IdleInv, ClosedInv, PausedInv, PcFacts, WorkerFacts
<1>3. CASE Exit(g)
  BY <1>1, <1>2, <1>3 DEF Exit, Worker, GroupInv, Past, Admitting, Mutating, WorkerPcs, CriticalPcs, Closed
<1>4. CASE Read(g)
  BY <1>1, <1>2, <1>4 DEF Read, Worker, GroupInv, Past, Admitting, Mutating, WorkerPcs, CriticalPcs, GroupRow
<1>5. CASE ReadFails(g)
  BY <1>1, <1>5, ClosedInv DEF ReadFails
<1>6. CASE Apply(g)
  <2>1. wk[g].pc = "apply" /\ row' = row
    BY <1>6 DEF Apply
  <2>2. /\ Applied(wk[g]).rev = wk[g].read.rev /\ Applied(wk[g]).mapped = wk[g].mapped
        /\ Applied(wk[g]).read = wk[g].read /\ Applied(wk[g]).outcome = wk[g].outcome
        /\ Applied(wk[g]).suspended => wk[g].suspended /\ wk[g].read.rev = wk[g].rev
    BY <1>1 DEF Applied, StillSuspended, Worker
  <2>3. Applied(wk[g]) \in Worker /\ Applied(wk[g]).pc = "apply"
    BY <1>1, <2>1, PcFacts
  <2>4. GroupInv(Applied(wk[g]), row[g])
    BY <2>1, <2>2, <2>3 DEF GroupInv, Past, Admitting, Mutating
  <2>5. GroupInv(Idle(Applied(wk[g])), row[g])
    BY <1>1, <2>3, <2>4, IdleInv
  <2>6. GroupInv([Applied(wk[g]) EXCEPT !.pc = "probe"], row[g])
    BY <2>1, <2>2, <2>3, <2>4 DEF GroupInv, Past, Admitting, Mutating, Worker
  <2>7. QED
    BY <1>1, <2>1, <2>5, <2>6, <1>6 DEF Apply
<1>7. CASE Probe(g)
  BY <1>1, <1>2, <1>7 DEF Probe, Worker, GroupInv, Past, Admitting, Mutating, WorkerPcs, CriticalPcs
<1>8. CASE Observe(g)
  BY <1>1, <1>2, <1>8 DEF Observe, Worker, GroupInv, Past, Admitting, Mutating, WorkerPcs, CriticalPcs
<1>9. CASE ObserveChanged(g)
  BY <1>1, <1>2, <1>9 DEF ObserveChanged, CriticalPcs
<1>10. CASE ObserveFails(g)
  BY <1>1, <1>2, <1>10 DEF ObserveFails, CriticalPcs
<1>11. CASE Reserve(g)
  BY <1>1, <1>2, <1>11 DEF Reserve, Worker, GroupInv, Past, Admitting, Mutating, WorkerPcs, CriticalPcs
<1>12. CASE ReserveFails(g)
  BY <1>1, <1>2, <1>12 DEF ReserveFails, CriticalPcs
<1>13. CASE SnapshotFails(g)
  BY <1>1, <1>2, <1>13 DEF SnapshotFails, CriticalPcs
<1>14. CASE DecideAction(g)
  BY <1>1, <1>2, <1>14 DEF DecideAction, Worker, GroupInv, Past, Admitting, Mutating, WorkerPcs, CriticalPcs
<1>15. CASE DecidePause(g)
  BY <1>1, <1>2, <1>15 DEF DecidePause, CriticalPcs
<1>16. CASE DecideNothing(g)
  BY <1>1, <1>2, <1>16 DEF DecideNothing, CriticalPcs
<1>17. QED
  BY <1>3, <1>4, <1>5, <1>6, <1>7, <1>8, <1>9, <1>10, <1>11, <1>12, <1>13, <1>14, <1>15, <1>16 DEF Loop

\* Admission keeps it.
LEMMA ExecuteInv ==
  ASSUME TypeOK, NEW g \in Groups, Execute(g), GroupInv(wk[g], row[g])
  PROVE  GroupInv(wk'[g], row'[g])
<1>1. /\ wk \in [Groups -> Worker] /\ wk[g] \in Worker
      /\ row \in [Groups -> GroupRow] /\ row[g] \in GroupRow
  BY DEF TypeOK
<1>2. wk[g].pc # "none" =>
        /\ GroupInv(Idle(wk[g]), row[g])
        /\ GroupInv(Idle(Closed(wk[g])), row[g])
        /\ \A read : GroupInv(Idle(wk[g]), PausedGroup(row[g], read))
        /\ \A read : GroupInv(Idle(Closed(wk[g])), PausedGroup(row[g], read))
  BY <1>1, IdleInv, ClosedInv, PausedInv, PcFacts, WorkerFacts
<1>3. CASE TryStack(g)
  BY <1>1, <1>2, <1>3 DEF TryStack, Worker, GroupInv, Past, Admitting, Mutating, WorkerPcs, CriticalPcs
<1>4. CASE TryFails(g)
  BY <1>1, <1>2, <1>4 DEF TryFails, CriticalPcs
<1>5. CASE Fresh(g)
  BY <1>1, <1>2, <1>5 DEF Fresh, Worker, GroupInv, Past, Admitting, Mutating, WorkerPcs, CriticalPcs
<1>6. CASE Verify(g)
  BY <1>1, <1>2, <1>6 DEF Verify, Worker, GroupInv, Past, Admitting, Mutating, WorkerPcs, CriticalPcs
<1>7. CASE Admit(g)
  BY <1>1, <1>2, <1>7 DEF Admit, Worker, GroupInv, Past, Admitting, Mutating, WorkerPcs, CriticalPcs
<1>8. CASE Refuse(g)
  BY <1>1, <1>2, <1>8 DEF Refuse, CriticalPcs
<1>9. QED
  BY <1>3, <1>4, <1>5, <1>6, <1>7, <1>8 DEF Execute

\* The job keeps it.
LEMMA JobInv ==
  ASSUME TypeOK, NEW g \in Groups, Job(g), GroupInv(wk[g], row[g])
  PROVE  GroupInv(wk'[g], row'[g])
<1>1. /\ wk \in [Groups -> Worker] /\ wk[g] \in Worker
      /\ row \in [Groups -> GroupRow] /\ row[g] \in GroupRow
  BY DEF TypeOK
<1>2. wk[g].pc # "none" =>
        /\ GroupInv(Idle(wk[g]), row[g])
        /\ GroupInv(Idle(Closed(wk[g])), row[g])
        /\ \A read : GroupInv(Idle(wk[g]), PausedGroup(row[g], read))
        /\ \A read : GroupInv(Idle(Closed(wk[g])), PausedGroup(row[g], read))
  BY <1>1, IdleInv, ClosedInv, PausedInv, PcFacts, WorkerFacts
<1>3. CASE RunJob(g)
  BY <1>1, <1>2, <1>3 DEF RunJob, Worker, GroupInv, Past, Admitting, Mutating, WorkerPcs, CriticalPcs
<1>4. CASE RunJobFails(g)
  BY <1>1, <1>2, <1>4 DEF RunJobFails, Worker, GroupInv, Past, Admitting, Mutating, WorkerPcs, CriticalPcs
<1>5. CASE BeginTransition(g)
  BY <1>1, <1>2, <1>5 DEF BeginTransition, Worker, GroupInv, Past, Admitting, Mutating, WorkerPcs, CriticalPcs, MayBegin, BegunGroup, Armed, During, GroupRow
<1>6. CASE BeginFails(g)
  BY <1>1, <1>2, <1>6 DEF BeginFails, Worker, GroupInv, Past, Admitting, Mutating, WorkerPcs, CriticalPcs
<1>7. CASE ReleasePorts(g)
  BY <1>1, <1>2, <1>7 DEF ReleasePorts, Worker, GroupInv, Past, Admitting, Mutating, WorkerPcs, CriticalPcs, PortsReleased, OwnsPorts, Closed
<1>8. CASE StartMember(g)
  BY <1>1, <1>2, <1>8 DEF StartMember, Worker, GroupInv, Past, Admitting, Mutating, WorkerPcs, CriticalPcs
<1>9. CASE Started(g)
  BY <1>1, <1>2, <1>9 DEF Started, Worker, GroupInv, Past, Admitting, Mutating, WorkerPcs, CriticalPcs
<1>10. CASE StartFails(g)
  BY <1>1, <1>2, <1>10 DEF StartFails, Worker, GroupInv, Past, Admitting, Mutating, WorkerPcs, CriticalPcs
<1>11. CASE StopMember(g)
  BY <1>1, <1>2, <1>11 DEF StopMember, Worker, GroupInv, Past, Admitting, Mutating, WorkerPcs, CriticalPcs
<1>12. CASE Stopped(g)
  BY <1>1, <1>2, <1>12 DEF Stopped, Worker, GroupInv, Past, Admitting, Mutating, WorkerPcs, CriticalPcs
<1>13. CASE StopFails(g)
  BY <1>1, <1>2, <1>13 DEF StopFails, Worker, GroupInv, Past, Admitting, Mutating, WorkerPcs, CriticalPcs
<1>14. CASE Rearm(g)
  BY <1>1, <1>2, <1>14 DEF Rearm, Worker, GroupInv, Past, Admitting, Mutating, WorkerPcs, CriticalPcs
<1>15. CASE Abort(g)
  BY <1>1, <1>2, <1>15 DEF Abort, Worker, GroupInv, Past, Admitting, Mutating, WorkerPcs, CriticalPcs, PortsReleased, Closed
<1>16. CASE Complete(g)
  <2>1. CASE wk[g].outcome = "none"
    BY <1>1, <1>2, <1>16, <2>1 DEF Complete
  <2>2. CASE wk[g].outcome # "none"
    <3>1. Mutating(wk[g]) /\ wk[g].outcome \in Phases
      BY <1>1, <1>16, <2>2 DEF Complete, Mutating, Worker, Phases
    <3>2. QED
      BY <1>1, <1>16, <2>2, <3>1, CompletedInv DEF Complete
  <2>3. QED
    BY <2>1, <2>2
<1>17. CASE CompleteFails(g)
  BY <1>1, <1>2, <1>17 DEF CompleteFails, Worker, GroupInv, Past, Admitting, Mutating, WorkerPcs, CriticalPcs
<1>18. CASE WaitErr(g)
  <2>1. PortsReleased(wk[g]) \in Worker /\ PortsReleased(wk[g]).pc = "waitErr"
    BY <1>1, <1>18, PcFacts DEF WaitErr
  <2>2. GroupInv(PortsReleased(wk[g]), row[g])
    BY <1>1, ClosedInv DEF PortsReleased
  <2>3. QED
    BY <1>1, <1>18, <2>1, <2>2, IdleInv DEF WaitErr
<1>19. QED
  BY <1>3, <1>4, <1>5, <1>6, <1>7, <1>8, <1>9, <1>10, <1>11, <1>12, <1>13, <1>14, <1>15, <1>16, <1>17, <1>18 DEF Job

\* What a request may rely on while it holds its scope.
RequestInv ==
    \A u \in Requests :
        /\ req[u].kind \in PolicyKinds => \E g \in Groups : req[u].hit = {g}
        /\ req[u].pc = "commit" => req[u].kind \in {"create", "save", "resume"}
        /\ \A g \in req[u].hit :
              /\ StackOf[g] = req[u].scope
              /\ req[u].pc = "suspend" => ~Armed(row[g])
              /\ (req[u].pc = "commit" /\ req[u].kind = "create") => row[g].state = "absent"

\* Recovery runs before any worker.
BootInv == ctl \in {"boot", "stopped"} => \A g \in Groups : wk[g].pc = "none"

\* The inductive invariant.
Inv ==
    /\ TypeOK /\ ScopeInv /\ LockInv
    /\ \A g \in Groups : GroupInv(wk[g], row[g])
    /\ RequestInv
    /\ BootInv

\* A request that touches a group is alone with it: no job of the group runs and
\* no other request touches it.
LEMMA RequestIsAlone ==
  ASSUME Inv, NEW u \in Requests, NEW g \in req[u].hit
  PROVE  /\ g \in Groups /\ wk[g].pc \notin CriticalPcs
         /\ \A v \in Requests \ {u} : g \notin req[v].hit
<1>1. g \in Groups
  BY DEF Inv, TypeOK, Request
<1>2. owner[u] = StackOf[g] /\ StackOf[g] # None
  BY <1>1, OwnerValues, ConstantsOK DEF Inv, RequestInv, OwnerFacts
<1>3. wk[g].pc \notin CriticalPcs
  BY <1>1, <1>2, OwnerValues, ConstantsOK DEF Inv, LockInv, OwnerFacts, Actors, Excl!Conflict
<1>4. ASSUME NEW v \in Requests \ {u}, g \in req[v].hit
      PROVE  FALSE
  <2>1. owner[v] = StackOf[g]
    BY <1>1, <1>4, OwnerValues DEF Inv, RequestInv, OwnerFacts
  <2>2. QED
    BY <1>2, <2>1 DEF Inv, LockInv, Actors, Excl!Conflict
<1>5. QED
  BY <1>1, <1>3, <1>4

\* SuspendGroup of a group that may not act keeps the invariant.
LEMMA SuspendedInv ==
  ASSUME NEW w \in Worker, NEW r \in GroupRow, GroupInv(w, r), ~Armed(r)
  PROVE  GroupInv(Suspended(w), r)
<1>1. GroupInv(Closed(w), r) /\ Closed(w) \in Worker
  BY ClosedInv, PcFacts
<1>2. GroupInv([Closed(w) EXCEPT !.suspended = TRUE], r)
  BY <1>1 DEF GroupInv, Past, Admitting, Mutating, Worker
<1>3. QED
  BY <1>2 DEF Suspended

\* A statement that raises the revision suits a worker that is not in its
\* critical section.
LEMMA WrittenInv ==
  ASSUME NEW w \in Worker, NEW r \in GroupRow, NEW n \in GroupRow, GroupInv(w, r),
         w.pc \notin CriticalPcs, r.state # "absent", n.state = r.state, n.rev = r.rev + 1
  PROVE  GroupInv(w, n)
<1>1. r.rev \in Nat /\ w.rev \in Nat /\ w.read.rev \in Nat
  BY DEF GroupRow, Worker
<1>2. w.pc \notin Admitting /\ ~Mutating(w) /\ w.pc # "start"
  BY DEF CriticalPcs, Admitting, Mutating
<1>3. QED
  BY <1>1, <1>2 DEF GroupInv, Armed

\* So does a DELETE.
LEMMA DeletedInv ==
  ASSUME NEW w \in Worker, NEW r \in GroupRow, GroupInv(w, r), w.pc \notin CriticalPcs
  PROVE  GroupInv(w, DeletedRow)
<1>1. w.pc \notin Admitting /\ ~Mutating(w) /\ w.pc # "start"
  BY DEF CriticalPcs, Admitting, Mutating
<1>2. DeletedRow.state = "deleted"
  BY DEF DeletedRow, NoRow
<1>3. QED
  BY <1>1, <1>2 DEF GroupInv, Armed

\* So does an INSERT, of a group that no worker knows.
LEMMA InsertedInv ==
  ASSUME NEW w \in Worker, NEW r \in GroupRow, NEW b \in BOOLEAN, NEW e \in Nat,
         GroupInv(w, r), r.state = "absent"
  PROVE  GroupInv(w, InsertedGroup(b, e))
<1>1. w.pc = "none" /\ r = NoRow /\ w.outcome = "none"
  BY DEF GroupInv
<1>2. w.rev = 0 /\ w.read.rev = 0
  BY <1>1 DEF GroupInv, Worker, GroupRow, NoRow
<1>3. InsertedGroup(b, e).state = "present" /\ InsertedGroup(b, e).rev = 1
  BY DEF InsertedGroup
<1>4. QED
  BY <1>1, <1>2, <1>3 DEF GroupInv, Past, Admitting, Mutating

\* Without the stack lock a worker may only pause its row.
LEMMA UnlockedRow ==
  ASSUME TypeOK, NEW g \in Groups, WorkerStep(g), wk[g].pc \notin CriticalPcs
  PROVE  row'[g] \in {row[g], PausedGroup(row[g], wk[g].read)}
<1>1. row \in [Groups -> GroupRow]
  BY DEF TypeOK
<1>2. CASE Loop(g)
  BY <1>1, <1>2 DEF Loop, Exit, Read, ReadFails, Apply, Probe, Observe, ObserveChanged,
     ObserveFails, Reserve, ReserveFails, SnapshotFails, DecideAction, DecidePause, DecideNothing
<1>3. CASE Execute(g)
  BY <1>3 DEF Execute, TryStack, TryFails, Fresh, Verify, Admit, Refuse, CriticalPcs
<1>4. CASE Job(g)
  BY <1>4 DEF Job, RunJob, RunJobFails, BeginTransition, BeginFails, ReleasePorts,
     StartMember, Started, StartFails, StopMember, Stopped, StopFails, Rearm, Abort,
     Complete, CompleteFails, WaitErr, CriticalPcs
<1>5. QED
  BY <1>2, <1>3, <1>4 DEF WorkerStep

\* Only a running worker takes steps.
LEMMA WorkerIsAlive ==
  ASSUME NEW g \in Groups, WorkerStep(g)
  PROVE  wk[g].pc # "none"
<1>1. CASE Loop(g)
  BY <1>1 DEF Loop, Exit, Read, ReadFails, Apply, Probe, Observe, ObserveChanged,
     ObserveFails, Reserve, ReserveFails, SnapshotFails, DecideAction, DecidePause, DecideNothing
<1>2. CASE Execute(g)
  BY <1>2 DEF Execute, TryStack, TryFails, Fresh, Verify, Admit, Refuse
<1>3. CASE Job(g)
  BY <1>3 DEF Job, RunJob, RunJobFails, BeginTransition, BeginFails, ReleasePorts,
     StartMember, Started, StartFails, StopMember, Stopped, StopFails, Rearm, Abort,
     Complete, CompleteFails, WaitErr
<1>4. QED
  BY <1>1, <1>2, <1>3 DEF WorkerStep

\* PauseGroup does not arm anything.
LEMMA PausedRow ==
  ASSUME NEW r \in GroupRow, NEW read
  PROVE  /\ PausedGroup(r, read).state = r.state
         /\ Armed(PausedGroup(r, read)) => Armed(r)
  BY DEF PausedGroup, GroupRow, Armed

\* The part of Inv beyond types and locks.
Rest ==
    /\ \A g \in Groups : GroupInv(wk[g], row[g])
    /\ RequestInv
    /\ BootInv

\* A worker keeps the invariant of every group and every request.
LEMMA WorkerRest ==
  ASSUME Inv, NEW g \in Groups, WorkerStep(g)
  PROVE  Rest'
<1>1. TypeOK /\ row[g] \in GroupRow
  BY DEF Inv, TypeOK
<1>2. \A h \in Groups : GroupInv(wk'[h], row'[h])
  BY <1>1, LoopInv, ExecuteInv, JobInv, WorkerFrame DEF Inv, WorkerStep
<1>3. ASSUME NEW u \in Requests, NEW h \in req[u].hit
      PROVE  /\ row'[h].state = row[h].state
             /\ Armed(row'[h]) => Armed(row[h])
  <2>1. h \in Groups /\ wk[h].pc \notin CriticalPcs
    BY <1>3, RequestIsAlone
  <2>2. CASE h = g
    BY <1>1, <2>1, <2>2, UnlockedRow, PausedRow
  <2>3. CASE h # g
    BY <1>1, <2>1, <2>3, WorkerFrame
  <2>4. QED
    BY <2>2, <2>3
<1>4. RequestInv'
  BY <1>1, <1>3, WorkerFrame DEF Inv, RequestInv
<1>5. BootInv'
  BY <1>1, WorkerFrame, WorkerIsAlive DEF Inv, BootInv
<1>6. QED
  BY <1>2, <1>4, <1>5 DEF Rest

\* What a request does to a row: nothing, a removal, or a statement that raises
\* the revision.
RowWritten(r, n) ==
    \/ n = r
    \/ r.state # "absent" /\ n = DeletedRow
    \/ r.state # "absent" /\ n.state = r.state /\ n.rev = r.rev + 1

\* Every statement a request can issue suits an unlocked worker.
LEMMA WrittenRow ==
  ASSUME NEW w \in Worker, NEW r \in GroupRow, NEW n \in GroupRow, GroupInv(w, r),
         w.pc \notin CriticalPcs, RowWritten(r, n)
  PROVE  GroupInv(w, n)
  BY WrittenInv, DeletedInv DEF RowWritten

\* The policy statements raise the revision; the inactive ones disarm.
LEMMA StoreWrites ==
  ASSUME NEW r \in GroupRow
  PROVE  /\ \A b \in BOOLEAN, e \in Nat :
               SavedGroup(r, b, e).state = r.state /\ SavedGroup(r, b, e).rev = r.rev + 1
         /\ \A e \in Nat : ~Armed(SavedGroup(r, FALSE, e))
         /\ HeldGroup(r).state = r.state /\ HeldGroup(r).rev = r.rev + 1
         /\ ~Armed(HeldGroup(r)) /\ ~Armed(DeletedRow)
         /\ \A p \in Phases, e \in Nat :
               ResumedGroup(r, p, e).state = r.state /\ ResumedGroup(r, p, e).rev = r.rev + 1
         /\ \A b \in BOOLEAN : RowWritten(r, InterlockedGroup(r, b))
<1>1. ASSUME NEW b \in BOOLEAN, NEW e \in Nat
      PROVE  SavedGroup(r, b, e).state = r.state /\ SavedGroup(r, b, e).rev = r.rev + 1
  BY DEF SavedGroup, GroupRow
<1>2. ASSUME NEW e \in Nat
      PROVE  ~Armed(SavedGroup(r, FALSE, e))
  BY DEF SavedGroup, GroupRow, Armed
<1>3. HeldGroup(r).state = r.state /\ HeldGroup(r).rev = r.rev + 1 /\ ~Armed(HeldGroup(r))
  BY DEF HeldGroup, GroupRow, Armed
<1>4. ~Armed(DeletedRow)
  BY DEF DeletedRow, NoRow, Armed
<1>5. ASSUME NEW p \in Phases, NEW e \in Nat
      PROVE  ResumedGroup(r, p, e).state = r.state /\ ResumedGroup(r, p, e).rev = r.rev + 1
  BY DEF ResumedGroup, GroupRow
<1>6. ASSUME NEW b \in BOOLEAN
      PROVE  RowWritten(r, InterlockedGroup(r, b))
  BY DEF InterlockedGroup, GroupRow, RowWritten
<1>7. QED
  BY <1>1, <1>2, <1>3, <1>4, <1>5, <1>6

\* A request that only moves on, and asks for nothing new.
LEMMA ServeQuiet ==
  ASSUME Inv, NEW u \in Requests, Serve(u), row' = row, wk' = wk,
         req'[u].pc \notin {"commit", "suspend"}, req'[u].scope = req[u].scope \/ req'[u] = NoRequest
  PROVE  Rest'
<1>1. TypeOK
  BY DEF Inv
<1>2. NoRequest.hit = {} /\ NoRequest.kind \notin PolicyKinds
  BY DEF NoRequest, PolicyKinds
<1>3. RequestInv'
  BY <1>1, <1>2, ServeFrame DEF Inv, RequestInv
<1>4. QED
  BY <1>1, <1>3, ServeFrame DEF Inv, Rest, BootInv

\* Serving a request keeps the invariant.
LEMMA ServeRest ==
  ASSUME Inv, TypeOK', NEW u \in Requests, Serve(u)
  PROVE  Rest'
<1>1. /\ TypeOK /\ RequestInv
      /\ row \in [Groups -> GroupRow] /\ row' \in [Groups -> GroupRow]
      /\ wk \in [Groups -> Worker] /\ wk' \in [Groups -> Worker]
      /\ req \in [Requests -> Request] /\ req[u] \in Request
      /\ req[u].hit \subseteq Groups /\ req[u].evid \in Nat /\ req[u].phase \in Phases
  BY DEF Inv, TypeOK, Request
<1>2. \A g \in Groups : GroupInv(wk[g], row[g])
  BY DEF Inv
<1>3. /\ \A v \in Requests \ {u} : req'[v] = req[v]
      /\ ctl' = ctl
      /\ \A g \in Groups : wk'[g].pc = wk[g].pc
  BY <1>1, ServeFrame, PcFacts
<1>4. BootInv'
  BY <1>3 DEF Inv, BootInv
<1>5. ASSUME \A g \in Groups \ req[u].hit : row'[g] = row[g]
      PROVE  \A v \in Requests \ {u} : \A g \in req[v].hit : row'[g] = row[g]
  BY <1>1, <1>5, RequestIsAlone DEF TypeOK, Request
<1>6. ASSUME \A g \in Groups \ req[u].hit : row'[g] = row[g],
             req'[u].pc = "commit" => req'[u].kind \in {"create", "save", "resume"},
             req'[u].hit = req[u].hit, req'[u].kind = req[u].kind, req'[u].scope = req[u].scope,
             req'[u].pc = "suspend" => \A g \in req[u].hit : ~Armed(row'[g]),
             (req'[u].pc = "commit" /\ req'[u].kind = "create") =>
                \A g \in req[u].hit : row'[g].state = "absent"
      PROVE  RequestInv'
  BY <1>1, <1>3, <1>5, <1>6 DEF RequestInv
<1>7. CASE Snapshot(u)
  <2>1. row' = row /\ wk' = wk /\ req'[u].hit = req[u].hit /\ req'[u].scope = req[u].scope
        /\ req'[u].kind = req[u].kind /\ req'[u].pc = "commit"
        /\ req[u].kind \in {"create", "save", "resume"}
    BY <1>1, <1>7 DEF Snapshot, Request
  <2>2. req[u].kind = "create" => \A g \in req[u].hit : row[g].state = "absent"
    BY <1>1, <1>7 DEF Snapshot, RequestInv, PolicyKinds
  <2>3. QED
    BY <1>2, <1>4, <1>6, <2>1, <2>2 DEF Rest
<1>8. CASE Commit(u)
  <2>1. PICK g \in req[u].hit, enabled \in BOOLEAN :
           /\ req[u].kind # "create" => row[g].state = "present"
           /\ row' = [row EXCEPT ![g] = CASE req[u].kind = "create" -> InsertedGroup(enabled, req[u].evid)
                                       [] req[u].kind = "save" -> SavedGroup(@, enabled, req[u].evid)
                                       [] OTHER -> ResumedGroup(@, req[u].phase, req[u].evid)]
    BY <1>8 DEF Commit, Writable
  <2>2. g \in Groups /\ wk[g].pc \notin CriticalPcs /\ row[g] \in GroupRow /\ row'[g] \in GroupRow
    BY <1>1, RequestIsAlone
  <2>3. ASSUME req[u].kind = "create"
        PROVE  GroupInv(wk[g], row'[g])
    <3>1. row[g].state = "absent"
      BY <1>1, <1>8, <2>1, <2>3 DEF RequestInv, Commit
    <3>2. row'[g] = InsertedGroup(enabled, req[u].evid)
      BY <1>1, <2>1, <2>2, <2>3
    <3>3. QED
      BY <1>1, <1>2, <2>2, <3>1, <3>2, InsertedInv
  <2>4. ASSUME req[u].kind # "create"
        PROVE  GroupInv(wk[g], row'[g])
    <3>1. row'[g] \in {SavedGroup(row[g], enabled, req[u].evid),
                       ResumedGroup(row[g], req[u].phase, req[u].evid)}
      BY <1>1, <2>1, <2>2, <2>4
    <3>2. row'[g].state = row[g].state /\ row'[g].rev = row[g].rev + 1
      <4>1. CASE row'[g] = SavedGroup(row[g], enabled, req[u].evid)
        BY <2>2, <4>1 DEF SavedGroup, GroupRow
      <4>2. CASE row'[g] = ResumedGroup(row[g], req[u].phase, req[u].evid)
        BY <2>2, <4>2 DEF ResumedGroup, GroupRow
      <4>3. QED
        BY <3>1, <4>1, <4>2
    <3>3. QED
      BY <1>1, <1>2, <2>1, <2>2, <2>4, <3>2, WrittenInv
  <2>5. \A h \in Groups \ {g} : row'[h] = row[h]
    BY <1>1, <2>1
  <2>6. GroupInv(wk[g], row'[g])
    BY <2>3, <2>4
  <2>7. \A h \in Groups : GroupInv(wk'[h], row'[h])
    BY <1>2, <1>8, <2>5, <2>6 DEF Commit
  <2>8. RequestInv'
    BY <1>1, <1>6, <1>8, <2>5 DEF Commit, Request
  <2>9. QED
    BY <1>4, <2>7, <2>8 DEF Rest
<1>9. CASE CommitInactive(u)
  <2>1. PICK g \in req[u].hit :
           /\ row[g].state = "present"
           /\ row' = [row EXCEPT ![g] = CASE req[u].kind = "disable" -> SavedGroup(@, FALSE, @.evid)
                                          [] req[u].kind = "hold" -> HeldGroup(@)
                                          [] OTHER -> DeletedRow]
    BY <1>9 DEF CommitInactive, Writable
  <2>2. g \in Groups /\ wk[g].pc \notin CriticalPcs /\ row[g] \in GroupRow /\ row'[g] \in GroupRow
        /\ row[g].evid \in Nat
    BY <1>1, RequestIsAlone DEF GroupRow
  <2>3. RowWritten(row[g], row'[g]) /\ ~Armed(row'[g])
    BY <1>1, <2>1, <2>2, StoreWrites DEF RowWritten
  <2>4. \A h \in Groups \ {g} : row'[h] = row[h]
    BY <1>1, <2>1
  <2>5. GroupInv(wk[g], row'[g])
    BY <1>1, <1>2, <2>2, <2>3, WrittenRow
  <2>6. \A h \in Groups : GroupInv(wk'[h], row'[h])
    BY <1>2, <1>9, <2>4, <2>5 DEF CommitInactive
  <2>7. req[u].hit = {g}
    BY <1>1, <1>9, <2>1 DEF CommitInactive, RequestInv, PolicyKinds
  <2>8. RequestInv'
    BY <1>1, <1>6, <1>9, <2>3, <2>4, <2>7 DEF CommitInactive, Request
  <2>9. QED
    BY <1>4, <2>6, <2>8 DEF Rest
<1>10. CASE PolicyFails(u)
  BY <1>1, <1>10, ServeQuiet DEF PolicyFails, Request
<1>11. CASE SuspendGroup(u)
  <2>1. \A g \in Groups : GroupInv(wk'[g], row'[g])
    BY <1>1, <1>2, <1>11, SuspendedInv DEF SuspendGroup, RequestInv
  <2>2. RequestInv'
    BY <1>1, <1>6, <1>11 DEF SuspendGroup, Request
  <2>3. QED
    BY <1>4, <2>1, <2>2 DEF Rest
<1>12. CASE Leave(u)
  BY <1>1, <1>12, ServeQuiet DEF Leave, NoRequest
<1>13. CASE AdmitAction(u)
  <2>1. \A g \in Groups : RowWritten(row[g], row'[g])
    BY <1>1, <1>13, StoreWrites DEF AdmitAction, RowWritten
  <2>2. \A g \in Groups \ req[u].hit : row'[g] = row[g]
    BY <1>1, <1>13 DEF AdmitAction
  <2>3. \A g \in Groups : GroupInv(wk'[g], row'[g])
    BY <1>1, <1>2, <1>13, <2>1, <2>2, WrittenRow, RequestIsAlone DEF AdmitAction
  <2>4. RequestInv'
    BY <1>1, <1>6, <1>13, <2>2 DEF AdmitAction, Request
  <2>5. QED
    BY <1>4, <2>3, <2>4 DEF Rest
<1>14. CASE ActionFails(u)
  BY <1>1, <1>14, ServeQuiet DEF ActionFails, Request
<1>15. CASE RunAction(u)
  BY <1>1, <1>15, ServeQuiet DEF RunAction, Request
<1>16. CASE ReleaseHolds(u)
  <2>1. \A g \in Groups : GroupInv(wk'[g], row'[g])
    BY <1>1, <1>2, <1>16, SuspendedInv DEF ReleaseHolds
  <2>2. RequestInv'
    BY <1>1, <1>6, <1>16 DEF ReleaseHolds, Request
  <2>3. QED
    BY <1>4, <2>1, <2>2 DEF Rest
<1>17. CASE FinishAction(u)
  <2>2. \A g \in Groups \ req[u].hit : row'[g] = row[g]
    BY <1>1, <1>17 DEF FinishAction
  <2>3. \A g \in Groups : GroupInv(wk'[g], row'[g])
    BY <1>1, <1>2, <1>17, DeletedInv, RequestIsAlone DEF FinishAction
  <2>4. RequestInv'
    BY <1>1, <1>6, <1>17, <2>2 DEF FinishAction, Request
  <2>5. QED
    BY <1>4, <2>3, <2>4 DEF Rest
<1>18. QED
  BY <1>7, <1>8, <1>9, <1>10, <1>11, <1>12, <1>13, <1>14, <1>15, <1>16, <1>17 DEF Serve

\* An arriving request keeps it.
LEMMA ArriveRest ==
  ASSUME Inv, NEW u \in Requests, Arrive(u)
  PROVE  Rest'
<1>1. TypeOK
  BY DEF Inv
<1>2. /\ UNCHANGED <<row, wk, ctl>> /\ req'[u].pc \notin {"commit", "suspend"}
      /\ \A v \in Requests \ {u} : req'[v] = req[v]
      /\ \A g \in req'[u].hit : StackOf[g] = req'[u].scope
      /\ req'[u].kind \in PolicyKinds => \E g \in Groups : req'[u].hit = {g}
  BY <1>1, ArriveFrame
<1>3. RequestInv'
  BY <1>2 DEF Inv, RequestInv
<1>4. QED
  BY <1>2, <1>3 DEF Inv, Rest, BootInv

\* Changes of a worker that the invariant does not look at.
LEMMA NoticeInv ==
  ASSUME NEW w \in Worker, NEW r \in GroupRow, GroupInv(w, r)
  PROVE  /\ GroupInv([w EXCEPT !.quiet = FALSE], r)
         /\ w.listener = "open" => GroupInv([w EXCEPT !.listener = "pending"], r)
         /\ r.state = "deleted" => GroupInv([w EXCEPT !.mapped = FALSE], r)
<1>1. GroupInv([w EXCEPT !.quiet = FALSE], r)
  BY DEF GroupInv, Past, Admitting, Mutating, Worker
<1>2. w.listener = "open" => GroupInv([w EXCEPT !.listener = "pending"], r)
  BY DEF GroupInv, Past, Admitting, Mutating, Worker
<1>3. r.state = "deleted" => GroupInv([w EXCEPT !.mapped = FALSE], r)
  BY DEF GroupInv, Past, Admitting, Mutating, Worker
<1>4. QED
  BY <1>1, <1>2, <1>3

\* A worker that is not running, or just started, satisfies it.
LEMMA NoWorkerInv ==
  ASSUME NEW r \in GroupRow, r.state = "absent" => r = NoRow
  PROVE  /\ GroupInv(NoWorker, r)
         /\ r.state = "present" =>
              GroupInv([NoWorker EXCEPT !.pc = "idle", !.mapped = TRUE, !.rev = r.rev], r)
<1>1. r.rev \in Nat
  BY DEF GroupRow
<1>2. GroupInv(NoWorker, r)
  BY <1>1 DEF GroupInv, Past, Admitting, Mutating, NoWorker, NoRow
<1>3. r.state = "present" =>
        GroupInv([NoWorker EXCEPT !.pc = "idle", !.mapped = TRUE, !.rev = r.rev], r)
  BY <1>1 DEF GroupInv, Past, Admitting, Mutating, NoWorker, NoRow
<1>4. QED
  BY <1>2, <1>3

\* RecoverInterrupted keeps it: nothing runs yet.
LEMMA RecoveredInv ==
  ASSUME NEW w \in Worker, NEW r \in GroupRow, GroupInv(w, r), w.pc = "none"
  PROVE  /\ GroupInv(w, RecoveredGroup(r))
         /\ RecoveredGroup(r).state = r.state
         /\ Armed(RecoveredGroup(r)) => Armed(r)
<1>1. CASE RecoveredGroup(r) = r
  BY <1>1
<1>2. CASE RecoveredGroup(r) # r
  <2>1. RecoveredGroup(r) = [r EXCEPT !.phase = "unknown", !.paused = TRUE, !.claimed = FALSE, !.rev = @ + 1]
    BY <1>2 DEF RecoveredGroup
  <2>2. /\ RecoveredGroup(r).state = r.state /\ RecoveredGroup(r).rev = r.rev + 1
        /\ RecoveredGroup(r).paused
    BY <2>1 DEF GroupRow
  <2>3. r.state # "absent"
    BY <1>2 DEF GroupInv, RecoveredGroup, NoRow
  <2>4. RecoveredGroup(r) \in GroupRow /\ w.pc \notin CriticalPcs
    BY RowFacts DEF CriticalPcs
  <2>5. QED
    BY <2>2, <2>3, <2>4, WrittenInv DEF Armed
<1>3. QED
  BY <1>1, <1>2

\* A step of the controller or of the environment that leaves rows, requests
\* and the controller's state alone.
LEMMA WorkerOnlyRest ==
  ASSUME Inv, row' = row, req' = req, ctl' = ctl,
         \A g \in Groups : GroupInv(wk'[g], row[g]),
         ctl = "running" \/ \A g \in Groups : wk'[g].pc = wk[g].pc
  PROVE  Rest'
  BY DEF Inv, Rest, RequestInv, BootInv

\* The controller, the containers, the clients and crashes keep the invariant.
LEMMA OtherRest ==
  ASSUME Inv, Manage \/ Environment \/ \E u \in Requests, g \in Groups : Mutate(u, g)
  PROVE  Rest'
<1>1. /\ wk \in [Groups -> Worker] /\ row \in [Groups -> GroupRow]
      /\ \A g \in Groups : GroupInv(wk[g], row[g])
      /\ req \in [Requests -> Request]
  BY DEF Inv, TypeOK
<1>2. \A g \in Groups : row[g].state = "absent" => row[g] = NoRow
  BY <1>1 DEF GroupInv
<1>3. CASE Recover
  <2>1. BootInv' /\ \A g \in Groups : wk[g].pc = "none"
    BY <1>3 DEF Recover, Inv, BootInv
  <2>2. \A g \in Groups : /\ GroupInv(wk'[g], row'[g]) /\ row'[g].state = row[g].state
                          /\ Armed(row'[g]) => Armed(row[g])
    BY <1>1, <1>3, <2>1, RecoveredInv DEF Recover
  <2>3. RequestInv'
    BY <1>1, <1>3, <2>2 DEF Recover, Inv, RequestInv, Request
  <2>4. QED
    BY <2>1, <2>2, <2>3 DEF Rest
<1>4. CASE Drain
  BY <1>4 DEF Drain, Inv, Rest, RequestInv, BootInv
<1>5. CASE Drained
  <2>1. \A g \in Groups : GroupInv(wk'[g], row'[g]) /\ wk'[g].pc = "none"
    BY <1>1, <1>2, <1>5, NoWorkerInv DEF Drained, NoWorker
  <2>2. QED
    BY <1>5, <2>1 DEF Drained, Inv, Rest, RequestInv, BootInv
<1>6. ASSUME NEW g \in Groups, Spawn(g)
      PROVE  Rest'
  BY <1>1, <1>2, <1>6, NoWorkerInv, WorkerOnlyRest DEF Spawn
<1>7. ASSUME NEW g \in Groups, Remove(g)
      PROVE  Rest'
  BY <1>1, <1>7, NoticeInv, WorkerOnlyRest DEF Remove
<1>8. ASSUME NEW g \in Groups, Attempt(g)
      PROVE  Rest'
  BY <1>1, <1>8, NoticeInv, WorkerOnlyRest DEF Attempt, Worker
<1>9. ASSUME NEW g \in Groups, Traffic(g) \/ Outside(g) \/ \E u \in Requests : Mutate(u, g)
      PROVE  Rest'
  <2>1. wk' = [wk EXCEPT ![g].quiet = FALSE] /\ UNCHANGED <<row, req, ctl>>
    BY <1>9 DEF Traffic, Outside, Mutate
  <2>2. \A h \in Groups : GroupInv(wk'[h], row[h]) /\ wk'[h].pc = wk[h].pc
    BY <1>1, <2>1, NoticeInv DEF Worker
  <2>3. QED
    BY <2>1, <2>2, WorkerOnlyRest
<1>10. CASE Crash
  <2>1. \A g \in Groups : GroupInv(wk'[g], row'[g]) /\ wk'[g].pc = "none"
    BY <1>1, <1>2, <1>10, NoWorkerInv DEF Crash, NoWorker
  <2>2. RequestInv'
    BY <1>10 DEF Crash, RequestInv, NoRequest, PolicyKinds
  <2>3. QED
    BY <2>1, <2>2 DEF Rest, BootInv
<1>11. QED
  BY <1>3, <1>4, <1>5, <1>6, <1>7, <1>8, <1>9, <1>10 DEF Manage, Environment

\* The invariant holds at the start.
LEMMA InvInit == Init => Inv
<1>. SUFFICES ASSUME Init
              PROVE  Inv
  OBVIOUS
<1>1. \A g \in Groups : GroupInv(wk[g], row[g])
  BY NoRowType, NoWorkerInv DEF Init
<1>2. RequestInv /\ BootInv
  BY DEF Init, RequestInv, BootInv, NoRequest, NoWorker, PolicyKinds
<1>3. QED
  BY <1>1, <1>2, TypeInit, LockInit DEF Inv

\* Every step keeps the invariant.
LEMMA InvStep == Inv /\ [Next]_vars => Inv'
<1>. SUFFICES ASSUME Inv, [Next]_vars
              PROVE  Inv'
  OBVIOUS
<1>1. TypeOK' /\ ScopeInv' /\ LockInv'
  BY TypeStep, OwnerNext, LockStep DEF Inv
<1>2. CASE UNCHANGED vars
  BY <1>1, <1>2 DEF vars, Inv, RequestInv, BootInv
<1>3. CASE Next
  BY <1>1, <1>3, WorkerRest, ServeRest, ArriveRest, OtherRest DEF Next, Rest, Inv
<1>4. QED
  BY <1>2, <1>3

\* The inductive invariant holds in every reachable state.
THEOREM InvHolds == Spec => []Inv
  BY InvInit, InvStep, PTL DEF Spec

\* An automatic job never touches a container unless the durable row is armed,
\* unchanged since the decision and marked with the transition, for every number
\* of groups, stacks and requests and through any number of crashes.
THEOREM OwnedMutation == Spec => []AutomaticMutationIsOwned
<1>1. Inv => AutomaticMutationIsOwned
  BY DEF Inv, AutomaticMutationIsOwned, GroupInv, Mutating
<1>2. QED
  BY <1>1, InvHolds, PTL

\* The ownership check of Controller.Release and Controller.Reserve never refuses
\* a running transition, and no container is started against Porty's own listener.
THEOREM WakeOwnership == Spec => []WakeOwnsPorts
<1>1. ASSUME Inv, NEW g \in Groups, wk[g].pc \in {"ports", "rearm"}
      PROVE  OwnsPorts(wk[g])
  <2>1. /\ GroupInv(wk[g], row[g]) /\ Mutating(wk[g]) /\ wk[g].pc \in Past
        /\ wk[g].mapped \in BOOLEAN /\ wk[g].suspended \in BOOLEAN
    BY <1>1 DEF Inv, TypeOK, Worker, Mutating, Past, WorkerPcs, CriticalPcs
  <2>2. QED
    BY <2>1, <1>1 DEF GroupInv, OwnsPorts, Armed
<1>2. ASSUME Inv, NEW g \in Groups, wk[g].pc = "start"
      PROVE  wk[g].listener = "closed"
  BY <1>2 DEF Inv, GroupInv
<1>3. Inv => WakeOwnsPorts
  BY <1>1, <1>2 DEF WakeOwnsPorts
<1>4. QED
  BY <1>3, InvHolds, PTL

\* Which statements keep a pause and a hold.
LEMMA StorePauses ==
  ASSUME NEW r \in GroupRow
  PROVE  /\ \A read : PauseKept(r, PausedGroup(r, read))
         /\ \A a : PauseKept(r, BegunGroup(r, a))
         /\ \A p : ~r.paused => PauseKept(r, CompletedGroup(r, p))
         /\ \A b, e : PauseKept(r, SavedGroup(r, b, e))
         /\ PauseKept(r, HeldGroup(r))
         /\ PauseKept(r, DeletedRow)
         /\ PauseKept(r, RecoveredGroup(r))
         /\ \A b \in BOOLEAN : PauseKept(r, InterlockedGroup(r, b))
<1>. USE DEF PauseKept, GroupRow
<1>1. ASSUME NEW read PROVE PauseKept(r, PausedGroup(r, read))
  BY DEF PausedGroup
<1>2. ASSUME NEW a PROVE PauseKept(r, BegunGroup(r, a))
  BY DEF BegunGroup
<1>3. ASSUME NEW p, ~r.paused PROVE PauseKept(r, CompletedGroup(r, p))
  BY <1>3 DEF CompletedGroup
<1>4. ASSUME NEW b, NEW e PROVE PauseKept(r, SavedGroup(r, b, e))
  BY DEF SavedGroup
<1>5. PauseKept(r, HeldGroup(r))
  BY DEF HeldGroup
<1>6. PauseKept(r, DeletedRow)
  BY DEF DeletedRow, NoRow
<1>7. PauseKept(r, RecoveredGroup(r))
  BY DEF RecoveredGroup
<1>8. ASSUME NEW b \in BOOLEAN PROVE PauseKept(r, InterlockedGroup(r, b))
  BY DEF InterlockedGroup
<1>9. QED
  BY <1>1, <1>2, <1>3, <1>4, <1>5, <1>6, <1>7, <1>8

\* No worker clears a pause or a hold of its group.
LEMMA WorkerPause ==
  ASSUME Inv, NEW g \in Groups, WorkerStep(g)
  PROVE  PauseKept(row[g], row'[g])
<1>1. /\ TypeOK /\ row \in [Groups -> GroupRow] /\ row[g] \in GroupRow
      /\ GroupInv(wk[g], row[g])
  BY DEF Inv, TypeOK
<1>2. PauseKept(row[g], row[g])
  BY DEF PauseKept
<1>3. CASE wk[g].pc \notin CriticalPcs
  BY <1>1, <1>2, <1>3, UnlockedRow, StorePauses
<1>4. CASE Refuse(g)
  BY <1>1, <1>2, <1>4, StorePauses DEF Refuse
<1>5. CASE BeginTransition(g)
  BY <1>1, <1>5, StorePauses DEF BeginTransition
<1>6. CASE Complete(g)
  <2>1. CASE wk[g].outcome = "none"
    BY <1>2, <1>6, <2>1 DEF Complete
  <2>2. CASE wk[g].outcome # "none"
    <3>1. ~row[g].paused
      BY <1>1, <1>6, <2>2 DEF Complete, GroupInv, Mutating, Armed
    <3>2. QED
      BY <1>1, <1>6, <2>2, <3>1, StorePauses DEF Complete
  <2>3. QED
    BY <2>1, <2>2
<1>7. CASE wk[g].pc \in CriticalPcs /\ ~Refuse(g) /\ ~BeginTransition(g) /\ ~Complete(g)
  <2>1. CASE Loop(g)
    BY <1>1, <1>7, <2>1, LoopScope
  <2>2. CASE Execute(g)
    BY <1>2, <1>7, <2>2 DEF Execute, TryStack, TryFails, Fresh, Verify, Admit
  <2>3. CASE Job(g)
    BY <1>2, <1>7, <2>3 DEF Job, RunJob, RunJobFails, BeginFails, ReleasePorts,
       StartMember, Started, StartFails, StopMember, Stopped, StopFails, Rearm, Abort,
       CompleteFails, WaitErr
  <2>4. QED
    BY <2>1, <2>2, <2>3 DEF WorkerStep
<1>8. QED
  BY <1>3, <1>4, <1>5, <1>6, <1>7

\* The step of PauseEndsByResume, for one group.
PauseKeptOrResumed(g) ==
    \/ PauseKept(row[g], row'[g])
    \/ \E u \in Requests :
          req[u].pc = "commit" /\ req[u].kind = "resume" /\ g \in req[u].hit

\* No request does, unless it commits a Resume.
LEMMA ServePause ==
  ASSUME Inv, NEW u \in Requests, Serve(u), NEW h \in Groups
  PROVE  PauseKeptOrResumed(h)
<1>1. row \in [Groups -> GroupRow] /\ row[h] \in GroupRow
  BY DEF Inv, TypeOK
<1>2. PauseKept(row[h], row[h])
  BY DEF PauseKept
<1>3. CASE Commit(u)
  <2>1. PICK g \in req[u].hit, enabled \in BOOLEAN :
           row' = [row EXCEPT ![g] = CASE req[u].kind = "create" -> InsertedGroup(enabled, req[u].evid)
                                       [] req[u].kind = "save" -> SavedGroup(@, enabled, req[u].evid)
                                       [] OTHER -> ResumedGroup(@, req[u].phase, req[u].evid)]
    BY <1>3 DEF Commit
  <2>2. req[u].pc = "commit" /\ req[u].kind \in {"create", "save", "resume"}
    BY <1>3 DEF Commit, Inv, RequestInv
  <2>3. CASE h # g
    BY <1>1, <1>2, <2>1, <2>3 DEF PauseKeptOrResumed
  <2>4. CASE h = g /\ req[u].kind = "create"
    <3>1. row[h].state = "absent"
      BY <2>2, <2>4 DEF Inv, RequestInv
    <3>2. QED
      BY <3>1 DEF PauseKeptOrResumed, PauseKept
  <2>5. CASE h = g /\ req[u].kind = "save"
    <3>1. row'[h] = SavedGroup(row[h], enabled, req[u].evid)
      BY <1>1, <2>1, <2>5
    <3>2. QED
      BY <1>1, <3>1, StorePauses DEF PauseKeptOrResumed
  <2>6. CASE h = g /\ req[u].kind = "resume"
    BY <2>2, <2>6 DEF PauseKeptOrResumed
  <2>7. QED
    BY <2>2, <2>3, <2>4, <2>5, <2>6
<1>4. CASE CommitInactive(u)
  <2>1. PICK g \in req[u].hit :
           row' = [row EXCEPT ![g] = CASE req[u].kind = "disable" -> SavedGroup(@, FALSE, @.evid)
                                       [] req[u].kind = "hold" -> HeldGroup(@)
                                       [] OTHER -> DeletedRow]
    BY <1>4 DEF CommitInactive
  <2>2. row'[h] \in {row[h], SavedGroup(row[h], FALSE, row[h].evid), HeldGroup(row[h]), DeletedRow}
    BY <1>1, <2>1
  <2>3. QED
    BY <1>1, <1>2, <2>2, StorePauses DEF PauseKeptOrResumed
<1>5. CASE AdmitAction(u)
  BY <1>1, <1>2, <1>5, StorePauses DEF AdmitAction, PauseKeptOrResumed
<1>6. CASE FinishAction(u)
  BY <1>1, <1>2, <1>6, StorePauses DEF FinishAction, PauseKeptOrResumed
<1>7. CASE row' = row
  BY <1>2, <1>7 DEF PauseKeptOrResumed
<1>8. QED
  BY <1>3, <1>4, <1>5, <1>6, <1>7 DEF Serve, Snapshot, PolicyFails, SuspendGroup, Leave,
     ActionFails, RunAction, ReleaseHolds

\* A pause or a hold ends only by an explicit Resume or the group's removal, for
\* every number of groups and requests and across restarts.
THEOREM PauseIsDurable == Spec => PauseEndsByResume
<1>1. ASSUME Inv, Next, NEW h \in Groups
      PROVE  PauseKeptOrResumed(h)
  <2>1. row \in [Groups -> GroupRow] /\ row[h] \in GroupRow
    BY <1>1 DEF Inv, TypeOK
  <2>2. CASE row' = row
    BY <2>2 DEF PauseKeptOrResumed, PauseKept
  <2>3. ASSUME NEW g \in Groups, WorkerStep(g)
        PROVE  PauseKeptOrResumed(h)
    <3>1. CASE h = g
      BY <1>1, <2>3, <3>1, WorkerPause DEF PauseKeptOrResumed
    <3>2. CASE h # g
      BY <1>1, <2>3, <3>2, WorkerFrame DEF Inv, PauseKeptOrResumed, PauseKept
    <3>3. QED
      BY <3>1, <3>2
  <2>4. ASSUME NEW u \in Requests, Serve(u)
        PROVE  PauseKeptOrResumed(h)
    BY <1>1, <2>4, ServePause
  <2>5. CASE Recover
    BY <2>1, <2>5, StorePauses DEF Recover, PauseKeptOrResumed, PauseKept
  <2>6. ASSUME NEW u \in Requests, Arrive(u)
        PROVE  row' = row
    BY <1>1, <2>6, ArriveFrame DEF Inv
  <2>7. ASSUME NEW u \in Requests, NEW g \in Groups, Mutate(u, g)
        PROVE  row' = row
    BY <2>7 DEF Mutate
  <2>8. CASE (Manage /\ ~Recover) \/ Environment
    BY <2>2, <2>8 DEF Manage, Environment, Drain, Drained, Spawn, Remove, Attempt, Traffic, Outside, Crash
  <2>9. QED
    BY <1>1, <2>2, <2>3, <2>4, <2>5, <2>6, <2>7, <2>8 DEF Next
<1>2. Inv /\ [Next]_vars =>
        [\A g \in Groups :
            \/ PauseKept(row[g], row'[g])
            \/ \E u \in Requests :
                  req[u].pc = "commit" /\ req[u].kind = "resume" /\ g \in req[u].hit]_vars
  BY <1>1 DEF PauseKeptOrResumed
<1>3. QED
  BY <1>2, InvHolds, PTL DEF Spec, PauseEndsByResume

-----------------------------------------------------------------------------
(* What the containers are.                                                *)

\* Containers are changed by on-demand jobs and by interlocked actions only: nobody
\* works past Porty, and neither an update nor the removal of the stack, which do
\* not look at the groups, takes place.
Undisturbed == ~External /\ Kinds \cap {"update", "remove"} = {}

\* What automation trusts in a row is true of the members that run and of their
\* generation; HealthyPhaseIsTrue says it of every group.
Describes(r, members, n) ==
    (r.state = "present" /\ ~r.paused) =>
        /\ r.phase = "sleeping" => members = {} /\ r.evid = n
        /\ r.phase = "running" => members = Members /\ r.evid = n
        /\ r.phase # "unknown"

\* A row that a transition owns shows no phase that automation trusts.
ClaimedInv(r) == r.claimed => r.phase \in {"starting", "stopping"}

\* From the first member to the last.
CountingPcs == {"start", "stop", "rearm", "abort", "complete", "waitErr"}

\* What a job has done to the members so far.
ProgressInv(w, r, members, n) ==
    /\ w.pc \notin CountingPcs => w.step = 0
    /\ w.pc \in {"ports", "rearm"} => members = {}
    /\ w.pc = "start" => members = 1..w.step
    /\ w.pc = "stop" => members = 1..(MemberCount - w.step)
    /\ w.pc = "complete" /\ w.outcome = "running" => members = Members
    /\ w.pc = "complete" /\ w.outcome = "sleeping" => members = {}
    /\ Mutating(w) => r.evid = n

\* The three together, of one group.
TruthOf(w, r, members, n) == Describes(r, members, n) /\ ClaimedInv(r) /\ ProgressInv(w, r, members, n)

\* What a request knows of the containers of its groups: the snapshot that it is
\* about to save is still theirs, and an action changes them only behind a pause
\* or behind an unfinished transition.
SnapshotInv ==
    \A u \in Requests :
        /\ req[u].kind \in Kinds \cup {"none"}
        /\ \A g \in req[u].hit :
              /\ req[u].pc = "commit" =>
                    /\ up[g] = IF req[u].phase = "running" THEN Members ELSE {}
                    /\ req[u].phase \in {"running", "sleeping"} /\ req[u].evid = gen[g]
                    /\ req[u].kind = "create" => req[u].phase = "running"
              /\ /\ req[u].pc \in {"queued", "release", "run"} /\ req[u].kind \in InterlockKinds
                 /\ row[g].state = "present"
                 => row[g].paused \/ row[g].claimed

\* The inductive invariant of the containers, on top of Inv.
TruthInv == SnapshotInv /\ \A g \in Groups : TruthOf(wk[g], row[g], up[g], gen[g])

\* What the statements of the store do to a row that was true.
LEMMA StoreTruth ==
  ASSUME NEW r \in GroupRow, NEW members, NEW n, Describes(r, members, n), ClaimedInv(r)
  PROVE  /\ \A read : Describes(PausedGroup(r, read), members, n) /\ ClaimedInv(PausedGroup(r, read))
         /\ \A b, e : e \in {r.evid, n} =>
               Describes(SavedGroup(r, b, e), members, n) /\ ClaimedInv(SavedGroup(r, b, e))
         /\ Describes(HeldGroup(r), members, n) /\ ClaimedInv(HeldGroup(r))
         /\ Describes(DeletedRow, members, n) /\ ClaimedInv(DeletedRow)
         /\ Describes(RecoveredGroup(r), members, n) /\ ClaimedInv(RecoveredGroup(r))
         /\ \A b : Describes(InterlockedGroup(r, b), members, n) /\ ClaimedInv(InterlockedGroup(r, b))
<1>. USE DEF Describes, ClaimedInv, GroupRow
<1>1. ASSUME NEW read
      PROVE  Describes(PausedGroup(r, read), members, n) /\ ClaimedInv(PausedGroup(r, read))
  BY DEF PausedGroup
<1>2. ASSUME NEW b, NEW e, e \in {r.evid, n}
      PROVE  Describes(SavedGroup(r, b, e), members, n) /\ ClaimedInv(SavedGroup(r, b, e))
  BY <1>2 DEF SavedGroup
<1>3. Describes(HeldGroup(r), members, n) /\ ClaimedInv(HeldGroup(r))
  BY DEF HeldGroup
<1>4. Describes(DeletedRow, members, n) /\ ClaimedInv(DeletedRow)
  BY DEF DeletedRow, NoRow
<1>5. Describes(RecoveredGroup(r), members, n) /\ ClaimedInv(RecoveredGroup(r))
  BY DEF RecoveredGroup
<1>6. ASSUME NEW b
      PROVE  Describes(InterlockedGroup(r, b), members, n) /\ ClaimedInv(InterlockedGroup(r, b))
  BY DEF InterlockedGroup
<1>7. QED
  BY <1>1, <1>2, <1>3, <1>4, <1>5, <1>6

\* A new row, a resumed one and a completed one are true of what was found.
LEMMA FoundTruth ==
  ASSUME NEW members, NEW n,
         NEW p \in {"running", "sleeping"}, members = IF p = "running" THEN Members ELSE {}
  PROVE  /\ \A b : p = "running" => /\ Describes(InsertedGroup(b, n), members, n)
                                    /\ ClaimedInv(InsertedGroup(b, n))
         /\ \A r \in GroupRow : ~r.claimed => /\ Describes(ResumedGroup(r, p, n), members, n)
                                              /\ ClaimedInv(ResumedGroup(r, p, n))
         /\ \A r \in GroupRow : r.evid = n => Describes(CompletedGroup(r, p), members, n)
<1>. USE DEF Describes, ClaimedInv, GroupRow
<1>1. ASSUME NEW b, p = "running"
      PROVE  Describes(InsertedGroup(b, n), members, n) /\ ClaimedInv(InsertedGroup(b, n))
  BY <1>1 DEF InsertedGroup
<1>2. ASSUME NEW r \in GroupRow, ~r.claimed
      PROVE  Describes(ResumedGroup(r, p, n), members, n) /\ ClaimedInv(ResumedGroup(r, p, n))
  BY <1>2 DEF ResumedGroup
<1>3. ASSUME NEW r \in GroupRow, r.evid = n
      PROVE  Describes(CompletedGroup(r, p), members, n)
  BY <1>3 DEF CompletedGroup
<1>4. QED
  BY <1>1, <1>2, <1>3

\* A row with an unfinished transition, and one that a failed transition left.
LEMMA UnfinishedTruth ==
  ASSUME NEW r \in GroupRow, NEW members, NEW n
  PROVE  /\ \A a : Describes(BegunGroup(r, a), members, n) /\ ClaimedInv(BegunGroup(r, a))
         /\ Describes(CompletedGroup(r, "unknown"), members, n)
         /\ \A p : ClaimedInv(CompletedGroup(r, p))
<1>. USE DEF Describes, ClaimedInv, GroupRow
<1>1. ASSUME NEW a
      PROVE  Describes(BegunGroup(r, a), members, n) /\ ClaimedInv(BegunGroup(r, a))
  BY DEF BegunGroup, During
<1>2. Describes(CompletedGroup(r, "unknown"), members, n)
  BY DEF CompletedGroup
<1>3. ASSUME NEW p
      PROVE  ClaimedInv(CompletedGroup(r, p))
  BY DEF CompletedGroup
<1>4. QED
  BY <1>1, <1>2, <1>3

\* A worker that has not begun a job yet makes no claim on the containers.
LEMMA NotBegun ==
  ASSUME NEW w, w.pc \notin CountingPcs \cup {"ports"}, w.step = 0
  PROVE  \A r, members, n : ProgressInv(w, r, members, n)
  BY DEF ProgressInv, CountingPcs, Mutating

\* Which helpers keep the count of members.
LEMMA CountFacts ==
  ASSUME NEW w \in Worker
  PROVE  /\ Closed(w).step = w.step /\ Applied(w).step = w.step /\ Suspended(w).step = w.step
         /\ PortsReleased(w).step = w.step
         /\ Idle(w).step = 0 /\ Idle(w).pc = "idle"
<1>1. Closed(w).step = w.step
  BY DEF Closed, Worker
<1>2. QED
  BY <1>1 DEF Applied, Suspended, PortsReleased, Closed, Idle, Worker

\* An iteration of runGroup counts nothing.
LEMMA LoopCount ==
  ASSUME TypeOK, NEW g \in Groups, Loop(g), wk[g].pc \notin CountingPcs => wk[g].step = 0
  PROVE  /\ wk'[g].pc \notin CountingPcs \cup {"ports"} /\ wk'[g].step = 0
         /\ UNCHANGED runtime
<1>1. wk \in [Groups -> Worker] /\ wk[g] \in Worker /\ Closed(wk[g]) \in Worker /\ Applied(wk[g]) \in Worker
  BY PcFacts DEF TypeOK
<1>2. /\ Idle(wk[g]).step = 0 /\ Idle(Closed(wk[g])).step = 0 /\ Idle(Applied(wk[g])).step = 0
      /\ Idle(wk[g]).pc = "idle" /\ Idle(Closed(wk[g])).pc = "idle" /\ Idle(Applied(wk[g])).pc = "idle"
  BY <1>1, CountFacts
<1>3. CASE Exit(g)
  BY <1>1, <1>3, CountFacts DEF Exit, Worker, CountingPcs, runtime
<1>4. CASE Read(g)
  BY <1>1, <1>4 DEF Read, Worker, CountingPcs, runtime
<1>5. CASE ReadFails(g)
  BY <1>1, <1>5, CountFacts, PcFacts DEF ReadFails, CountingPcs, runtime
<1>6. CASE Apply(g)
  BY <1>1, <1>2, <1>6, CountFacts DEF Apply, Worker, CountingPcs, runtime
<1>7. CASE Probe(g)
  BY <1>1, <1>2, <1>7 DEF Probe, Worker, CountingPcs, runtime
<1>8. CASE Observe(g)
  BY <1>1, <1>8 DEF Observe, Worker, CountingPcs, runtime
<1>9. CASE ObserveChanged(g) \/ ObserveFails(g)
  BY <1>1, <1>2, <1>9 DEF ObserveChanged, ObserveFails, CountingPcs, runtime
<1>10. CASE Reserve(g)
  BY <1>1, <1>10 DEF Reserve, Worker, CountingPcs, runtime
<1>11. CASE ReserveFails(g)
  BY <1>1, <1>2, <1>11 DEF ReserveFails, CountingPcs, runtime
<1>12. CASE SnapshotFails(g) \/ DecidePause(g) \/ DecideNothing(g)
  BY <1>1, <1>2, <1>12 DEF SnapshotFails, DecidePause, DecideNothing, CountingPcs, runtime
<1>13. CASE DecideAction(g)
  BY <1>1, <1>2, <1>13 DEF DecideAction, Worker, CountingPcs, runtime
<1>14. QED
  BY <1>3, <1>4, <1>5, <1>6, <1>7, <1>8, <1>9, <1>10, <1>11, <1>12, <1>13 DEF Loop

\* Neither does the admission.
LEMMA ExecuteCount ==
  ASSUME TypeOK, NEW g \in Groups, Execute(g), wk[g].pc \notin CountingPcs => wk[g].step = 0
  PROVE  /\ wk'[g].pc \notin CountingPcs \cup {"ports"} /\ wk'[g].step = 0
         /\ UNCHANGED runtime
         /\ row'[g] \in {row[g], PausedGroup(row[g], wk[g].read)}
<1>1. wk \in [Groups -> Worker] /\ wk[g] \in Worker /\ row \in [Groups -> GroupRow]
  BY DEF TypeOK
<1>2. CASE TryFails(g) \/ Refuse(g)
  BY <1>1, <1>2, CountFacts DEF TryFails, Refuse, CountingPcs, runtime
<1>3. CASE TryStack(g)
  BY <1>1, <1>3 DEF TryStack, Worker, CountingPcs, runtime
<1>4. CASE Fresh(g)
  BY <1>1, <1>4 DEF Fresh, Worker, CountingPcs, runtime
<1>5. CASE Verify(g)
  BY <1>1, <1>5 DEF Verify, Worker, CountingPcs, runtime
<1>6. CASE Admit(g)
  BY <1>1, <1>6 DEF Admit, Worker, CountingPcs, runtime
<1>7. QED
  BY <1>2, <1>3, <1>4, <1>5, <1>6 DEF Execute

\* A job does to the members what it counts, and completes with what it has done.
LEMMA JobTruth ==
  ASSUME TypeOK, NEW g \in Groups, Job(g), GroupInv(wk[g], row[g]),
         TruthOf(wk[g], row[g], up[g], gen[g])
  PROVE  TruthOf(wk'[g], row'[g], up'[g], gen'[g])
<1>1. /\ wk \in [Groups -> Worker] /\ wk[g] \in Worker
      /\ row \in [Groups -> GroupRow] /\ row[g] \in GroupRow
      /\ up \in [Groups -> SUBSET Members] /\ gen \in [Groups -> Nat]
      /\ MemberCount \in Nat \ {0} /\ wk[g].step \in 0..MemberCount /\ Members = 1..MemberCount
  BY ConstantsOK DEF TypeOK, Worker, Members
<1>2. /\ Describes(row[g], up[g], gen[g]) /\ ClaimedInv(row[g])
      /\ ProgressInv(wk[g], row[g], up[g], gen[g])
  BY DEF TruthOf
<1>3. CASE RunJob(g)
  BY <1>1, <1>2, <1>3 DEF RunJob, runtime, TruthOf, ProgressInv, CountingPcs, Mutating, Worker
<1>4. CASE RunJobFails(g)
  BY <1>1, <1>2, <1>4 DEF RunJobFails, runtime, TruthOf, ProgressInv, CountingPcs, Mutating, Worker
<1>5. CASE BeginTransition(g)
  <2>1. /\ UNCHANGED runtime /\ row'[g] = BegunGroup(row[g], wk[g].action)
        /\ row[g].phase = From(wk[g].action) /\ Armed(row[g]) /\ wk[g].step = 0
        /\ wk'[g] = [wk[g] EXCEPT !.pc = IF wk[g].action = "wake" THEN "ports" ELSE "stop"]
    BY <1>1, <1>2, <1>5 DEF BeginTransition, MayBegin, runtime, ProgressInv, CountingPcs
  <2>2. row[g].evid = gen[g] /\ up[g] = IF wk[g].action = "wake" THEN {} ELSE Members
    BY <1>2, <2>1 DEF Describes, From, Armed
  <2>3. row'[g].evid = row[g].evid
    BY <1>1, <2>1 DEF BegunGroup, GroupRow
  <2>4. wk'[g].step = 0 /\ wk'[g].pc = IF wk[g].action = "wake" THEN "ports" ELSE "stop"
    BY <1>1, <2>1 DEF Worker
  <2>5. ProgressInv(wk'[g], row'[g], up'[g], gen'[g])
    BY <1>1, <2>1, <2>2, <2>3, <2>4 DEF ProgressInv, CountingPcs, runtime
  <2>6. /\ Describes(BegunGroup(row[g], wk[g].action), up'[g], gen'[g])
        /\ ClaimedInv(BegunGroup(row[g], wk[g].action))
    BY <1>1, UnfinishedTruth
  <2>7. QED
    BY <2>1, <2>5, <2>6 DEF TruthOf
<1>6. CASE BeginFails(g)
  <2>1. wk[g].outcome = "none"
    BY <1>6 DEF BeginFails, GroupInv
  <2>2. QED
    BY <1>1, <1>2, <1>6, <2>1 DEF BeginFails, runtime, TruthOf, ProgressInv, CountingPcs, Mutating, Worker
<1>7. CASE ReleasePorts(g)
  <2>1. UNCHANGED <<row, up, gen>> /\ wk'[g].pc \in {"start", "abort"} /\ wk'[g].step = wk[g].step
    BY <1>1, <1>7, CountFacts, PcFacts DEF ReleasePorts, runtime, Worker
  <2>2. wk[g].step = 0 /\ up[g] = {} /\ row[g].evid = gen[g]
    BY <1>2, <1>7 DEF ReleasePorts, ProgressInv, CountingPcs, Mutating
  <2>3. QED
    BY <1>1, <1>2, <2>1, <2>2 DEF TruthOf, ProgressInv, CountingPcs
<1>8. CASE StartMember(g)
  <2>1. /\ UNCHANGED <<row, gen>> /\ wk'[g].pc = "start" /\ wk'[g].step = wk[g].step + 1
        /\ up'[g] = up[g] \cup {wk[g].step + 1} /\ up[g] = 1..wk[g].step /\ row[g].evid = gen[g]
        /\ Mutating(wk[g])
    BY <1>1, <1>2, <1>8 DEF StartMember, Worker, ProgressInv, Mutating
  <2>2. up'[g] = 1..wk'[g].step
    BY <1>1, <2>1
  <2>3. Describes(row'[g], up'[g], gen'[g])
    BY <2>1 DEF GroupInv, Describes, During
  <2>4. QED
    BY <1>1, <1>2, <2>1, <2>2, <2>3 DEF TruthOf, ProgressInv, CountingPcs, Mutating
<1>9. CASE Started(g)
  BY <1>1, <1>2, <1>9 DEF Started, runtime, TruthOf, ProgressInv, CountingPcs, Mutating, Worker
<1>10. CASE StartFails(g) \/ StopFails(g)
  <2>1. UNCHANGED <<row, gen>> /\ wk'[g].pc = "abort" /\ Mutating(wk[g])
    BY <1>1, <1>10 DEF StartFails, StopFails, Worker, Mutating
  <2>2. Describes(row'[g], up'[g], gen'[g])
    BY <2>1 DEF GroupInv, Describes, During
  <2>3. QED
    BY <1>1, <1>2, <2>1, <2>2 DEF TruthOf, ProgressInv, CountingPcs, Mutating
<1>11. CASE StopMember(g)
  <2>1. /\ UNCHANGED <<row, gen>> /\ wk'[g].pc = "stop" /\ wk'[g].step = wk[g].step + 1
        /\ up'[g] = up[g] \ {MemberCount - wk[g].step} /\ up[g] = 1..(MemberCount - wk[g].step)
        /\ row[g].evid = gen[g] /\ Mutating(wk[g])
    BY <1>1, <1>2, <1>11 DEF StopMember, Worker, ProgressInv, Mutating
  <2>2. up'[g] = 1..(MemberCount - wk'[g].step)
    BY <1>1, <2>1
  <2>3. Describes(row'[g], up'[g], gen'[g])
    BY <2>1 DEF GroupInv, Describes, During
  <2>4. QED
    BY <1>1, <1>2, <2>1, <2>2, <2>3 DEF TruthOf, ProgressInv, CountingPcs, Mutating
<1>12. CASE Stopped(g)
  BY <1>1, <1>2, <1>12 DEF Stopped, runtime, TruthOf, ProgressInv, CountingPcs, Mutating, Worker
<1>13. CASE Rearm(g)
  BY <1>1, <1>2, <1>13 DEF Rearm, runtime, TruthOf, ProgressInv, CountingPcs, Mutating, Worker
<1>14. CASE Abort(g)
  <2>1. UNCHANGED <<row, up, gen>> /\ wk'[g].pc = "complete" /\ wk'[g].outcome = "unknown"
    BY <1>1, <1>14, PcFacts DEF Abort, runtime, Worker
  <2>2. QED
    BY <1>1, <1>2, <1>14, <2>1 DEF Abort, TruthOf, ProgressInv, CountingPcs, Mutating
<1>15. CASE Complete(g)
  <2>1. ProgressInv(wk'[g], row'[g], up'[g], gen'[g]) /\ UNCHANGED runtime
    <3>1. wk'[g] = Idle(wk[g]) /\ UNCHANGED runtime
      BY <1>1, <1>15 DEF Complete
    <3>2. wk'[g].pc = "idle" /\ wk'[g].step = 0
      BY <1>1, <3>1, CountFacts
    <3>3. QED
      BY <3>1, <3>2, NotBegun DEF CountingPcs
  <2>2. CASE wk[g].outcome = "none"
    BY <1>2, <1>15, <2>1, <2>2 DEF Complete, runtime, TruthOf
  <2>3. CASE wk[g].outcome # "none"
    <3>1. row'[g] = CompletedGroup(row[g], wk[g].outcome) /\ row[g].evid = gen[g]
      BY <1>1, <1>2, <1>15, <2>3 DEF Complete, ProgressInv, Mutating
    <3>2. CASE wk[g].outcome = "unknown"
      BY <1>1, <2>1, <3>1, <3>2, UnfinishedTruth DEF TruthOf
    <3>3. CASE wk[g].outcome \in {"running", "sleeping"}
      <4>1. up[g] = IF wk[g].outcome = "running" THEN Members ELSE {}
        BY <1>2, <1>15, <3>3 DEF Complete, ProgressInv
      <4>2. Describes(CompletedGroup(row[g], wk[g].outcome), up[g], gen[g])
        BY <1>1, <3>1, <3>3, <4>1, FoundTruth
      <4>3. QED
        BY <1>1, <2>1, <3>1, <4>2, UnfinishedTruth DEF TruthOf, runtime
    <3>4. QED
      BY <1>1, <2>3, <3>2, <3>3 DEF Worker
  <2>4. QED
    BY <2>2, <2>3
<1>16. CASE CompleteFails(g)
  BY <1>1, <1>2, <1>16 DEF CompleteFails, runtime, TruthOf, ProgressInv, CountingPcs, Mutating, Worker
<1>17. CASE WaitErr(g)
  <2>1. wk'[g] = Idle(PortsReleased(wk[g])) /\ UNCHANGED <<row, up, gen>>
    BY <1>1, <1>17 DEF WaitErr, runtime
  <2>2. wk'[g].pc = "idle" /\ wk'[g].step = 0
    BY <1>1, <2>1, CountFacts, PcFacts
  <2>3. ProgressInv(wk'[g], row'[g], up'[g], gen'[g])
    BY <2>2, NotBegun DEF CountingPcs
  <2>4. QED
    BY <1>2, <2>1, <2>3 DEF TruthOf
<1>18. QED
  BY <1>3, <1>4, <1>5, <1>6, <1>7, <1>8, <1>9, <1>10, <1>11, <1>12, <1>13, <1>14, <1>15, <1>16, <1>17 DEF Job

\* A worker keeps its row true.
LEMMA WorkerTruth ==
  ASSUME Inv, NEW g \in Groups, WorkerStep(g), TruthOf(wk[g], row[g], up[g], gen[g])
  PROVE  TruthOf(wk'[g], row'[g], up'[g], gen'[g])
<1>1. TypeOK /\ GroupInv(wk[g], row[g]) /\ row[g] \in GroupRow
  BY DEF Inv, TypeOK
<1>2. /\ Describes(row[g], up[g], gen[g]) /\ ClaimedInv(row[g])
      /\ wk[g].pc \notin CountingPcs => wk[g].step = 0
  BY DEF TruthOf, ProgressInv
<1>3. CASE Loop(g) \/ Execute(g)
  <2>1. /\ wk'[g].pc \notin CountingPcs \cup {"ports"} /\ wk'[g].step = 0 /\ UNCHANGED <<up, gen>>
        /\ row'[g] \in {row[g], PausedGroup(row[g], wk[g].read)}
    BY <1>1, <1>2, <1>3, LoopCount, LoopScope, UnlockedRow, ExecuteCount DEF runtime
  <2>2. ProgressInv(wk'[g], row'[g], up'[g], gen'[g])
    BY <2>1, NotBegun
  <2>3. QED
    BY <1>1, <1>2, <2>1, <2>2, StoreTruth DEF TruthOf
<1>4. CASE Job(g)
  BY <1>1, <1>4, JobTruth
<1>5. QED
  BY <1>3, <1>4 DEF WorkerStep

\* A worker outside its critical section makes no claim on the containers.
LEMMA ProgressUnlocked ==
  ASSUME NEW w, w.pc \notin CriticalPcs, w.pc \notin CountingPcs => w.step = 0
  PROVE  \A r, members, n : ProgressInv(w, r, members, n)
  BY DEF ProgressInv, CriticalPcs, CountingPcs, Mutating

\* Its claim does not depend on its ports, its samples or its place in the map.
LEMMA ProgressSame ==
  ASSUME NEW w, NEW v, v.pc = w.pc, v.step = w.step, v.outcome = w.outcome,
         NEW r, NEW members, NEW n, ProgressInv(w, r, members, n)
  PROVE  ProgressInv(v, r, members, n)
  BY DEF ProgressInv, Mutating

\* A worker changes containers of its own group only, and only in its critical
\* section.
LEMMA WorkerRuntime ==
  ASSUME TypeOK, NEW g \in Groups, WorkerStep(g)
  PROVE  \A h \in Groups : (h # g \/ wk[g].pc \notin CriticalPcs) => up'[h] = up[h] /\ gen'[h] = gen[h]
<1>1. up \in [Groups -> SUBSET Members]
  BY DEF TypeOK
<1>2. CASE Loop(g)
  BY <1>2 DEF Loop, Exit, Read, ReadFails, Apply, Probe, Observe, ObserveChanged, runtime,
     ObserveFails, Reserve, ReserveFails, SnapshotFails, DecideAction, DecidePause, DecideNothing
<1>3. CASE Execute(g)
  BY <1>3 DEF Execute, TryStack, TryFails, Fresh, Verify, Admit, Refuse, runtime
<1>4. CASE StartMember(g) \/ StopMember(g)
  BY <1>1, <1>4 DEF StartMember, StopMember, CriticalPcs
<1>5. CASE StartFails(g) \/ StopFails(g)
  BY <1>1, <1>5 DEF StartFails, StopFails, CriticalPcs
<1>6. CASE UNCHANGED runtime
  BY <1>6 DEF runtime
<1>7. CASE Job(g)
  BY <1>4, <1>5, <1>6, <1>7 DEF Job, RunJob, RunJobFails, BeginTransition, BeginFails, ReleasePorts,
     Started, Stopped, Rearm, Abort, Complete, CompleteFails, WaitErr
<1>8. QED
  BY <1>2, <1>3, <1>7 DEF WorkerStep

\* A worker keeps all rows true, and what the requests know.
LEMMA WorkerTruths ==
  ASSUME Inv, TruthInv, NEW g \in Groups, WorkerStep(g)
  PROVE  TruthInv'
<1>1. TypeOK /\ req \in [Requests -> Request] /\ row[g] \in GroupRow
  BY DEF Inv, TypeOK
<1>2. ASSUME NEW h \in Groups
      PROVE  TruthOf(wk'[h], row'[h], up'[h], gen'[h])
  <2>1. CASE h = g
    BY <2>1, WorkerTruth DEF TruthInv
  <2>2. CASE h # g
    BY <1>1, <2>2, WorkerFrame, WorkerRuntime DEF TruthInv
  <2>3. QED
    BY <2>1, <2>2
<1>3. ASSUME NEW u \in Requests, NEW h \in req[u].hit
      PROVE  /\ up'[h] = up[h] /\ gen'[h] = gen[h] /\ row'[h].state = row[h].state
             /\ row[h].paused \/ row[h].claimed => row'[h].paused \/ row'[h].claimed
  <2>1. h \in Groups /\ wk[h].pc \notin CriticalPcs
    BY RequestIsAlone
  <2>2. CASE h # g
    BY <1>1, <2>1, <2>2, WorkerFrame, WorkerRuntime
  <2>3. CASE h = g
    <3>1. row'[g] \in {row[g], PausedGroup(row[g], wk[g].read)}
      BY <1>1, <2>1, <2>3, UnlockedRow
    <3>2. row'[g].state = row[g].state
          /\ (row[g].paused \/ row[g].claimed => row'[g].paused \/ row'[g].claimed)
      BY <1>1, <3>1 DEF PausedGroup, GroupRow
    <3>3. QED
      BY <1>1, <2>1, <2>3, <3>2, WorkerRuntime
  <2>4. QED
    BY <2>2, <2>3
<1>4. req' = req
  BY <1>1, WorkerFrame
<1>5. SnapshotInv'
  BY <1>3, <1>4 DEF TruthInv, SnapshotInv
<1>6. QED
  BY <1>2, <1>5 DEF TruthInv

\* The statements of a request keep the rows true.
LEMMA ServeRow ==
  ASSUME Inv, TruthInv, NEW u \in Requests, Serve(u), NEW g \in Groups
  PROVE  /\ Describes(row'[g], up[g], gen[g]) /\ ClaimedInv(row'[g])
         /\ g \notin req[u].hit => row'[g] = row[g]
<1>1. /\ row \in [Groups -> GroupRow] /\ row[g] \in GroupRow /\ req[u].hit \subseteq Groups
      /\ TypeOK /\ RequestInv /\ SnapshotInv
  BY DEF Inv, TypeOK, Request, TruthInv
<1>2. Describes(row[g], up[g], gen[g]) /\ ClaimedInv(row[g])
  BY DEF TruthInv, TruthOf
<1>3. CASE row' = row
  BY <1>2, <1>3
<1>4. CASE Commit(u)
  <2>1. PICK h \in req[u].hit, enabled \in BOOLEAN :
           /\ req[u].kind # "create" => ~row[h].claimed
           /\ row' = [row EXCEPT ![h] = CASE req[u].kind = "create" -> InsertedGroup(enabled, req[u].evid)
                                          [] req[u].kind = "save" -> SavedGroup(@, enabled, req[u].evid)
                                          [] OTHER -> ResumedGroup(@, req[u].phase, req[u].evid)]
    BY <1>4 DEF Commit, Writable
  <2>2. CASE g # h
    BY <1>1, <1>2, <2>1, <2>2
  <2>3. CASE g = h
    <3>1. /\ up[g] = IF req[u].phase = "running" THEN Members ELSE {}
          /\ req[u].phase \in {"running", "sleeping"} /\ req[u].evid = gen[g]
          /\ req[u].kind = "create" => req[u].phase = "running"
      BY <1>1, <1>4, <2>3 DEF SnapshotInv, Commit
    <3>2. CASE req[u].kind = "create"
      <4>1. row'[g] = InsertedGroup(enabled, gen[g])
        BY <1>1, <2>1, <2>3, <3>1, <3>2
      <4>2. QED
        BY <2>3, <3>1, <3>2, <4>1, FoundTruth
    <3>3. CASE req[u].kind = "save"
      <4>1. row'[g] = SavedGroup(row[g], enabled, gen[g])
        BY <1>1, <2>1, <2>3, <3>1, <3>3
      <4>2. QED
        BY <1>1, <1>2, <2>3, <4>1, StoreTruth
    <3>4. CASE req[u].kind \notin {"create", "save"}
      <4>1. row'[g] = ResumedGroup(row[g], req[u].phase, gen[g]) /\ ~row[g].claimed
        BY <1>1, <2>1, <2>3, <3>1, <3>4
      <4>2. QED
        BY <1>1, <2>3, <3>1, <4>1, FoundTruth
    <3>5. QED
      BY <3>2, <3>3, <3>4
  <2>4. QED
    BY <2>2, <2>3
<1>5. CASE CommitInactive(u)
  <2>1. PICK h \in req[u].hit :
           row' = [row EXCEPT ![h] = CASE req[u].kind = "disable" -> SavedGroup(@, FALSE, @.evid)
                                       [] req[u].kind = "hold" -> HeldGroup(@)
                                       [] OTHER -> DeletedRow]
    BY <1>5 DEF CommitInactive
  <2>2. g = h => row'[g] \in {SavedGroup(row[g], FALSE, row[g].evid), HeldGroup(row[g]), DeletedRow}
    BY <1>1, <2>1
  <2>3. g # h => row'[g] = row[g]
    BY <1>1, <2>1
  <2>4. QED
    BY <1>1, <1>2, <2>1, <2>2, <2>3, StoreTruth
<1>6. CASE AdmitAction(u)
  <2>1. row'[g] = row[g] \/ (g \in req[u].hit /\ row'[g] = InterlockedGroup(row[g], req[u].kind = "stop"))
    BY <1>1, <1>6 DEF AdmitAction
  <2>2. QED
    BY <1>1, <1>2, <2>1, StoreTruth
<1>7. CASE FinishAction(u)
  <2>1. row'[g] = row[g] \/ (g \in req[u].hit /\ row'[g] = DeletedRow)
    BY <1>1, <1>7 DEF FinishAction
  <2>2. QED
    BY <1>1, <1>2, <2>1, StoreTruth
<1>8. QED
  BY <1>3, <1>4, <1>5, <1>6, <1>7 DEF Serve, Snapshot, PolicyFails, SuspendGroup, Leave,
     ActionFails, RunAction, ReleaseHolds

\* What a request knows of its groups while it is served.
LEMMA ServeKnows ==
  ASSUME Inv, TruthInv, NEW u \in Requests, Serve(u), NEW g \in req[u].hit
  PROVE  /\ req'[u].pc = "commit" =>
                /\ up[g] = IF req'[u].phase = "running" THEN Members ELSE {}
                /\ req'[u].phase \in {"running", "sleeping"} /\ req'[u].evid = gen[g]
                /\ req'[u].kind = "create" => req'[u].phase = "running"
         /\ /\ req'[u].pc \in {"queued", "release", "run"} /\ req'[u].kind \in InterlockKinds
            /\ row'[g].state = "present"
            => row'[g].paused \/ row'[g].claimed
<1>1. /\ row \in [Groups -> GroupRow] /\ req[u].hit \subseteq Groups /\ g \in Groups
      /\ req \in [Requests -> Request] /\ req[u] \in Request /\ row[g] \in GroupRow
      /\ RequestInv /\ SnapshotInv
  BY RequestIsAlone DEF Inv, TypeOK, Request, TruthInv
<1>2. CASE req'[u].pc \in {"leave", "idle", "suspend"}
  BY <1>2
<1>3. CASE Snapshot(u)
  <2>1. PICK h \in req[u].hit :
           /\ req[u].pc = "held" /\ req[u].kind \in {"create", "save", "resume"} /\ Uniform(h)
           /\ req[u].kind = "create" => up[h] = Members
           /\ req' = [req EXCEPT ![u].pc = "commit", ![u].rev = row[h].rev,
                                 ![u].phase = PhaseOf(h), ![u].evid = gen[h]]
    BY <1>3 DEF Snapshot
  <2>2. h = g
    BY <1>1, <2>1 DEF RequestInv, PolicyKinds
  <2>3. /\ req'[u].pc = "commit" /\ req'[u].phase = PhaseOf(g) /\ req'[u].evid = gen[g]
        /\ req'[u].kind = req[u].kind
    BY <1>1, <2>1, <2>2 DEF Request
  <2>4. /\ up[g] = IF PhaseOf(g) = "running" THEN Members ELSE {}
        /\ PhaseOf(g) \in {"running", "sleeping"}
        /\ up[g] = Members => PhaseOf(g) = "running"
    BY <2>1, <2>2 DEF Uniform, PhaseOf
  <2>5. QED
    BY <2>1, <2>2, <2>3, <2>4
<1>4. CASE AdmitAction(u)
  <2>1. req'[u].kind = req[u].kind /\ req'[u].pc \in {"run", "queued"}
    BY <1>1, <1>4 DEF AdmitAction, Request
  <2>2. CASE req[u].kind \in InterlockKinds
    <3>1. row'[g] = InterlockedGroup(row[g], req[u].kind = "stop")
      BY <1>1, <1>4, <2>2 DEF AdmitAction
    <3>2. row'[g].state = "present" => row'[g].paused \/ row'[g].claimed
      BY <1>1, <3>1 DEF InterlockedGroup, GroupRow
    <3>3. QED
      BY <2>1, <3>2
  <2>3. QED
    BY <2>1, <2>2
<1>5. CASE RunAction(u) \/ ReleaseHolds(u)
  <2>1. /\ req'[u].kind = req[u].kind /\ req[u].pc \in {"queued", "release"} /\ row' = row
        /\ req'[u].pc \in {"release", "run"}
    BY <1>1, <1>5 DEF RunAction, ReleaseHolds, Request
  <2>2. QED
    BY <1>1, <2>1 DEF SnapshotInv
<1>6. CASE Commit(u) \/ CommitInactive(u) \/ PolicyFails(u) \/ SuspendGroup(u) \/ ActionFails(u) \/ FinishAction(u)
  BY <1>1, <1>2, <1>6 DEF Commit, CommitInactive, PolicyFails, SuspendGroup, ActionFails, FinishAction, Request
<1>7. CASE Leave(u)
  BY <1>1, <1>2, <1>7 DEF Leave, NoRequest
<1>8. QED
  BY <1>3, <1>4, <1>5, <1>6, <1>7 DEF Serve

\* Serving a request keeps the invariant.
LEMMA ServeTruths ==
  ASSUME Inv, TruthInv, NEW u \in Requests, Serve(u)
  PROVE  TruthInv'
<1>1. /\ TypeOK /\ SnapshotInv /\ wk \in [Groups -> Worker]
      /\ \A v \in Requests : req[v].hit \subseteq Groups
  BY DEF Inv, TypeOK, Request, TruthInv
<1>2. UNCHANGED runtime
  BY DEF Serve, Snapshot, Commit, CommitInactive, PolicyFails, SuspendGroup, Leave, AdmitAction,
     ActionFails, RunAction, ReleaseHolds, FinishAction
<1>3. ASSUME NEW g \in Groups
      PROVE  TruthOf(wk'[g], row'[g], up'[g], gen'[g])
  <2>1. ProgressInv(wk[g], row[g], up[g], gen[g]) /\ wk[g] \in Worker
    BY <1>1 DEF TruthInv, TruthOf
  <2>2. ProgressInv(wk[g], row'[g], up[g], gen[g])
    <3>1. CASE g \in req[u].hit
      BY <2>1, <3>1, RequestIsAlone, ProgressUnlocked DEF ProgressInv
    <3>2. CASE g \notin req[u].hit
      BY <2>1, <3>2, ServeRow
    <3>3. QED
      BY <3>1, <3>2
  <2>3. /\ Suspended(wk[g]).pc = wk[g].pc /\ Suspended(wk[g]).step = wk[g].step
        /\ Suspended(wk[g]).outcome = wk[g].outcome
    BY <2>1, PcFacts, CountFacts DEF Suspended, Closed, Worker
  <2>4. ProgressInv(wk'[g], row'[g], up[g], gen[g])
    BY <1>1, <2>2, <2>3, ServeFrame, ProgressSame
  <2>5. QED
    BY <1>2, <2>4, ServeRow DEF TruthOf, runtime
<1>4. ASSUME NEW v \in Requests \ {u}, NEW g \in req[v].hit
      PROVE  req'[v] = req[v] /\ row'[g] = row[g]
  BY <1>1, RequestIsAlone, ServeRow, ServeFrame
<1>5. /\ req'[u] = NoRequest \/ (req'[u].hit = req[u].hit /\ req'[u].kind = req[u].kind)
      /\ NoRequest.hit = {} /\ NoRequest.kind = "none"
      /\ \A v \in Requests \ {u} : req'[v] = req[v]
  BY <1>1, ServeFrame DEF NoRequest
<1>6. SnapshotInv'
  <2>1. ASSUME NEW v \in Requests
        PROVE  /\ req'[v].kind \in Kinds \cup {"none"}
               /\ \A g \in req'[v].hit :
                    /\ req'[v].pc = "commit" =>
                          /\ up'[g] = IF req'[v].phase = "running" THEN Members ELSE {}
                          /\ req'[v].phase \in {"running", "sleeping"} /\ req'[v].evid = gen'[g]
                          /\ req'[v].kind = "create" => req'[v].phase = "running"
                    /\ /\ req'[v].pc \in {"queued", "release", "run"} /\ req'[v].kind \in InterlockKinds
                       /\ row'[g].state = "present"
                       => row'[g].paused \/ row'[g].claimed
    <3>1. CASE v = u
      <4>1. req'[u].kind \in Kinds \cup {"none"}
        BY <1>1, <1>5 DEF SnapshotInv
      <4>2. req'[u].hit \subseteq req[u].hit
        BY <1>5
      <4>3. QED
        BY <1>2, <3>1, <4>1, <4>2, ServeKnows DEF runtime
    <3>2. CASE v # u
      BY <1>1, <1>2, <1>4, <1>5, <3>2 DEF SnapshotInv, runtime
    <3>3. QED
      BY <3>1, <3>2
  <2>2. QED
    BY <2>1 DEF SnapshotInv
<1>7. QED
  BY <1>3, <1>6 DEF TruthInv

\* An arriving request knows nothing yet.
LEMMA ArriveTruths ==
  ASSUME Inv, TruthInv, NEW u \in Requests, Arrive(u)
  PROVE  TruthInv'
<1>1. TypeOK /\ req \in [Requests -> Request]
  BY DEF Inv, TypeOK
<1>2. /\ UNCHANGED <<row, wk>> /\ req'[u].pc \in {"held", "leave"}
      /\ \A v \in Requests \ {u} : req'[v] = req[v]
  BY <1>1, ArriveFrame
<1>3. UNCHANGED runtime /\ req'[u].kind \in Kinds
  BY <1>1 DEF Arrive, BeginPolicy, BeginAction, BeginRepository, NoRequest
<1>4. SnapshotInv'
  BY <1>2, <1>3 DEF TruthInv, SnapshotInv, runtime
<1>5. QED
  BY <1>2, <1>3, <1>4 DEF TruthInv, runtime

\* A manual action changes the containers of a row that is paused, or that an
\* unfinished transition owns.
LEMMA MutateTruths ==
  ASSUME Undisturbed, Inv, TruthInv, NEW u \in Requests, NEW g \in Groups, Mutate(u, g)
  PROVE  TruthInv'
<1>1. /\ up \in [Groups -> SUBSET Members] /\ gen \in [Groups -> Nat] /\ wk \in [Groups -> Worker]
      /\ \A v \in Requests : req[v].hit \subseteq Groups
      /\ SnapshotInv /\ row \in [Groups -> GroupRow]
  BY DEF Inv, TypeOK, Request, TruthInv
<1>2. /\ req[u].pc = "run" /\ g \in req[u].hit /\ UNCHANGED <<row, req>>
      /\ wk' = [wk EXCEPT ![g].quiet = FALSE]
      /\ req[u].kind \in {"start", "stop", "remove", "restart", "deploy", "update"}
      /\ \A h \in Groups \ {g} : up'[h] = up[h] /\ gen'[h] = gen[h]
  BY <1>1 DEF Mutate
<1>3. req[u].kind \in InterlockKinds
  BY <1>1, <1>2 DEF Undisturbed, SnapshotInv, InterlockKinds
<1>4. Describes(row'[g], up'[g], gen'[g])
  BY <1>1, <1>2, <1>3 DEF SnapshotInv, TruthInv, TruthOf, ClaimedInv, Describes
<1>5. wk[g].pc \notin CriticalPcs /\ \A v \in Requests \ {u} : g \notin req[v].hit
  BY <1>2, RequestIsAlone
<1>6. wk'[g].pc = wk[g].pc /\ wk'[g].step = wk[g].step
  BY <1>1, <1>2 DEF Worker
<1>7. ProgressInv(wk'[g], row'[g], up'[g], gen'[g])
  BY <1>5, <1>6, ProgressUnlocked DEF TruthInv, TruthOf, ProgressInv
<1>8. \A h \in Groups : TruthOf(wk'[h], row'[h], up'[h], gen'[h])
  BY <1>1, <1>2, <1>4, <1>7 DEF TruthInv, TruthOf
<1>9. SnapshotInv'
  BY <1>1, <1>2, <1>5 DEF SnapshotInv
<1>10. QED
  BY <1>8, <1>9 DEF TruthInv

\* The controller, the clients and crashes.
LEMMA OtherTruths ==
  ASSUME Undisturbed, Inv, TruthInv, Manage \/ Environment
  PROVE  TruthInv'
<1>1. /\ row \in [Groups -> GroupRow] /\ wk \in [Groups -> Worker] /\ SnapshotInv
      /\ \A v \in Requests : req[v].hit \subseteq Groups
      /\ \A g \in Groups : TruthOf(wk[g], row[g], up[g], gen[g])
  BY DEF Inv, TypeOK, Request, TruthInv
<1>2. NoWorker.pc = "none" /\ NoWorker.step = 0
  BY DEF NoWorker
<1>3. ASSUME NEW w, w.pc \in {"none", "idle"}, w.step = 0, NEW g \in Groups
      PROVE  TruthOf(w, row[g], up[g], gen[g])
  BY <1>1, <1>3, ProgressUnlocked DEF TruthOf, CriticalPcs
<1>4. ASSUME UNCHANGED <<row, req, up, gen>>,
             \A g \in Groups : \/ wk'[g].pc = wk[g].pc /\ wk'[g].step = wk[g].step
                                  /\ wk'[g].outcome = wk[g].outcome
                               \/ wk'[g].pc \in {"none", "idle"} /\ wk'[g].step = 0
      PROVE  TruthInv'
  <2>1. ASSUME NEW g \in Groups
        PROVE  TruthOf(wk'[g], row'[g], up'[g], gen'[g])
    <3>1. CASE wk'[g].pc = wk[g].pc /\ wk'[g].step = wk[g].step /\ wk'[g].outcome = wk[g].outcome
      BY <1>1, <1>4, <3>1, ProgressSame DEF TruthOf
    <3>2. CASE wk'[g].pc \in {"none", "idle"} /\ wk'[g].step = 0
      BY <1>3, <1>4, <3>2
    <3>3. QED
      BY <1>4, <3>1, <3>2
  <2>2. SnapshotInv'
    BY <1>1, <1>4 DEF SnapshotInv
  <2>3. QED
    BY <2>1, <2>2 DEF TruthInv
<1>5. CASE Recover
  <2>1. /\ UNCHANGED <<wk, req, up, gen>>
        /\ \A g \in Groups : row'[g] \in {row[g], RecoveredGroup(row[g])}
        /\ \A g \in Groups : wk[g].pc = "none"
    BY <1>1, <1>5 DEF Recover, runtime, Inv, BootInv
  <2>2. ASSUME NEW g \in Groups
        PROVE  /\ TruthOf(wk'[g], row'[g], up'[g], gen'[g])
               /\ row'[g].state = row[g].state
               /\ row[g].paused \/ row[g].claimed => row'[g].paused \/ row'[g].claimed
    <3>1. Describes(row'[g], up[g], gen[g]) /\ ClaimedInv(row'[g])
      BY <1>1, <2>1, StoreTruth DEF TruthOf
    <3>2. ProgressInv(wk[g], row'[g], up[g], gen[g])
      BY <1>1, <2>1, ProgressUnlocked DEF TruthOf, ProgressInv, CriticalPcs
    <3>3. /\ row'[g].state = row[g].state
          /\ row[g].paused \/ row[g].claimed => row'[g].paused \/ row'[g].claimed
      BY <1>1, <2>1 DEF RecoveredGroup, GroupRow
    <3>4. QED
      BY <2>1, <3>1, <3>2, <3>3 DEF TruthOf
  <2>3. SnapshotInv'
    BY <1>1, <2>1, <2>2 DEF SnapshotInv
  <2>4. QED
    BY <2>2, <2>3 DEF TruthInv
<1>6. CASE Drain
  BY <1>1, <1>4, <1>6 DEF Drain, runtime
<1>7. CASE Drained
  BY <1>2, <1>4, <1>7 DEF Drained, runtime
<1>8. ASSUME NEW g \in Groups, Spawn(g)
      PROVE  TruthInv'
  BY <1>1, <1>4, <1>8 DEF Spawn, runtime, NoWorker
<1>9. ASSUME NEW g \in Groups, Remove(g) \/ Attempt(g) \/ Traffic(g)
      PROVE  TruthInv'
  <2>1. UNCHANGED <<row, req, up, gen>>
    BY <1>9 DEF Remove, Attempt, Traffic, runtime
  <2>2. \A h \in Groups : wk'[h].pc = wk[h].pc /\ wk'[h].step = wk[h].step /\ wk'[h].outcome = wk[h].outcome
    BY <1>1, <1>9 DEF Remove, Attempt, Traffic, Worker
  <2>3. QED
    BY <1>4, <2>1, <2>2
<1>10. CASE Crash
  <2>1. \A g \in Groups : TruthOf(wk'[g], row'[g], up'[g], gen'[g])
    BY <1>2, <1>3, <1>10 DEF Crash, runtime
  <2>2. SnapshotInv'
    BY <1>10 DEF Crash, SnapshotInv, NoRequest
  <2>3. QED
    BY <2>1, <2>2 DEF TruthInv
<1>11. QED
  BY <1>5, <1>6, <1>7, <1>8, <1>9, <1>10 DEF Manage, Environment, Outside, Undisturbed

\* At the start there is no row.
LEMMA TruthInit == Init => TruthInv
<1>. SUFFICES ASSUME Init
              PROVE  TruthInv
  OBVIOUS
<1>1. SnapshotInv
  BY DEF Init, SnapshotInv, NoRequest
<1>2. ASSUME NEW g \in Groups
      PROVE  TruthOf(wk[g], row[g], up[g], gen[g])
  <2>1. wk[g] = NoWorker /\ row[g] = NoRow
    BY DEF Init
  <2>2. Describes(NoRow, up[g], gen[g]) /\ ClaimedInv(NoRow)
    BY DEF Describes, ClaimedInv, NoRow
  <2>3. NoWorker.pc \notin CriticalPcs /\ NoWorker.step = 0
    BY DEF NoWorker, CriticalPcs
  <2>4. QED
    BY <2>1, <2>2, <2>3, ProgressUnlocked DEF TruthOf
<1>3. QED
  BY <1>1, <1>2 DEF TruthInv

\* Every step keeps it.
LEMMA TruthStep ==
  ASSUME Undisturbed, Inv, TruthInv, [Next]_vars
  PROVE  TruthInv'
<1>1. CASE UNCHANGED vars
  BY <1>1 DEF vars, TruthInv, SnapshotInv
<1>2. CASE Next
  BY <1>2, WorkerTruths, ServeTruths, ArriveTruths, MutateTruths, OtherTruths DEF Next
<1>3. QED
  BY <1>1, <1>2

\* What automation trusts is true: as long as containers change through Porty only,
\* and by jobs and actions that look at the groups, an unpaused row that says
\* sleeping or running describes the containers of its evidence, through partial
\* transitions, failed saves, manual actions and crashes, for every number of
\* groups, members and requests.
THEOREM HealthyPhases ==
  ASSUME Undisturbed
  PROVE  Spec => []HealthyPhaseIsTrue
<1>1. TruthInv => HealthyPhaseIsTrue
  BY DEF TruthInv, TruthOf, Describes, HealthyPhaseIsTrue
<1>2. Inv /\ TruthInv /\ [Next]_vars => TruthInv'
  BY TruthStep
<1>3. QED
  BY <1>1, <1>2, TruthInit, InvHolds, PTL DEF Spec


-----------------------------------------------------------------------------
(* What an accepted stop records.                                          *)

\* The hold of a stop, or what an unfinished transition leaves in its place: the
\* transition still owns the row, or a recovery has found it and paused the group.
HeldOrUnfinished(r) ==
    r.state = "present" => r.hold \/ r.claimed \/ (r.paused /\ r.phase = "unknown")

\* From its admission to its end, an accepted stop has that in every group it touches.
StopIsHeldOrUnfinished ==
    \A u \in Requests :
        (req[u].kind = "stop" /\ req[u].pc \in {"queued", "release", "run"}) =>
            \A g \in req[u].hit : HeldOrUnfinished(row[g])

\* The interlock of a stop makes it; PauseGroup and recovery keep it.
LEMMA StoreHolds ==
  ASSUME NEW r \in GroupRow
  PROVE  /\ HeldOrUnfinished(InterlockedGroup(r, TRUE))
         /\ HeldOrUnfinished(r) => /\ \A read : HeldOrUnfinished(PausedGroup(r, read))
                                   /\ HeldOrUnfinished(RecoveredGroup(r))
<1>1. HeldOrUnfinished(InterlockedGroup(r, TRUE))
  BY DEF HeldOrUnfinished, InterlockedGroup, GroupRow
<1>2. ASSUME HeldOrUnfinished(r), NEW read
      PROVE  HeldOrUnfinished(PausedGroup(r, read))
  BY <1>2 DEF HeldOrUnfinished, PausedGroup, GroupRow
<1>3. ASSUME HeldOrUnfinished(r)
      PROVE  HeldOrUnfinished(RecoveredGroup(r))
  BY <1>3 DEF HeldOrUnfinished, RecoveredGroup, GroupRow
<1>4. QED
  BY <1>1, <1>2, <1>3

\* A request writes the rows of its own groups only.
LEMMA ServeOwnRows ==
  ASSUME TypeOK, NEW u \in Requests, Serve(u), NEW g \in Groups, g \notin req[u].hit
  PROVE  row'[g] = row[g]
<1>1. row \in [Groups -> GroupRow]
  BY DEF TypeOK
<1>2. CASE Commit(u)
  BY <1>1, <1>2 DEF Commit
<1>3. CASE CommitInactive(u)
  BY <1>1, <1>3 DEF CommitInactive
<1>4. CASE AdmitAction(u) \/ FinishAction(u)
  BY <1>1, <1>4 DEF AdmitAction, FinishAction
<1>5. QED
  BY <1>2, <1>3, <1>4 DEF Serve, Snapshot, PolicyFails, SuspendGroup, Leave,
     ActionFails, RunAction, ReleaseHolds

\* A stop is admitted together with its interlock, and moves on without writing rows.
LEMMA ServeHolds ==
  ASSUME Inv, StopIsHeldOrUnfinished, NEW u \in Requests, Serve(u),
         req'[u].kind = "stop", req'[u].pc \in {"queued", "release", "run"}, NEW g \in req'[u].hit
  PROVE  HeldOrUnfinished(row'[g])
<1>1. /\ TypeOK /\ row \in [Groups -> GroupRow] /\ req[u] \in Request
      /\ req \in [Requests -> Request] /\ RequestInv
  BY DEF Inv, TypeOK
<1>2. req[u].kind = "stop" /\ req'[u].hit = req[u].hit
  BY <1>1, ServeFrame DEF NoRequest
<1>3. g \in req[u].hit /\ g \in Groups /\ row[g] \in GroupRow
  BY <1>1, <1>2, RequestIsAlone
<1>4. CASE AdmitAction(u)
  <2>1. row'[g] = InterlockedGroup(row[g], TRUE)
    BY <1>1, <1>2, <1>3, <1>4 DEF AdmitAction, InterlockKinds
  <2>2. QED
    BY <1>3, <2>1, StoreHolds
<1>5. CASE RunAction(u) \/ ReleaseHolds(u)
  BY <1>2, <1>3, <1>5 DEF RunAction, ReleaseHolds, StopIsHeldOrUnfinished
<1>6. CASE Snapshot(u)
  BY <1>2, <1>6 DEF Snapshot
<1>7. CASE Commit(u) \/ CommitInactive(u) \/ PolicyFails(u) \/ SuspendGroup(u)
           \/ ActionFails(u) \/ FinishAction(u)
  <2>1. req'[u].pc \in {"leave", "suspend"}
    BY <1>1, <1>7 DEF Commit, CommitInactive, PolicyFails, SuspendGroup, ActionFails, FinishAction, Request
  <2>2. QED
    BY <2>1
<1>8. CASE Leave(u)
  BY <1>1, <1>8 DEF Leave, NoRequest
<1>9. QED
  BY <1>4, <1>5, <1>6, <1>7, <1>8 DEF Serve

\* Every step keeps it: a worker without the stack lock can only pause a row, and no
\* other request touches the group.
LEMMA HoldStep ==
  ASSUME Inv, StopIsHeldOrUnfinished, [Next]_vars
  PROVE  StopIsHeldOrUnfinished'
<1>1. /\ TypeOK /\ row \in [Groups -> GroupRow] /\ req \in [Requests -> Request]
      /\ \A v \in Requests : req[v].hit \subseteq Groups
  BY DEF Inv, TypeOK, Request
<1>2. CASE row' = row /\ req' = req
  BY <1>2 DEF StopIsHeldOrUnfinished
<1>3. ASSUME NEW g \in Groups, WorkerStep(g)
      PROVE  StopIsHeldOrUnfinished'
  <2>1. ASSUME NEW u \in Requests, NEW h \in req[u].hit, HeldOrUnfinished(row[h])
        PROVE  HeldOrUnfinished(row'[h])
    <3>1. h \in Groups /\ wk[h].pc \notin CriticalPcs /\ row[h] \in GroupRow
      BY <1>1, RequestIsAlone
    <3>2. CASE h = g
      BY <1>1, <1>3, <2>1, <3>1, <3>2, UnlockedRow, StoreHolds
    <3>3. CASE h # g
      BY <1>1, <1>3, <2>1, <3>1, <3>3, WorkerFrame
    <3>4. QED
      BY <3>2, <3>3
  <2>2. req' = req
    BY <1>1, <1>3, WorkerFrame
  <2>3. QED
    BY <2>1, <2>2 DEF StopIsHeldOrUnfinished
<1>4. ASSUME NEW u \in Requests, Serve(u)
      PROVE  StopIsHeldOrUnfinished'
  <2>1. ASSUME NEW v \in Requests \ {u}
        PROVE  req'[v] = req[v] /\ \A g \in req[v].hit : row'[g] = row[g]
    BY <1>1, <1>4, ServeFrame, ServeOwnRows, RequestIsAlone
  <2>2. (req'[u].kind = "stop" /\ req'[u].pc \in {"queued", "release", "run"}) =>
           \A g \in req'[u].hit : HeldOrUnfinished(row'[g])
    BY <1>4, ServeHolds
  <2>3. QED
    BY <2>1, <2>2 DEF StopIsHeldOrUnfinished
<1>5. ASSUME NEW u \in Requests, Arrive(u)
      PROVE  StopIsHeldOrUnfinished'
  BY <1>1, <1>5, ArriveFrame DEF StopIsHeldOrUnfinished
<1>6. CASE Recover
  <2>1. req' = req /\ \A g \in Groups : row'[g] \in {row[g], RecoveredGroup(row[g])}
    BY <1>1, <1>6 DEF Recover
  <2>2. \A g \in Groups : HeldOrUnfinished(row[g]) => HeldOrUnfinished(row'[g])
    BY <1>1, <2>1, StoreHolds
  <2>3. QED
    BY <1>1, <2>1, <2>2 DEF StopIsHeldOrUnfinished
<1>7. CASE Crash
  BY <1>7 DEF Crash, StopIsHeldOrUnfinished, NoRequest
<1>8. CASE (Manage /\ ~Recover) \/ (Environment /\ ~Crash) \/ UNCHANGED vars
           \/ \E u \in Requests, g \in Groups : Mutate(u, g)
  BY <1>2, <1>8 DEF Manage, Environment, Drain, Drained, Spawn, Remove, Attempt, Traffic, Outside,
     Mutate, vars
<1>9. QED
  BY <1>3, <1>4, <1>5, <1>6, <1>7, <1>8 DEF Next

\* A stop that was accepted has left a hold in every group it touches, except where a
\* transition was never completed.  So rows with an operation id of their own are the
\* only ones that interlockOnDemand passes by, and nobody takes the hold back while the
\* stop runs (docs/on-demand.md:110), for every number of groups and requests.
THEOREM StopsAreHeld == Spec => []StopIsHeldOrUnfinished
<1>1. Init => StopIsHeldOrUnfinished
  BY DEF Init, StopIsHeldOrUnfinished, NoRequest
<1>2. Inv /\ StopIsHeldOrUnfinished /\ [Next]_vars => StopIsHeldOrUnfinished'
  BY HoldStep
<1>3. QED
  BY <1>1, <1>2, InvHolds, PTL DEF Spec

=============================================================================

------------------------------ MODULE OnDemand ------------------------------
(***************************************************************************)
(* On-demand container groups: one worker per group (ondemand.Controller)  *)
(* that puts the group's containers to sleep and wakes them, running       *)
(* against the policy requests and the manual stack actions of the same    *)
(* process (control.OnDemandService, control.ControlPlane), against Docker *)
(* and against the death of the process.                                   *)
(*                                                                         *)
(* Database rows and containers survive a crash; workers, requests, the    *)
(* coordinator and the reserved ports do not.                              *)
(***************************************************************************)
EXTENDS Naturals, FiniteSets, Coordinator, OnDemandStore

CONSTANTS
    Groups,          \* group ids
    Stacks,
    StackOf,         \* the stack that owns a group
    Requests,        \* request goroutines of the HTTP API and the scheduler
    Kinds,           \* the request kinds that this instance exercises
    Repository,      \* the scope of a repository action
    None,
    External,        \* whether containers change behind Porty's back
    MemberCount,     \* members of a group, numbered in dependency order
    MaxProbes,       \* capacity of Controller.probes
    MaxTransitions,  \* capacity of Controller.transitions
    MaxRev,          \* bound: requests stop changing a row at this revision
    MaxGen,          \* bound: containers are replaced this often
    MaxCrashes       \* bound: the process dies this often

PolicyKinds == {"create", "save", "disable", "hold", "resume", "delete"}
InterlockKinds == {"start", "stop", "restart", "deploy"}
\* "pull" stands for every manual action that is not interlocked; "update" for
\* the apply job of an automatic update; "remove" for DeleteStack.
StackKinds == InterlockKinds \cup {"pull", "update", "remove"}
AllKinds == PolicyKinds \cup StackKinds \cup {"repository"}

ASSUME ConstantsOK ==
    /\ StackOf \in [Groups -> Stacks]
    /\ Groups \cap Requests = {}
    /\ Repository # None /\ {Repository, None} \cap Stacks = {}
    /\ Kinds \subseteq AllKinds
    /\ External \in BOOLEAN
    /\ MemberCount \in Nat \ {0}
    /\ {MaxProbes, MaxTransitions} \subseteq Nat \ {0}
    /\ {MaxRev, MaxGen, MaxCrashes} \subseteq Nat

VARIABLES
    row,      \* row[g]: the group's database row
    wk,       \* wk[g]: the group's worker: Controller.workers[g] and its goroutine
    req,      \* req[u]: the request that goroutine u serves
    coord,    \* the operation coordinator
    ctl,      \* the controller: "boot", "running", "draining", "stopped"
    up,       \* up[g]: the members whose container runs
    gen,      \* gen[g]: identity of the group's containers
    crashes

vars == <<row, wk, req, coord, ctl, up, gen, crashes>>
runtime == <<up, gen>>

Members == 1..MemberCount
GroupsOf(s) == {g \in Groups : StackOf[g] = s}

-----------------------------------------------------------------------------
(* Control points.                                                         *)

\* From Try to the release that execute defers: the stack is this worker's.
CriticalPcs == {"fresh", "verify", "admit", "queued", "begin", "ports", "start",
                "stop", "rearm", "abort", "complete"}
WorkerPcs == {"none", "idle", "apply", "probe", "observe", "reserve", "decide",
              "exec", "waitErr"} \cup CriticalPcs

\* mapped: the worker is in Controller.workers; rev, suspended, listener: the
\* fields of groupWorker that its mutex guards ("pending": the listener has
\* latched a wake).  The rest is local to runGroup and to the job it waits
\* for: read is the row GetGroup returned, seen the phase sampled, quiet that
\* no counter or start time has changed since, step the members handled.
Worker == [pc : WorkerPcs, mapped : BOOLEAN, rev : Nat, suspended : BOOLEAN,
           listener : {"closed", "open", "pending"}, read : GroupRow,
           seen : {"none", "running", "sleeping"}, quiet : BOOLEAN,
           action : Actions \cup {"none"}, step : 0..MemberCount,
           outcome : {"none", "running", "sleeping", "unknown"}]

NoWorker == [pc |-> "none", mapped |-> FALSE, rev |-> 0, suspended |-> FALSE,
             listener |-> "closed", read |-> NoRow, seen |-> "none",
             quiet |-> FALSE, action |-> "none", step |-> 0, outcome |-> "none"]

Request == [pc : {"idle", "held", "commit", "suspend", "queued", "release", "run", "leave"},
            kind : AllKinds \cup {"none"}, hit : SUBSET Groups,
            scope : Stacks \cup {Repository, None}, rev : Nat, phase : Phases,
            evid : Nat]

NoRequest == [pc |-> "idle", kind |-> "none", hit |-> {}, scope |-> None,
              rev |-> 0, phase |-> "unknown", evid |-> 0]

Init ==
    /\ row = [g \in Groups |-> NoRow]
    /\ wk = [g \in Groups |-> NoWorker]
    /\ req = [u \in Requests |-> NoRequest]
    /\ coord = FreeCoordinator
    /\ ctl = "boot"
    /\ up = [g \in Groups |-> Members]
    /\ gen = [g \in Groups |-> 0]
    /\ crashes = 0

-----------------------------------------------------------------------------
(* Helpers.                                                                *)

\* demandPhase of a snapshot; a mixed group has no snapshot.
Uniform(g) == up[g] \in {{}, Members}
PhaseOf(g) == IF up[g] = Members THEN "running" ELSE "sleeping"

\* closeListener
Closed(w) == [w EXCEPT !.listener = "closed"]

\* The worker goes back to the top of its loop and forgets its locals.
Idle(w) == [w EXCEPT !.pc = "idle", !.read = NoRow, !.seen = "none", !.quiet = FALSE,
                     !.action = "none", !.step = 0, !.outcome = "none"]

\* The condition of Controller.Release and Controller.Reserve.
OwnsPorts(w) == w.mapped /\ w.rev = w.read.rev /\ ~w.suspended

\* Mutant: Release reports success and leaves the listener open.
PortsKept(w) == w

\* Controller.Release: an ErrConflict leaves the listener alone.
PortsReleased(w) == IF OwnsPorts(w) THEN Closed(w) ELSE w

\* SuspendGroup, of a worker that is in the map.
Suspended(w) == IF w.mapped THEN [Closed(w) EXCEPT !.suspended = TRUE] ELSE w

\* The worker's context is done: its group is gone or the controller stops.
Cancelled(g) == ~wk[g].mapped \/ ctl # "running"

TakeStack(g) == coord' = Granted(coord, FALSE, {StackOf[g]})
DropStack(g) == coord' = Released(coord, FALSE, {StackOf[g]})

-----------------------------------------------------------------------------
(* Controller.Run and the loop in app.startOnDemand around it.             *)

\* OnDemandService.Run: RecoverInterrupted, then Controller.Run.
Recover ==
    /\ ctl = "boot"
    /\ \/ ctl' = "running" /\ row' = [g \in Groups |-> RecoveredGroup(row[g])]
       \/ ctl' = "stopped" /\ UNCHANGED row
    /\ UNCHANGED <<wk, req, coord, runtime, crashes>>

\* ListGroups shows a group that has no worker.
Spawn(g) ==
    /\ ctl = "running"
    /\ row[g].state = "present"
    /\ wk[g].pc = "none" /\ ~wk[g].mapped
    /\ wk' = [wk EXCEPT ![g] = [NoWorker EXCEPT !.pc = "idle", !.mapped = TRUE,
                                                !.rev = row[g].rev]]
    /\ UNCHANGED <<row, req, coord, ctl, runtime, crashes>>

\* ListGroups no longer shows the group: cancel and forget the worker.
Remove(g) ==
    /\ ctl = "running"
    /\ wk[g].mapped
    /\ row[g].state = "deleted"
    /\ wk' = [wk EXCEPT ![g].mapped = FALSE]
    /\ UNCHANGED <<row, req, coord, ctl, runtime, crashes>>

\* Run returns (ListGroups failed, or Shutdown): every worker is cancelled and
\* awaited, then the map is cleared.
Drain ==
    /\ ctl = "running"
    /\ ctl' = "draining"
    /\ UNCHANGED <<row, wk, req, coord, runtime, crashes>>

Drained ==
    /\ ctl = "draining"
    /\ \A g \in Groups : wk[g].pc = "none"
    /\ ctl' = "stopped"
    /\ wk' = [g \in Groups |-> NoWorker]
    /\ UNCHANGED <<row, req, coord, runtime, crashes>>

-----------------------------------------------------------------------------
(* runGroup: one iteration of a worker's loop, up to the decision.         *)

\* The deferred close when the loop ends.
Exit(g) ==
    /\ wk[g].pc = "idle"
    /\ Cancelled(g)
    /\ wk' = [wk EXCEPT ![g] = [Closed(@) EXCEPT !.pc = "none"]]
    /\ UNCHANGED <<row, req, coord, ctl, runtime, crashes>>

\* GetGroup.  The row is used one or more steps later.
Read(g) ==
    /\ wk[g].pc = "idle"
    /\ ~Cancelled(g)
    /\ row[g].state = "present"
    /\ wk' = [wk EXCEPT ![g].pc = "apply", ![g].read = row[g]]
    /\ UNCHANGED <<row, req, coord, ctl, runtime, crashes>>

\* GetGroup fails or finds no row.
ReadFails(g) ==
    /\ wk[g].pc = "idle"
    /\ ~Cancelled(g)
    /\ wk' = [wk EXCEPT ![g] = Closed(@)]
    /\ UNCHANGED <<row, req, coord, ctl, runtime, crashes>>

\* Under the worker's mutex.  A new revision forgets the suspension and closes
\* the listener; only an active policy goes on to observe.
StillSuspended(w) == w.suspended /\ w.read.rev = w.rev

Active(w) == Armed(w.read) /\ ~StillSuspended(w) /\ w.read.phase \in {"sleeping", "running"}

\* Mutant: an inactive policy keeps its listener.
AppliedStaysOpen(w) == [w EXCEPT !.rev = w.read.rev, !.suspended = StillSuspended(w)]

Applied(w) == [w EXCEPT !.rev = w.read.rev, !.suspended = StillSuspended(w),
                        !.listener = IF Active(w) /\ w.read.rev = w.rev THEN @ ELSE "closed"]

Apply(g) ==
    LET w == wk[g]
    IN  /\ w.pc = "apply"
        /\ wk' = [wk EXCEPT ![g] = IF Active(w) THEN [Applied(w) EXCEPT !.pc = "probe"]
                                               ELSE Idle(Applied(w))]
        /\ UNCHANGED <<row, req, coord, ctl, runtime, crashes>>

Probing == {g \in Groups : wk[g].pc = "observe"}

\* A slot of the probes channel, or the observation deadline.
Probe(g) ==
    /\ wk[g].pc = "probe"
    /\ IF Cardinality(Probing) < MaxProbes
       THEN wk' = [wk EXCEPT ![g].pc = "observe"]
       ELSE wk' = [wk EXCEPT ![g] = Idle(@)]
    /\ UNCHANGED <<row, req, coord, ctl, runtime, crashes>>

\* ObserveOnDemand returns a sample of the containers the evidence names.
Observe(g) ==
    /\ wk[g].pc = "observe"
    /\ Uniform(g)
    /\ gen[g] = wk[g].read.evid
    /\ wk' = [wk EXCEPT ![g].seen = PhaseOf(g), ![g].quiet = TRUE,
                        ![g].pc = IF wk[g].read.phase = "sleeping" THEN "reserve" ELSE "decide"]
    /\ UNCHANGED <<row, req, coord, ctl, runtime, crashes>>

\* ObserveOnDemand finds other containers than the evidence names.
ObserveChanged(g) ==
    /\ wk[g].pc = "observe"
    /\ Uniform(g)
    /\ gen[g] # wk[g].read.evid
    /\ row' \in {row, [row EXCEPT ![g] = PausedGroup(@, wk[g].read)]}
    /\ wk' = [wk EXCEPT ![g] = Idle(Closed(@))]
    /\ UNCHANGED <<req, coord, ctl, runtime, crashes>>

\* Docker, the host check or the deployment baseline fails, or the group is mixed.
ObserveFails(g) ==
    /\ wk[g].pc = "observe"
    /\ wk' = [wk EXCEPT ![g] = Idle(Closed(@))]
    /\ UNCHANGED <<row, req, coord, ctl, runtime, crashes>>

\* Reserve for a sleeping group: keep the listener or open one on the free ports.
Reserve(g) ==
    LET w == wk[g]
    IN  /\ w.pc = "reserve"
        /\ OwnsPorts(w)
        /\ w.listener # "closed" \/ up[g] = {}
        /\ wk' = [wk EXCEPT ![g].pc = "decide",
                            ![g].listener = IF @ = "closed" THEN "open" ELSE @]
        /\ UNCHANGED <<row, req, coord, ctl, runtime, crashes>>

\* Reserve fails (suspended, or a port is taken): the group is paused, and
\* Evaluate has nothing pending to act on; it pauses running containers again.
ReserveFails(g) ==
    LET w == wk[g]
    IN  /\ w.pc = "reserve"
        /\ ~OwnsPorts(w) \/ w.listener = "closed"
        /\ row' \in {row, [row EXCEPT ![g] = PausedGroup(@, w.read)]}
        /\ \E kept \in {w} \cup (IF w.seen = "running" THEN {Closed(w)} ELSE {}) :
              wk' = [wk EXCEPT ![g] = Idle(kept)]
        /\ UNCHANGED <<req, coord, ctl, runtime, crashes>>

\* The listener reports a failed socket when it is read.
SnapshotFails(g) ==
    /\ wk[g].pc = "decide"
    /\ wk[g].listener # "closed"
    /\ wk' = [wk EXCEPT ![g] = Idle(Closed(@))]
    /\ UNCHANGED <<row, req, coord, ctl, runtime, crashes>>

\* Evaluate decides to wake a sleeping group that has a pending wake, or to put
\* a running group to sleep; a transition slot is taken or the turn is lost.
DecideAction(g) ==
    LET w == wk[g]
        busy == {h \in Groups : wk[h].pc \in CriticalPcs \cup {"exec", "waitErr"}}
    IN  /\ w.pc = "decide"
        /\ w.seen = w.read.phase
        /\ w.seen = "sleeping" => w.listener = "pending"
        /\ wk' = [wk EXCEPT ![g] =
                    IF Cardinality(busy) < MaxTransitions
                    THEN [@ EXCEPT !.pc = "exec",
                                   !.action = IF w.seen = "sleeping" THEN "wake" ELSE "sleep"]
                    ELSE Idle(@)]
        /\ UNCHANGED <<row, req, coord, ctl, runtime, crashes>>

\* Evaluate finds containers that changed outside an owned transition.
DecidePause(g) ==
    LET w == wk[g]
    IN  /\ w.pc = "decide"
        /\ w.seen # w.read.phase \/ w.seen = "running"
        /\ row' \in {row, [row EXCEPT ![g] = PausedGroup(@, w.read)]}
        /\ wk' = [wk EXCEPT ![g] = Idle(Closed(@))]
        /\ UNCHANGED <<req, coord, ctl, runtime, crashes>>

\* Evaluate has nothing to do: no wake pending, not idle for long enough, or the
\* sample is stale.
DecideNothing(g) ==
    /\ wk[g].pc = "decide"
    /\ wk' = [wk EXCEPT ![g] = Idle(@)]
    /\ UNCHANGED <<row, req, coord, ctl, runtime, crashes>>

-----------------------------------------------------------------------------
(* ExecuteOnDemand: admission under the stack lock.                        *)

TryStack(g) ==
    /\ wk[g].pc = "exec"
    /\ ~Cancelled(g)
    /\ Try(coord, FALSE, {StackOf[g]})
    /\ TakeStack(g)
    /\ wk' = [wk EXCEPT ![g].pc = "fresh"]
    /\ UNCHANGED <<row, req, ctl, runtime, crashes>>

TryFails(g) ==
    /\ wk[g].pc = "exec"
    /\ Cancelled(g) \/ ~Try(coord, FALSE, {StackOf[g]})
    /\ wk' = [wk EXCEPT ![g] = Idle(@)]
    /\ UNCHANGED <<row, req, coord, ctl, runtime, crashes>>

\* The durable policy is what the decision was made from.
Fresh(g) ==
    /\ wk[g].pc = "fresh"
    /\ Armed(row[g])
    /\ row[g].rev = wk[g].read.rev
    /\ row[g].phase = wk[g].read.phase
    /\ wk' = [wk EXCEPT ![g].pc = "verify"]
    /\ UNCHANGED <<row, req, coord, ctl, runtime, crashes>>

\* The containers are those of the evidence, in the state to leave, and for a
\* sleep silent since the sample.
Verify(g) ==
    LET w == wk[g]
    IN  /\ w.pc = "verify"
        /\ gen[g] = w.read.evid
        /\ w.read.phase = From(w.action)
        /\ up[g] = IF w.action = "wake" THEN {} ELSE Members
        /\ w.action = "sleep" => w.quiet
        /\ wk' = [wk EXCEPT ![g].pc = "admit"]
        /\ UNCHANGED <<row, req, coord, ctl, runtime, crashes>>

\* CreateOperation; the stack lock now belongs to the job.
Admit(g) ==
    /\ wk[g].pc = "admit"
    /\ wk' = [wk EXCEPT ![g].pc = "queued"]
    /\ UNCHANGED <<row, req, coord, ctl, runtime, crashes>>

\* Any error on the way returns the lock.  The second observation of a sleep
\* pauses the group when it finds other containers.
Refuse(g) ==
    LET w == wk[g]
    IN  /\ w.pc \in {"fresh", "verify", "admit"}
        /\ \/ UNCHANGED row
           \/ /\ w.pc = "verify" /\ w.action = "sleep" /\ gen[g] # w.read.evid
              /\ row' = [row EXCEPT ![g] = PausedGroup(@, w.read)]
        /\ wk' = [wk EXCEPT ![g] = Idle(@)]
        /\ DropStack(g)
        /\ UNCHANGED <<req, ctl, runtime, crashes>>

-----------------------------------------------------------------------------
(* The job of ExecuteOnDemand, run by OperationService.execute.            *)

\* UpdateOperation saves the running status.
RunJob(g) ==
    /\ wk[g].pc = "queued"
    /\ wk' = [wk EXCEPT ![g].pc = "begin"]
    /\ UNCHANGED <<row, req, coord, ctl, runtime, crashes>>

\* Mutant: the early return of execute forgets the release.
RunJobFailsLocked(g) ==
    /\ wk[g].pc = "queued"
    /\ wk' = [wk EXCEPT ![g].pc = "waitErr"]
    /\ UNCHANGED <<row, req, coord, ctl, runtime, crashes>>

\* It cannot be saved: the job ends without running.
RunJobFails(g) ==
    /\ wk[g].pc = "queued"
    /\ wk' = [wk EXCEPT ![g].pc = "waitErr"]
    /\ DropStack(g)
    /\ UNCHANGED <<row, req, ctl, runtime, crashes>>

\* The durable intent, before any container is touched.
BeginTransition(g) ==
    LET w == wk[g]
    IN  /\ w.pc = "begin"
        /\ MayBegin(row[g], w.read, w.action)
        /\ row' = [row EXCEPT ![g] = BegunGroup(@, w.action)]
        /\ wk' = [wk EXCEPT ![g].pc = IF w.action = "wake" THEN "ports" ELSE "stop"]
        /\ UNCHANGED <<req, coord, ctl, runtime, crashes>>

\* A conflict, a database error or a cancelled context: no completion is reported.
BeginFails(g) ==
    /\ wk[g].pc = "begin"
    /\ wk' = [wk EXCEPT ![g].pc = "complete"]
    /\ UNCHANGED <<row, req, coord, ctl, runtime, crashes>>

\* A wake frees the published ports first.
ReleasePorts(g) ==
    /\ wk[g].pc = "ports"
    /\ wk' = [wk EXCEPT ![g] = [PortsReleased(@) EXCEPT
                !.pc = IF OwnsPorts(wk[g]) THEN "start" ELSE "abort"]]
    /\ UNCHANGED <<row, req, coord, ctl, runtime, crashes>>

\* StartOnDemand: the next member in dependency order, until it is ready.  A
\* container whose ports are taken does not start.
StartMember(g) ==
    LET w == wk[g]
        m == w.step + 1
    IN  /\ w.pc = "start"
        /\ m \in Members
        /\ m \notin up[g]
        /\ w.listener = "closed"
        /\ up' = [up EXCEPT ![g] = @ \cup {m}]
        /\ wk' = [wk EXCEPT ![g].step = m, ![g].quiet = FALSE]
        /\ UNCHANGED <<row, req, coord, ctl, gen, crashes>>

Started(g) ==
    /\ wk[g].pc = "start"
    /\ wk[g].step = MemberCount
    /\ wk' = [wk EXCEPT ![g].pc = "complete", ![g].outcome = "running"]
    /\ UNCHANGED <<row, req, coord, ctl, runtime, crashes>>

\* A member does not start, starts without becoming ready, or the job is cancelled.
StartFails(g) ==
    /\ wk[g].pc = "start"
    /\ up' \in {up} \cup {[up EXCEPT ![g] = @ \cup {m}] :
                             m \in {wk[g].step + 1} \cap Members}
    /\ wk' = [wk EXCEPT ![g].pc = "abort", ![g].quiet = FALSE]
    /\ UNCHANGED <<row, req, coord, ctl, gen, crashes>>

\* StopOnDemand: the same in reverse order.
StopMember(g) ==
    LET w == wk[g]
        m == MemberCount - w.step
    IN  /\ w.pc = "stop"
        /\ m \in Members
        /\ up' = [up EXCEPT ![g] = @ \ {m}]
        /\ wk' = [wk EXCEPT ![g].step = @ + 1, ![g].quiet = FALSE]
        /\ UNCHANGED <<row, req, coord, ctl, gen, crashes>>

Stopped(g) ==
    /\ wk[g].pc = "stop"
    /\ wk[g].step = MemberCount
    /\ wk' = [wk EXCEPT ![g].pc = "rearm"]
    /\ UNCHANGED <<row, req, coord, ctl, runtime, crashes>>

StopFails(g) ==
    /\ wk[g].pc = "stop"
    /\ up' \in {up} \cup {[up EXCEPT ![g] = @ \ {m}] :
                             m \in {MemberCount - wk[g].step} \cap Members}
    /\ wk' = [wk EXCEPT ![g].pc = "abort", ![g].quiet = FALSE]
    /\ UNCHANGED <<row, req, coord, ctl, gen, crashes>>

\* A sleep reserves the ports the containers gave up.
Rearm(g) ==
    LET w == wk[g]
    IN  /\ w.pc = "rearm"
        /\ \/ /\ OwnsPorts(w)
              /\ w.listener # "closed" \/ up[g] = {}
              /\ wk' = [wk EXCEPT ![g].pc = "complete", ![g].outcome = "sleeping",
                                  ![g].listener = IF @ = "closed" THEN "open" ELSE @]
           \/ wk' = [wk EXCEPT ![g].pc = "abort"]
        /\ UNCHANGED <<row, req, coord, ctl, runtime, crashes>>

\* mutationErr # nil: ports are released, the phase is unknown and paused.
Abort(g) ==
    /\ wk[g].pc = "abort"
    /\ wk' = [wk EXCEPT ![g] = [PortsReleased(@) EXCEPT
                !.pc = "complete", !.outcome = "unknown"]]
    /\ UNCHANGED <<row, req, coord, ctl, runtime, crashes>>

\* CompleteOperation, then the deferred release; Wait returns.
Complete(g) ==
    LET w == wk[g]
    IN  /\ w.pc = "complete"
        /\ IF w.outcome = "none"
           THEN UNCHANGED row
           ELSE /\ MayComplete(row[g], w.action)
                /\ row' = [row EXCEPT ![g] = CompletedGroup(@, w.outcome)]
        /\ wk' = [wk EXCEPT ![g] = Idle(@)]
        /\ DropStack(g)
        /\ UNCHANGED <<req, ctl, runtime, crashes>>

\* The transaction fails: the row keeps the operation, Wait reports the error.
CompleteFails(g) ==
    /\ wk[g].pc = "complete"
    /\ wk' = [wk EXCEPT ![g].pc = "waitErr"]
    /\ DropStack(g)
    /\ UNCHANGED <<row, req, ctl, runtime, crashes>>

WaitErr(g) ==
    /\ wk[g].pc = "waitErr"
    /\ wk' = [wk EXCEPT ![g] = Idle(PortsReleased(@))]
    /\ UNCHANGED <<row, req, coord, ctl, runtime, crashes>>

-----------------------------------------------------------------------------
(* Policy requests of OnDemandService.                                     *)

\* Every request begins with Try; one that conflicts has no effect.
BeginPolicy(u, k, g) ==
    /\ req[u].pc = "idle"
    /\ Try(coord, FALSE, {StackOf[g]})
    /\ req' = [req EXCEPT ![u] = [NoRequest EXCEPT !.pc = "held", !.kind = k,
                                    !.hit = {g}, !.scope = StackOf[g]]]
    /\ TakeStack(g)
    /\ UNCHANGED <<row, wk, ctl, runtime, crashes>>

\* SaveGroup and ResumeGroup read the row and inspect the containers first.  A
\* stopped group must still be the one of the evidence; a new one must run.
Snapshot(u) ==
    \E g \in req[u].hit :
        /\ req[u].pc = "held"
        /\ req[u].kind \in {"create", "save", "resume"}
        /\ Uniform(g)
        /\ IF req[u].kind = "create"
           THEN row[g].state = "absent" /\ up[g] = Members
           ELSE row[g].state = "present" /\ (up[g] = {} => row[g].evid = gen[g])
        /\ req' = [req EXCEPT ![u].pc = "commit", ![u].rev = row[g].rev,
                              ![u].phase = PhaseOf(g), ![u].evid = gen[g]]
        /\ UNCHANGED <<row, wk, coord, ctl, runtime, crashes>>

\* The statement of the store, guarded by the revision; then Notify.
Commit(u) ==
    LET r == req[u]
    IN  \E g \in r.hit :
          /\ r.pc = "commit"
          /\ r.kind # "create" => Writable(row[g], r.rev) /\ r.rev < MaxRev
          /\ \E enabled \in BOOLEAN :
               row' = [row EXCEPT ![g] = CASE r.kind = "create" -> InsertedGroup(enabled, r.evid)
                                           [] r.kind = "save"   -> SavedGroup(@, enabled, r.evid)
                                           [] OTHER -> ResumedGroup(@, r.phase, r.evid)]
          /\ req' = [req EXCEPT ![u].pc = "leave"]
          /\ UNCHANGED <<wk, coord, ctl, runtime, crashes>>

\* Disabling, holding and deleting need no container.
CommitInactive(u) ==
    LET r == req[u]
    IN  \E g \in r.hit :
          /\ r.pc = "held"
          /\ r.kind \in {"disable", "hold", "delete"}
          /\ Writable(row[g], row[g].rev) /\ row[g].rev < MaxRev
          /\ row' = [row EXCEPT ![g] = CASE r.kind = "disable" -> SavedGroup(@, FALSE, @.evid)
                                         [] r.kind = "hold"    -> HeldGroup(@)
                                         [] OTHER              -> DeletedRow]
          /\ req' = [req EXCEPT ![u].pc = "suspend"]
          /\ UNCHANGED <<wk, coord, ctl, runtime, crashes>>

\* The client's revision is stale, Docker is unavailable, the store refuses.
PolicyFails(u) ==
    /\ req[u].pc \in {"held", "commit"}
    /\ req[u].kind \in PolicyKinds
    /\ req' = [req EXCEPT ![u].pc = "leave"]
    /\ UNCHANGED <<row, wk, coord, ctl, runtime, crashes>>

SuspendGroup(u) ==
    /\ req[u].pc = "suspend"
    /\ wk' = [g \in Groups |-> IF g \in req[u].hit THEN Suspended(wk[g]) ELSE wk[g]]
    /\ req' = [req EXCEPT ![u].pc = "leave"]
    /\ UNCHANGED <<row, coord, ctl, runtime, crashes>>

\* The release closure: deferred by the request, or by execute.
Leave(u) ==
    /\ req[u].pc = "leave"
    /\ req' = [req EXCEPT ![u] = NoRequest]
    /\ coord' = Released(coord, req[u].scope = Repository, {req[u].scope} \cap Stacks)
    /\ UNCHANGED <<row, wk, ctl, runtime, crashes>>

-----------------------------------------------------------------------------
(* Stack actions: manual ones (StartAction, StartContainerAction and the   *)
(* batch form, startDeployment), the apply job of an automatic update, and *)
(* DeleteStack.  hit is the set of groups whose containers it touches.     *)

BeginAction(u, k, s, hit) ==
    /\ req[u].pc = "idle"
    /\ hit \subseteq GroupsOf(s)
    /\ k \in {"pull", "update", "remove"} => hit = GroupsOf(s)
    /\ Try(coord, FALSE, {s})
    /\ req' = [req EXCEPT ![u] = [NoRequest EXCEPT !.pc = "held", !.kind = k,
                                                   !.hit = hit, !.scope = s]]
    /\ coord' = Granted(coord, FALSE, {s})
    /\ UNCHANGED <<row, wk, ctl, runtime, crashes>>

BeginRepository(u) ==
    /\ req[u].pc = "idle"
    /\ Try(coord, TRUE, {})
    /\ req' = [req EXCEPT ![u] = [NoRequest EXCEPT !.pc = "leave", !.kind = "repository",
                                                   !.scope = Repository]]
    /\ coord' = Granted(coord, TRUE, {})
    /\ UNCHANGED <<row, wk, ctl, runtime, crashes>>

\* CreateOperation with its interlock.  DeleteStack has no operation.
AdmitAction(u) ==
    LET r == req[u]
    IN  /\ r.pc = "held"
        /\ r.kind \in StackKinds
        /\ r.kind \in {"stop", "restart"} => \A g \in r.hit : up[g] # {}
        /\ r.kind = "update" => \A g \in r.hit : up[g] = Members
        /\ IF r.kind \in InterlockKinds
           THEN /\ \A g \in r.hit : row[g].rev < MaxRev
                /\ row' = [g \in Groups |-> IF g \in r.hit
                                            THEN InterlockedGroup(row[g], r.kind = "stop")
                                            ELSE row[g]]
           ELSE UNCHANGED row
        /\ req' = [req EXCEPT ![u].pc = IF r.kind = "remove" THEN "run" ELSE "queued"]
        /\ UNCHANGED <<wk, coord, ctl, runtime, crashes>>

\* A precondition, the admission or the running status fails: the lock goes back.
ActionFails(u) ==
    /\ req[u].pc \in {"held", "queued", "release"}
    /\ req[u].kind \in StackKinds
    /\ req' = [req EXCEPT ![u].pc = "leave"]
    /\ UNCHANGED <<row, wk, coord, ctl, runtime, crashes>>

\* UpdateOperation; an automatic update does not look at groups at all.
RunAction(u) ==
    /\ req[u].pc = "queued"
    /\ req' = [req EXCEPT ![u].pc = IF req[u].kind = "update" THEN "run" ELSE "release"]
    /\ UNCHANGED <<row, wk, coord, ctl, runtime, crashes>>

\* releaseOnDemandHolds: free the ports of every group that may not act.
ReleaseHolds(u) ==
    /\ req[u].pc = "release"
    /\ wk' = [g \in Groups |->
                IF StackOf[g] = req[u].scope /\ row[g].state = "present" /\ ~Armed(row[g])
                THEN Suspended(wk[g]) ELSE wk[g]]
    /\ req' = [req EXCEPT ![u].pc = "run"]
    /\ UNCHANGED <<row, coord, ctl, runtime, crashes>>

\* The runtime call changes a container of one group, or replaces them all.
Mutate(u, g) ==
    LET kind == req[u].kind
        started == up'[g] \ up[g]
    IN  /\ req[u].pc = "run"
        /\ g \in req[u].hit
        /\ \E members \in SUBSET Members : up' = [up EXCEPT ![g] = members]
        /\ CASE kind = "start"              -> up[g] \subseteq up'[g] /\ UNCHANGED gen
             [] kind \in {"stop", "remove"} -> up'[g] \subseteq up[g] /\ UNCHANGED gen
             [] kind = "restart"            -> UNCHANGED gen
             [] kind \in {"deploy", "update"} ->
                    gen[g] < MaxGen /\ gen' = [gen EXCEPT ![g] = @ + 1]
             [] OTHER                       -> FALSE
        /\ started # {} => wk[g].listener = "closed"
        /\ wk' = [wk EXCEPT ![g].quiet = FALSE]
        /\ UNCHANGED <<row, req, coord, ctl, crashes>>

\* The action ends, whatever it achieved.  DeleteStack archives the stack, which
\* hides its groups, only after Down has succeeded.
FinishAction(u) ==
    /\ req[u].pc = "run"
    /\ \/ UNCHANGED row
       \/ /\ req[u].kind = "remove"
          /\ \A g \in req[u].hit : up[g] = {}
          /\ row' = [g \in Groups |-> IF g \in req[u].hit THEN DeletedRow ELSE row[g]]
    /\ req' = [req EXCEPT ![u].pc = "leave"]
    /\ UNCHANGED <<wk, coord, ctl, runtime, crashes>>

-----------------------------------------------------------------------------
(* The environment.                                                        *)

\* A completed connection or datagram reaches a reserved port.
Attempt(g) ==
    /\ wk[g].listener = "open"
    /\ wk' = [wk EXCEPT ![g].listener = "pending"]
    /\ UNCHANGED <<row, req, coord, ctl, runtime, crashes>>

\* A running container sends or receives.
Traffic(g) ==
    /\ up[g] # {}
    /\ wk[g].quiet
    /\ wk' = [wk EXCEPT ![g].quiet = FALSE]
    /\ UNCHANGED <<row, req, coord, ctl, runtime, crashes>>

\* A container exits, or someone starts it past Porty.
Outside(g) ==
    /\ External
    /\ \E m \in Members :
          \/ m \in up[g] /\ up' = [up EXCEPT ![g] = @ \ {m}]
          \/ /\ m \notin up[g] /\ wk[g].listener = "closed"
             /\ up' = [up EXCEPT ![g] = @ \cup {m}]
    /\ wk' = [wk EXCEPT ![g].quiet = FALSE]
    /\ UNCHANGED <<row, req, coord, ctl, gen, crashes>>

\* The process dies and is started again.
Crash ==
    /\ crashes < MaxCrashes
    /\ crashes' = crashes + 1
    /\ wk' = [g \in Groups |-> NoWorker]
    /\ req' = [u \in Requests |-> NoRequest]
    /\ coord' = FreeCoordinator
    /\ ctl' = "boot"
    /\ UNCHANGED <<row, runtime>>

-----------------------------------------------------------------------------

Loop(g) ==
    \/ Exit(g) \/ Read(g) \/ ReadFails(g) \/ Apply(g) \/ Probe(g)
    \/ Observe(g) \/ ObserveChanged(g) \/ ObserveFails(g)
    \/ Reserve(g) \/ ReserveFails(g) \/ SnapshotFails(g)
    \/ DecideAction(g) \/ DecidePause(g) \/ DecideNothing(g)

Execute(g) ==
    \/ TryStack(g) \/ TryFails(g) \/ Fresh(g) \/ Verify(g) \/ Admit(g) \/ Refuse(g)

Job(g) ==
    \/ RunJob(g) \/ RunJobFails(g) \/ BeginTransition(g) \/ BeginFails(g)
    \/ ReleasePorts(g) \/ StartMember(g) \/ Started(g) \/ StartFails(g)
    \/ StopMember(g) \/ Stopped(g) \/ StopFails(g) \/ Rearm(g) \/ Abort(g)
    \/ Complete(g) \/ CompleteFails(g) \/ WaitErr(g)

WorkerStep(g) == Loop(g) \/ Execute(g) \/ Job(g)

\* What a request does once it holds its scope.
Serve(u) ==
    \/ Snapshot(u) \/ Commit(u) \/ CommitInactive(u) \/ PolicyFails(u) \/ SuspendGroup(u)
    \/ Leave(u) \/ AdmitAction(u) \/ ActionFails(u) \/ RunAction(u) \/ ReleaseHolds(u)
    \/ FinishAction(u)

Arrive(u) ==
    \/ \E k \in Kinds \cap PolicyKinds, g \in Groups : BeginPolicy(u, k, g)
    \/ \E k \in Kinds \cap StackKinds, s \in Stacks :
          \E hit \in SUBSET GroupsOf(s) : BeginAction(u, k, s, hit)
    \/ "repository" \in Kinds /\ BeginRepository(u)

Manage == Recover \/ Drain \/ Drained \/ \E g \in Groups : Spawn(g) \/ Remove(g)

Environment ==
    \/ \E g \in Groups : Attempt(g) \/ Traffic(g) \/ Outside(g)
    \/ Crash

Next ==
    \/ \E g \in Groups : WorkerStep(g)
    \/ \E u \in Requests : Serve(u) \/ Arrive(u) \/ \E g \in Groups : Mutate(u, g)
    \/ Manage
    \/ Environment

Spec == Init /\ [][Next]_vars

-----------------------------------------------------------------------------
(* Properties.                                                             *)

\* Type correctness of the database, the workers, the requests and the runtime.
TypeOK ==
    /\ row \in [Groups -> GroupRow]
    /\ wk \in [Groups -> Worker]
    /\ req \in [Requests -> Request]
    /\ coord \in CoordinatorOf(Stacks)
    /\ ctl \in {"boot", "running", "draining", "stopped"}
    /\ up \in [Groups -> SUBSET Members]
    /\ gen \in [Groups -> Nat]
    /\ crashes \in Nat

\* The scope an actor works on: a worker between Try and release, a request
\* for as long as it is served.
owner == [a \in Groups \cup Requests |->
            IF a \in Groups
            THEN IF wk[a].pc \in CriticalPcs THEN StackOf[a] ELSE None
            ELSE req[a].scope]

Excl == INSTANCE Exclusion WITH Actors <- Groups \cup Requests

\* The program as a whole implements mutual exclusion: although every holder
\* releases by a closure that clears the flag without looking who set it
\* (Coordinator.Try), automatic transitions, policy changes, manual actions
\* and repository actions never overlap on a stack.
MutualExclusion == Excl!Spec

\* While an automatic job touches containers, the durable row says so: the
\* policy is enabled, not held, not paused, still at the revision that was
\* decided on, and carries the operation (ExecuteOnDemand re-reads the row
\* under the lock, BeginTransition precedes every container call).  A crash
\* at any such moment is therefore found by RecoverInterrupted.
AutomaticMutationIsOwned ==
    \A g \in Groups :
        wk[g].pc \in {"ports", "start", "stop", "rearm", "abort"} =>
            /\ Armed(row[g])
            /\ row[g].rev = wk[g].read.rev
            /\ row[g].claimed
            /\ row[g].phase = During(wk[g].action)

\* A wake never starts a container against Porty's own listener, and
\* Controller.Release cannot refuse it: no suspension of the worker can be
\* left over once the row is armed and locked.
WakeOwnsPorts ==
    \A g \in Groups :
        /\ wk[g].pc \in {"ports", "rearm"} => OwnsPorts(wk[g])
        /\ wk[g].pc = "start" => wk[g].listener = "closed"

\* What automation trusts is true: an unpaused row that says sleeping or
\* running describes the containers of its evidence, all of them in that
\* state, through partial transitions, failed saves, manual actions and
\* crashes.  (Not with changes made outside Porty, nor by an update or the removal
\* of the stack, which do not look at the groups.)
HealthyPhaseIsTrue ==
    \A g \in Groups :
        (row[g].state = "present" /\ ~row[g].paused) =>
            /\ row[g].phase = "sleeping" => up[g] = {} /\ row[g].evid = gen[g]
            /\ row[g].phase = "running" => up[g] = Members /\ row[g].evid = gen[g]
            /\ row[g].phase = "unknown" => FALSE

\* A pause or a hold of a group ends only by the commit of an explicit Resume
\* (or the removal of the group): no save, completion, recovery or restart
\* clears it.
PauseKept(r, n) ==
    (r.state = "present" /\ n.state = "present") =>
        (r.paused => n.paused) /\ (r.hold => n.hold)

PauseEndsByResume ==
    [][\A g \in Groups :
          \/ PauseKept(row[g], row'[g])
          \/ \E u \in Requests :
                req[u].pc = "commit" /\ req[u].kind = "resume" /\ g \in req[u].hit]_vars

\* SuspendStack's contract (controller.go:83): once a manual action has
\* released the ports, a worker cannot re-arm the suspended group while the
\* action runs.
ManualActionKeepsPortsFree ==
    \A u \in Requests :
        (req[u].pc = "run" /\ req[u].kind \in InterlockKinds) =>
            \A g \in req[u].hit :
                (row[g].state = "present" /\ ~row[g].claimed) => wk[g].listener = "closed"

\* docs/on-demand.md: an accepted manual stop records a durable hold for every
\* affected group.
AcceptedStopIsHeld ==
    \A u \in Requests :
        (req[u].kind = "stop" /\ req[u].pc \in {"queued", "release", "run"}) =>
            \A g \in req[u].hit : row[g].state = "present" => row[g].hold

\* Every goroutine keeps running: it is scheduled, its waits have deadlines,
\* and Docker and database calls return.  Nothing is assumed of clients, of
\* the containers or of crashes.
Fairness ==
    /\ \A g \in Groups : WF_vars(WorkerStep(g)) /\ WF_vars(Spawn(g)) /\ WF_vars(Remove(g))
    /\ \A u \in Requests : WF_vars(Serve(u))
    /\ WF_vars(Recover) /\ WF_vars(Drained)

FairSpec == Spec /\ Fairness

\* No path of a request or a job keeps its lock: a locked stack, or the locked
\* repository, is always unlocked again.
LocksAreReleased ==
    /\ \A s \in Stacks : s \in coord.stacks ~> s \notin coord.stacks
    /\ coord.repository ~> ~coord.repository

\* A group that stays disabled, held, paused or removed gives its ports back
\* for good, also when a worker re-armed it from a stale row.
InactiveGroupDisarms ==
    \A g \in Groups : <>[](~Armed(row[g])) => <>[](wk[g].listener = "closed")

=============================================================================

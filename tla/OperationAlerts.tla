--------------------------- MODULE OperationAlerts ---------------------------
(***************************************************************************)
(* OperationService (internal/operation) with the operations and alerts it *)
(* persists (internal/sqlite): acceptance, execution, the completion that  *)
(* commits the outcome together with its alerts, Wait and its bounded      *)
(* table, Shutdown, the recovery of interrupted operations, and the people *)
(* who acknowledge and resolve alerts meanwhile.                           *)
(*                                                                         *)
(* All operations are about one stack.  Manual ones observe the alerts and *)
(* run under its lock; an automatic update (internal/control) observes     *)
(* them first, prepares images without the lock, and takes it afterwards.  *)
(***************************************************************************)
EXTENDS Naturals, Sequences, FiniteSets

CONSTANTS
    Ops,           \* operation ids, each used once
    Keys,          \* alert keys of the stack
    DeployKey,     \* the one that automatic updates recover
    Watched,       \* the keys whose alerts people handle
    Targets,       \* the sets of keys that the actions may fail on
    NoOp,
    Keep,          \* completed operations that Wait still finds (128 in the code)
    MaxOpFaults,   \* bound: failing writes
    MaxOpCrashes

ASSUME OperationConstants ==
    /\ DeployKey \in Keys /\ Watched \subseteq Keys /\ Targets \subseteq SUBSET Keys
    /\ NoOp \notin Ops
    /\ {Keep, MaxOpFaults, MaxOpCrashes} \subseteq Nat

VARIABLES
    opRows,      \* operations and operation_alert_context
    alerts,      \* alerts and alert_occurrences
    jobs,        \* the goroutine of every operation
    tracked,     \* the keys of OperationService.jobs
    completed,   \* OperationService.completed
    ended,       \* operations in the order in which their goroutine ended (history)
    stackLock,   \* the operation that holds the stack, or NoOp
    stopped,     \* Shutdown has begun
    drained,     \* Shutdown has returned without an error
    page,        \* the revision and failures of the alerts that people look at
    opsUp, opFaults, opCrashes

opVars == <<opRows, alerts, jobs, tracked, completed, ended, stackLock, stopped, drained, page,
            opsUp, opFaults, opCrashes>>

Terminal == {"succeeded", "failed", "cancelled"}
OpRow == [status : Terminal \cup {"absent", "queued", "running"}, targets : SUBSET Keys]

\* rev 0: no such alert.  fails: failures recorded on the key so far (history).
Alert == [rev : Nat, acked : BOOLEAN, resolved : BOOLEAN, occ : SUBSET Ops, fails : Nat]
NoAlert == [rev |-> 0, acked |-> FALSE, resolved |-> FALSE, occ |-> {}, fails |-> 0]

\* What an operation of an earlier day has left.
OldAlert == [NoAlert EXCEPT !.rev = 1, !.fails = 1]

Shown(a) == [rev |-> a.rev, fails |-> a.fails]

\* revs: the revisions of the open alerts that were observed, 0 for none; saw: their
\* failures (history).
JobPcs == {"none", "observed", "queued", "running", "releasing", "ending", "ended"}
OpJob == [pc : JobPcs, update : BOOLEAN, targets : SUBSET Keys, revs : [Keys -> Nat],
          saw : [Keys -> Nat]]
NoJob == [pc |-> "none", update |-> FALSE, targets |-> {}, revs |-> [k \in Keys |-> 0],
          saw |-> [k \in Keys |-> 0]]

OpsInit ==
    /\ opRows = [o \in Ops |-> [status |-> "absent", targets |-> {}]]
    /\ alerts \in [Keys -> {NoAlert, OldAlert}] /\ \A k \in Keys \ Watched : alerts[k] = NoAlert
    /\ jobs = [o \in Ops |-> NoJob]
    /\ tracked = {} /\ completed = <<>> /\ ended = <<>>
    /\ stackLock = NoOp
    /\ stopped = FALSE /\ drained = FALSE
    /\ page = [k \in Watched |-> Shown(NoAlert)]
    /\ opsUp = TRUE
    /\ opFaults = 0 /\ opCrashes = 0

OpFault == opFaults < MaxOpFaults /\ opFaults' = opFaults + 1

-----------------------------------------------------------------------------
(* The alert table.                                                        *)

Open(a) == a.rev > 0 /\ ~a.resolved

\* Mutant: a repeated failure leaves the revision alone.
FailedQuietly(a, o) ==
    [rev |-> IF a.rev = 0 THEN 1 ELSE a.rev, acked |-> a.acked /\ ~a.resolved, resolved |-> FALSE,
     occ |-> a.occ \cup {o}, fails |-> a.fails + 1]

\* A failure opens an alert, opens a resolved one again as a new episode that nobody
\* has acknowledged, or is counted on the open one.
Failed(a, o) ==
    [rev |-> a.rev + 1, acked |-> a.acked /\ ~a.resolved, resolved |-> FALSE,
     occ |-> a.occ \cup {o}, fails |-> a.fails + 1]

Recovered(a, o) == [a EXCEPT !.rev = @ + 1, !.resolved = TRUE, !.occ = @ \cup {o}]

\* currentAlertChanges: the recoveries whose alert is still the one observed.
CurrentRecoveries(good, revs) == {k \in good : alerts[k].rev > 0 /\ alerts[k].rev = revs[k]}

\* applyAlertChanges skips an occurrence that the alert has already.  The outdated
\* recoveries it would refuse are already left out, in the same transaction.
Applied(bad, good, o) ==
    [k \in Keys |->
        CASE o \notin alerts[k].occ /\ k \in bad -> Failed(alerts[k], o)
          [] o \notin alerts[k].occ /\ k \in good \ bad /\ Open(alerts[k]) -> Recovered(alerts[k], o)
          [] OTHER -> alerts[k]]

-----------------------------------------------------------------------------
(* Operations.                                                             *)

\* previousAlerts.
Observed(ks) == [k \in Keys |-> IF k \in ks /\ Open(alerts[k]) THEN alerts[k].rev ELSE 0]

ObservedJob(update, ts) ==
    [NoJob EXCEPT !.pc = "observed", !.update = update, !.targets = ts,
                  !.revs = Observed(IF update THEN {DeployKey} ELSE ts),
                  !.saw = [k \in Keys |-> IF Open(alerts[k]) THEN alerts[k].fails ELSE 0]]

\* An action on the stack, on a container, or on several containers.
ObserveManual(o, ts) ==
    /\ opsUp /\ jobs[o].pc = "none" /\ opRows[o].status = "absent"
    /\ stackLock = NoOp /\ stackLock' = o
    /\ jobs' = [jobs EXCEPT ![o] = ObservedJob(FALSE, ts)]
    /\ UNCHANGED <<opRows, alerts, tracked, completed, ended, stopped, drained, page, opsUp,
                   opFaults, opCrashes>>

\* ExecuteUpdate reads the alerts after it has let go of the lock.
ObserveUpdate(o) ==
    /\ opsUp /\ jobs[o].pc = "none" /\ opRows[o].status = "absent"
    /\ jobs' = [jobs EXCEPT ![o] = ObservedJob(TRUE, {})]
    /\ UNCHANGED <<opRows, alerts, tracked, completed, ended, stackLock, stopped, drained, page,
                   opsUp, opFaults, opCrashes>>

\* Mutant: jobs are accepted during Shutdown.
AcceptingAlways == TRUE

Accepting == ~stopped

\* StartTracked; an update takes the lock first and gives up if it is busy.
Accept(o) ==
    /\ jobs[o].pc = "observed"
    /\ \/ /\ Accepting
          /\ stackLock \in {NoOp, o} /\ stackLock' = o
          /\ opRows' = [opRows EXCEPT ![o] = [status |-> "queued", targets |-> jobs[o].targets]]
          /\ jobs' = [jobs EXCEPT ![o].pc = "queued"]
          /\ tracked' = tracked \cup {o}
          /\ UNCHANGED opFaults
       \/ /\ \/ ~Accepting /\ UNCHANGED opFaults
             \/ stackLock \notin {NoOp, o} /\ UNCHANGED opFaults
             \/ OpFault
          /\ stackLock' = IF stackLock = o THEN NoOp ELSE stackLock
          /\ jobs' = [jobs EXCEPT ![o] = NoJob]
          /\ UNCHANGED <<opRows, tracked>>
    /\ UNCHANGED <<alerts, completed, ended, stopped, drained, page, opsUp, opCrashes>>

\* execute up to the callback; a running state that cannot be saved ends it here.
RunOp(o) ==
    /\ jobs[o].pc = "queued"
    /\ \/ /\ opRows' = [opRows EXCEPT ![o].status = "running"]
          /\ jobs' = [jobs EXCEPT ![o].pc = "running"]
          /\ UNCHANGED opFaults
       \/ /\ OpFault
          /\ jobs' = [jobs EXCEPT ![o].pc = "releasing"]
          /\ UNCHANGED opRows
    /\ UNCHANGED <<alerts, tracked, completed, ended, stackLock, stopped, drained, page, opsUp,
                   opCrashes>>

\* The callback returns and CompleteOperation saves the row and the alerts in one
\* transaction, or neither.  The targets in bad fail (all of them when the callback
\* fails before the first one), those in good verifiably recover, and there is an
\* error if any target fails.
CompleteOperation(o, bad, observed, status) ==
    LET j == jobs[o]
        ts == IF j.update THEN {DeployKey} ELSE j.targets
        good == CurrentRecoveries(observed, j.revs)
    IN  /\ j.pc = "running"
        /\ bad \subseteq ts /\ observed \subseteq {k \in ts \ bad : j.revs[k] > 0}
        /\ (status = "succeeded") <=> (bad = {})
        /\ \/ /\ opRows' = [opRows EXCEPT ![o].status = status]
              /\ alerts' = Applied(bad, good, o)
              /\ UNCHANGED opFaults
           \/ OpFault /\ UNCHANGED <<opRows, alerts>>
        /\ jobs' = [jobs EXCEPT ![o] = [NoJob EXCEPT !.pc = "releasing"]]
        /\ UNCHANGED <<tracked, completed, ended, stackLock, stopped, drained, page, opsUp,
                       opCrashes>>

ReleaseStack(o) ==
    /\ jobs[o].pc = "releasing"
    /\ stackLock' = NoOp
    /\ jobs' = [jobs EXCEPT ![o].pc = "ending"]
    /\ UNCHANGED <<opRows, alerts, tracked, completed, ended, stopped, drained, page, opsUp,
                   opFaults, opCrashes>>

\* Mutant: the newest completed operation is dropped instead of the oldest.
DropNewest(done) == [gone |-> {done[Len(done)]}, left |-> SubSeq(done, 1, Len(done) - 1)]

\* Mutant: the table is never trimmed.
DropNone(done) == [gone |-> {}, left |-> done]

DropOldest(done) == [gone |-> {Head(done)}, left |-> Tail(done)]

\* The end of the goroutine: done is closed and the table is trimmed.
EndOp(o) ==
    LET done == Append(completed, o)
        trim == IF Len(done) > Keep THEN DropOldest(done) ELSE [gone |-> {}, left |-> done]
    IN  /\ jobs[o].pc = "ending"
        /\ jobs' = [jobs EXCEPT ![o] = [NoJob EXCEPT !.pc = "ended"]]
        /\ tracked' = tracked \ trim.gone
        /\ completed' = trim.left
        /\ ended' = Append(ended, o)
        /\ UNCHANGED <<opRows, alerts, stackLock, stopped, drained, page, opsUp, opFaults, opCrashes>>

-----------------------------------------------------------------------------
(* Shutdown, crashes and the next start.                                   *)

BeginShutdown ==
    /\ opsUp /\ ~stopped
    /\ stopped' = TRUE
    /\ UNCHANGED <<opRows, alerts, jobs, tracked, completed, ended, stackLock, drained, page, opsUp,
                   opFaults, opCrashes>>

\* Every job of the table is done; a job that was trimmed from it was done before.
ShutdownReturns ==
    /\ stopped /\ ~drained
    /\ \A o \in tracked : jobs[o].pc = "ended"
    /\ drained' = TRUE
    /\ UNCHANGED <<opRows, alerts, jobs, tracked, completed, ended, stackLock, stopped, page, opsUp,
                   opFaults, opCrashes>>

\* The process exits, whether Shutdown was called, returned or ran out of time.
ProcessExits ==
    /\ opsUp /\ (drained \/ opCrashes < MaxOpCrashes)
    /\ opsUp' = FALSE
    /\ opCrashes' = IF drained THEN opCrashes ELSE opCrashes + 1
    /\ jobs' = [o \in Ops |-> NoJob]
    /\ tracked' = {} /\ completed' = <<>> /\ ended' = <<>>
    /\ stackLock' = NoOp
    /\ stopped' = FALSE /\ drained' = FALSE
    /\ UNCHANGED <<opRows, alerts, page, opFaults>>

\* Mutant: interrupted operations are closed without an alert.
InterruptedAlertsDropped == alerts

Interrupted == {o \in Ops : opRows[o].status \in {"queued", "running"}}

\* The alerts after every interrupted operation has failed on its targets.
InterruptedAlerts ==
    [k \in Keys |->
        LET new == {o \in Interrupted : k \in opRows[o].targets} \ alerts[k].occ
        IN  IF new = {} THEN alerts[k]
            ELSE [rev |-> alerts[k].rev + Cardinality(new),
                  acked |-> alerts[k].acked /\ ~alerts[k].resolved, resolved |-> FALSE,
                  occ |-> alerts[k].occ \cup new, fails |-> alerts[k].fails + Cardinality(new)]]

FailInterrupted ==
    /\ ~opsUp /\ opsUp' = TRUE
    /\ alerts' = InterruptedAlerts
    /\ opRows' = [o \in Ops |-> IF o \in Interrupted THEN [opRows[o] EXCEPT !.status = "failed"]
                                                    ELSE opRows[o]]
    /\ UNCHANGED <<jobs, tracked, completed, ended, stackLock, stopped, drained, page, opFaults,
                   opCrashes>>

-----------------------------------------------------------------------------
(* People.                                                                 *)

GetAlert(k) ==
    /\ opsUp /\ Open(alerts[k]) /\ page[k] # Shown(alerts[k])
    /\ page' = [page EXCEPT ![k] = Shown(alerts[k])]
    /\ UNCHANGED <<opRows, alerts, jobs, tracked, completed, ended, stackLock, stopped, drained,
                   opsUp, opFaults, opCrashes>>

\* The request carries the revision that the page shows.
SameRevision(k) == page[k].rev > 0 /\ alerts[k].rev = page[k].rev

Mutate(k, a) ==
    /\ opsUp /\ SameRevision(k)
    /\ alerts' = [alerts EXCEPT ![k] = [a EXCEPT !.rev = @ + 1]]
    /\ UNCHANGED <<opRows, jobs, tracked, completed, ended, stackLock, stopped, drained, page, opsUp,
                   opFaults, opCrashes>>

Acknowledge(k) == ~alerts[k].acked /\ Mutate(k, [alerts[k] EXCEPT !.acked = TRUE])
Resolve(k) == ~alerts[k].resolved /\ Mutate(k, [alerts[k] EXCEPT !.resolved = TRUE])

OpStep(o) ==
    \/ Accept(o) \/ RunOp(o) \/ ReleaseStack(o) \/ EndOp(o)
    \/ \E bad, good \in SUBSET Keys, status \in Terminal : CompleteOperation(o, bad, good, status)

OpsNext ==
    \/ \E o \in Ops : \/ \E ts \in Targets : ObserveManual(o, ts)
                      \/ ObserveUpdate(o) \/ OpStep(o)
    \/ BeginShutdown \/ ShutdownReturns \/ ProcessExits \/ FailInterrupted
    \/ \E k \in Watched : GetAlert(k) \/ Acknowledge(k) \/ Resolve(k)

OpsSpec == OpsInit /\ [][OpsNext]_opVars

-----------------------------------------------------------------------------
(* Properties.                                                             *)

\* The shape of the state.
OpsTypeOK ==
    /\ opRows \in [Ops -> OpRow]
    /\ alerts \in [Keys -> Alert] /\ page \in [Watched -> [rev : Nat, fails : Nat]]
    /\ jobs \in [Ops -> OpJob]
    /\ tracked \subseteq Ops
    /\ completed \in Seq(Ops) /\ Len(completed) <= Keep /\ ended \in Seq(Ops)
    /\ stackLock \in Ops \cup {NoOp}
    /\ {stopped, drained, opsUp} \subseteq BOOLEAN
    /\ opFaults \in 0..MaxOpFaults /\ opCrashes \in 0..MaxOpCrashes

\* An operation never resolves an alert that has failed again since the operation
\* looked at it (currentAlertChanges, applyAlertChanges): the recovery an automatic
\* update observed before it prepared its images does not hide a deployment that
\* failed meanwhile.
RecoveryIsFresh ==
    [][\A o \in Ops, k \in Keys :
          jobs[o].pc = "running" /\ jobs'[o].pc = "releasing" /\ Open(alerts[k])
             /\ alerts'[k].resolved => jobs[o].saw[k] = alerts[k].fails]_opVars

\* An operation that could raise an alert and did not succeed has raised it, also when
\* it was the restart that ended it (execute, FailInterrupted).
FailureIsAlerted ==
    \A o \in Ops : opRows[o].status \in {"failed", "cancelled"} /\ opRows[o].targets # {} =>
        \E k \in opRows[o].targets : o \in alerts[k].occ /\ alerts[k].fails > 0

\* Wait finds every operation that this process accepted, unless it is neither running
\* nor among the last Keep that ended (StartTracked, Wait).
WaitFindsRecent ==
    \A o \in Ops :
        \/ jobs[o].pc \in {"queued", "running", "releasing", "ending"}
        \/ \E i \in 1..Len(ended) : ended[i] = o /\ Len(ended) - i < Keep
        => o \in tracked

\* When Shutdown has returned, no operation is running and none will: the Docker
\* client that is closed next is not in use (OperationService.Shutdown).
DrainedIsQuiet ==
    drained => \A o \in Ops : jobs[o].pc \in {"none", "observed", "ended"}

=============================================================================

--------------------------- MODULE OperationProofs ---------------------------
(***************************************************************************)
(* OperationAlerts, for all sets of operations and alert keys, any bound   *)
(* on the table of Wait, and any number of faults and crashes.             *)
(*                                                                         *)
(* The steps of a job are classified by what they do to it (Goes, Forgets, *)
(* Observes) and the steps of an alert by what they may not do to it       *)
(* (Grown); OpsInv is then shown one conjunct at a time, and the five      *)
(* theorems at the end follow from it.                                     *)
(***************************************************************************)
EXTENDS OperationAlerts, FiniteSetTheorems, SequenceTheorems, TLAPS

\* A job that Shutdown has to wait for.
LivePcs == {"queued", "running", "releasing", "ending"}

\* Operations that have a row.
Accepted == {o \in Ops : opRows[o].status # "absent"}

\* Only finitely many rows have been written; the row of a job that has not completed
\* names its targets, and an update has none.
RowInv ==
    /\ IsFiniteSet(Accepted)
    /\ \A o \in Ops :
          /\ jobs[o].pc \in {"queued", "running"} => opRows[o].targets = jobs[o].targets
          /\ jobs[o].update => jobs[o].targets = {}

\* An alert that exists, or that an operation has touched, has failed once.
AlertInv == \A k \in Keys : alerts[k].rev > 0 \/ alerts[k].occ # {} => alerts[k].fails > 0

\* A revision that was observed is not ahead of the alert, and when it is the current one
\* the alert has not failed since.
FreshInv ==
    \A o \in Ops, k \in Keys :
        jobs[o].revs[k] > 0 =>
            /\ jobs[o].revs[k] <= alerts[k].rev
            /\ jobs[o].revs[k] = alerts[k].rev => jobs[o].saw[k] = alerts[k].fails

\* completed is the end of ended: its last Keep operations, each once, all of them still
\* in the table.
TableInv ==
    /\ Len(completed) = IF Len(ended) < Keep THEN Len(ended) ELSE Keep
    /\ \A i \in 1..Len(completed) :
          /\ completed[i] = ended[Len(ended) - Len(completed) + i]
          /\ completed[i] \in tracked /\ jobs[completed[i]].pc = "ended"
    /\ \A i, j \in 1..Len(completed) : completed[i] = completed[j] => i = j

\* A job that is not done is in the table.
TrackInv == \A o \in Ops : jobs[o].pc \in LivePcs => o \in tracked

\* The inductive invariant.
OpsInv ==
    /\ OpsTypeOK /\ RowInv /\ AlertInv /\ FreshInv /\ TrackInv /\ TableInv
    /\ FailureIsAlerted /\ DrainedIsQuiet /\ (drained => stopped)

-----------------------------------------------------------------------------

\* Every statement on an alert leaves an alert.
LEMMA AlertTypes ==
  ASSUME NEW a \in Alert, NEW o \in Ops
  PROVE  /\ Failed(a, o) \in Alert /\ Recovered(a, o) \in Alert
         /\ [a EXCEPT !.rev = @ + 1] \in Alert
<1>1. a.rev + 1 \in Nat /\ a.fails + 1 \in Nat /\ a.occ \cup {o} \in SUBSET Ops
  BY DEF Alert
<1>2. Failed(a, o) \in Alert
  BY <1>1 DEF Alert, Failed
<1>3. Recovered(a, o) \in Alert /\ [a EXCEPT !.rev = @ + 1] \in Alert
  BY <1>1 DEF Alert, Recovered
<1>4. QED
  BY <1>2, <1>3

\* The first alerts and jobs, and a job that has forgotten what it observed.
LEMMA NoTypes ==
  /\ NoAlert \in Alert /\ OldAlert \in Alert
  /\ NoJob \in OpJob
  /\ \A pc \in JobPcs : [NoJob EXCEPT !.pc = pc] \in OpJob
<1>1. NoAlert \in Alert
  BY DEF NoAlert, Alert
<1>2. OldAlert \in Alert
  BY <1>1 DEF OldAlert, NoAlert, Alert
<1>3. NoJob \in OpJob
  BY DEF NoJob, OpJob, JobPcs
<1>4. QED
  BY <1>1, <1>2, <1>3 DEF OpJob

\* previousAlerts: what a new job knows of the alerts.
LEMMA ObservedTypes ==
  ASSUME OpsTypeOK, NEW u \in BOOLEAN, NEW ts \in SUBSET Keys
  PROVE  /\ ObservedJob(u, ts) \in OpJob /\ ObservedJob(u, ts).pc = "observed"
         /\ ObservedJob(u, ts).update = u /\ ObservedJob(u, ts).targets = ts
         /\ \A k \in Keys : /\ ObservedJob(u, ts).revs[k] \in {0, alerts[k].rev}
                            /\ ObservedJob(u, ts).revs[k] > 0 =>
                                  ObservedJob(u, ts).saw[k] = alerts[k].fails
<1>1. \A k \in Keys : alerts[k].rev \in Nat /\ alerts[k].fails \in Nat
  BY DEF OpsTypeOK, Alert
<1>2. \A ks : Observed(ks) \in [Keys -> Nat]
  BY <1>1 DEF Observed
<1>3. [k \in Keys |-> IF Open(alerts[k]) THEN alerts[k].fails ELSE 0] \in [Keys -> Nat]
  BY <1>1
<1>4. PICK ks : ks = IF u THEN {DeployKey} ELSE ts
  OBVIOUS
<1>5. PICK rv, sw : /\ rv = Observed(ks)
                    /\ sw = [k \in Keys |-> IF Open(alerts[k]) THEN alerts[k].fails ELSE 0]
  OBVIOUS
<1>6. ObservedJob(u, ts) =
        [NoJob EXCEPT !.pc = "observed", !.update = u, !.targets = ts, !.revs = rv, !.saw = sw]
  BY <1>4, <1>5 DEF ObservedJob
<1>7. ObservedJob(u, ts) =
        [pc |-> "observed", update |-> u, targets |-> ts, revs |-> rv, saw |-> sw]
  BY <1>6 DEF NoJob
<1>8. ObservedJob(u, ts) \in OpJob
  BY <1>2, <1>3, <1>5, <1>7 DEF OpJob, JobPcs
<1>9. \A k \in Keys : /\ Observed(ks)[k] \in {0, alerts[k].rev}
                      /\ Observed(ks)[k] > 0 => Open(alerts[k])
  BY <1>1 DEF Observed
<1>10. QED
  BY <1>5, <1>7, <1>8, <1>9


-----------------------------------------------------------------------------
(* Alerts.                                                                 *)

\* What any step may do to an alert.
Grown(a, b) ==
    /\ a.rev <= b.rev /\ a.occ \subseteq b.occ /\ a.fails <= b.fails
    /\ a.rev = b.rev => a.fails = b.fails
    /\ (a.rev > 0 \/ a.occ # {} => a.fails > 0) => (b.rev > 0 \/ b.occ # {} => b.fails > 0)

\* Failures, recoveries and the mutations of people.
LEMMA AlertGrowth ==
  ASSUME NEW a \in Alert, NEW o \in Ops
  PROVE  /\ Grown(a, a) /\ Grown(a, Failed(a, o))
         /\ Open(a) => Grown(a, Recovered(a, o))
         /\ a.rev > 0 => Grown(a, [a EXCEPT !.acked = TRUE, !.rev = @ + 1])
         /\ a.rev > 0 => Grown(a, [a EXCEPT !.resolved = TRUE, !.rev = @ + 1])
<1>1. a.rev \in Nat /\ a.fails \in Nat /\ a.occ \subseteq Ops
  BY DEF Alert
<1>2. /\ Failed(a, o).rev = a.rev + 1 /\ Failed(a, o).fails = a.fails + 1
      /\ Failed(a, o).occ = a.occ \cup {o}
  BY DEF Failed
<1>3. /\ Recovered(a, o).rev = a.rev + 1 /\ Recovered(a, o).fails = a.fails
      /\ Recovered(a, o).occ = a.occ \cup {o}
  BY DEF Recovered, Alert
<1>4. /\ [a EXCEPT !.acked = TRUE, !.rev = @ + 1].rev = a.rev + 1
      /\ [a EXCEPT !.acked = TRUE, !.rev = @ + 1].fails = a.fails
      /\ [a EXCEPT !.acked = TRUE, !.rev = @ + 1].occ = a.occ
  BY DEF Alert
<1>5. /\ [a EXCEPT !.resolved = TRUE, !.rev = @ + 1].rev = a.rev + 1
      /\ [a EXCEPT !.resolved = TRUE, !.rev = @ + 1].fails = a.fails
      /\ [a EXCEPT !.resolved = TRUE, !.rev = @ + 1].occ = a.occ
  BY DEF Alert
<1>6. Grown(a, a) /\ Grown(a, Failed(a, o))
  BY <1>1, <1>2 DEF Grown
<1>7. Open(a) => Grown(a, Recovered(a, o))
  BY <1>1, <1>3 DEF Grown, Open
<1>8. a.rev > 0 => Grown(a, [a EXCEPT !.acked = TRUE, !.rev = @ + 1])
  BY <1>1, <1>4 DEF Grown
<1>9. a.rev > 0 => Grown(a, [a EXCEPT !.resolved = TRUE, !.rev = @ + 1])
  BY <1>1, <1>5 DEF Grown
<1>10. QED
  BY <1>6, <1>7, <1>8, <1>9

\* applyAlertChanges: the alert of a failing target shows the operation.
LEMMA AppliedFacts ==
  ASSUME OpsTypeOK, NEW bad, NEW good, NEW o \in Ops
  PROVE  /\ Applied(bad, good, o) \in [Keys -> Alert]
         /\ \A k \in Keys :
               /\ Grown(alerts[k], Applied(bad, good, o)[k])
               /\ k \in bad => o \in Applied(bad, good, o)[k].occ
               /\ Open(alerts[k]) /\ Applied(bad, good, o)[k].resolved => k \in good
<1>1. ASSUME NEW k \in Keys
      PROVE  /\ Applied(bad, good, o)[k] \in Alert
             /\ Grown(alerts[k], Applied(bad, good, o)[k])
             /\ k \in bad => o \in Applied(bad, good, o)[k].occ
             /\ Open(alerts[k]) /\ Applied(bad, good, o)[k].resolved => k \in good
  <2>1. alerts[k] \in Alert
    BY DEF OpsTypeOK
  <2>2. CASE o \in alerts[k].occ
    <3>1. Applied(bad, good, o)[k] = alerts[k]
      BY <2>2 DEF Applied
    <3>2. QED
      BY <2>1, <2>2, <3>1, AlertGrowth DEF Open
  <2>3. CASE o \notin alerts[k].occ /\ k \in bad
    <3>1. Applied(bad, good, o)[k] = Failed(alerts[k], o)
      BY <2>3 DEF Applied
    <3>2. o \in Failed(alerts[k], o).occ /\ ~Failed(alerts[k], o).resolved
      BY DEF Failed
    <3>3. QED
      BY <2>1, <3>1, <3>2, AlertGrowth, AlertTypes
  <2>4. CASE o \notin alerts[k].occ /\ k \notin bad /\ k \in good /\ Open(alerts[k])
    <3>1. Applied(bad, good, o)[k] = Recovered(alerts[k], o)
      BY <2>4 DEF Applied
    <3>2. QED
      BY <2>1, <2>4, <3>1, AlertGrowth, AlertTypes
  <2>5. CASE o \notin alerts[k].occ /\ k \notin bad /\ ~(k \in good /\ Open(alerts[k]))
    <3>1. Applied(bad, good, o)[k] = alerts[k]
      BY <2>5 DEF Applied
    <3>2. QED
      BY <2>1, <2>5, <3>1, AlertGrowth DEF Open
  <2>6. QED
    BY <2>2, <2>3, <2>4, <2>5
<1>2. QED
  BY <1>1 DEF Applied

\* FailInterrupted: so do the alerts of all targets of an interrupted operation.
LEMMA InterruptedFacts ==
  ASSUME OpsTypeOK, RowInv
  PROVE  /\ InterruptedAlerts \in [Keys -> Alert]
         /\ \A k \in Keys :
               /\ Grown(alerts[k], InterruptedAlerts[k])
               /\ \A o \in Interrupted : k \in opRows[o].targets => o \in InterruptedAlerts[k].occ
<1>1. ASSUME NEW k \in Keys
      PROVE  /\ InterruptedAlerts[k] \in Alert
             /\ Grown(alerts[k], InterruptedAlerts[k])
             /\ \A o \in Interrupted : k \in opRows[o].targets => o \in InterruptedAlerts[k].occ
  <2>. DEFINE new == {o \in Interrupted : k \in opRows[o].targets} \ alerts[k].occ
  <2>1. /\ alerts[k] \in Alert /\ alerts[k].rev \in Nat /\ alerts[k].fails \in Nat
        /\ alerts[k].acked \in BOOLEAN /\ alerts[k].resolved \in BOOLEAN
        /\ alerts[k].occ \subseteq Ops
    BY DEF OpsTypeOK, Alert
  <2>2. CASE new = {}
    <3>1. InterruptedAlerts[k] = alerts[k]
      BY <2>2 DEF InterruptedAlerts
    <3>2. Grown(alerts[k], alerts[k])
      BY <2>1 DEF Grown
    <3>3. QED
      BY <2>1, <2>2, <3>1, <3>2
  <2>3. CASE new # {}
    <3>1. new \subseteq Accepted /\ new \subseteq Ops
      BY DEF Interrupted, Accepted
    <3>2. IsFiniteSet(new) /\ Cardinality(new) \in Nat
      BY <3>1, FS_Subset, FS_CardinalityType DEF RowInv
    <3>3. Cardinality(new) # 0
      BY <2>3, <3>2, FS_EmptySet
    <3>4. PICK n \in Nat : n = Cardinality(new)
      BY <3>2
    <3>5. n = Cardinality(new) /\ n > 0
      BY <3>3, <3>4
    <3>6. InterruptedAlerts[k] =
            [rev |-> alerts[k].rev + n, acked |-> alerts[k].acked /\ ~alerts[k].resolved,
             resolved |-> FALSE, occ |-> alerts[k].occ \cup new, fails |-> alerts[k].fails + n]
      BY <2>3, <3>5 DEF InterruptedAlerts
    <3>7. /\ alerts[k].rev + n \in Nat /\ alerts[k].fails + n \in Nat
          /\ alerts[k].occ \cup new \subseteq Ops
      BY <2>1, <3>1
    <3>8. InterruptedAlerts[k] \in Alert
      BY <2>1, <3>6, <3>7 DEF Alert
    <3>9. /\ InterruptedAlerts[k].rev = alerts[k].rev + n
          /\ InterruptedAlerts[k].fails = alerts[k].fails + n
          /\ InterruptedAlerts[k].occ = alerts[k].occ \cup new
      BY <3>6
    <3>10. Grown(alerts[k], InterruptedAlerts[k])
      BY <2>1, <3>5, <3>9 DEF Grown
    <3>11. QED
      BY <3>8, <3>9, <3>10
  <2>4. QED
    BY <2>2, <2>3
<1>2. QED
  BY <1>1 DEF InterruptedAlerts


\* No step forgets a failure; every change of an alert moves its revision.
LEMMA AlertsNext ==
  ASSUME OpsTypeOK, RowInv, [OpsNext]_opVars
  PROVE  /\ alerts' \in [Keys -> Alert]
         /\ \A k \in Keys : Grown(alerts[k], alerts'[k])
<1>1. alerts \in [Keys -> Alert] /\ \A k \in Keys : alerts[k] \in Alert /\ alerts[k].rev \in Nat
  BY DEF OpsTypeOK, Alert
<1>2. \A k \in Keys : Grown(alerts[k], alerts[k])
  <2>1. \A k \in Keys : alerts[k].rev \in Nat /\ alerts[k].fails \in Nat
    BY DEF OpsTypeOK, Alert
  <2>2. QED
    BY <2>1 DEF Grown
<1>3. CASE alerts' = alerts
  BY <1>1, <1>2, <1>3
<1>4. ASSUME NEW o \in Ops, NEW bad, NEW good, NEW status, CompleteOperation(o, bad, good, status)
      PROVE  /\ alerts' \in [Keys -> Alert]
             /\ \A k \in Keys : Grown(alerts[k], alerts'[k])
  BY <1>3, <1>4, AppliedFacts DEF CompleteOperation
<1>5. CASE FailInterrupted
  BY <1>5, InterruptedFacts DEF FailInterrupted
<1>6. ASSUME NEW k \in Watched, NEW a,
             a = [alerts[k] EXCEPT !.acked = TRUE] \/ a = [alerts[k] EXCEPT !.resolved = TRUE],
             Mutate(k, a)
      PROVE  /\ alerts' \in [Keys -> Alert]
             /\ \A h \in Keys : Grown(alerts[h], alerts'[h])
  <2>1. k \in Keys /\ alerts[k] \in Alert /\ alerts[k].rev > 0
    BY <1>6, <1>1, OperationConstants DEF Mutate, SameRevision
  <2>2. PICK b \in {[alerts[k] EXCEPT !.acked = TRUE, !.rev = @ + 1],
                    [alerts[k] EXCEPT !.resolved = TRUE, !.rev = @ + 1]} :
           alerts' = [alerts EXCEPT ![k] = b]
    <3>1. alerts' = [alerts EXCEPT ![k] = [a EXCEPT !.rev = @ + 1]]
      BY <1>6 DEF Mutate
    <3>2. [a EXCEPT !.rev = @ + 1] \in {[alerts[k] EXCEPT !.acked = TRUE, !.rev = @ + 1],
                                        [alerts[k] EXCEPT !.resolved = TRUE, !.rev = @ + 1]}
      BY <1>6, <2>1 DEF Alert
    <3>3. QED
      BY <3>1, <3>2
  <2>3. b \in Alert
    <3>1. alerts[k].rev + 1 \in Nat
      BY <1>1, <2>1
    <3>2. QED
      BY <2>1, <2>2, <3>1 DEF Alert
  <2>4. Grown(alerts[k], b)
    <3>1. /\ b.rev = alerts[k].rev + 1 /\ b.fails = alerts[k].fails /\ b.occ = alerts[k].occ
      BY <2>1, <2>2 DEF Alert
    <3>2. alerts[k].rev \in Nat /\ alerts[k].fails \in Nat
      BY <2>1 DEF Alert
    <3>3. QED
      BY <2>1, <3>1, <3>2 DEF Grown
  <2>5. QED
    BY <1>1, <1>2, <2>2, <2>3, <2>4
<1>7. ASSUME NEW o \in Ops, \/ \E ts \in Targets : ObserveManual(o, ts)
                            \/ ObserveUpdate(o) \/ Accept(o) \/ RunOp(o)
                            \/ ReleaseStack(o) \/ EndOp(o)
      PROVE  alerts' = alerts
  BY <1>7 DEF ObserveManual, ObserveUpdate, Accept, RunOp, ReleaseStack, EndOp
<1>8. CASE \/ BeginShutdown \/ ShutdownReturns \/ ProcessExits \/ UNCHANGED opVars
           \/ \E k \in Watched : GetAlert(k)
  <2>1. alerts' = alerts
    BY <1>8 DEF BeginShutdown, ShutdownReturns, ProcessExits, GetAlert, opVars
  <2>2. QED
    BY <1>3, <2>1
<1>9. ASSUME NEW k \in Watched, Acknowledge(k) \/ Resolve(k)
      PROVE  /\ alerts' \in [Keys -> Alert]
             /\ \A h \in Keys : Grown(alerts[h], alerts'[h])
  <2>1. CASE Acknowledge(k)
    BY <1>6, <2>1 DEF Acknowledge
  <2>2. CASE Resolve(k)
    BY <1>6, <2>2 DEF Resolve
  <2>3. QED
    BY <1>9, <2>1, <2>2
<1>10. QED
  BY <1>3, <1>4, <1>5, <1>7, <1>8, <1>9 DEF OpsNext, OpStep

\* A failure that was alerted stays alerted, and so stays AlertInv.
LEMMA AlertInvNext ==
  ASSUME OpsTypeOK, RowInv, AlertInv, [OpsNext]_opVars
  PROVE  AlertInv'
<1>1. \A k \in Keys : Grown(alerts[k], alerts'[k])
  BY AlertsNext
<1>2. QED
  BY <1>1 DEF AlertInv, Grown

-----------------------------------------------------------------------------
(* Jobs.                                                                   *)

\* The job of o goes on with what it has observed.
Goes(o, from, to) ==
    /\ jobs[o].pc \in from /\ jobs' \in [Ops -> OpJob]
    /\ \A p \in Ops \ {o} : jobs'[p] = jobs[p]
    /\ jobs'[o].pc \in to
    /\ jobs'[o].update = jobs[o].update /\ jobs'[o].targets = jobs[o].targets
    /\ jobs'[o].revs = jobs[o].revs /\ jobs'[o].saw = jobs[o].saw

\* The job of o has forgotten it.
Forgets(o, from, to) ==
    /\ jobs[o].pc \in from /\ jobs' \in [Ops -> OpJob]
    /\ \A p \in Ops \ {o} : jobs'[p] = jobs[p]
    /\ jobs'[o].pc \in to
    /\ jobs'[o].update = FALSE /\ jobs'[o].targets = {}
    /\ \A k \in Keys : jobs'[o].revs[k] = 0

\* A new operation looks at the alerts.
Observes(o) ==
    /\ jobs[o].pc = "none" /\ jobs' \in [Ops -> OpJob]
    /\ \A p \in Ops \ {o} : jobs'[p] = jobs[p]
    /\ alerts' = alerts
    /\ jobs'[o].pc = "observed"
    /\ jobs'[o].update => jobs'[o].targets = {}
    /\ \A k \in Keys : /\ jobs'[o].revs[k] \in {0, alerts[k].rev}
                       /\ jobs'[o].revs[k] > 0 => jobs'[o].saw[k] = alerts[k].fails

\* A step that moves the control point only.
LEMMA PcGoes ==
  ASSUME OpsTypeOK, NEW o \in Ops, NEW pc \in JobPcs, jobs' = [jobs EXCEPT ![o].pc = pc]
  PROVE  Goes(o, {jobs[o].pc}, {pc})
<1>1. jobs \in [Ops -> OpJob] /\ jobs[o] \in OpJob
  BY DEF OpsTypeOK
<1>2. [jobs[o] EXCEPT !.pc = pc] \in OpJob
  BY <1>1 DEF OpJob
<1>3. jobs' \in [Ops -> OpJob] /\ jobs'[o] = [jobs[o] EXCEPT !.pc = pc]
  BY <1>1, <1>2
<1>4. QED
  BY <1>1, <1>3 DEF Goes, OpJob

\* A step after which nothing that was observed is used any more.
LEMMA PcForgets ==
  ASSUME OpsTypeOK, NEW o \in Ops, NEW pc \in JobPcs,
         jobs' = [jobs EXCEPT ![o] = [NoJob EXCEPT !.pc = pc]]
  PROVE  Forgets(o, {jobs[o].pc}, {pc})
<1>1. jobs \in [Ops -> OpJob]
  BY DEF OpsTypeOK
<1>2. jobs' \in [Ops -> OpJob] /\ jobs'[o] = [NoJob EXCEPT !.pc = pc]
  BY <1>1, NoTypes
<1>3. QED
  BY <1>1, <1>2 DEF Forgets, NoJob

\* An operation that is not accepted leaves no job.
LEMMA NoneForgets ==
  ASSUME OpsTypeOK, NEW o \in Ops, jobs' = [jobs EXCEPT ![o] = NoJob]
  PROVE  Forgets(o, {jobs[o].pc}, {"none"})
<1>1. jobs \in [Ops -> OpJob]
  BY DEF OpsTypeOK
<1>2. jobs' \in [Ops -> OpJob] /\ jobs'[o] = NoJob
  BY <1>1, NoTypes
<1>3. QED
  BY <1>1, <1>2 DEF Forgets, NoJob

\* StartTracked accepts before Shutdown has begun and enters the table, or refuses.
LEMMA AcceptKinds ==
  ASSUME OpsTypeOK, NEW o \in Ops, Accept(o)
  PROVE  \/ /\ Goes(o, {"observed"}, {"queued"}) /\ ~stopped
            /\ opRows' = [opRows EXCEPT ![o] = [status |-> "queued", targets |-> jobs[o].targets]]
            /\ tracked' = tracked \cup {o}
         \/ Forgets(o, {"observed"}, {"none"}) /\ opRows' = opRows /\ tracked' = tracked
<1>1. jobs[o].pc = "observed" /\ "queued" \in JobPcs /\ "none" \in JobPcs
  BY DEF Accept, JobPcs
<1>2. CASE jobs' = [jobs EXCEPT ![o] = NoJob]
  <2>1. Forgets(o, {"observed"}, {"none"})
    BY <1>1, <1>2, NoneForgets
  <2>2. CASE opRows' = opRows /\ tracked' = tracked
    BY <2>1, <2>2
  <2>3. CASE jobs' = [jobs EXCEPT ![o].pc = "queued"]
    <3>1. Goes(o, {"observed"}, {"queued"})
      BY <1>1, <2>3, PcGoes
    <3>2. FALSE
      BY <2>1, <3>1 DEF Forgets, Goes
    <3>3. QED
      BY <3>2
  <2>4. QED
    BY <2>2, <2>3 DEF Accept
<1>3. CASE jobs' # [jobs EXCEPT ![o] = NoJob]
  <2>1. /\ Accepting /\ tracked' = tracked \cup {o} /\ jobs' = [jobs EXCEPT ![o].pc = "queued"]
        /\ opRows' = [opRows EXCEPT ![o] = [status |-> "queued", targets |-> jobs[o].targets]]
    BY <1>3 DEF Accept
  <2>2. QED
    BY <1>1, <2>1, PcGoes DEF Accepting
<1>4. QED
  BY <1>2, <1>3

\* execute saves the running state, or gives up.
LEMMA RunKinds ==
  ASSUME OpsTypeOK, NEW o \in Ops, RunOp(o)
  PROVE  /\ Goes(o, {"queued"}, {"running", "releasing"})
         /\ opRows' = opRows \/ opRows' = [opRows EXCEPT ![o].status = "running"]
<1>1. "running" \in JobPcs /\ "releasing" \in JobPcs /\ jobs[o].pc = "queued"
  BY DEF RunOp, JobPcs
<1>2. QED
  BY <1>1, PcGoes DEF RunOp, Goes

\* Both kinds of operation start by looking at the alerts.
LEMMA ObserveKinds ==
  ASSUME OpsTypeOK, NEW o \in Ops, ObserveUpdate(o) \/ \E ts \in Targets : ObserveManual(o, ts)
  PROVE  Observes(o) /\ UNCHANGED <<opRows, tracked, completed, ended, stopped, drained>>
<1>1. PICK u \in BOOLEAN, ts \in SUBSET Keys :
         jobs' = [jobs EXCEPT ![o] = ObservedJob(u, ts)] /\ (u => ts = {})
  BY OperationConstants DEF ObserveUpdate, ObserveManual
<1>2. /\ jobs[o].pc = "none" /\ alerts' = alerts
      /\ UNCHANGED <<opRows, tracked, completed, ended, stopped, drained>>
  BY DEF ObserveUpdate, ObserveManual
<1>3. jobs \in [Ops -> OpJob]
  BY DEF OpsTypeOK
<1>4. jobs' \in [Ops -> OpJob] /\ jobs'[o] = ObservedJob(u, ts)
  BY <1>1, <1>3, ObservedTypes
<1>5. QED
  BY <1>1, <1>2, <1>3, <1>4, ObservedTypes DEF Observes

\* The steps of a job from its completion on.
LEMMA EndKinds ==
  ASSUME OpsTypeOK, NEW o \in Ops
  PROVE  /\ ReleaseStack(o) => /\ Goes(o, {"releasing"}, {"ending"})
                               /\ UNCHANGED <<opRows, tracked, completed, ended, stopped, drained>>
         /\ EndOp(o) => Forgets(o, {"ending"}, {"ended"}) /\ UNCHANGED <<opRows, stopped, drained>>
         /\ \A bad, good, status : CompleteOperation(o, bad, good, status) =>
               /\ Forgets(o, {"running"}, {"releasing"})
               /\ UNCHANGED <<tracked, completed, ended, stopped, drained>>
<1>1. "releasing" \in JobPcs /\ "ending" \in JobPcs /\ "ended" \in JobPcs
  BY DEF JobPcs
<1>2. QED
  BY <1>1, PcGoes, PcForgets DEF ReleaseStack, EndOp, CompleteOperation


-----------------------------------------------------------------------------
(* Types.                                                                  *)

\* All jobs are gone after the process has exited.
LEMMA ExitJobs ==
  ASSUME ProcessExits
  PROVE  /\ jobs' \in [Ops -> OpJob]
         /\ \A o \in Ops : /\ jobs'[o].pc = "none" /\ jobs'[o].update = FALSE
                           /\ \A k \in Keys : jobs'[o].revs[k] = 0
<1>1. /\ NoJob \in OpJob /\ NoJob.pc = "none" /\ NoJob.update = FALSE
      /\ \A k \in Keys : NoJob.revs[k] = 0
  BY NoTypes DEF NoJob
<1>2. QED
  BY <1>1 DEF ProcessExits

\* Jobs stay jobs.
LEMMA JobTypes ==
  ASSUME OpsTypeOK, [OpsNext]_opVars
  PROVE  jobs' \in [Ops -> OpJob]
<1>1. jobs \in [Ops -> OpJob]
  BY DEF OpsTypeOK
<1>2. ASSUME NEW o \in Ops, \/ \E ts \in Targets : ObserveManual(o, ts)
                            \/ ObserveUpdate(o) \/ OpStep(o)
      PROVE  jobs' \in [Ops -> OpJob]
  BY <1>2, ObserveKinds, AcceptKinds, RunKinds, EndKinds DEF OpStep, Goes, Forgets, Observes
<1>3. CASE ProcessExits
  BY <1>3, ExitJobs
<1>4. CASE \/ BeginShutdown \/ ShutdownReturns \/ FailInterrupted \/ UNCHANGED opVars
           \/ \E k \in Watched : GetAlert(k) \/ Acknowledge(k) \/ Resolve(k)
  BY <1>1, <1>4 DEF BeginShutdown, ShutdownReturns, FailInterrupted, GetAlert, Acknowledge, Resolve,
     Mutate, opVars
<1>5. QED
  BY <1>2, <1>3, <1>4 DEF OpsNext

\* Rows stay rows.
LEMMA RowTypes ==
  ASSUME OpsTypeOK, [OpsNext]_opVars
  PROVE  opRows' \in [Ops -> OpRow]
<1>1. opRows \in [Ops -> OpRow] /\ jobs \in [Ops -> OpJob]
  BY DEF OpsTypeOK
<1>2. ASSUME NEW o \in Ops, NEW st \in Terminal \cup {"running"},
             opRows' = [opRows EXCEPT ![o].status = st]
      PROVE  opRows' \in [Ops -> OpRow]
  <2>1. [opRows[o] EXCEPT !.status = st] \in OpRow
    BY <1>1 DEF OpRow
  <2>2. QED
    BY <1>1, <1>2, <2>1
<1>3. ASSUME NEW o \in Ops, \/ \E ts \in Targets : ObserveManual(o, ts)
                            \/ ObserveUpdate(o) \/ ReleaseStack(o) \/ EndOp(o)
      PROVE  opRows' = opRows
  BY <1>3 DEF ObserveManual, ObserveUpdate, ReleaseStack, EndOp
<1>4. ASSUME NEW o \in Ops, Accept(o)
      PROVE  opRows' \in [Ops -> OpRow]
  <2>1. [status |-> "queued", targets |-> jobs[o].targets] \in OpRow
    BY <1>1 DEF OpRow, OpJob
  <2>2. QED
    BY <1>1, <1>4, <2>1, AcceptKinds
<1>5. ASSUME NEW o \in Ops, RunOp(o)
      PROVE  opRows' \in [Ops -> OpRow]
  BY <1>1, <1>2, <1>5 DEF RunOp
<1>6. ASSUME NEW o \in Ops, NEW bad, NEW good, NEW st \in Terminal,
             CompleteOperation(o, bad, good, st)
      PROVE  opRows' \in [Ops -> OpRow]
  BY <1>1, <1>2, <1>6 DEF CompleteOperation
<1>7. CASE FailInterrupted
  <2>1. \A o \in Ops : [opRows[o] EXCEPT !.status = "failed"] \in OpRow
    BY <1>1 DEF OpRow, Terminal
  <2>2. QED
    BY <1>1, <1>7, <2>1 DEF FailInterrupted
<1>8. CASE \/ BeginShutdown \/ ShutdownReturns \/ ProcessExits \/ UNCHANGED opVars
           \/ \E k \in Watched : GetAlert(k) \/ Acknowledge(k) \/ Resolve(k)
  BY <1>1, <1>8 DEF BeginShutdown, ShutdownReturns, ProcessExits, GetAlert, Acknowledge, Resolve,
     Mutate, opVars
<1>9. QED
  BY <1>1, <1>3, <1>4, <1>5, <1>6, <1>7, <1>8 DEF OpsNext, OpStep

\* The end of the goroutine keeps at most Keep completed operations.
LEMMA TrimTypes ==
  ASSUME OpsTypeOK, NEW o \in Ops, EndOp(o)
  PROVE  /\ tracked' \subseteq Ops /\ completed' \in Seq(Ops) /\ Len(completed') <= Keep
         /\ ended' \in Seq(Ops)
<1>1. /\ completed \in Seq(Ops) /\ ended \in Seq(Ops) /\ Len(completed) <= Keep
      /\ tracked \subseteq Ops /\ Keep \in Nat
  BY OperationConstants DEF OpsTypeOK
<1>2. PICK done : done = Append(completed, o)
  OBVIOUS
<1>3. done \in Seq(Ops) /\ Len(done) = Len(completed) + 1 /\ done # <<>>
  BY <1>1, <1>2, AppendProperties
<1>4. ended' \in Seq(Ops)
  BY <1>1, AppendProperties DEF EndOp
<1>5. CASE Len(done) > Keep
  <2>1. completed' = Tail(done) /\ tracked' = tracked \ {Head(done)}
    BY <1>2, <1>5 DEF EndOp, DropOldest
  <2>2. Tail(done) \in Seq(Ops) /\ Len(Tail(done)) = Len(done) - 1
    BY <1>3, HeadTailProperties
  <2>3. completed' \in Seq(Ops) /\ Len(completed') <= Keep
    BY <1>1, <1>3, <2>1, <2>2
  <2>4. tracked' \subseteq Ops
    BY <1>1, <2>1
  <2>5. QED
    BY <1>4, <2>3, <2>4
<1>6. CASE ~(Len(done) > Keep)
  <2>1. completed' = done /\ tracked' = tracked
    BY <1>2, <1>6 DEF EndOp
  <2>2. QED
    BY <1>1, <1>3, <1>6, <2>1, AppendProperties DEF EndOp
<1>7. QED
  BY <1>5, <1>6

\* The other variables.
LEMMA TableTypes ==
  ASSUME OpsTypeOK, [OpsNext]_opVars
  PROVE  /\ tracked' \subseteq Ops
         /\ completed' \in Seq(Ops) /\ Len(completed') <= Keep /\ ended' \in Seq(Ops)
         /\ stackLock' \in Ops \cup {NoOp}
<1>1. /\ tracked \subseteq Ops /\ completed \in Seq(Ops) /\ Len(completed) <= Keep
      /\ ended \in Seq(Ops)
      /\ stackLock \in Ops \cup {NoOp} /\ Keep \in Nat
  BY OperationConstants DEF OpsTypeOK
<1>2. ASSUME NEW o \in Ops, \/ \E ts \in Targets : ObserveManual(o, ts)
                            \/ ObserveUpdate(o) \/ Accept(o) \/ RunOp(o) \/ ReleaseStack(o)
                            \/ \E bad, good, st : CompleteOperation(o, bad, good, st)
      PROVE  /\ tracked' \subseteq Ops
             /\ completed' \in Seq(Ops) /\ Len(completed') <= Keep /\ ended' \in Seq(Ops)
             /\ stackLock' \in Ops \cup {NoOp}
  BY <1>1, <1>2 DEF ObserveManual, ObserveUpdate, Accept, RunOp, ReleaseStack, CompleteOperation
<1>3. ASSUME NEW o \in Ops, EndOp(o)
      PROVE  /\ tracked' \subseteq Ops
             /\ completed' \in Seq(Ops) /\ Len(completed') <= Keep /\ ended' \in Seq(Ops)
             /\ stackLock' \in Ops \cup {NoOp}
  <2>1. stackLock' = stackLock
    BY <1>3 DEF EndOp
  <2>2. QED
    BY <1>1, <1>3, <2>1, TrimTypes
<1>4. CASE ProcessExits
  BY <1>1, <1>4 DEF ProcessExits
<1>5. CASE \/ BeginShutdown \/ ShutdownReturns \/ FailInterrupted \/ UNCHANGED opVars
           \/ \E k \in Watched : GetAlert(k) \/ Acknowledge(k) \/ Resolve(k)
  BY <1>1, <1>5 DEF BeginShutdown, ShutdownReturns, FailInterrupted, GetAlert, Acknowledge, Resolve,
     Mutate, opVars
<1>6. QED
  BY <1>2, <1>3, <1>4, <1>5 DEF OpsNext, OpStep

\* The flags of Shutdown and the bounds on faults and crashes.
LEMMA FlagTypes ==
  ASSUME OpsTypeOK, [OpsNext]_opVars
  PROVE  /\ {stopped', drained', opsUp'} \subseteq BOOLEAN
         /\ opFaults' \in 0..MaxOpFaults /\ opCrashes' \in 0..MaxOpCrashes
<1>1. /\ {stopped, drained, opsUp} \subseteq BOOLEAN
      /\ opFaults \in 0..MaxOpFaults /\ opCrashes \in 0..MaxOpCrashes
      /\ MaxOpFaults \in Nat /\ MaxOpCrashes \in Nat
  BY OperationConstants DEF OpsTypeOK
<1>2. OpFault => opFaults' \in 0..MaxOpFaults
  BY <1>1 DEF OpFault
<1>3. ASSUME NEW o \in Ops, \/ \E ts \in Targets : ObserveManual(o, ts)
                            \/ ObserveUpdate(o) \/ OpStep(o)
      PROVE  /\ UNCHANGED <<stopped, drained, opsUp, opCrashes>> /\ opFaults' \in 0..MaxOpFaults
  BY <1>1, <1>2, <1>3 DEF ObserveManual, ObserveUpdate, OpStep, Accept, RunOp, ReleaseStack, EndOp,
     CompleteOperation
<1>4. CASE ProcessExits
  <2>1. {stopped', drained', opsUp'} \subseteq BOOLEAN /\ opFaults' = opFaults
    BY <1>4 DEF ProcessExits
  <2>2. opCrashes' = opCrashes \/ (opCrashes < MaxOpCrashes /\ opCrashes' = opCrashes + 1)
    <3>1. CASE drained
      BY <1>4, <3>1 DEF ProcessExits
    <3>2. CASE ~drained
      BY <1>4, <3>2 DEF ProcessExits
    <3>3. QED
      BY <3>1, <3>2
  <2>3. opCrashes' \in 0..MaxOpCrashes
    BY <1>1, <2>2
  <2>4. QED
    BY <1>1, <2>1, <2>3
<1>5. CASE \/ BeginShutdown \/ ShutdownReturns \/ FailInterrupted \/ UNCHANGED opVars
           \/ \E k \in Watched : GetAlert(k) \/ Acknowledge(k) \/ Resolve(k)
  BY <1>1, <1>5 DEF BeginShutdown, ShutdownReturns, FailInterrupted, GetAlert, Acknowledge, Resolve,
     Mutate, opVars
<1>6. QED
  BY <1>1, <1>3, <1>4, <1>5 DEF OpsNext

\* The page shows what an alert once was.
LEMMA PageTypes ==
  ASSUME OpsTypeOK, [OpsNext]_opVars
  PROVE  page' \in [Watched -> [rev : Nat, fails : Nat]]
<1>1. page \in [Watched -> [rev : Nat, fails : Nat]]
  BY DEF OpsTypeOK
<1>2. ASSUME NEW k \in Watched, GetAlert(k)
      PROVE  page' \in [Watched -> [rev : Nat, fails : Nat]]
  <2>1. Shown(alerts[k]) \in [rev : Nat, fails : Nat]
    BY OperationConstants DEF OpsTypeOK, Alert, Shown
  <2>2. QED
    BY <1>1, <1>2, <2>1 DEF GetAlert
<1>3. ASSUME NEW o \in Ops, \/ \E ts \in Targets : ObserveManual(o, ts)
                            \/ ObserveUpdate(o) \/ OpStep(o)
      PROVE  page' = page
  BY <1>3 DEF ObserveManual, ObserveUpdate, OpStep, Accept, RunOp, ReleaseStack, EndOp,
     CompleteOperation
<1>4. CASE \/ BeginShutdown \/ ShutdownReturns \/ ProcessExits \/ FailInterrupted
           \/ UNCHANGED opVars
           \/ \E k \in Watched : Acknowledge(k) \/ Resolve(k)
  BY <1>1, <1>4 DEF BeginShutdown, ShutdownReturns, ProcessExits, FailInterrupted, Acknowledge,
     Resolve, Mutate, opVars
<1>5. QED
  BY <1>1, <1>2, <1>3, <1>4 DEF OpsNext

\* Every step keeps the types.
LEMMA OpsTypeNext ==
  ASSUME OpsTypeOK, RowInv, [OpsNext]_opVars
  PROVE  OpsTypeOK'
  BY AlertsNext, JobTypes, RowTypes, TableTypes, FlagTypes, PageTypes DEF OpsTypeOK

-----------------------------------------------------------------------------
(* Rows and observations.                                                  *)

\* Every step of a job moves that job only.
LEMMA StepKinds ==
  ASSUME OpsTypeOK, NEW o \in Ops,
         \/ \E ts \in Targets : ObserveManual(o, ts)
         \/ ObserveUpdate(o) \/ OpStep(o)
  PROVE  \/ Observes(o)
         \/ Goes(o, {"observed"}, {"queued"}) /\ ~stopped /\ o \in tracked'
         \/ Goes(o, {"queued"}, {"running", "releasing"}) \/ Goes(o, {"releasing"}, {"ending"})
         \/ Forgets(o, {"observed"}, {"none"}) \/ Forgets(o, {"running"}, {"releasing"})
         \/ Forgets(o, {"ending"}, {"ended"})
  BY ObserveKinds, AcceptKinds, RunKinds, EndKinds DEF OpStep

\* The other steps end all jobs or leave them alone.
LEMMA OtherKinds ==
  ASSUME \/ BeginShutdown \/ ShutdownReturns \/ FailInterrupted \/ UNCHANGED opVars
         \/ \E k \in Watched : GetAlert(k) \/ Acknowledge(k) \/ Resolve(k)
  PROVE  UNCHANGED <<jobs, tracked, completed, ended>>
  BY DEF BeginShutdown, ShutdownReturns, FailInterrupted, GetAlert, Acknowledge, Resolve,
     Mutate, opVars

\* A new status is the only change of a row that has been accepted.
LEMMA StatusOnly ==
  ASSUME OpsTypeOK, NEW o \in Ops, NEW st, opRows' = [opRows EXCEPT ![o].status = st]
  PROVE  /\ \A p \in Ops : opRows'[p].targets = opRows[p].targets
         /\ \A p \in Ops \ {o} : opRows'[p] = opRows[p]
         /\ opRows'[o].status = st
<1>1. opRows \in [Ops -> OpRow] /\ opRows[o] \in OpRow
  BY DEF OpsTypeOK
<1>2. opRows'[o] = [opRows[o] EXCEPT !.status = st]
  BY <1>1
<1>3. QED
  BY <1>1, <1>2 DEF OpRow

\* What a step does to the rows.
LEMMA RowsNext ==
  ASSUME OpsTypeOK, [OpsNext]_opVars
  PROVE  \/ opRows' = opRows
         \/ \E o \in Ops :
               /\ Goes(o, {"observed"}, {"queued"})
               /\ opRows' = [opRows EXCEPT
                                ![o] = [status |-> "queued", targets |-> jobs[o].targets]]
         \/ \E o \in Ops : /\ Goes(o, {"queued"}, {"running", "releasing"})
                           /\ opRows' = [opRows EXCEPT ![o].status = "running"]
         \/ \E o \in Ops, bad, good \in SUBSET Keys, st \in Terminal :
               CompleteOperation(o, bad, good, st) /\ opRows' = [opRows EXCEPT ![o].status = st]
         \/ FailInterrupted
<1>1. ASSUME NEW o \in Ops, \/ \E ts \in Targets : ObserveManual(o, ts)
                            \/ ObserveUpdate(o) \/ ReleaseStack(o) \/ EndOp(o)
      PROVE  opRows' = opRows
  BY <1>1 DEF ObserveManual, ObserveUpdate, ReleaseStack, EndOp
<1>2. ASSUME NEW o \in Ops, NEW bad, NEW good, NEW st, CompleteOperation(o, bad, good, st)
      PROVE  opRows' = opRows \/ opRows' = [opRows EXCEPT ![o].status = st]
  BY <1>2 DEF CompleteOperation
<1>3. CASE \/ BeginShutdown \/ ShutdownReturns \/ ProcessExits \/ UNCHANGED opVars
           \/ \E k \in Watched : GetAlert(k) \/ Acknowledge(k) \/ Resolve(k)
  BY <1>3 DEF BeginShutdown, ShutdownReturns, ProcessExits, GetAlert, Acknowledge, Resolve,
     Mutate, opVars
<1>4. QED
  BY <1>1, <1>2, <1>3, AcceptKinds, RunKinds DEF OpsNext, OpStep

\* Only finitely many rows exist.
LEMMA AcceptedFinite ==
  ASSUME OpsTypeOK, IsFiniteSet(Accepted), [OpsNext]_opVars
  PROVE  IsFiniteSet(Accepted')
<1>1. opRows \in [Ops -> OpRow]
  BY DEF OpsTypeOK
<1>2. CASE Accepted' \subseteq Accepted
  BY <1>2, FS_Subset
<1>3. ASSUME NEW o \in Ops, Accepted' \subseteq Accepted \cup {o}
      PROVE  IsFiniteSet(Accepted')
  BY <1>3, FS_AddElement, FS_Subset
<1>4. CASE opRows' = opRows
  BY <1>2, <1>4 DEF Accepted
<1>5. ASSUME NEW o \in Ops, \A p \in Ops \ {o} : opRows'[p] = opRows[p]
      PROVE  IsFiniteSet(Accepted')
  <2>1. Accepted' \subseteq Accepted \cup {o}
    BY <1>5 DEF Accepted
  <2>2. QED
    BY <1>3, <2>1
<1>6. CASE FailInterrupted
  <2>1. \A p \in Ops \ Interrupted : opRows'[p] = opRows[p]
    BY <1>6 DEF FailInterrupted
  <2>2. Accepted' \subseteq Accepted
    BY <2>1 DEF Accepted, Interrupted
  <2>3. QED
    BY <1>2, <2>2
<1>7. QED
  BY <1>1, <1>4, <1>5, <1>6, RowsNext, StatusOnly

\* The row of a job that has not completed names its targets.
LEMMA TargetsNext ==
  ASSUME OpsTypeOK, RowInv, [OpsNext]_opVars, NEW p \in Ops, jobs'[p].pc \in {"queued", "running"}
  PROVE  opRows'[p].targets = jobs'[p].targets
<1>1. opRows \in [Ops -> OpRow] /\ jobs \in [Ops -> OpJob]
  BY DEF OpsTypeOK
<1>2. jobs[p].pc \in {"queued", "running"} => opRows[p].targets = jobs[p].targets
  BY DEF RowInv
<1>3. ASSUME NEW o \in Ops, \/ \E ts \in Targets : ObserveManual(o, ts)
                            \/ ObserveUpdate(o) \/ ReleaseStack(o) \/ EndOp(o)
      PROVE  opRows'[p].targets = jobs'[p].targets
  BY <1>2, <1>3, ObserveKinds, EndKinds DEF Observes, Goes, Forgets
<1>4. ASSUME NEW o \in Ops, Accept(o)
      PROVE  opRows'[p].targets = jobs'[p].targets
  <2>1. CASE Forgets(o, {"observed"}, {"none"}) /\ opRows' = opRows
    BY <1>2, <2>1 DEF Forgets
  <2>2. CASE /\ Goes(o, {"observed"}, {"queued"})
             /\ opRows' = [opRows EXCEPT ![o] = [status |-> "queued", targets |-> jobs[o].targets]]
    <3>1. opRows'[o].targets = jobs[o].targets /\ \A q \in Ops \ {o} : opRows'[q] = opRows[q]
      BY <1>1, <2>2
    <3>2. QED
      BY <1>2, <2>2, <3>1 DEF Goes
  <2>3. QED
    BY <1>4, <2>1, <2>2, AcceptKinds
<1>5. ASSUME NEW o \in Ops, RunOp(o)
      PROVE  opRows'[p].targets = jobs'[p].targets
  <2>1. opRows'[p].targets = opRows[p].targets
    BY <1>5, RunKinds, StatusOnly
  <2>2. QED
    BY <1>2, <1>5, <2>1, RunKinds DEF Goes
<1>6. ASSUME NEW o \in Ops, NEW bad, NEW good, NEW st, CompleteOperation(o, bad, good, st)
      PROVE  opRows'[p].targets = jobs'[p].targets
  <2>1. opRows'[p].targets = opRows[p].targets
    BY <1>6, StatusOnly DEF CompleteOperation
  <2>2. QED
    BY <1>2, <1>6, <2>1, EndKinds DEF Forgets
<1>7. CASE ProcessExits
  BY <1>7, ExitJobs
<1>8. CASE FailInterrupted
  <2>1. opRows'[p].targets = opRows[p].targets
    BY <1>1, <1>8 DEF FailInterrupted, OpRow
  <2>2. QED
    BY <1>2, <1>8, <2>1 DEF FailInterrupted
<1>9. CASE \/ BeginShutdown \/ ShutdownReturns \/ UNCHANGED opVars
           \/ \E k \in Watched : GetAlert(k) \/ Acknowledge(k) \/ Resolve(k)
  BY <1>2, <1>9 DEF BeginShutdown, ShutdownReturns, GetAlert, Acknowledge, Resolve, Mutate, opVars
<1>10. QED
  BY <1>3, <1>4, <1>5, <1>6, <1>7, <1>8, <1>9 DEF OpsNext, OpStep

\* Every step keeps RowInv.
LEMMA RowInvNext ==
  ASSUME OpsTypeOK, RowInv, [OpsNext]_opVars
  PROVE  RowInv'
<1>1. ASSUME NEW p \in Ops, jobs'[p].update
      PROVE  jobs'[p].targets = {}
  <2>1. jobs[p].update => jobs[p].targets = {}
    BY DEF RowInv
  <2>2. ASSUME NEW o \in Ops, \/ \E ts \in Targets : ObserveManual(o, ts)
                              \/ ObserveUpdate(o) \/ OpStep(o)
        PROVE  jobs'[p].targets = {}
    BY <1>1, <2>1, <2>2, StepKinds DEF Observes, Goes, Forgets
  <2>3. CASE ProcessExits
    BY <1>1, <2>3, ExitJobs
  <2>4. QED
    BY <1>1, <2>1, <2>2, <2>3, OtherKinds DEF OpsNext
<1>2. QED
  BY <1>1, AcceptedFinite, TargetsNext DEF RowInv

\* What an operation has observed is no newer than the alert, and as old only while the
\* alert has not failed again.
LEMMA FreshInvNext ==
  ASSUME OpsTypeOK, RowInv, FreshInv, [OpsNext]_opVars
  PROVE  FreshInv'
<1>1. SUFFICES ASSUME NEW p \in Ops, NEW k \in Keys, jobs'[p].revs[k] > 0
               PROVE  /\ jobs'[p].revs[k] <= alerts'[k].rev
                      /\ jobs'[p].revs[k] = alerts'[k].rev => jobs'[p].saw[k] = alerts'[k].fails
  BY DEF FreshInv
<1>2. Grown(alerts[k], alerts'[k]) /\ alerts[k] \in Alert /\ alerts'[k] \in Alert
  BY AlertsNext DEF OpsTypeOK
<1>3. /\ alerts[k].rev \in Nat /\ alerts'[k].rev \in Nat /\ alerts[k].rev <= alerts'[k].rev
      /\ alerts[k].rev = alerts'[k].rev => alerts[k].fails = alerts'[k].fails
  BY <1>2 DEF Alert, Grown
<1>4. jobs[p].revs[k] \in Nat /\ jobs'[p].revs[k] \in Nat
  BY JobTypes DEF OpsTypeOK, OpJob
<1>5. CASE jobs'[p].revs[k] = jobs[p].revs[k] /\ jobs'[p].saw[k] = jobs[p].saw[k]
  <2>1. /\ jobs[p].revs[k] <= alerts[k].rev
        /\ jobs[p].revs[k] = alerts[k].rev => jobs[p].saw[k] = alerts[k].fails
    BY <1>1, <1>5 DEF FreshInv
  <2>2. jobs'[p].revs[k] <= alerts'[k].rev
    BY <1>3, <1>4, <1>5, <2>1
  <2>3. jobs'[p].revs[k] = alerts'[k].rev =>
          alerts[k].rev = alerts'[k].rev /\ jobs[p].revs[k] = alerts[k].rev
    BY <1>3, <1>4, <1>5, <2>1
  <2>4. QED
    BY <1>3, <1>5, <2>1, <2>2, <2>3
<1>6. ASSUME NEW o \in Ops, Observes(o)
      PROVE  \/ jobs'[p].revs[k] = jobs[p].revs[k] /\ jobs'[p].saw[k] = jobs[p].saw[k]
             \/ /\ jobs'[p].revs[k] \in {0, alerts[k].rev} /\ alerts'[k] = alerts[k]
                /\ jobs'[p].saw[k] = alerts[k].fails
  BY <1>1, <1>6 DEF Observes
<1>7. CASE /\ jobs'[p].revs[k] \in {0, alerts[k].rev} /\ alerts'[k] = alerts[k]
           /\ jobs'[p].saw[k] = alerts[k].fails
  BY <1>1, <1>3, <1>4, <1>7
<1>8. ASSUME NEW o \in Ops, NEW from, NEW to, Goes(o, from, to) \/ Forgets(o, from, to)
      PROVE  jobs'[p].revs[k] = jobs[p].revs[k] /\ jobs'[p].saw[k] = jobs[p].saw[k]
  BY <1>1, <1>8 DEF Goes, Forgets
<1>9. ASSUME NEW o \in Ops, \/ \E ts \in Targets : ObserveManual(o, ts)
                            \/ ObserveUpdate(o) \/ OpStep(o)
      PROVE  /\ jobs'[p].revs[k] <= alerts'[k].rev
             /\ jobs'[p].revs[k] = alerts'[k].rev => jobs'[p].saw[k] = alerts'[k].fails
  BY <1>5, <1>6, <1>7, <1>8, <1>9, StepKinds
<1>10. CASE ProcessExits
  <2>1. jobs'[p].revs[k] = 0
    BY <1>10, ExitJobs
  <2>2. QED
    BY <1>1, <2>1
<1>11. CASE UNCHANGED <<jobs, tracked, completed, ended>>
  BY <1>5, <1>11
<1>12. QED
  BY <1>9, <1>10, <1>11, OtherKinds DEF OpsNext

-----------------------------------------------------------------------------
(* The table of Wait.                                                      *)

\* The table with the operation that ends, before it is trimmed.
LEMMA EndedTable ==
  ASSUME OpsTypeOK, TrackInv, TableInv, NEW o \in Ops, EndOp(o),
         NEW done, done = Append(completed, o)
  PROVE  /\ done \in Seq(Ops) /\ Len(done) = Len(completed) + 1
         /\ ended' \in Seq(Ops) /\ Len(ended') = Len(ended) + 1
         /\ \A i \in 1..Len(done) :
               /\ done[i] = ended'[Len(ended') - Len(done) + i]
               /\ done[i] \in tracked /\ jobs'[done[i]].pc = "ended"
         /\ \A i, j \in 1..Len(done) : done[i] = done[j] => i = j
<1>1. completed \in Seq(Ops) /\ ended \in Seq(Ops) /\ Keep \in Nat /\ ended' = Append(ended, o)
  BY OperationConstants DEF OpsTypeOK, EndOp
<1>2. PICK c \in Nat, e \in Nat : c = Len(completed) /\ e = Len(ended)
  BY <1>1, LenProperties
<1>3. c <= e
  BY <1>1, <1>2 DEF TableInv
<1>4. /\ done \in Seq(Ops) /\ Len(done) = c + 1 /\ done[c + 1] = o
      /\ \A i \in 1..c : done[i] = completed[i]
  BY <1>1, <1>2, AppendProperties
<1>5. /\ ended' \in Seq(Ops) /\ Len(ended') = e + 1 /\ ended'[e + 1] = o
      /\ \A i \in 1..e : ended'[i] = ended[i]
  BY <1>1, <1>2, AppendProperties
<1>6. Forgets(o, {"ending"}, {"ended"})
  BY EndKinds
<1>7. ASSUME NEW i \in 1..c
      PROVE  /\ done[i] = ended'[e - c + i] /\ done[i] \in tracked
             /\ jobs'[done[i]].pc = "ended" /\ done[i] # o
  <2>1. /\ completed[i] = ended[e - c + i] /\ completed[i] \in tracked
        /\ jobs[completed[i]].pc = "ended" /\ completed[i] \in Ops
    BY <1>1, <1>2, <1>7, ElementOfSeq DEF TableInv
  <2>2. e - c + i \in 1..e
    BY <1>3
  <2>3. completed[i] # o
    BY <1>6, <2>1 DEF Forgets
  <2>4. QED
    BY <1>4, <1>5, <1>6, <2>1, <2>2, <2>3 DEF Forgets
<1>8. o \in tracked /\ jobs'[o].pc = "ended"
  BY <1>6 DEF Forgets, TrackInv, LivePcs
<1>9. ASSUME NEW i \in 1..Len(done)
      PROVE  /\ done[i] = ended'[Len(ended') - Len(done) + i]
             /\ done[i] \in tracked /\ jobs'[done[i]].pc = "ended"
  <2>1. CASE i = c + 1
    <3>1. Len(ended') - Len(done) + i = e + 1
      BY <1>4, <1>5, <2>1
    <3>2. QED
      BY <1>4, <1>5, <1>8, <2>1, <3>1
  <2>2. CASE i \in 1..c
    <3>1. Len(ended') - Len(done) + i = e - c + i
      BY <1>4, <1>5, <2>2
    <3>2. QED
      BY <1>7, <2>2, <3>1
  <2>3. QED
    BY <1>4, <2>1, <2>2
<1>10. ASSUME NEW i \in 1..Len(done), NEW j \in 1..Len(done), done[i] = done[j]
       PROVE  i = j
  <2>1. i \in 1..c \/ i = c + 1
    BY <1>4
  <2>2. j \in 1..c \/ j = c + 1
    BY <1>4
  <2>3. CASE i \in 1..c /\ j \in 1..c
    BY <1>2, <1>4, <1>10, <2>3 DEF TableInv
  <2>4. QED
    BY <1>4, <1>7, <1>10, <2>1, <2>2, <2>3
<1>11. QED
  BY <1>2, <1>4, <1>5, <1>9, <1>10

\* The end of the goroutine: the operation is appended, and when the table is full the
\* oldest one goes, which is done and is none of those that stay.
LEMMA EndTableInv ==
  ASSUME OpsTypeOK, TrackInv, TableInv, NEW o \in Ops, EndOp(o)
  PROVE  TrackInv' /\ TableInv'
<1>1. PICK done : done = Append(completed, o)
  OBVIOUS
<1>2. /\ done \in Seq(Ops) /\ Len(done) = Len(completed) + 1
      /\ ended' \in Seq(Ops) /\ Len(ended') = Len(ended) + 1
      /\ \A i \in 1..Len(done) :
            /\ done[i] = ended'[Len(ended') - Len(done) + i]
            /\ done[i] \in tracked /\ jobs'[done[i]].pc = "ended"
      /\ \A i, j \in 1..Len(done) : done[i] = done[j] => i = j
  BY <1>1, EndedTable
<1>3. PICK c \in Nat, e \in Nat : c = Len(completed) /\ e = Len(ended)
  BY LenProperties DEF OpsTypeOK
<1>4. Keep \in Nat /\ c = (IF e < Keep THEN e ELSE Keep)
  BY <1>3, OperationConstants DEF TableInv
<1>5. \A p \in Ops : jobs'[p].pc \in LivePcs => jobs[p].pc \in LivePcs
  BY EndKinds DEF Forgets, LivePcs
<1>6. CASE Len(done) > Keep
  <2>1. completed' = Tail(done) /\ tracked' = tracked \ {Head(done)}
    BY <1>1, <1>6 DEF EndOp, DropOldest
  <2>2. c = Keep /\ e >= Keep /\ Len(done) = c + 1 /\ Len(ended') = e + 1
    BY <1>2, <1>3, <1>4, <1>6
  <2>3. done # <<>> /\ Head(done) = done[1] /\ Len(Tail(done)) = c
        /\ \A i \in 1..c : Tail(done)[i] = done[i + 1]
    <3>1. done # <<>>
      BY <1>2, <2>2, EmptySeq
    <3>2. QED
      BY <1>2, <2>2, <3>1, HeadTailProperties
  <2>4. 1 \in 1..Len(done) /\ jobs'[done[1]].pc = "ended"
    BY <1>2, <2>2
  <2>5. TrackInv'
    BY <1>5, <2>1, <2>3, <2>4 DEF TrackInv, LivePcs
  <2>6. Len(completed') = c /\ c = (IF Len(ended') < Keep THEN Len(ended') ELSE Keep)
    BY <2>1, <2>2, <2>3
  <2>7. ASSUME NEW i \in 1..c
        PROVE  /\ completed'[i] = ended'[Len(ended') - c + i]
               /\ completed'[i] \in tracked' /\ jobs'[completed'[i]].pc = "ended"
    <3>1. completed'[i] = done[i + 1] /\ i + 1 \in 1..Len(done) /\ i + 1 # 1
      BY <2>1, <2>2, <2>3
    <3>2. Len(ended') - Len(done) + (i + 1) = Len(ended') - c + i
      BY <2>2
    <3>3. done[i + 1] # done[1]
      BY <1>2, <2>4, <3>1
    <3>4. QED
      BY <1>2, <2>1, <2>3, <3>1, <3>2, <3>3
  <2>8. ASSUME NEW i \in 1..c, NEW j \in 1..c, completed'[i] = completed'[j]
        PROVE  i = j
    <3>1. i + 1 \in 1..Len(done) /\ j + 1 \in 1..Len(done) /\ done[i + 1] = done[j + 1]
      BY <2>1, <2>2, <2>3, <2>8
    <3>2. i + 1 = j + 1
      BY <1>2, <3>1
    <3>3. QED
      BY <3>2
  <2>9. QED
    BY <2>5, <2>6, <2>7, <2>8 DEF TableInv
<1>7. CASE ~(Len(done) > Keep)
  <2>1. completed' = done /\ tracked' = tracked
    BY <1>1, <1>7 DEF EndOp
  <2>2. Len(done) = (IF Len(ended') < Keep THEN Len(ended') ELSE Keep)
    BY <1>2, <1>3, <1>4, <1>7
  <2>3. TrackInv'
    BY <1>5, <2>1 DEF TrackInv
  <2>4. QED
    BY <1>2, <2>1, <2>2, <2>3 DEF TableInv
<1>8. QED
  BY <1>6, <1>7

\* Only the end of a goroutine removes an entry of the table, short of an exit.
LEMMA TableInvNext ==
  ASSUME OpsTypeOK, TrackInv, TableInv, [OpsNext]_opVars
  PROVE  TrackInv' /\ TableInv'
<1>1. ASSUME NEW o \in Ops,
             \/ Observes(o)
             \/ Goes(o, {"observed"}, {"queued"}) /\ o \in tracked'
             \/ Goes(o, {"queued"}, {"running", "releasing"}) \/ Goes(o, {"releasing"}, {"ending"})
             \/ Forgets(o, {"observed"}, {"none"}) \/ Forgets(o, {"running"}, {"releasing"}),
             tracked \subseteq tracked', completed' = completed, ended' = ended
      PROVE  TrackInv' /\ TableInv'
  <2>1. \A p \in Ops : jobs'[p].pc \in LivePcs => jobs[p].pc \in LivePcs \/ p \in tracked'
    BY <1>1 DEF Observes, Goes, Forgets, LivePcs
  <2>2. TrackInv'
    BY <1>1, <2>1 DEF TrackInv
  <2>3. \A p \in Ops : jobs[p].pc = "ended" => jobs'[p].pc = "ended"
    BY <1>1 DEF Observes, Goes, Forgets
  <2>4. \A i \in 1..Len(completed) : completed[i] \in Ops
    BY ElementOfSeq DEF OpsTypeOK
  <2>5. QED
    BY <1>1, <2>2, <2>3, <2>4 DEF TableInv
<1>2. ASSUME NEW o \in Ops, \/ \E ts \in Targets : ObserveManual(o, ts)
                            \/ ObserveUpdate(o) \/ Accept(o) \/ RunOp(o) \/ ReleaseStack(o)
                            \/ \E bad, good, st : CompleteOperation(o, bad, good, st)
      PROVE  tracked \subseteq tracked' /\ completed' = completed /\ ended' = ended
  BY <1>2 DEF ObserveManual, ObserveUpdate, Accept, RunOp, ReleaseStack, CompleteOperation
<1>3. ASSUME NEW o \in Ops, \/ \E ts \in Targets : ObserveManual(o, ts)
                            \/ ObserveUpdate(o) \/ Accept(o) \/ RunOp(o) \/ ReleaseStack(o)
                            \/ \E bad, good, st : CompleteOperation(o, bad, good, st)
      PROVE  TrackInv' /\ TableInv'
  <2>1. \/ Observes(o)
        \/ Goes(o, {"observed"}, {"queued"}) /\ o \in tracked'
        \/ Goes(o, {"queued"}, {"running", "releasing"}) \/ Goes(o, {"releasing"}, {"ending"})
        \/ Forgets(o, {"observed"}, {"none"}) \/ Forgets(o, {"running"}, {"releasing"})
    BY <1>3, ObserveKinds, AcceptKinds, RunKinds, EndKinds
  <2>2. QED
    BY <1>1, <1>2, <1>3, <2>1
<1>4. CASE ProcessExits
  <2>1. TrackInv'
    BY <1>4, ExitJobs DEF TrackInv, LivePcs
  <2>2. TableInv'
    <3>1. completed' = <<>> /\ ended' = <<>> /\ Keep \in Nat
      BY <1>4, OperationConstants DEF ProcessExits
    <3>2. Len(completed') = 0 /\ Len(ended') = 0
      BY <3>1
    <3>3. QED
      BY <3>1, <3>2 DEF TableInv
  <2>3. QED
    BY <2>1, <2>2
<1>5. CASE UNCHANGED <<jobs, tracked, completed, ended>>
  BY <1>5 DEF TrackInv, TableInv
<1>6. QED
  BY <1>3, <1>4, <1>5, EndTableInv, OtherKinds DEF OpsNext, OpStep

-----------------------------------------------------------------------------
(* Failures and Shutdown.                                                  *)

\* A completed operation that failed is on the alert of a target that failed.
LEMMA CompletedIsAlerted ==
  ASSUME OpsTypeOK, RowInv, NEW o \in Ops, NEW bad, NEW good, NEW st,
         CompleteOperation(o, bad, good, st), st # "succeeded", opRows[o].targets # {},
         alerts' = Applied(bad, CurrentRecoveries(good, jobs[o].revs), o)
  PROVE  \E k \in opRows[o].targets : o \in alerts'[k].occ
<1>1. /\ opRows[o].targets = jobs[o].targets /\ jobs[o].pc = "running"
      /\ jobs[o].update => jobs[o].targets = {}
  BY DEF RowInv, CompleteOperation
<1>2. ~jobs[o].update
  BY <1>1
<1>3. bad # {} /\ bad \subseteq jobs[o].targets
  BY <1>2 DEF CompleteOperation
<1>4. bad \subseteq Keys
  BY <1>3 DEF OpsTypeOK, OpJob
<1>5. \A k \in bad : o \in alerts'[k].occ
  BY <1>4, AppliedFacts
<1>6. QED
  BY <1>1, <1>3, <1>5

\* A failure is recorded with the alert in one transaction, and no later step takes the
\* operation off the alert.
LEMMA FailureNext ==
  ASSUME OpsTypeOK, RowInv, AlertInv, FailureIsAlerted, [OpsNext]_opVars
  PROVE  FailureIsAlerted'
<1>1. SUFFICES ASSUME NEW p \in Ops, opRows'[p].status \in {"failed", "cancelled"},
                      opRows'[p].targets # {}
               PROVE  \E k \in opRows'[p].targets : p \in alerts'[k].occ /\ alerts'[k].fails > 0
  BY DEF FailureIsAlerted
<1>2. opRows \in [Ops -> OpRow] /\ opRows' \in [Ops -> OpRow]
  BY RowTypes DEF OpsTypeOK
<1>3. opRows'[p].targets \subseteq Keys /\ opRows[p].targets \subseteq Keys
  BY <1>2 DEF OpRow
<1>4. SUFFICES \E k \in opRows'[p].targets : p \in alerts'[k].occ
  BY <1>3, AlertInvNext DEF AlertInv
<1>5. CASE opRows'[p] = opRows[p]
  <2>1. PICK k \in opRows[p].targets : p \in alerts[k].occ
    BY <1>1, <1>5 DEF FailureIsAlerted
  <2>2. alerts[k].occ \subseteq alerts'[k].occ
    BY <1>3, <2>1, AlertsNext DEF Grown
  <2>3. QED
    BY <1>5, <2>1, <2>2
<1>6. ASSUME NEW o \in Ops, Accept(o)
      PROVE  \E k \in opRows'[p].targets : p \in alerts'[k].occ
  <2>1. CASE opRows' = opRows
    BY <1>5, <2>1
  <2>2. CASE opRows' = [opRows EXCEPT ![o] = [status |-> "queued", targets |-> jobs[o].targets]]
    <3>1. opRows'[o].status = "queued" /\ \A q \in Ops \ {o} : opRows'[q] = opRows[q]
      BY <1>2, <2>2
    <3>2. QED
      BY <1>1, <1>5, <3>1
  <2>3. QED
    BY <1>6, <2>1, <2>2, AcceptKinds
<1>7. ASSUME NEW o \in Ops, RunOp(o)
      PROVE  opRows'[p] = opRows[p]
  <2>1. CASE opRows' = opRows
    BY <2>1
  <2>2. CASE opRows' = [opRows EXCEPT ![o].status = "running"]
    BY <1>1, <2>2, StatusOnly
  <2>3. QED
    BY <1>7, <2>1, <2>2, RunKinds
<1>8. ASSUME NEW o \in Ops, NEW bad, NEW good, NEW st, CompleteOperation(o, bad, good, st)
      PROVE  \E k \in opRows'[p].targets : p \in alerts'[k].occ
  <2>1. CASE opRows' = opRows
    BY <1>5, <2>1
  <2>2. CASE /\ opRows' = [opRows EXCEPT ![o].status = st]
             /\ alerts' = Applied(bad, CurrentRecoveries(good, jobs[o].revs), o)
    <3>1. /\ opRows'[o].targets = opRows[o].targets /\ opRows'[o].status = st
          /\ p # o => opRows'[p] = opRows[p]
      BY <2>2, StatusOnly
    <3>2. CASE p = o
      <4>1. st # "succeeded" /\ opRows[o].targets # {}
        BY <1>1, <3>1, <3>2
      <4>2. QED
        BY <1>8, <2>2, <3>1, <3>2, <4>1, CompletedIsAlerted
    <3>3. QED
      BY <1>5, <3>1, <3>2
  <2>3. QED
    BY <1>8, <2>1, <2>2 DEF CompleteOperation
<1>9. CASE FailInterrupted
  <2>1. CASE p \in Interrupted
    <3>1. opRows'[p].targets = opRows[p].targets
      BY <1>2, <1>9 DEF FailInterrupted, OpRow
    <3>2. \A k \in opRows[p].targets : p \in alerts'[k].occ
      BY <1>3, <1>9, <2>1, InterruptedFacts DEF FailInterrupted
    <3>3. QED
      BY <1>1, <3>1, <3>2
  <2>2. CASE p \notin Interrupted
    BY <1>5, <1>9, <2>2 DEF FailInterrupted
  <2>3. QED
    BY <2>1, <2>2
<1>10. ASSUME NEW o \in Ops, \/ \E ts \in Targets : ObserveManual(o, ts)
                             \/ ObserveUpdate(o) \/ ReleaseStack(o) \/ EndOp(o)
       PROVE  opRows'[p] = opRows[p]
  BY <1>10 DEF ObserveManual, ObserveUpdate, ReleaseStack, EndOp
<1>11. CASE \/ BeginShutdown \/ ShutdownReturns \/ ProcessExits \/ UNCHANGED opVars
            \/ \E k \in Watched : GetAlert(k) \/ Acknowledge(k) \/ Resolve(k)
  <2>1. opRows'[p] = opRows[p]
    BY <1>11 DEF BeginShutdown, ShutdownReturns, ProcessExits, GetAlert, Acknowledge, Resolve,
       Mutate, opVars
  <2>2. QED
    BY <1>5, <2>1
<1>12. QED
  BY <1>5, <1>6, <1>7, <1>8, <1>9, <1>10, <1>11 DEF OpsNext, OpStep

\* A job that is not done is in the table that Shutdown waits for, and none is accepted
\* once it has begun.
LEMMA DrainNext ==
  ASSUME OpsTypeOK, TrackInv, DrainedIsQuiet, drained => stopped, [OpsNext]_opVars
  PROVE  DrainedIsQuiet' /\ (drained' => stopped')
<1>1. \A p \in Ops : jobs[p].pc \in JobPcs
  BY DEF OpsTypeOK, OpJob
<1>2. ASSUME NEW o \in Ops, \/ \E ts \in Targets : ObserveManual(o, ts)
                            \/ ObserveUpdate(o) \/ OpStep(o)
      PROVE  DrainedIsQuiet' /\ (drained' => stopped')
  <2>1. drained' = drained /\ stopped' = stopped
    BY <1>2 DEF ObserveManual, ObserveUpdate, OpStep, Accept, RunOp, ReleaseStack, EndOp,
       CompleteOperation
  <2>2. ASSUME drained, NEW p \in Ops
        PROVE  jobs'[p].pc \in {"none", "observed", "ended"}
    <3>1. /\ jobs[p].pc \in {"none", "observed", "ended"}
          /\ jobs[o].pc \in {"none", "observed", "ended"}
      BY <2>2 DEF DrainedIsQuiet
    <3>2. QED
      BY <1>2, <2>2, <3>1, StepKinds DEF Observes, Goes, Forgets
  <2>3. QED
    BY <2>1, <2>2 DEF DrainedIsQuiet
<1>3. CASE ShutdownReturns
  <2>1. \A p \in Ops : jobs[p].pc \in LivePcs => jobs[p].pc = "ended"
    BY <1>3 DEF ShutdownReturns, TrackInv
  <2>2. \A p \in Ops : jobs[p].pc \in {"none", "observed", "ended"}
    BY <1>1, <2>1 DEF JobPcs, LivePcs
  <2>3. QED
    BY <1>3, <2>2 DEF ShutdownReturns, DrainedIsQuiet
<1>4. CASE ProcessExits
  BY <1>4 DEF ProcessExits, DrainedIsQuiet
<1>5. CASE \/ BeginShutdown \/ FailInterrupted \/ UNCHANGED opVars
           \/ \E k \in Watched : GetAlert(k) \/ Acknowledge(k) \/ Resolve(k)
  <2>1. UNCHANGED <<jobs, drained>> /\ (stopped => stopped')
    BY <1>5 DEF BeginShutdown, FailInterrupted, GetAlert, Acknowledge, Resolve, Mutate, opVars
  <2>2. QED
    BY <2>1 DEF DrainedIsQuiet
<1>6. QED
  BY <1>2, <1>3, <1>4, <1>5 DEF OpsNext

-----------------------------------------------------------------------------
(* The invariant.                                                          *)

\* The invariant holds in the first state.
LEMMA OpsInitInv ==
  ASSUME OpsInit
  PROVE  OpsInv
<1>1. /\ opRows = [o \in Ops |-> [status |-> "absent", targets |-> {}]]
      /\ jobs = [o \in Ops |-> NoJob]
      /\ tracked = {} /\ completed = <<>> /\ ended = <<>>
      /\ stackLock = NoOp /\ stopped = FALSE /\ drained = FALSE /\ opsUp = TRUE
      /\ page = [k \in Watched |-> Shown(NoAlert)] /\ opFaults = 0 /\ opCrashes = 0
      /\ alerts \in [Keys -> {NoAlert, OldAlert}]
  BY DEF OpsInit
<1>2. Keep \in Nat /\ MaxOpFaults \in Nat /\ MaxOpCrashes \in Nat
  BY OperationConstants
<1>3. NoJob.pc = "none" /\ NoJob.update = FALSE /\ \A k \in Keys : NoJob.revs[k] = 0
  BY DEF NoJob
<1>4. Len(completed) = 0 /\ Len(ended) = 0
  BY <1>1
<1>5. OpsTypeOK
  <2>1. [status |-> "absent", targets |-> {}] \in OpRow
    BY DEF OpRow
  <2>2. Shown(NoAlert) \in [rev : Nat, fails : Nat]
    BY DEF Shown, NoAlert
  <2>3. opRows \in [Ops -> OpRow] /\ jobs \in [Ops -> OpJob] /\ alerts \in [Keys -> Alert]
    BY <1>1, <2>1, NoTypes
  <2>4. page \in [Watched -> [rev : Nat, fails : Nat]]
    BY <1>1, <2>2
  <2>5. completed \in Seq(Ops) /\ Len(completed) <= Keep /\ ended \in Seq(Ops)
    BY <1>1, <1>2, <1>4
  <2>6. opFaults \in 0..MaxOpFaults /\ opCrashes \in 0..MaxOpCrashes
    BY <1>1, <1>2
  <2>7. QED
    BY <1>1, <2>3, <2>4, <2>5, <2>6 DEF OpsTypeOK
<1>6. RowInv
  <2>1. Accepted = {}
    BY <1>1 DEF Accepted
  <2>2. QED
    BY <1>1, <1>3, <2>1, FS_EmptySet DEF RowInv
<1>7. AlertInv
  <2>1. OldAlert.fails = 1 /\ NoAlert.rev = 0 /\ NoAlert.occ = {}
    BY DEF OldAlert, NoAlert
  <2>2. \A k \in Keys : alerts[k] = NoAlert \/ alerts[k] = OldAlert
    BY <1>1
  <2>3. QED
    BY <2>1, <2>2 DEF AlertInv
<1>8. FreshInv /\ TrackInv
  BY <1>1, <1>3 DEF FreshInv, TrackInv, LivePcs
<1>9. TableInv
  BY <1>1, <1>2, <1>4 DEF TableInv
<1>10. FailureIsAlerted /\ DrainedIsQuiet /\ (drained => stopped)
  BY <1>1 DEF FailureIsAlerted, DrainedIsQuiet
<1>11. QED
  BY <1>5, <1>6, <1>7, <1>8, <1>9, <1>10 DEF OpsInv

\* Every step keeps the invariant.
LEMMA OpsInvNext ==
  ASSUME OpsInv, [OpsNext]_opVars
  PROVE  OpsInv'
  BY OpsTypeNext, RowInvNext, AlertInvNext, FreshInvNext, TableInvNext, FailureNext, DrainNext
  DEF OpsInv

\* Wait: the table holds the last Keep operations that ended.
LEMMA RecentInTable ==
  ASSUME OpsTypeOK, TrackInv, TableInv
  PROVE  WaitFindsRecent
<1>1. PICK c \in Nat, e \in Nat : c = Len(completed) /\ e = Len(ended)
  BY LenProperties DEF OpsTypeOK
<1>2. Keep \in Nat /\ c = (IF e < Keep THEN e ELSE Keep)
  BY <1>1, OperationConstants DEF TableInv
<1>3. ASSUME NEW i \in 1..e, e - i < Keep
      PROVE  ended[i] \in tracked
  <2>1. i - (e - c) \in 1..c /\ e - c + (i - (e - c)) = i
    BY <1>2, <1>3
  <2>2. PICK j \in 1..c : e - c + j = i
    BY <2>1
  <2>3. QED
    BY <1>1, <2>2 DEF TableInv
<1>4. QED
  BY <1>1, <1>3 DEF WaitFindsRecent, TrackInv, LivePcs

\* An alert that a completion resolves is still the one that its operation observed.
LEMMA FreshStep ==
  ASSUME OpsInv, [OpsNext]_opVars, NEW o \in Ops, NEW k \in Keys,
         jobs[o].pc = "running", jobs'[o].pc = "releasing", Open(alerts[k]), alerts'[k].resolved
  PROVE  jobs[o].saw[k] = alerts[k].fails
<1>1. OpsTypeOK /\ FreshInv
  BY DEF OpsInv
<1>2. jobs'[o] # jobs[o]
  OBVIOUS
<1>3. PICK p \in Ops : \/ \E ts \in Targets : ObserveManual(p, ts)
                       \/ ObserveUpdate(p) \/ OpStep(p)
  BY <1>1, <1>2, OtherKinds, ExitJobs DEF OpsNext
<1>4. p = o
  BY <1>1, <1>2, <1>3, StepKinds DEF Observes, Goes, Forgets
<1>5. PICK bad, good, st : CompleteOperation(o, bad, good, st)
  BY <1>1, <1>3, <1>4, ObserveKinds, AcceptKinds, RunKinds, EndKinds
  DEF OpStep, Observes, Goes, Forgets
<1>6. alerts'[k] # alerts[k]
  BY DEF Open
<1>7. alerts' = Applied(bad, CurrentRecoveries(good, jobs[o].revs), o)
  BY <1>5, <1>6 DEF CompleteOperation
<1>8. k \in CurrentRecoveries(good, jobs[o].revs)
  BY <1>1, <1>7, AppliedFacts
<1>9. alerts[k].rev > 0 /\ alerts[k].rev = jobs[o].revs[k]
  BY <1>8 DEF CurrentRecoveries
<1>10. QED
  BY <1>1, <1>9 DEF FreshInv

\* The invariant of OperationService and its tables, in every reachable state.
THEOREM Invariance == OpsSpec => []OpsInv
  BY OpsInitInv, OpsInvNext, PTL DEF OpsSpec

\* OperationService and its tables keep their types; the table of completed operations
\* keeps its bound.
THEOREM OpsTypeCorrect == OpsSpec => []OpsTypeOK
<1>1. OpsInv => OpsTypeOK
  BY DEF OpsInv
<1>2. QED
  BY <1>1, Invariance, PTL

\* An operation that failed or was cancelled and had targets is on the alert of one of
\* them, also when a restart ended it (CompleteOperation, FailInterrupted).
THEOREM FailuresAreAlerted == OpsSpec => []FailureIsAlerted
<1>1. OpsInv => FailureIsAlerted
  BY DEF OpsInv
<1>2. QED
  BY <1>1, Invariance, PTL

\* Wait finds every operation that is running or among the last Keep that ended
\* (StartTracked and the deferred trimming of jobs).
THEOREM WaitFinds == OpsSpec => []WaitFindsRecent
<1>1. OpsInv => WaitFindsRecent
  BY RecentInTable DEF OpsInv
<1>2. QED
  BY <1>1, Invariance, PTL

\* Once Shutdown has returned, no operation runs and none will (OperationService.Shutdown,
\* the check of stopping in StartTracked).
THEOREM ShutdownDrains == OpsSpec => []DrainedIsQuiet
<1>1. OpsInv => DrainedIsQuiet
  BY DEF OpsInv
<1>2. QED
  BY <1>1, Invariance, PTL

\* A completion resolves only an alert that has not failed since the operation observed it
\* (currentAlertChanges).
THEOREM RecoveriesAreFresh == OpsSpec => RecoveryIsFresh
<1>1. OpsInv /\ [OpsNext]_opVars =>
        [\A o \in Ops, k \in Keys :
            jobs[o].pc = "running" /\ jobs'[o].pc = "releasing" /\ Open(alerts[k])
               /\ alerts'[k].resolved => jobs[o].saw[k] = alerts[k].fails]_opVars
  BY FreshStep
<1>2. QED
  BY <1>1, Invariance, PTL DEF OpsSpec, RecoveryIsFresh

=============================================================================

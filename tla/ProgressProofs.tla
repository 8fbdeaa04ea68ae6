--------------------------- MODULE ProgressProofs ---------------------------
(***************************************************************************)
(* TrafficListener, and the composition that TLC checks in one run         *)
(* (MCProgress).                                                           *)
(*                                                                         *)
(* PortsAreFree and OneWakeBeforeClose are proved for any set of ports and *)
(* any threshold.  Neither is inductive: the first needs to know that      *)
(* nobody binds after the release and who is still inside releaseOnce, the *)
(* second that the mutex is held exactly while a wake is being sent.       *)
(*                                                                         *)
(* A behaviour of the composition is one of the hub, of the listener and   *)
(* of the images, so that what is proved of them holds of it too.          *)
(***************************************************************************)
EXTENDS MCProgress, EventHubProofs, ImageSelectionProofs

\* Sockets are only opened by a Listen that nobody closes yet.
BindInv ==
    /\ held \subseteq bound
    /\ phase \in {"none", "binding"} =>
          /\ closing = "none" /\ releaser = NoOne /\ ~released
          /\ \A b \in Bindings : readers[b] = "none"
    /\ phase \in {"undoing", "failed"} => \A b \in Bindings : readers[b] = "none"
    /\ phase = "failed" => closing = "done"

\* Whoever runs releaseOnce waits for its end; after it no socket is open, and
\* Close has passed it before it waits for the readers.
ReleaseInv ==
    /\ releaser # NoOne => Releasing(releaser) /\ ~released
    /\ released => held = {}
    /\ closing \in {"waiting", "done"} => released
    /\ closing = "done" => ReadersEnded
    /\ wakesClosed => closing = "done"

\* The mutex is held over a send only, and the latch lets one reader come to it.
WakeInv ==
    /\ \A b \in Bindings : readers[b] = "sending" => lockedBy = b /\ pending /\ sent = 0
    /\ ~pending => sent = 0 /\ windowCount < Threshold
    /\ wakes <= sent /\ sent <= 1

\* The inductive invariant.
ListenerInv == ListenerTypeOK /\ BindInv /\ ReleaseInv /\ WakeInv

\* The invariant says what both properties say.
LEMMA ListenerInvSuffices == ListenerInv => PortsAreFree /\ OneWakeBeforeClose
  BY DEF ListenerInv, ListenerTypeOK, BindInv, ReleaseInv, WakeInv, PortsAreFree,
         OneWakeBeforeClose, ReadersEnded

\* It holds before Listen.
LEMMA ListenerInvInit == ListenerInit => ListenerInv
<1> SUFFICES ASSUME ListenerInit PROVE ListenerInv
  OBVIOUS
<1>1. ListenerTypeOK
  <2>1. {isClosed, hasErr, pending, released, wakesClosed} \subseteq BOOLEAN
    BY Zenon DEF ListenerInit
  <2>2. /\ readers \in [Bindings -> {"none", "reading", "sending", "releasing", "ended"}]
        /\ lockedBy \in Bindings \cup {NoOne} /\ releaser \in Actors \cup {NoOne}
    BY DEF ListenerInit
  <2>3. windowCount \in 0..Threshold /\ wakes \in 0..1 /\ sent \in Nat
    BY ListenerConstants DEF ListenerInit
  <2> QED
    BY <2>1, <2>2, <2>3, Zenon DEF ListenerInit, ListenerTypeOK
<1>2. BindInv /\ ReleaseInv
  BY DEF ListenerInit, BindInv, ReleaseInv
<1>3. WakeInv
  BY ListenerConstants DEF ListenerInit, WakeInv
<1> QED
  BY <1>1, <1>2, <1>3 DEF ListenerInv

\* Every step keeps the types; the latch keeps the count at the threshold.
LEMMA ListenerTypeStep == ListenerInv /\ ListenerNext => ListenerTypeOK'
<1> SUFFICES ASSUME ListenerInv, ListenerNext PROVE ListenerTypeOK'
  OBVIOUS
<1> USE ListenerConstants DEF ListenerInv, ListenerTypeOK, Actors
<1>1. CASE Listen \/ BindFails \/ StartReaders \/ TakeWake \/ CallClose
  BY <1>1 DEF Listen, BindFails, StartReaders, TakeWake, CallClose
<1>2. ASSUME NEW b \in Bindings, Bind(b) PROVE ListenerTypeOK'
  BY <1>2 DEF Bind
<1>3. ASSUME NEW b \in Bindings, ReadFails(b) PROVE ListenerTypeOK'
  BY <1>3 DEF ReadFails, AfterError
<1>4. ASSUME NEW b \in Bindings, NEW fresh \in BOOLEAN, Attempt(b, fresh) PROVE ListenerTypeOK'
  <2>1. CASE Done
    BY <1>4, <2>1 DEF Attempt
  <2>2. CASE ~Done
    <3>1. windowCount' \in 0..Threshold
      BY <1>4, <2>2 DEF Attempt, Done, WakeInv
    <3>2. /\ readers' \in [Bindings -> {"none", "reading", "sending", "releasing", "ended"}]
          /\ pending' \in BOOLEAN /\ lockedBy' \in Bindings \cup {NoOne}
      BY <1>4, <2>2 DEF Attempt
    <3> QED
      BY <1>4, <3>1, <3>2 DEF Attempt
  <2> QED
    BY <2>1, <2>2
<1>5. ASSUME NEW b \in Bindings, SendWake(b) PROVE ListenerTypeOK'
  BY <1>5 DEF SendWake
<1>6. ASSUME NEW b \in Bindings, CloseSocket(b) PROVE ListenerTypeOK'
  BY <1>6 DEF CloseSocket
<1>7. ASSUME NEW a \in Actors, BeginRelease(a) \/ SkipRelease(a) PROVE ListenerTypeOK'
  BY <1>7 DEF BeginRelease, SkipRelease, AfterRelease
<1>8. CASE EndRelease
  BY <1>8 DEF EndRelease, AfterRelease
<1>9. CASE FlagClosed \/ CloseReturns
  BY <1>9 DEF FlagClosed, CloseReturns
<1> QED
  BY <1>1, <1>2, <1>3, <1>4, <1>5, <1>6, <1>7, <1>8, <1>9 DEF ListenerNext, ListenerStep

\* A port that is taken or closed twice, a reader that starts late: none of it
\* opens a socket again.
LEMMA BindStep == ListenerInv /\ ListenerNext => BindInv'
<1> SUFFICES ASSUME ListenerInv, ListenerNext PROVE BindInv'
  OBVIOUS
<1> USE ListenerConstants DEF ListenerInv, ListenerTypeOK, BindInv, Actors
<1>1. CASE Listen \/ BindFails \/ StartReaders \/ TakeWake \/ CallClose
  BY <1>1 DEF Listen, BindFails, StartReaders, TakeWake, CallClose
<1>2. ASSUME NEW b \in Bindings, Bind(b) PROVE BindInv'
  BY <1>2 DEF Bind
<1>3. ASSUME NEW b \in Bindings, ReadFails(b) PROVE BindInv'
  BY <1>3 DEF ReadFails, AfterError
<1>4. ASSUME NEW b \in Bindings, NEW fresh \in BOOLEAN, Attempt(b, fresh) PROVE BindInv'
  BY <1>4 DEF Attempt
<1>5. ASSUME NEW b \in Bindings, SendWake(b) PROVE BindInv'
  BY <1>5 DEF SendWake
<1>6. ASSUME NEW b \in Bindings, CloseSocket(b) PROVE BindInv'
  BY <1>6 DEF CloseSocket
<1>7. ASSUME NEW a \in Actors, BeginRelease(a) \/ SkipRelease(a) PROVE BindInv'
  BY <1>7 DEF BeginRelease, SkipRelease, AfterRelease, Releasing, ReleaseInv
<1>8. CASE EndRelease
  BY <1>8 DEF EndRelease, AfterRelease, ReleaseInv, Releasing
<1>9. CASE FlagClosed \/ CloseReturns
  BY <1>9 DEF FlagClosed, CloseReturns
<1> QED
  BY <1>1, <1>2, <1>3, <1>4, <1>5, <1>6, <1>7, <1>8, <1>9 DEF ListenerNext, ListenerStep

\* releaseOnce runs once, and Close returns after it and after every reader.
LEMMA ReleaseStep == ListenerInv /\ ListenerNext => ReleaseInv'
<1> SUFFICES ASSUME ListenerInv, ListenerNext PROVE ReleaseInv'
  OBVIOUS
<1> USE ListenerConstants DEF ListenerInv, ListenerTypeOK, ReleaseInv, Releasing, ReadersEnded, Actors
<1>1. CASE Listen \/ BindFails \/ StartReaders \/ TakeWake \/ CallClose
  BY <1>1 DEF Listen, BindFails, StartReaders, TakeWake, CallClose, BindInv
<1>2. ASSUME NEW b \in Bindings, Bind(b) PROVE ReleaseInv'
  BY <1>2 DEF Bind, BindInv
<1>3. ASSUME NEW b \in Bindings, ReadFails(b) PROVE ReleaseInv'
  BY <1>3 DEF ReadFails, AfterError
<1>4. ASSUME NEW b \in Bindings, NEW fresh \in BOOLEAN, Attempt(b, fresh) PROVE ReleaseInv'
  BY <1>4 DEF Attempt
<1>5. ASSUME NEW b \in Bindings, SendWake(b) PROVE ReleaseInv'
  BY <1>5 DEF SendWake
<1>6. ASSUME NEW b \in Bindings, CloseSocket(b) PROVE ReleaseInv'
  BY <1>6 DEF CloseSocket
<1>7. ASSUME NEW a \in Actors, BeginRelease(a) PROVE ReleaseInv'
  BY <1>7 DEF BeginRelease
<1>8. ASSUME NEW a \in Actors, SkipRelease(a) PROVE ReleaseInv'
  BY <1>8 DEF SkipRelease, AfterRelease
<1>9. CASE EndRelease
  BY <1>9 DEF EndRelease, AfterRelease, BindInv
<1>10. CASE FlagClosed \/ CloseReturns
  BY <1>10 DEF FlagClosed, CloseReturns
<1> QED
  BY <1>1, <1>2, <1>3, <1>4, <1>5, <1>6, <1>7, <1>8, <1>9, <1>10 DEF ListenerNext, ListenerStep

\* The reader that sets the latch is the one that sends.
LEMMA WakeStep == ListenerInv /\ ListenerNext => WakeInv'
<1> SUFFICES ASSUME ListenerInv, ListenerNext PROVE WakeInv'
  OBVIOUS
<1> USE ListenerConstants DEF ListenerInv, ListenerTypeOK, WakeInv, Actors
<1>1. CASE Listen \/ BindFails \/ StartReaders \/ TakeWake \/ CallClose
  BY <1>1 DEF Listen, BindFails, StartReaders, TakeWake, CallClose
<1>2. ASSUME NEW b \in Bindings, Bind(b) PROVE WakeInv'
  BY <1>2 DEF Bind
<1>3. ASSUME NEW b \in Bindings, ReadFails(b) PROVE WakeInv'
  BY <1>3 DEF ReadFails, AfterError
<1>4. ASSUME NEW b \in Bindings, NEW fresh \in BOOLEAN, Attempt(b, fresh) PROVE WakeInv'
  BY <1>4 DEF Attempt, Done
<1>5. ASSUME NEW b \in Bindings, SendWake(b) PROVE WakeInv'
  BY <1>5 DEF SendWake
<1>6. ASSUME NEW b \in Bindings, CloseSocket(b) PROVE WakeInv'
  BY <1>6 DEF CloseSocket
<1>7. ASSUME NEW a \in Actors, BeginRelease(a) \/ SkipRelease(a) PROVE WakeInv'
  BY <1>7 DEF BeginRelease, SkipRelease, AfterRelease
<1>8. CASE EndRelease
  BY <1>8 DEF EndRelease, AfterRelease
<1>9. CASE FlagClosed \/ CloseReturns
  BY <1>9 DEF FlagClosed, CloseReturns
<1> QED
  BY <1>1, <1>2, <1>3, <1>4, <1>5, <1>6, <1>7, <1>8, <1>9 DEF ListenerNext, ListenerStep

\* Every step keeps it.
LEMMA ListenerInvStep == ListenerInv /\ [ListenerNext]_listenerVars => ListenerInv'
<1>1. CASE ListenerInv /\ ListenerNext
  BY <1>1, ListenerTypeStep, BindStep, ReleaseStep, WakeStep DEF ListenerInv
<1>2. CASE ListenerInv /\ UNCHANGED listenerVars
  BY <1>2 DEF ListenerInv, ListenerTypeOK, BindInv, ReleaseInv, WakeInv, Releasing, ReadersEnded,
              listenerVars
<1> QED
  BY <1>1, <1>2

\* It holds always.
LEMMA ListenerInvariant == ListenerSpec => []ListenerInv
  BY ListenerInvInit, ListenerInvStep, PTL DEF ListenerSpec

\* A listener that has failed to reserve one of its ports, or that was closed,
\* holds no port and leaves no goroutine, for any set of ports.
THEOREM PortsComeFree == ListenerSpec => []PortsAreFree
  BY ListenerInvariant, ListenerInvSuffices, PTL

\* Whatever the traffic on its ports, a listener sends one wake at most, never on
\* the closed channel, and never waits for the controller with its mutex held.
THEOREM WakesOnce == ListenerSpec => []OneWakeBeforeClose
  BY ListenerInvariant, ListenerInvSuffices, PTL

-----------------------------------------------------------------------------
(* The composition.                                                        *)

\* A step of the composition is a step or a stutter of each part.
LEMMA ProgressStep ==
  [ProgressNext]_progressVars =>
     [HubNext]_hubVars /\ [ListenerNext]_listenerVars /\ [ImageNext]_imageVars /\ [Next]_vars
  BY Zenon DEF ProgressNext, progressVars

\* What TLC runs as one specification implements those of the hub, the listener
\* and the images, fairness included: every theorem about one of them is one about
\* the run.  (Automatic updates are not among them: where another part moves, they
\* begin in a server that has stopped.)
THEOREM ProgressImplements == ProgressSpec => HubSpec /\ ListenerSpec /\ ImageSpec
<1>1. ProgressInit => HubInit /\ ListenerInit /\ ImageInit
  BY DEF ProgressInit
<1>2. QED
  BY <1>1, ProgressStep, PTL DEF ProgressSpec, HubSpec, ListenerSpec, ImageSpec

\* The replay, the queue of a connection and its buffer keep the bounds that the
\* code gives them; sockets, readers, locks and counts of a listener, and tags,
\* rows, jobs and records of deployments have their types.
THEOREM ProgressTypes == ProgressSpec => []ProgressTypeOK
<1>1. ListenerSpec => []ListenerTypeOK
  <2>1. ListenerInv => ListenerTypeOK
    BY DEF ListenerInv
  <2>2. QED
    BY <2>1, ListenerInvariant, PTL
<1>2. HubTypeOK /\ ListenerTypeOK /\ ImageTypeOK => ProgressTypeOK
  BY DEF ProgressTypeOK
<1>3. QED
  BY <1>1, <1>2, ProgressImplements, HubTypes, ImageTypes, PTL

=============================================================================

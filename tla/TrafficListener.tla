--------------------------- MODULE TrafficListener ---------------------------
(***************************************************************************)
(* Listener (internal/traffic): it reserves every port of a sleeping       *)
(* group, counts the attempts on them and reports one wake.  One goroutine *)
(* reads each socket; Close, or the first reader whose socket fails,       *)
(* releases all sockets, once.                                             *)
(***************************************************************************)
EXTENDS Naturals, FiniteSets

CONSTANTS
    Bindings,
    Threshold,   \* attempts in one window that make a wake
    NoOne

ASSUME ListenerConstants ==
    /\ IsFiniteSet(Bindings) /\ Bindings # {}
    /\ Threshold \in Nat \ {0}
    /\ NoOne \notin Bindings /\ NoOne # "close"

VARIABLES
    phase,        \* of Listen: none, binding, undoing, failed, open
    held,         \* the sockets that are open
    bound,        \* the sockets whose closer is known
    readers,      \* the goroutine of every socket
    closing,      \* the call of Close
    isClosed, hasErr, pending, windowCount,   \* Listener, under its mutex
    lockedBy,     \* the reader that holds the mutex while it sends
    releaser,     \* who runs releaseOnce, or NoOne
    released,     \* releaseOnce is done
    wakes,        \* the channel of wakes, capacity 1
    wakesClosed,
    sent          \* wakes sent so far (history)

listenerVars == <<phase, held, bound, readers, closing, isClosed, hasErr, pending, windowCount,
                  lockedBy, releaser, released, wakes, wakesClosed, sent>>

Actors == Bindings \cup {"close"}

ListenerInit ==
    /\ phase = "none"
    /\ held = {} /\ bound = {}
    /\ readers = [b \in Bindings |-> "none"]
    /\ closing = "none"
    /\ isClosed = FALSE /\ hasErr = FALSE /\ pending = FALSE /\ windowCount = 0
    /\ lockedBy = NoOne
    /\ releaser = NoOne /\ released = FALSE
    /\ wakes = 0 /\ wakesClosed = FALSE /\ sent = 0

-----------------------------------------------------------------------------
(* Listen.                                                                 *)

Listen ==
    /\ phase = "none" /\ phase' = "binding"
    /\ UNCHANGED <<held, bound, readers, closing, isClosed, hasErr, pending, windowCount, lockedBy,
                   releaser, released, wakes, wakesClosed, sent>>

Bind(b) ==
    /\ phase = "binding" /\ b \notin bound
    /\ held' = held \cup {b} /\ bound' = bound \cup {b}
    /\ UNCHANGED <<phase, readers, closing, isClosed, hasErr, pending, windowCount, lockedBy,
                   releaser, released, wakes, wakesClosed, sent>>

\* Mutant: a failing Listen returns without Close.
BindFailsOpen ==
    /\ phase = "binding" /\ phase' = "failed"
    /\ UNCHANGED <<held, bound, readers, closing, isClosed, hasErr, pending, windowCount, lockedBy,
                   releaser, released, wakes, wakesClosed, sent>>

\* A port is taken, or an option of the last socket cannot be set; Listen calls Close.
BindFails ==
    /\ phase = "binding" /\ phase' = "undoing"
    /\ closing' = "called"
    /\ UNCHANGED <<held, bound, readers, isClosed, hasErr, pending, windowCount, lockedBy, releaser,
                   released, wakes, wakesClosed, sent>>

StartReaders ==
    /\ phase = "binding" /\ bound = Bindings
    /\ phase' = "open"
    /\ readers' = [b \in Bindings |-> "reading"]
    /\ UNCHANGED <<held, bound, closing, isClosed, hasErr, pending, windowCount, lockedBy, releaser,
                   released, wakes, wakesClosed, sent>>

-----------------------------------------------------------------------------
(* Readers.                                                                *)

\* Mutant: the latch is not looked at.
DoneUnlatched == isClosed \/ hasErr

\* record has nothing to do any more.
Done == isClosed \/ hasErr \/ pending

\* An attempt arrives and record counts it, in a window of its own if the last one is
\* over; the attempt that reaches the threshold sends under the mutex.
Attempt(b, fresh) ==
    /\ readers[b] = "reading" /\ b \in held /\ lockedBy = NoOne
    /\ LET count == IF fresh THEN 1 ELSE windowCount + 1
       IN  \/ /\ Done
              /\ readers' = [readers EXCEPT ![b] = "ended"]
              /\ UNCHANGED <<pending, windowCount, lockedBy>>
           \/ /\ ~Done /\ count < Threshold
              /\ windowCount' = count
              /\ UNCHANGED <<readers, pending, lockedBy>>
           \/ /\ ~Done /\ count >= Threshold
              /\ windowCount' = count
              /\ pending' = TRUE
              /\ lockedBy' = b
              /\ readers' = [readers EXCEPT ![b] = "sending"]
    /\ UNCHANGED <<phase, held, bound, closing, isClosed, hasErr, releaser, released, wakes,
                   wakesClosed, sent>>

SendWake(b) ==
    /\ readers[b] = "sending" /\ wakes = 0
    /\ wakes' = 1 /\ sent' = sent + 1
    /\ lockedBy' = NoOne
    /\ readers' = [readers EXCEPT ![b] = "ended"]
    /\ UNCHANGED <<phase, held, bound, closing, isClosed, hasErr, pending, windowCount, releaser,
                   released, wakesClosed>>

\* Mutant: the reader that meets the error leaves the other sockets open.
EndsAlone == "ended"

\* Where the first reader that meets an error goes on.
AfterError == "releasing"

\* The socket fails by itself, or has been closed under the reader.
ReadFails(b) ==
    /\ readers[b] = "reading" /\ lockedBy = NoOne
    /\ IF isClosed \/ hasErr
       THEN readers' = [readers EXCEPT ![b] = "ended"] /\ UNCHANGED hasErr
       ELSE readers' = [readers EXCEPT ![b] = AfterError] /\ hasErr' = TRUE
    /\ UNCHANGED <<phase, held, bound, closing, isClosed, pending, windowCount, lockedBy, releaser,
                   released, wakes, wakesClosed, sent>>

\* The controller takes the wake.
TakeWake ==
    /\ wakes = 1 /\ wakes' = 0
    /\ UNCHANGED <<phase, held, bound, readers, closing, isClosed, hasErr, pending, windowCount,
                   lockedBy, releaser, released, wakesClosed, sent>>

-----------------------------------------------------------------------------
(* Release and Close.                                                      *)

Releasing(a) == IF a = "close" THEN closing = "flagged" ELSE readers[a] = "releasing"

AfterRelease(a) ==
    IF a = "close" THEN closing' = "waiting" /\ UNCHANGED readers
    ELSE readers' = [readers EXCEPT ![a] = "ended"] /\ UNCHANGED closing

\* releaseOnce: whoever comes second waits for the first.
BeginRelease(a) ==
    /\ Releasing(a) /\ ~released /\ releaser = NoOne
    /\ releaser' = a
    /\ UNCHANGED <<phase, held, bound, readers, closing, isClosed, hasErr, pending, windowCount,
                   lockedBy, released, wakes, wakesClosed, sent>>

CloseSocket(b) ==
    /\ releaser # NoOne /\ b \in held \cap bound
    /\ held' = held \ {b}
    /\ UNCHANGED <<phase, bound, readers, closing, isClosed, hasErr, pending, windowCount, lockedBy,
                   releaser, released, wakes, wakesClosed, sent>>

EndRelease ==
    /\ releaser # NoOne /\ held \cap bound = {}
    /\ releaser' = NoOne /\ released' = TRUE
    /\ AfterRelease(releaser)
    /\ UNCHANGED <<phase, held, bound, isClosed, hasErr, pending, windowCount, lockedBy, wakes,
                   wakesClosed, sent>>

SkipRelease(a) ==
    /\ Releasing(a) /\ released
    /\ AfterRelease(a)
    /\ UNCHANGED <<phase, held, bound, isClosed, hasErr, pending, windowCount, lockedBy, releaser,
                   released, wakes, wakesClosed, sent>>

CallClose ==
    /\ phase = "open" /\ closing = "none"
    /\ closing' = "called"
    /\ UNCHANGED <<phase, held, bound, readers, isClosed, hasErr, pending, windowCount, lockedBy,
                   releaser, released, wakes, wakesClosed, sent>>

FlagClosed ==
    /\ closing = "called" /\ lockedBy = NoOne
    /\ closing' = "flagged"
    /\ isClosed' = TRUE
    /\ UNCHANGED <<phase, held, bound, readers, hasErr, pending, windowCount, lockedBy, releaser,
                   released, wakes, wakesClosed, sent>>

ReadersEnded == \A b \in Bindings : readers[b] \in {"none", "ended"}

CloseReturns ==
    /\ closing = "waiting" /\ ReadersEnded
    /\ closing' = "done"
    /\ wakesClosed' = TRUE
    /\ phase' = IF phase = "undoing" THEN "failed" ELSE phase
    /\ UNCHANGED <<held, bound, readers, isClosed, hasErr, pending, windowCount, lockedBy, releaser,
                   released, wakes, sent>>

\* The steps of the goroutines that need neither traffic nor the controller; a read on
\* a closed socket returns.
ListenerStep ==
    \/ \E b \in Bindings : SendWake(b) \/ (b \notin held /\ ReadFails(b)) \/ CloseSocket(b)
    \/ \E a \in Actors : BeginRelease(a) \/ SkipRelease(a)
    \/ EndRelease \/ FlagClosed \/ CloseReturns

ListenerNext ==
    \/ Listen \/ BindFails \/ StartReaders \/ TakeWake \/ CallClose
    \/ \E b \in Bindings : \/ Bind(b) \/ ReadFails(b)
                           \/ \E fresh \in BOOLEAN : Attempt(b, fresh)
    \/ ListenerStep

\* Some goroutine that can go on does.
ListenerFairness == WF_listenerVars(ListenerStep)

ListenerSpec == ListenerInit /\ [][ListenerNext]_listenerVars /\ ListenerFairness

-----------------------------------------------------------------------------
(* Properties.                                                             *)

\* The shape of the state; the count never passes the threshold.
ListenerTypeOK ==
    /\ phase \in {"none", "binding", "undoing", "failed", "open"}
    /\ held \subseteq Bindings /\ bound \subseteq Bindings
    /\ readers \in [Bindings -> {"none", "reading", "sending", "releasing", "ended"}]
    /\ closing \in {"none", "called", "flagged", "waiting", "done"}
    /\ {isClosed, hasErr, pending, released, wakesClosed} \subseteq BOOLEAN
    /\ windowCount \in 0..Threshold
    /\ lockedBy \in Bindings \cup {NoOne} /\ releaser \in Actors \cup {NoOne}
    /\ wakes \in 0..1 /\ sent \in Nat

\* "A partial failure releases all acquired ports": once Listen has failed or Close has
\* returned, no socket is open and no goroutine is left, so that the container that is
\* started next can bind the ports.
PortsAreFree ==
    phase = "failed" \/ closing = "done" => held = {} /\ \A b \in Bindings : readers[b] \in {"none", "ended"}

\* A reader never sends on the closed channel, and there is one wake at most, so that a
\* send never waits for the controller with the mutex held.
OneWakeBeforeClose ==
    /\ sent <= 1
    /\ \A b \in Bindings : readers[b] = "sending" => ~wakesClosed /\ wakes = 0

\* A listener never reads with half of its ports: when one socket has failed, all of
\* them are released in the end, and Close returns whatever the readers are doing.
ListenerEnds == <>[](closing \in {"none", "done"} /\ (hasErr => held = {}))

=============================================================================

------------------------------ MODULE EventHub ------------------------------
(***************************************************************************)
(* The event stream: Hub and Handler (internal/websocket), and the browser *)
(* that follows the alerts through useTopicStream and useAlerts (web).     *)
(* The database is the truth; events only tell the browser to read it.     *)
(*                                                                         *)
(* A change is committed first and published later.  The hub keeps the     *)
(* last HubCap events of all topics; a subscriber has a buffer, and its    *)
(* connection a queue, both bounded, and whoever falls behind is cut off   *)
(* and comes back with the sequence number that it saw last.               *)
(***************************************************************************)
EXTENDS Naturals, Sequences, FiniteSets

CONSTANTS
    HubCap,          \* NewHub(512)
    OutCap,          \* the outgoing queue of a connection (64)
    SubCap,          \* the buffer of a subscription (32)
    MaxChanges,      \* bound: changes of the alerts
    MaxLogs,         \* bound: events of another topic
    MaxCloses,       \* bound: connections that end by themselves
    MaxHubRestarts

ASSUME HubConstants ==
    /\ {HubCap, OutCap, SubCap} \subseteq Nat \ {0}
    /\ {MaxChanges, MaxLogs, MaxCloses, MaxHubRestarts} \subseteq Nat

VARIABLES
    hubSeq, hubReplay,   \* Hub.sequence and Hub.replay
    published,           \* the alert events of this process (history)
    epoch,               \* processes before this one (history)
    truth,               \* the version of the alerts in the database
    unpublished,         \* commits whose event is still to be published
    logs,                \* events of the other topic so far
    conn,                \* the server's side of the connection
    sock,                \* the browser's side: new, open, lost, or stopped for good
    cursor,              \* sequence in useTopicStream
    cursorEpoch,         \* the process that the cursor comes from (history)
    reload, outdated,    \* the current request for the alerts, and an earlier one
    shown,               \* the version on the page
    failed,              \* the page shows that its last request failed
    collided,            \* a cursor of an earlier process was taken for a current one (history)
    closes

hubVars == <<hubSeq, hubReplay, published, epoch, truth, unpublished, logs, conn, sock, cursor,
             cursorEpoch, reload, outdated, shown, failed, collided, closes>>
serverVars == <<hubSeq, hubReplay, published, epoch, truth, unpublished, logs>>
clientVars == <<cursor, cursorEpoch, reload, outdated, shown, failed>>

Event == [topic : {"alerts", "logs"}, seq : Nat]
Gap == [topic |-> "gap", seq |-> 0]

\* left: what ServeHTTP still has to queue for a new subscription.
Conn == [phase : {"none", "subscribe", "replay", "serve"}, sub : {"none", "live", "dropped"},
         gap : BOOLEAN, left : Seq(Event \cup {Gap}), out : Seq(Event \cup {Gap}), buf : Seq(Event)]
NoConn == [phase |-> "none", sub |-> "none", gap |-> FALSE, left |-> <<>>, out |-> <<>>, buf |-> <<>>]

Reload == [at : {"idle", "sent", "read"}, ver : Nat]
Idle == [at |-> "idle", ver |-> 0]
Sent == [at |-> "sent", ver |-> 0]

\* There may be a page that follows the alerts, or none.
HubInit ==
    /\ hubSeq = 0 /\ hubReplay = <<>> /\ published = {} /\ epoch = 0
    /\ truth = 0 /\ unpublished = 0 /\ logs = 0
    /\ conn = NoConn /\ sock \in {"new", "stopped"}
    /\ cursor = 0 /\ cursorEpoch = 0
    /\ reload = Idle /\ outdated = Idle
    /\ shown = 0 /\ failed = FALSE
    /\ collided = FALSE /\ closes = 0

-----------------------------------------------------------------------------
(* The hub.                                                                *)

\* Mutant: the replay is never trimmed.
Untrimmed(events) == events

Trimmed(events) ==
    IF Len(events) > HubCap THEN SubSeq(events, Len(events) - HubCap + 1, Len(events)) ELSE events

\* The event goes to the subscriber's buffer, or the subscriber is dropped.
Offered(c, e) ==
    IF Len(c.buf) < SubCap THEN [c EXCEPT !.buf = Append(@, e)] ELSE [c EXCEPT !.sub = "dropped"]

publish(topic) ==
    LET e == [topic |-> topic, seq |-> hubSeq + 1]
    IN  /\ hubSeq' = e.seq
        /\ hubReplay' = Trimmed(Append(hubReplay, e))
        /\ published' = IF topic = "alerts" THEN published \cup {e.seq} ELSE published
        /\ conn' = IF topic = "alerts" /\ conn.sub = "live" THEN Offered(conn, e) ELSE conn

CommitChange ==
    /\ truth < MaxChanges
    /\ truth' = truth + 1 /\ unpublished' = unpublished + 1
    /\ UNCHANGED <<hubSeq, hubReplay, published, epoch, logs, conn, sock, clientVars, collided, closes>>

PublishAlert ==
    /\ unpublished > 0 /\ unpublished' = unpublished - 1
    /\ publish("alerts")
    /\ UNCHANGED <<epoch, truth, logs, sock, clientVars, collided, closes>>

PublishLog ==
    /\ logs < MaxLogs /\ logs' = logs + 1
    /\ publish("logs")
    /\ UNCHANGED <<epoch, truth, unpublished, sock, clientVars, collided, closes>>

\* Mutant: a cursor that is older than the replay is not noticed.
MissesNothing(since) == since > hubSeq

\* What Subscribe reports as a gap.
MissesEvents(since) ==
    since > hubSeq \/ (hubReplay # <<>> /\ since < hubReplay[1].seq - 1)

\* A set of positions, in ascending order.
InOrder(S) ==
    CHOOSE at \in [1..Cardinality(S) -> S] :
        /\ \A i, j \in 1..Cardinality(S) : i < j => at[i] < at[j]
        /\ \A n \in S : \E i \in 1..Cardinality(S) : at[i] = n

\* What Subscribe finds in the replay: the alert events after since, in their order.
AlertsAfter(since) ==
    LET found == {i \in 1..Len(hubReplay) : hubReplay[i].topic = "alerts" /\ hubReplay[i].seq > since}
    IN  [k \in 1..Cardinality(found) |-> hubReplay[InOrder(found)[k]]]

-----------------------------------------------------------------------------
(* The connection.                                                         *)

\* The command of a subscription, with the cursor as since.
HandleSubscribe ==
    /\ conn.phase = "subscribe"
    /\ LET gap == MissesEvents(cursor)
       IN  /\ conn' = [conn EXCEPT !.phase = "replay", !.sub = "live", !.gap = gap,
                                   !.left = (IF gap THEN <<Gap>> ELSE <<>>) \o AlertsAfter(cursor)]
           /\ collided' = (collided \/ (~gap /\ cursor > 0 /\ cursorEpoch # epoch))
    /\ UNCHANGED <<serverVars, sock, clientVars, closes>>

\* sendEnvelope never waits: a full queue ends the connection.
Queue(rest, m) == conn' = IF Len(conn.out) < OutCap THEN [rest EXCEPT !.out = Append(@, m)] ELSE NoConn

SendReplay ==
    /\ conn.phase = "replay"
    /\ IF conn.left = <<>> THEN conn' = [conn EXCEPT !.phase = "serve"]
                           ELSE Queue([conn EXCEPT !.left = Tail(@)], Head(conn.left))
    /\ UNCHANGED <<serverVars, sock, clientVars, collided, closes>>

\* Mutant: the forwarder of a dropped subscription returns and the connection stays.
ForwardReturns ==
    /\ conn.phase = "serve"
    /\ conn.buf # <<>> /\ Queue([conn EXCEPT !.buf = Tail(@)], Head(conn.buf))
    /\ UNCHANGED <<serverVars, sock, clientVars, collided, closes>>

\* A closed buffer is read to its end before the drop is seen.
Forward ==
    /\ conn.phase = "serve"
    /\ \/ conn.buf # <<>> /\ Queue([conn EXCEPT !.buf = Tail(@)], Head(conn.buf))
       \/ conn.buf = <<>> /\ conn.sub = "dropped" /\ conn' = NoConn
    /\ UNCHANGED <<serverVars, sock, clientVars, collided, closes>>

\* The network, the deadline of the access token, a key rotation or a shutdown.
ConnectionEnds ==
    /\ conn.phase # "none" /\ closes < MaxCloses
    /\ closes' = closes + 1
    /\ conn' = NoConn
    /\ UNCHANGED <<serverVars, sock, clientVars, collided>>

Restart ==
    /\ epoch < MaxHubRestarts /\ epoch' = epoch + 1
    /\ hubSeq' = 0 /\ hubReplay' = <<>> /\ published' = {}
    /\ unpublished' = 0
    /\ conn' = NoConn
    /\ reload' = IF reload.at = "sent" THEN Idle ELSE reload
    /\ failed' = (failed \/ reload.at = "sent")
    /\ outdated' = IF outdated.at = "sent" THEN Idle ELSE outdated
    /\ UNCHANGED <<truth, logs, sock, cursor, cursorEpoch, shown, collided, closes>>

-----------------------------------------------------------------------------
(* The browser.                                                            *)

StartReload ==
    /\ reload' = Sent
    /\ outdated' = IF reload # Idle THEN reload ELSE outdated

\* onopen: the command is sent and the page reloads.
Connect ==
    /\ sock \in {"new", "lost"} /\ sock' = "open"
    /\ conn' = [NoConn EXCEPT !.phase = "subscribe"]
    /\ StartReload
    /\ UNCHANGED <<serverVars, cursor, cursorEpoch, shown, failed, collided, closes>>

\* refreshSession fails after the connection was lost.
SessionLost ==
    /\ sock = "lost"
    /\ sock' = "stopped"
    /\ UNCHANGED <<serverVars, conn, clientVars, collided, closes>>

\* Mutant: after a gap the old cursor is kept and nothing is reloaded.
OnMessageIgnoresGap(m) ==
    IF m = Gap \/ m.seq <= cursor THEN UNCHANGED <<cursor, cursorEpoch, reload, outdated>>
    ELSE cursor' = m.seq /\ cursorEpoch' = epoch /\ StartReload

OnMessage(m) ==
    IF m # Gap /\ m.seq <= cursor THEN UNCHANGED <<cursor, cursorEpoch, reload, outdated>>
    ELSE cursor' = m.seq /\ cursorEpoch' = epoch /\ StartReload

\* The writer sends the next message and the browser handles it.
Write ==
    /\ conn.out # <<>>
    /\ conn' = [conn EXCEPT !.out = Tail(@)]
    /\ OnMessage(Head(conn.out))
    /\ UNCHANGED <<serverVars, sock, shown, failed, collided, closes>>

OnClose ==
    /\ sock = "open" /\ conn.phase = "none"
    /\ sock' = "lost"
    /\ UNCHANGED <<serverVars, conn, clientVars, collided, closes>>

ReadAlerts ==
    /\ reload.at = "sent" /\ reload' = [at |-> "read", ver |-> truth]
    /\ UNCHANGED <<serverVars, conn, sock, cursor, cursorEpoch, outdated, shown, failed, collided,
                   closes>>

ReadOutdated ==
    /\ outdated.at = "sent" /\ outdated' = [at |-> "read", ver |-> truth]
    /\ UNCHANGED <<serverVars, conn, sock, cursor, cursorEpoch, reload, shown, failed, collided,
                   closes>>

\* Only the answer of the last request is used.
SameGeneration(current) == current

Answer(current, r) ==
    /\ r.at = "read"
    /\ IF SameGeneration(current) THEN shown' = r.ver /\ failed' = FALSE ELSE UNCHANGED <<shown, failed>>

AnswerReload ==
    /\ Answer(TRUE, reload) /\ reload' = Idle
    /\ UNCHANGED <<serverVars, conn, sock, cursor, cursorEpoch, outdated, collided, closes>>

AnswerOutdated ==
    /\ Answer(FALSE, outdated) /\ outdated' = Idle
    /\ UNCHANGED <<serverVars, conn, sock, cursor, cursorEpoch, reload, collided, closes>>

ReloadFails ==
    /\ reload # Idle /\ reload' = Idle
    /\ failed' = TRUE
    /\ UNCHANGED <<serverVars, conn, sock, cursor, cursorEpoch, outdated, shown, collided, closes>>

HubNext ==
    \/ CommitChange \/ PublishAlert \/ PublishLog
    \/ HandleSubscribe \/ SendReplay \/ Forward \/ Write \/ ConnectionEnds \/ Restart
    \/ Connect \/ SessionLost \/ OnClose
    \/ ReadAlerts \/ ReadOutdated \/ AnswerReload \/ AnswerOutdated \/ ReloadFails

\* Every goroutine, timer and request goes on.  A request has to be answered now and
\* then although each new connection starts another one: the browser waits a second or
\* more before it connects again.
HubFairness ==
    /\ WF_hubVars(PublishAlert)
    /\ WF_hubVars(HandleSubscribe) /\ WF_hubVars(SendReplay) /\ WF_hubVars(Forward)
    /\ WF_hubVars(Write)
    /\ WF_hubVars(Connect) /\ WF_hubVars(OnClose)
    /\ WF_hubVars(ReadAlerts) /\ SF_hubVars(AnswerReload)

HubSpec == HubInit /\ [][HubNext]_hubVars /\ HubFairness

-----------------------------------------------------------------------------
(* Properties.                                                             *)

\* The shape of the state; the replay, the queue and the buffer keep their bounds.
HubTypeOK ==
    /\ hubReplay \in Seq(Event) /\ Len(hubReplay) <= HubCap
    /\ conn \in Conn /\ Len(conn.out) <= OutCap /\ Len(conn.buf) <= SubCap
    /\ {hubSeq, epoch, truth, unpublished, logs, cursor, cursorEpoch, shown, closes} \subseteq Nat
    /\ published \subseteq 1..hubSeq
    /\ sock \in {"new", "open", "lost", "stopped"}
    /\ {reload, outdated} \subseteq Reload
    /\ {failed, collided} \subseteq BOOLEAN

Underway == conn.out \o conn.left \o conn.buf

\* Without a gap nothing is lost on the way: every alert event of this process that
\* the browser has not seen is on its way to it, in order and once, whatever was
\* replayed, buffered or cut off before (Subscribe, publish, forward).
NoSilentLoss ==
    /\ conn.sub = "live" /\ ~conn.gap /\ (cursorEpoch = epoch \/ cursor = 0) =>
          \A n \in published : n > cursor => \E i \in 1..Len(Underway) : Underway[i].seq = n
    /\ \A i, j \in 1..Len(Underway) : i < j => Underway[i].seq < Underway[j].seq

Current == shown = truth \/ failed

\* Once changes stop, a page that is still open shows the database as it is, or that
\* its request failed; events that were committed and never published, dropped
\* subscriptions and restarts included.  A cursor of an earlier process that the hub
\* mistook for its own is the exception.
PageConverges == <>[](sock = "stopped" \/ collided \/ Current)

\* "Reconnect gaps are explicit.": a page whose subscription was told of no gap
\* (Subscribe) misses nothing, so that in the end it shows the database as it is, or
\* that its request failed.
ReconnectGapsAreExplicit == <>[](sock = "stopped" \/ conn.gap \/ Current)

\* The replay of a subscription may fill the queue of its connection by itself.
ReplayOverflows == Len(AlertsAfter(0)) >= OutCap

\* A browser that was cut off, by a full buffer, a full queue or the network, gets a
\* live subscription and everything that is underway in the end, as long as a replay
\* fits into the queue.
StreamCatchesUp ==
    <>[](\/ sock = "stopped"
         \/ conn.phase = "serve" /\ conn.sub = "live" /\ Underway = <<>>
         \/ ReplayOverflows)

=============================================================================

--------------------------- MODULE EventHubProofs ---------------------------
(***************************************************************************)
(* The types and bounds of EventHub, and NoSilentLoss, for every capacity  *)
(* of the replay, of a subscription and of the socket's queue, and for any *)
(* number of changes, dropped subscribers, reconnections and restarts.     *)
(*                                                                         *)
(* NoSilentLoss speaks of what is on its way to the browser, the events    *)
(* that the socket, Handle and the buffer of the subscription hold.  It is *)
(* not inductive: of a stream whose browser has the cursor of an earlier   *)
(* process it says nothing, until the first message makes the cursor a     *)
(* current one.  StreamInv says that such a stream has no hole after its   *)
(* first message either (NoHole), that no number is above that of the      *)
(* latest event (InSequence), and that the replay, which a subscription    *)
(* starts from, is the unbroken end of all events (ReplayInv).             *)
(***************************************************************************)
EXTENDS EventHub, FiniteSetTheorems, SequenceTheorems, WellFoundedInduction, TLAPS

-----------------------------------------------------------------------------
(* Sequences of indices and of messages.                                   *)

\* Every set of naturals that is not empty has a smallest element.
LEMMA SmallestElement ==
  ASSUME NEW T \in SUBSET Nat, T # {}
  PROVE  \E m \in T : \A k \in T : m <= k
<1>1. PICK m \in T : \A k \in T : ~(<<k, m>> \in OpToRel(<, Nat))
  BY WFMin, NatLessThanWellFounded
<1>2. \A k \in T : ~(k < m)
  BY <1>1 DEF OpToRel
<1>3. QED
  BY <1>2

\* at lists the elements of S in ascending order.
Ascends(at, S) ==
    /\ \A i, j \in 1..Cardinality(S) : i < j => at[i] < at[j]
    /\ \A n \in S : \E i \in 1..Cardinality(S) : at[i] = n

\* There is such a list of every set of indices.  By induction over the largest
\* index, as the absence of a least counterexample.
LEMMA OrderExists ==
  ASSUME NEW n \in Nat, NEW S \in SUBSET (1..n)
  PROVE  IsFiniteSet(S) /\ \E at \in [1..Cardinality(S) -> S] : Ascends(at, S)
<1>. DEFINE P(m) == \A T \in SUBSET (1..m) :
                       IsFiniteSet(T) /\ \E at \in [1..Cardinality(T) -> T] : Ascends(at, T)
<1>. DEFINE Bad == {m \in Nat : ~P(m)}
<1>1. P(0)
  <2>1. ASSUME NEW T \in SUBSET (1..0)
        PROVE  IsFiniteSet(T) /\ \E at \in [1..Cardinality(T) -> T] : Ascends(at, T)
    <3>0. T = {}
      OBVIOUS
    <3>1. T = {} /\ IsFiniteSet(T) /\ Cardinality(T) = 0
      BY <3>0, FS_EmptySet, Zenon
    <3>2. [i \in 1..0 |-> i] \in [1..Cardinality(T) -> T] /\ Ascends([i \in 1..0 |-> i], T)
      BY <3>1 DEF Ascends
    <3>3. QED
      BY <3>1, <3>2
  <2>2. QED
    BY <2>1
<1>2. ASSUME NEW m \in Nat, P(m)
      PROVE  P(m + 1)
  <2>1. ASSUME NEW T \in SUBSET (1..(m + 1))
        PROVE  IsFiniteSet(T) /\ \E at \in [1..Cardinality(T) -> T] : Ascends(at, T)
    <3>1. CASE m + 1 \notin T
      <4>1. T \in SUBSET (1..m)
        BY <3>1
      <4>2. QED
        BY <1>2, <4>1
    <3>2. CASE m + 1 \in T
      <4>. DEFINE R == T \ {m + 1}
      <4>1. R \in SUBSET (1..m) /\ T = R \cup {m + 1} /\ m + 1 \notin R
        BY <3>2
      <4>2. IsFiniteSet(R)
        BY <1>2, <4>1
      <4>3. PICK low \in [1..Cardinality(R) -> R] : Ascends(low, R)
        BY <1>2, <4>1
      <4>. HIDE DEF R
      <4>4. IsFiniteSet(T) /\ Cardinality(T) = Cardinality(R) + 1 /\ Cardinality(R) \in Nat
        <5>1. IsFiniteSet(R \cup {m + 1}) /\ Cardinality(R \cup {m + 1}) = Cardinality(R) + 1
          BY <4>1, <4>2, FS_AddElement, Zenon
        <5>2. Cardinality(R) \in Nat
          BY <4>2, FS_CardinalityType
        <5>3. QED
          BY <4>1, <5>1, <5>2, Zenon
      <4>. DEFINE c == Cardinality(R)
      <4>. DEFINE at == [i \in 1..(c + 1) |-> IF i = c + 1 THEN m + 1 ELSE low[i]]
      <4>5. \A i \in 1..(c + 1) : at[i] = IF i = c + 1 THEN m + 1 ELSE low[i]
        OBVIOUS
      <4>6. \A i \in 1..c : low[i] \in R /\ low[i] \in 1..m /\ low[i] < m + 1
        <5>1. \A i \in 1..c : low[i] \in R
          BY <4>3
        <5>2. \A k \in R : k \in 1..m /\ k < m + 1
          BY <4>1
        <5>3. QED
          BY <5>1, <5>2
      <4>7. at \in [1..(c + 1) -> T]
        BY <4>1, <4>4, <4>6
      <4>. HIDE DEF at
      <4>8. ASSUME NEW i \in 1..(c + 1), NEW j \in 1..(c + 1), i < j
            PROVE  at[i] < at[j]
        <5>1. i \in 1..c /\ at[i] = low[i]
          BY <4>4, <4>5, <4>8
        <5>2. CASE j = c + 1
          BY <4>5, <4>6, <5>1, <5>2
        <5>3. CASE j # c + 1
          BY <4>3, <4>4, <4>5, <4>8, <5>1, <5>3 DEF Ascends
        <5>4. QED
          BY <5>2, <5>3
      <4>9. ASSUME NEW k \in T
            PROVE  \E i \in 1..(c + 1) : at[i] = k
        <5>1. CASE k = m + 1
          <6>1. c + 1 \in 1..(c + 1) /\ at[c + 1] = m + 1
            BY <4>4, <4>5
          <6>2. QED
            BY <5>1, <6>1
        <5>2. CASE k # m + 1
          <6>1. k \in R
            BY <4>1, <5>2
          <6>2. PICK i \in 1..c : low[i] = k
            BY <4>3, <6>1 DEF Ascends
          <6>3. i \in 1..(c + 1) /\ at[i] = low[i]
            BY <4>4, <4>5
          <6>4. QED
            BY <6>2, <6>3
        <5>3. QED
          BY <5>1, <5>2
      <4>10. Ascends(at, T)
        BY <4>4, <4>8, <4>9 DEF Ascends
      <4>11. QED
        BY <4>4, <4>7, <4>10
    <3>3. QED
      BY <3>1, <3>2
  <2>2. QED
    BY <2>1
<1>3. Bad = {}
  <2>. SUFFICES ASSUME Bad # {}
                PROVE  FALSE
    OBVIOUS
  <2>. HIDE DEF P
  <2>1. PICK m \in Bad : \A k \in Bad : m <= k
    BY SmallestElement
  <2>2. m \in Nat /\ m # 0 /\ ~P(m)
    BY <1>1, <2>1
  <2>3. m - 1 \in Nat /\ m - 1 \notin Bad
    BY <2>1, <2>2
  <2>4. P((m - 1) + 1)
    BY <1>2, <2>3
  <2>5. (m - 1) + 1 = m
    BY <2>2
  <2>6. QED
    BY <2>2, <2>4, <2>5
<1>4. P(n)
  <2>. HIDE DEF P
  <2>1. QED
    BY <1>3
<1>5. QED
  BY <1>4

\* InOrder chooses one: the loop of Subscribe visits the replay in its order.
LEMMA InOrderAscends ==
  ASSUME NEW n \in Nat, NEW S \in SUBSET (1..n)
  PROVE  /\ InOrder(S) \in [1..Cardinality(S) -> S] /\ Ascends(InOrder(S), S)
         /\ Cardinality(S) \in Nat
<1>1. IsFiniteSet(S) /\ \E at \in [1..Cardinality(S) -> S] : Ascends(at, S)
  BY OrderExists
<1>2. InOrder(S) \in [1..Cardinality(S) -> S] /\ Ascends(InOrder(S), S)
  BY <1>1 DEF InOrder, Ascends
<1>3. QED
  BY <1>1, <1>2, FS_CardinalityType

\* What a connection carries.
Message == Event \cup {Gap}

\* Subscribe finds events of the replay, and all that it looks for.
LEMMA FoundAlerts ==
  ASSUME hubReplay \in Seq(Event), NEW since \in Nat
  PROVE  /\ AlertsAfter(since) \in Seq(Event)
         /\ \A k \in 1..Len(AlertsAfter(since)) :
               /\ AlertsAfter(since)[k].seq > since
               /\ \E i \in 1..Len(hubReplay) : AlertsAfter(since)[k] = hubReplay[i]
         /\ \A i \in 1..Len(hubReplay) :
               (hubReplay[i].topic = "alerts" /\ hubReplay[i].seq > since) =>
                  \E k \in 1..Len(AlertsAfter(since)) : AlertsAfter(since)[k] = hubReplay[i]
         /\ (\A i, j \in 1..Len(hubReplay) : i < j => hubReplay[i].seq < hubReplay[j].seq) =>
               \A k, l \in 1..Len(AlertsAfter(since)) :
                  k < l => AlertsAfter(since)[k].seq < AlertsAfter(since)[l].seq
<1>. DEFINE found == {i \in 1..Len(hubReplay) : hubReplay[i].topic = "alerts" /\ hubReplay[i].seq > since}
            c == Cardinality(found)
            at == InOrder(found)
            q == [k \in 1..c |-> hubReplay[at[k]]]
<1>1. Len(hubReplay) \in Nat /\ hubReplay \in [1..Len(hubReplay) -> Event]
  BY LenProperties
<1>2. at \in [1..c -> found] /\ Ascends(at, found) /\ c \in Nat
  BY <1>1, InOrderAscends
<1>3. AlertsAfter(since) = q
  BY DEF AlertsAfter
<1>4. \A i \in found : i \in 1..Len(hubReplay) /\ hubReplay[i].topic = "alerts" /\ hubReplay[i].seq > since
  OBVIOUS
<1>5. \A i \in 1..Len(hubReplay) : hubReplay[i].topic = "alerts" /\ hubReplay[i].seq > since => i \in found
  OBVIOUS
<1>. HIDE DEF found, at, c
<1>6. q \in [1..c -> Event] /\ \A k \in 1..c : q[k] = hubReplay[at[k]]
  BY <1>1, <1>2, <1>4
<1>7. q \in Seq(Event) /\ Len(q) = c
  BY <1>2, <1>6, SeqDef, LenProperties
<1>. HIDE DEF q
<1>8. \A k \in 1..c : q[k].seq > since /\ \E i \in 1..Len(hubReplay) : q[k] = hubReplay[i]
  BY <1>2, <1>4, <1>6
<1>9. \A i \in found : \E k \in 1..c : q[k] = hubReplay[i]
  BY <1>2, <1>6 DEF Ascends, c
<1>10. ASSUME \A i, j \in 1..Len(hubReplay) : i < j => hubReplay[i].seq < hubReplay[j].seq
       PROVE  \A k, l \in 1..c : k < l => q[k].seq < q[l].seq
  BY <1>2, <1>4, <1>6, <1>10 DEF Ascends, c
<1>11. QED
  BY <1>3, <1>5, <1>7, <1>8, <1>9, <1>10

\* Moving a message from the front of one queue to the end of the one before it
\* changes nothing on the way.
LEMMA MessageMoves ==
  ASSUME NEW S, NEW a \in Seq(S), NEW b \in Seq(S), b # <<>>, NEW c \in Seq(S)
  PROVE  /\ (Append(a, Head(b)) \o Tail(b)) \o c = (a \o b) \o c
<1>1. /\ Head(b) \in S /\ Tail(b) \in Seq(S) /\ Len(Tail(b)) = Len(b) - 1 /\ Len(b) \in Nat \ {0}
      /\ Head(b) = b[1] /\ \A i \in 1..Len(Tail(b)) : Tail(b)[i] = b[i + 1]
  BY HeadTailProperties, EmptySeq
<1>. DEFINE x == Append(a, Head(b))
<1>2. /\ x \in Seq(S) /\ Len(x) = Len(a) + 1 /\ x[Len(a) + 1] = b[1]
      /\ \A i \in 1..Len(a) : x[i] = a[i]
  BY <1>1, AppendProperties
<1>. HIDE DEF x
<1>3. /\ x \o Tail(b) \in Seq(S) /\ Len(x \o Tail(b)) = Len(x) + Len(Tail(b))
      /\ \A i \in 1..(Len(x) + Len(Tail(b))) :
            (x \o Tail(b))[i] = IF i <= Len(x) THEN x[i] ELSE Tail(b)[i - Len(x)]
  BY <1>1, <1>2, ConcatProperties
<1>4. /\ a \o b \in Seq(S) /\ Len(a \o b) = Len(a) + Len(b)
      /\ \A i \in 1..(Len(a) + Len(b)) : (a \o b)[i] = IF i <= Len(a) THEN a[i] ELSE b[i - Len(a)]
  BY ConcatProperties
<1>5. Len(a) \in Nat /\ Len(b) \in Nat
  BY LenProperties
<1>6. Len(x \o Tail(b)) = Len(a \o b)
  BY <1>1, <1>2, <1>3, <1>4, <1>5
<1>7. ASSUME NEW i \in 1..Len(a \o b)
      PROVE  (x \o Tail(b))[i] = (a \o b)[i]
  <2>1. CASE i <= Len(a)
    BY <1>1, <1>2, <1>3, <1>4, <1>5, <2>1
  <2>2. CASE i = Len(a) + 1
    BY <1>1, <1>2, <1>3, <1>4, <1>5, <2>2
  <2>3. CASE i > Len(a) + 1
    <3>1. (x \o Tail(b))[i] = Tail(b)[i - (Len(a) + 1)] /\ (a \o b)[i] = b[i - Len(a)]
      BY <1>1, <1>2, <1>3, <1>4, <1>5, <2>3
    <3>2. i - (Len(a) + 1) \in 1..Len(Tail(b)) /\ (i - (Len(a) + 1)) + 1 = i - Len(a)
      BY <1>1, <1>4, <1>5, <2>3
    <3>3. QED
      BY <1>1, <3>1, <3>2
  <2>4. i <= Len(a) \/ i = Len(a) + 1 \/ i > Len(a) + 1
    BY <1>4, <1>5
  <2>5. QED
    BY <2>1, <2>2, <2>3, <2>4
<1>8. x \o Tail(b) = a \o b
  BY <1>3, <1>4, <1>6, <1>7, SeqEqual
<1>9. QED
  BY <1>8 DEF x

\* The first message of the first queue is the first on the way.
LEMMA FirstLeaves ==
  ASSUME NEW S, NEW a \in Seq(S), a # <<>>, NEW b \in Seq(S)
  PROVE  /\ a \o b # <<>> /\ (a \o b)[1] = Head(a)
         /\ Tail(a) \o b = Tail(a \o b)
<1>1. /\ Tail(a) \in Seq(S) /\ Len(Tail(a)) = Len(a) - 1 /\ Len(a) \in Nat \ {0}
      /\ Head(a) = a[1] /\ \A i \in 1..Len(Tail(a)) : Tail(a)[i] = a[i + 1]
  BY HeadTailProperties, EmptySeq
<1>2. /\ a \o b \in Seq(S) /\ Len(a \o b) = Len(a) + Len(b) /\ Len(b) \in Nat
      /\ \A i \in 1..(Len(a) + Len(b)) : (a \o b)[i] = IF i <= Len(a) THEN a[i] ELSE b[i - Len(a)]
  BY ConcatProperties, LenProperties
<1>3. a \o b # <<>> /\ (a \o b)[1] = Head(a)
  BY <1>1, <1>2
<1>4. /\ Tail(a \o b) \in Seq(S) /\ Len(Tail(a \o b)) = Len(a) + Len(b) - 1
      /\ \A i \in 1..Len(Tail(a \o b)) : Tail(a \o b)[i] = (a \o b)[i + 1]
  BY <1>2, <1>3, HeadTailProperties
<1>5. /\ Tail(a) \o b \in Seq(S) /\ Len(Tail(a) \o b) = Len(Tail(a)) + Len(b)
      /\ \A i \in 1..(Len(Tail(a)) + Len(b)) :
            (Tail(a) \o b)[i] = IF i <= Len(Tail(a)) THEN Tail(a)[i] ELSE b[i - Len(Tail(a))]
  BY <1>1, ConcatProperties
<1>6. ASSUME NEW i \in 1..Len(Tail(a) \o b)
      PROVE  (Tail(a) \o b)[i] = Tail(a \o b)[i]
  <2>1. CASE i <= Len(Tail(a))
    BY <1>1, <1>2, <1>4, <1>5, <2>1
  <2>2. CASE i > Len(Tail(a))
    <3>1. (Tail(a) \o b)[i] = b[i - (Len(a) - 1)]
      BY <1>1, <1>2, <1>5, <2>2
    <3>2. Tail(a \o b)[i] = b[(i + 1) - Len(a)] /\ (i + 1) - Len(a) = i - (Len(a) - 1)
      BY <1>1, <1>2, <1>4, <1>5, <2>2
    <3>3. QED
      BY <3>1, <3>2
  <2>3. QED
    BY <1>1, <2>1, <2>2
<1>7. QED
  BY <1>1, <1>2, <1>3, <1>4, <1>5, <1>6, SeqEqual

\* A message that joins the last queue is the last on the way.
LEMMA MessageJoins ==
  ASSUME NEW S, NEW a \in Seq(S), NEW b \in Seq(S), NEW e \in S
  PROVE  a \o Append(b, e) = Append(a \o b, e)
<1>1. Append(b, e) = b \o <<e>> /\ <<e>> \in Seq(S) /\ a \o b \in Seq(S)
  BY AppendIsConcat, ConcatProperties
<1>2. Append(a \o b, e) = (a \o b) \o <<e>>
  BY <1>1, AppendIsConcat
<1>3. (a \o b) \o <<e>> = a \o (b \o <<e>>)
  BY <1>1, ConcatAssociative
<1>4. QED
  BY <1>1, <1>2, <1>3

-----------------------------------------------------------------------------
(* Types.                                                                  *)

\* Trimming leaves a sequence that fits, and the last of it.
LEMMA TrimmedFacts ==
  ASSUME NEW events \in Seq(Event)
  PROVE  /\ Trimmed(events) \in Seq(Event) /\ Len(Trimmed(events)) <= HubCap
         /\ events # <<>> => Trimmed(events) # <<>>
         /\ Len(Trimmed(events)) <= Len(events)
         /\ \A i \in 1..Len(Trimmed(events)) :
               Trimmed(events)[i] = events[(Len(events) - Len(Trimmed(events))) + i]
<1>1. Len(events) \in Nat /\ HubCap \in Nat \ {0} /\ events \in [1..Len(events) -> Event]
  BY LenProperties, HubConstants
<1>2. CASE Len(events) <= HubCap
  <2>1. Trimmed(events) = events
    BY <1>1, <1>2 DEF Trimmed
  <2>2. \A i \in 1..Len(events) : (Len(events) - Len(events)) + i = i
    BY <1>1
  <2>3. QED
    BY <1>1, <1>2, <2>1, <2>2
<1>3. CASE Len(events) > HubCap
  <2>. DEFINE m == Len(events) - HubCap + 1
              t == SubSeq(events, m, Len(events))
  <2>1. /\ m \in Int /\ m \in 1..Len(events) /\ \A i \in m..Len(events) : events[i] \in Event
        /\ m <= Len(events) /\ Len(events) - m + 1 = HubCap
    BY <1>1, <1>3
  <2>2. t \in Seq(Event) /\ Len(t) = HubCap /\ \A i \in 1..HubCap : t[i] = events[m + i - 1]
    <3>. HIDE DEF m
    <3>1. t \in Seq(Event) /\ Len(t) = (IF m <= Len(events) THEN Len(events) - m + 1 ELSE 0)
          /\ \A i \in 1..(Len(events) - m + 1) : t[i] = events[m + i - 1]
      BY <1>1, <2>1, SubSeqProperties
    <3>2. QED
      BY <2>1, <3>1
  <2>3. \A i \in 1..HubCap : m + i - 1 = (Len(events) - HubCap) + i
    BY <1>1
  <2>4. Trimmed(events) = t
    BY <1>3 DEF Trimmed
  <2>. HIDE DEF t, m
  <2>5. \A i \in 1..HubCap : t[i] = events[(Len(events) - HubCap) + i]
    BY <2>2, <2>3
  <2>6. t # <<>>
    BY <1>1, <2>2
  <2>7. Len(Trimmed(events)) = HubCap /\ Trimmed(events) \in Seq(Event) /\ Trimmed(events) # <<>>
    BY <2>2, <2>4, <2>6
  <2>8. \A i \in 1..HubCap : Trimmed(events)[i] = events[(Len(events) - HubCap) + i]
    BY <2>4, <2>5
  <2>9. HubCap <= HubCap /\ HubCap <= Len(events)
    BY <1>1, <1>3
  <2>10. QED
    BY <2>7, <2>8, <2>9
<1>4. QED
  BY <1>1, <1>2, <1>3

\* A connection that ended, or has just begun.
LEMMA NewConn ==
  /\ NoConn \in Conn /\ [NoConn EXCEPT !.phase = "subscribe"] \in Conn
  /\ NoConn.out = <<>> /\ NoConn.buf = <<>> /\ NoConn.left = <<>> /\ NoConn.sub = "none"
  /\ NoConn.phase = "none"
<1>1. <<>> \in Seq(Event) /\ <<>> \in Seq(Event \cup {Gap})
  BY EmptySeq
<1>2. QED
  BY <1>1 DEF NoConn, Conn

\* The requests of the page are typed.
LEMMA ReloadTypes == Idle \in Reload /\ Sent \in Reload
  BY DEF Idle, Sent, Reload

\* The state of the hub and of a connection, apart from counters.
ConnTypeOK == conn \in Conn /\ Len(conn.out) <= OutCap /\ Len(conn.buf) <= SubCap

\* Each field of a connection.
LEMMA ConnFields ==
  ASSUME conn \in Conn
  PROVE  /\ conn.phase \in {"none", "subscribe", "replay", "serve"}
         /\ conn.sub \in {"none", "live", "dropped"} /\ conn.gap \in BOOLEAN
         /\ conn.left \in Seq(Message) /\ conn.out \in Seq(Message) /\ conn.buf \in Seq(Event)
         /\ conn.buf \in Seq(Message)
<1>1. conn.buf \in Seq(Event) /\ Event \subseteq Message
  BY DEF Conn, Message
<1>2. conn.buf \in Seq(Message)
  BY <1>1, SeqMonotonic
<1>3. QED
  BY <1>1, <1>2 DEF Conn, Message

\* sendEnvelope keeps the queue within its bound.
LEMMA QueueType ==
  ASSUME ConnTypeOK, NEW rest \in Conn, rest.out = conn.out, rest.buf \in Seq(Event), Len(rest.buf) <= SubCap,
         NEW m \in Message, Queue(rest, m)
  PROVE  ConnTypeOK'
<1>1. OutCap \in Nat /\ SubCap \in Nat /\ conn.out \in Seq(Message) /\ Len(conn.out) \in Nat
  BY HubConstants, ConnFields, LenProperties DEF ConnTypeOK
<1>2. CASE Len(conn.out) < OutCap
  <2>1. conn' = [rest EXCEPT !.out = Append(conn.out, m)]
    BY <1>2 DEF Queue, Conn
  <2>2. Append(conn.out, m) \in Seq(Message) /\ Len(Append(conn.out, m)) = Len(conn.out) + 1
    BY <1>1, AppendProperties
  <2>3. conn' \in Conn /\ conn'.out = Append(conn.out, m) /\ conn'.buf = rest.buf
    BY <2>1, <2>2 DEF Conn, Message
  <2>4. QED
    BY <1>1, <1>2, <2>2, <2>3 DEF ConnTypeOK
<1>3. CASE ~(Len(conn.out) < OutCap)
  <2>1. conn' = NoConn /\ Len(<<>>) = 0
    BY <1>3 DEF Queue
  <2>2. QED
    BY <1>1, <2>1, NewConn DEF ConnTypeOK
<1>4. QED
  BY <1>2, <1>3

\* publish keeps the types of the hub and of the connection.
LEMMA PublishType ==
  ASSUME HubTypeOK, NEW topic \in {"alerts", "logs"}, publish(topic)
  PROVE  /\ ConnTypeOK' /\ hubSeq' \in Nat /\ published' \subseteq 1..hubSeq'
         /\ hubReplay' \in Seq(Event) /\ Len(hubReplay') <= HubCap
<1>. DEFINE e == [topic |-> topic, seq |-> hubSeq + 1]
<1>1. /\ hubSeq \in Nat /\ e \in Event /\ ConnTypeOK /\ hubReplay \in Seq(Event)
      /\ published \subseteq 1..hubSeq
  BY DEF HubTypeOK, Event, ConnTypeOK
<1>2. /\ hubSeq' = hubSeq + 1 /\ hubReplay' = Trimmed(Append(hubReplay, e))
      /\ published' = IF topic = "alerts" THEN published \cup {hubSeq + 1} ELSE published
      /\ conn' = IF topic = "alerts" /\ conn.sub = "live" THEN Offered(conn, e) ELSE conn
  BY DEF publish
<1>. HIDE DEF e
<1>3. Append(hubReplay, e) \in Seq(Event)
  BY <1>1, AppendProperties
<1>4. hubReplay' \in Seq(Event) /\ Len(hubReplay') <= HubCap
  BY <1>2, <1>3, TrimmedFacts
<1>5. hubSeq' \in Nat /\ published' \subseteq 1..hubSeq'
  BY <1>1, <1>2
<1>6. ConnTypeOK'
  <2>1. conn.buf \in Seq(Event) /\ Len(conn.buf) \in Nat /\ SubCap \in Nat
    BY <1>1, ConnFields, LenProperties, HubConstants DEF ConnTypeOK
  <2>2. Append(conn.buf, e) \in Seq(Event) /\ Len(Append(conn.buf, e)) = Len(conn.buf) + 1
    BY <1>1, <2>1, AppendProperties
  <2>3. CASE conn' = conn
    BY <1>1, <2>3 DEF ConnTypeOK
  <2>4. CASE Len(conn.buf) < SubCap /\ conn' = [conn EXCEPT !.buf = Append(conn.buf, e)]
    <3>1. conn' \in Conn /\ conn'.out = conn.out /\ conn'.buf = Append(conn.buf, e)
      BY <1>1, <2>2, <2>4 DEF ConnTypeOK, Conn
    <3>2. Len(Append(conn.buf, e)) <= SubCap
      BY <2>1, <2>2, <2>4
    <3>3. QED
      BY <1>1, <3>1, <3>2 DEF ConnTypeOK
  <2>5. CASE conn' = [conn EXCEPT !.sub = "dropped"]
    BY <1>1, <2>5 DEF ConnTypeOK, Conn
  <2>6. QED
    BY <1>1, <1>2, <2>3, <2>4, <2>5 DEF Offered, ConnTypeOK, Conn
<1>7. QED
  BY <1>4, <1>5, <1>6

\* HubTypeOK, part by part: what the hub keeps.
HubPart ==
    /\ hubReplay \in Seq(Event) /\ Len(hubReplay) <= HubCap
    /\ hubSeq \in Nat /\ published \subseteq 1..hubSeq

\* The counts of the server.
CountPart == {epoch, truth, unpublished, logs, closes} \subseteq Nat /\ collided \in BOOLEAN

\* What the page and its socket keep.
PagePart ==
    /\ {cursor, cursorEpoch, shown} \subseteq Nat /\ failed \in BOOLEAN
    /\ sock \in {"new", "open", "lost", "stopped"}
    /\ reload \in Reload /\ outdated \in Reload

\* The parts are all of it.
LEMMA HubTypeParts == HubTypeOK <=> HubPart /\ ConnTypeOK /\ CountPart /\ PagePart
  BY DEF HubTypeOK, HubPart, ConnTypeOK, CountPart, PagePart

\* Also after a step.
LEMMA PartsSuffice ==
  ASSUME HubPart', ConnTypeOK', CountPart', PagePart'
  PROVE  HubTypeOK'
  BY DEF HubTypeOK, HubPart, ConnTypeOK, CountPart, PagePart

\* Every step of the hub, the connection and the page keeps the types.
LEMMA HubTypeStep ==
  ASSUME HubTypeOK, [HubNext]_hubVars
  PROVE  HubTypeOK'
<1>1. HubPart /\ ConnTypeOK /\ CountPart /\ PagePart
  BY HubTypeParts
<1>2. /\ conn \in Conn /\ conn.left \in Seq(Message) /\ conn.out \in Seq(Message) /\ conn.buf \in Seq(Event)
      /\ Len(conn.out) \in Nat /\ Len(conn.buf) \in Nat
      /\ {HubCap, OutCap, SubCap} \subseteq Nat \ {0}
  BY <1>1, ConnFields, LenProperties, HubConstants DEF ConnTypeOK
<1>3. ASSUME conn' = NoConn
      PROVE  ConnTypeOK'
  <2>1. Len(<<>>) = 0
    OBVIOUS
  <2>2. QED
    BY <1>2, <1>3, <2>1, NewConn DEF ConnTypeOK
<1>. USE DEF serverVars, clientVars
<1>4. CASE CommitChange
  BY <1>1, <1>4, PartsSuffice DEF CommitChange, HubPart, ConnTypeOK, CountPart, PagePart
<1>5. CASE PublishAlert \/ PublishLog
  <2>1. PICK topic \in {"alerts", "logs"} : publish(topic)
    BY <1>5 DEF PublishAlert, PublishLog
  <2>2. HubPart' /\ ConnTypeOK'
    BY <2>1, PublishType DEF HubPart
  <2>3. CountPart' /\ PagePart'
    BY <1>1, <1>5 DEF PublishAlert, PublishLog, CountPart, PagePart
  <2>4. QED
    BY <2>2, <2>3, PartsSuffice
<1>6. CASE HandleSubscribe
  <2>1. AlertsAfter(cursor) \in Seq(Event)
    BY <1>1, FoundAlerts DEF HubPart, PagePart
  <2>2. /\ <<Gap>> \in Seq(Message) /\ <<>> \in Seq(Message) /\ AlertsAfter(cursor) \in Seq(Message)
    <3>1. Gap \in Message /\ Event \subseteq Message
      BY DEF Message
    <3>2. QED
      BY <2>1, <3>1, SeqMonotonic
  <2>3. (IF MissesEvents(cursor) THEN <<Gap>> ELSE <<>>) \o AlertsAfter(cursor) \in Seq(Message)
    BY <2>2, ConcatProperties
  <2>4. MissesEvents(cursor) \in BOOLEAN
    BY DEF MissesEvents
  <2>5. ConnTypeOK'
    <3>1. conn' = [conn EXCEPT !.phase = "replay", !.sub = "live", !.gap = MissesEvents(cursor),
             !.left = (IF MissesEvents(cursor) THEN <<Gap>> ELSE <<>>) \o AlertsAfter(cursor)]
      BY <1>6 DEF HandleSubscribe
    <3>2. conn' \in Conn /\ conn'.out = conn.out /\ conn'.buf = conn.buf
      BY <1>2, <2>3, <2>4, <3>1 DEF Conn, Message
    <3>3. QED
      BY <1>1, <3>2 DEF ConnTypeOK
  <2>6. HubPart' /\ PagePart' /\ CountPart'
    BY <1>1, <1>6, <2>4 DEF HandleSubscribe, HubPart, CountPart, PagePart
  <2>7. QED
    BY <2>5, <2>6, PartsSuffice
<1>7. CASE SendReplay
  <2>1. HubPart' /\ PagePart' /\ CountPart'
    BY <1>1, <1>7 DEF SendReplay, HubPart, CountPart, PagePart
  <2>2. CASE conn.left = <<>>
    <3>1. conn' = [conn EXCEPT !.phase = "serve"]
      BY <1>7, <2>2 DEF SendReplay
    <3>2. conn' \in Conn /\ conn'.out = conn.out /\ conn'.buf = conn.buf
      BY <1>2, <3>1 DEF Conn
    <3>3. QED
      BY <1>1, <2>1, <3>2, PartsSuffice DEF ConnTypeOK
  <2>3. CASE conn.left # <<>>
    <3>1. Queue([conn EXCEPT !.left = Tail(conn.left)], Head(conn.left))
      BY <1>2, <1>7, <2>3 DEF SendReplay, Conn
    <3>2. Head(conn.left) \in Message /\ Tail(conn.left) \in Seq(Message)
      BY <1>2, <2>3, HeadTailProperties
    <3>3. /\ [conn EXCEPT !.left = Tail(conn.left)] \in Conn
          /\ [conn EXCEPT !.left = Tail(conn.left)].out = conn.out
          /\ [conn EXCEPT !.left = Tail(conn.left)].buf = conn.buf
      BY <1>2, <3>2 DEF Conn, Message
    <3>4. ConnTypeOK'
      BY <1>1, <1>2, <3>1, <3>2, <3>3, QueueType DEF ConnTypeOK
    <3>5. QED
      BY <2>1, <3>4, PartsSuffice
  <2>4. QED
    BY <2>2, <2>3
<1>8. CASE Forward
  <2>1. HubPart' /\ PagePart' /\ CountPart'
    BY <1>1, <1>8 DEF Forward, HubPart, CountPart, PagePart
  <2>2. CASE conn' = NoConn
    BY <1>3, <2>1, <2>2, PartsSuffice
  <2>3. CASE conn.buf # <<>> /\ Queue([conn EXCEPT !.buf = Tail(conn.buf)], Head(conn.buf))
    <3>1. /\ Head(conn.buf) \in Event /\ Tail(conn.buf) \in Seq(Event)
          /\ Len(Tail(conn.buf)) = Len(conn.buf) - 1
      BY <1>2, <2>3, HeadTailProperties
    <3>2. /\ [conn EXCEPT !.buf = Tail(conn.buf)] \in Conn
          /\ [conn EXCEPT !.buf = Tail(conn.buf)].out = conn.out
          /\ [conn EXCEPT !.buf = Tail(conn.buf)].buf = Tail(conn.buf)
      BY <1>2, <3>1 DEF Conn
    <3>3. Len(Tail(conn.buf)) <= SubCap /\ Head(conn.buf) \in Message
      BY <1>1, <1>2, <3>1 DEF ConnTypeOK, Message
    <3>4. ConnTypeOK'
      BY <1>1, <2>3, <3>1, <3>2, <3>3, QueueType
    <3>5. QED
      BY <2>1, <3>4, PartsSuffice
  <2>4. QED
    BY <1>2, <1>8, <2>2, <2>3 DEF Forward, Conn
<1>9. CASE ConnectionEnds
  BY <1>1, <1>3, <1>9, PartsSuffice DEF ConnectionEnds, HubPart, CountPart, PagePart
<1>10. CASE Restart
  <2>1. HubPart'
    BY <1>2, <1>10, EmptySeq DEF Restart, HubPart
  <2>2. CountPart' /\ PagePart'
    BY <1>1, <1>10, ReloadTypes DEF Restart, CountPart, PagePart
  <2>3. QED
    BY <1>3, <1>10, <2>1, <2>2, PartsSuffice DEF Restart
<1>11. CASE Connect
  <2>1. HubPart' /\ PagePart' /\ CountPart'
    BY <1>1, <1>11, ReloadTypes DEF Connect, StartReload, HubPart, CountPart, PagePart
  <2>2. /\ conn' = [NoConn EXCEPT !.phase = "subscribe"]
        /\ [NoConn EXCEPT !.phase = "subscribe"].out = <<>> /\ [NoConn EXCEPT !.phase = "subscribe"].buf = <<>>
        /\ Len(<<>>) = 0
    BY <1>11 DEF Connect, NoConn
  <2>3. ConnTypeOK'
    BY <1>2, <2>2, NewConn DEF ConnTypeOK
  <2>4. QED
    BY <2>1, <2>3, PartsSuffice
<1>12. CASE Write
  <2>1. Head(conn.out) \in Message /\ Tail(conn.out) \in Seq(Message) /\ Len(Tail(conn.out)) = Len(conn.out) - 1
    BY <1>2, <1>12, HeadTailProperties DEF Write
  <2>2. Head(conn.out).seq \in Nat
    BY <2>1 DEF Message, Event, Gap
  <2>3. HubPart' /\ CountPart'
    BY <1>1, <1>12 DEF Write, HubPart, CountPart
  <2>4. PagePart'
    BY <1>1, <1>12, <2>2, ReloadTypes DEF Write, OnMessage, StartReload, PagePart, CountPart
  <2>5. conn' \in Conn /\ conn'.out = Tail(conn.out) /\ conn'.buf = conn.buf
    BY <1>2, <1>12, <2>1 DEF Write, Conn, Message
  <2>6. ConnTypeOK'
    BY <1>1, <1>2, <2>1, <2>5 DEF ConnTypeOK
  <2>7. QED
    BY <2>3, <2>4, <2>6, PartsSuffice
<1>13. CASE SessionLost \/ OnClose
  BY <1>1, <1>13, PartsSuffice DEF SessionLost, OnClose, HubPart, ConnTypeOK, CountPart, PagePart
<1>14. CASE ReadAlerts \/ ReadOutdated
  <2>1. HubPart' /\ ConnTypeOK' /\ CountPart'
    BY <1>1, <1>14 DEF ReadAlerts, ReadOutdated, HubPart, ConnTypeOK, CountPart
  <2>2. [at |-> "read", ver |-> truth] \in Reload
    BY <1>1 DEF CountPart, Reload
  <2>3. PagePart'
    BY <1>1, <1>14, <2>2 DEF ReadAlerts, ReadOutdated, PagePart
  <2>4. QED
    BY <2>1, <2>3, PartsSuffice
<1>15. CASE AnswerReload \/ AnswerOutdated \/ ReloadFails
  <2>1. HubPart' /\ ConnTypeOK' /\ CountPart'
    BY <1>1, <1>15 DEF AnswerReload, AnswerOutdated, ReloadFails, HubPart, ConnTypeOK, CountPart
  <2>2. reload.ver \in Nat /\ outdated.ver \in Nat
    BY <1>1 DEF PagePart, Reload
  <2>3. PagePart'
    BY <1>1, <1>15, <2>2, ReloadTypes
       DEF AnswerReload, AnswerOutdated, ReloadFails, Answer, SameGeneration, PagePart
  <2>4. QED
    BY <2>1, <2>3, PartsSuffice
<1>16. CASE UNCHANGED hubVars
  BY <1>16 DEF hubVars, HubTypeOK
<1>17. QED
  BY <1>4, <1>5, <1>6, <1>7, <1>8, <1>9, <1>10, <1>11, <1>12, <1>13, <1>14, <1>15, <1>16 DEF HubNext

\* Types at the start.
LEMMA HubTypeInit == HubInit => HubTypeOK
<1>. SUFFICES ASSUME HubInit
              PROVE  HubTypeOK
  OBVIOUS
<1>1. HubPart /\ ConnTypeOK
  BY NewConn, EmptySeq, HubConstants DEF HubInit, HubPart, ConnTypeOK
<1>2. CountPart
  <2>1. epoch = 0 /\ truth = 0 /\ unpublished = 0 /\ logs = 0 /\ closes = 0
    BY DEF HubInit
  <2>2. {epoch, truth, unpublished, logs, closes} \subseteq Nat
    BY <2>1
  <2>3. collided \in BOOLEAN
    BY Zenon DEF HubInit
  <2>4. QED
    BY <2>2, <2>3 DEF CountPart
<1>3. PagePart
  <2>1. cursor = 0 /\ cursorEpoch = 0 /\ shown = 0
    BY DEF HubInit
  <2>2. {cursor, cursorEpoch, shown} \subseteq Nat
    BY <2>1
  <2>3. failed \in BOOLEAN /\ sock \in {"new", "open", "lost", "stopped"} /\ reload = Idle /\ outdated = Idle
    BY Zenon DEF HubInit
  <2>4. QED
    BY <2>2, <2>3, ReloadTypes DEF PagePart
<1>4. QED
  BY <1>1, <1>2, <1>3, HubTypeParts

-----------------------------------------------------------------------------
(* Nothing is lost on the way.                                             *)

\* The replay is the last events, without a hole, and knows the alert events.
ReplayInv ==
    /\ Len(hubReplay) <= hubSeq /\ (hubReplay = <<>> => hubSeq = 0)
    /\ \A i \in 1..Len(hubReplay) :
          /\ hubReplay[i].seq = (hubSeq - Len(hubReplay)) + i
          /\ hubReplay[i].seq \in published => hubReplay[i].topic = "alerts"

\* A connection has messages only after its subscription, and the replay is queued
\* before the buffer is read.
PhaseInv ==
    /\ conn.phase \in {"none", "subscribe"} => /\ conn.sub = "none" /\ conn.out = <<>>
                                               /\ conn.left = <<>> /\ conn.buf = <<>>
    /\ conn.phase = "serve" => conn.left = <<>>

\* Messages are in the order of their numbers, which go up to top; Gap is among them
\* only when a gap was found.
InSequence(U, top, gap) ==
    /\ \A i, j \in 1..Len(U) : i < j => U[i].seq < U[j].seq
    /\ \A i \in 1..Len(U) : U[i].seq <= top /\ (U[i] = Gap => gap)

\* What was published after seen is among them, and so is what was published after
\* the first of them.
NoHole(U, events, seen) ==
    \A n \in events :
        n > seen \/ (\E i \in 1..Len(U) : U[i].seq <= n) => \E i \in 1..Len(U) : U[i].seq = n

\* Up to where the browser has seen the events of this process; a cursor of another
\* process says nothing about them.
Seen == IF cursorEpoch = epoch \/ cursor = 0 THEN cursor ELSE hubSeq

\* The inductive invariant, beyond the types.
StreamInv ==
    /\ ReplayInv /\ PhaseInv
    /\ InSequence(Underway, hubSeq, conn.gap)
    /\ conn.sub = "live" /\ ~conn.gap => NoHole(Underway, published, Seen)

\* Messages have numbers.
LEMMA MessageFacts ==
  ASSUME NEW U \in Seq(Message)
  PROVE  Len(U) \in Nat /\ \A i \in 1..Len(U) : U[i] \in Message /\ U[i].seq \in Nat
<1>1. \A m \in Message : m.seq \in Nat
  BY DEF Message, Event, Gap
<1>2. QED
  BY <1>1, LenProperties, ElementOfSeq

\* The stream of a connection is a sequence of messages.
LEMMA UnderwayType ==
  ASSUME conn \in Conn
  PROVE  Underway \in Seq(Message)
  BY ConnFields, ConcatProperties DEF Underway

\* The stream of a connection that has none.
LEMMA EmptyStream ==
  ASSUME NEW top, NEW gap
  PROVE  InSequence(<<>>, top, gap)
  BY DEF InSequence

\* The first message leaves the stream: a browser that is not behind it misses nothing.
LEMMA StreamTail ==
  ASSUME NEW U \in Seq(Message), U # <<>>, NEW top \in Nat, NEW gap, InSequence(U, top, gap)
  PROVE  /\ InSequence(Tail(U), top, gap)
         /\ \A events \in SUBSET Nat, s, t \in Nat :
               NoHole(U, events, s) /\ U[1].seq <= t => NoHole(Tail(U), events, t)
<1>1. /\ Len(U) \in Nat \ {0} /\ \A i \in 1..Len(U) : U[i].seq \in Nat
  BY MessageFacts, EmptySeq
<1>2. /\ Tail(U) \in Seq(Message) /\ Len(Tail(U)) = Len(U) - 1
      /\ \A i \in 1..(Len(U) - 1) : Tail(U)[i] = U[i + 1]
  BY HeadTailProperties
<1>3. InSequence(Tail(U), top, gap)
  BY <1>1, <1>2 DEF InSequence
<1>4. ASSUME NEW events \in SUBSET Nat, NEW s \in Nat, NEW t \in Nat, NoHole(U, events, s), U[1].seq <= t
      PROVE  NoHole(Tail(U), events, t)
  <2>1. ASSUME NEW n \in events, n > t \/ \E i \in 1..Len(Tail(U)) : Tail(U)[i].seq <= n
        PROVE  \E i \in 1..Len(Tail(U)) : Tail(U)[i].seq = n
    <3>1. 1 \in 1..Len(U) /\ U[1].seq < n
      <4>0. n \in Nat /\ 1 \in 1..Len(U) /\ U[1].seq \in Nat
        <5>1. n \in Nat
          BY Zenon
        <5>2. 1 \in 1..Len(U)
          BY <1>1
        <5>3. U[1].seq \in Nat
          BY <1>1, <5>2, Zenon
        <5>4. QED
          BY <5>1, <5>2, <5>3, Zenon
      <4>1. CASE n > t
        BY <1>4, <4>0, <4>1
      <4>2. CASE \E i \in 1..Len(Tail(U)) : Tail(U)[i].seq <= n
        <5>1. PICK i \in 1..(Len(U) - 1) : Tail(U)[i].seq <= n
          BY <1>2, <4>2
        <5>2. U[i + 1].seq <= n /\ i + 1 \in 1..Len(U) /\ 1 < i + 1 /\ 1 \in 1..Len(U)
          BY <1>1, <1>2, <5>1
        <5>3. U[1].seq < U[i + 1].seq
          BY <5>2 DEF InSequence
        <5>4. U[i + 1].seq \in Nat
          BY <1>1, <5>2
        <5>5. QED
          BY <4>0, <5>2, <5>3, <5>4
      <4>3. QED
        BY <2>1, <4>1, <4>2
    <3>2. PICK i \in 1..Len(U) : U[i].seq = n
      BY <1>1, <1>4, <3>1 DEF NoHole
    <3>3. i # 1 /\ i - 1 \in 1..(Len(U) - 1) /\ (i - 1) + 1 = i
      BY <1>1, <3>1, <3>2
    <3>4. Tail(U)[i - 1].seq = n
      BY <1>2, <3>2, <3>3
    <3>5. QED
      BY <1>2, <3>3, <3>4
  <2>2. QED
    BY <2>1 DEF NoHole
<1>5. QED
  BY <1>3, <1>4

\* A new event joins the stream at its end.
LEMMA StreamAppend ==
  ASSUME NEW U \in Seq(Message), NEW top \in Nat, NEW gap, InSequence(U, top, gap),
         NEW e \in Event, e.seq = top + 1
  PROVE  /\ InSequence(Append(U, e), top + 1, gap)
         /\ \A events \in SUBSET (1..top), s, t \in Nat :
               NoHole(U, events, s) /\ s <= t => NoHole(Append(U, e), events \cup {top + 1}, t)
<1>1. Len(U) \in Nat /\ \A i \in 1..Len(U) : U[i].seq \in Nat
  BY MessageFacts
<1>. DEFINE V == Append(U, e)
<1>2. /\ Len(V) = Len(U) + 1 /\ V[Len(U) + 1] = e /\ \A i \in 1..Len(U) : V[i] = U[i]
  BY AppendProperties DEF Message
<1>. HIDE DEF V
<1>3. e # Gap
  BY DEF Event, Gap
<1>4. \A i \in 1..Len(V) : i = Len(U) + 1 \/ i \in 1..Len(U)
  BY <1>1, <1>2
<1>5. InSequence(V, top + 1, gap)
  <2>1. ASSUME NEW i \in 1..Len(V)
        PROVE  V[i].seq <= top + 1 /\ (V[i] = Gap => gap)
    BY <1>1, <1>2, <1>3, <1>4 DEF InSequence
  <2>2. ASSUME NEW i \in 1..Len(V), NEW j \in 1..Len(V), i < j
        PROVE  V[i].seq < V[j].seq
    <3>1. i \in 1..Len(U) /\ V[i] = U[i] /\ U[i].seq <= top
      BY <1>1, <1>2, <2>2 DEF InSequence
    <3>2. QED
      BY <1>1, <1>2, <1>4, <2>2, <3>1 DEF InSequence
  <2>3. QED
    BY <2>1, <2>2 DEF InSequence
<1>6. ASSUME NEW events \in SUBSET (1..top), NEW s \in Nat, NEW t \in Nat, NoHole(U, events, s), s <= t
      PROVE  NoHole(V, events \cup {top + 1}, t)
  <2>1. ASSUME NEW n \in events \cup {top + 1}, n > t \/ \E i \in 1..Len(V) : V[i].seq <= n
        PROVE  \E i \in 1..Len(V) : V[i].seq = n
    <3>1. CASE n = top + 1
      BY <1>1, <1>2, <3>1
    <3>2. CASE n # top + 1
      <4>1. n \in events /\ n \in 1..top
        BY <3>2
      <4>2. n > s \/ \E i \in 1..Len(U) : U[i].seq <= n
        <5>1. CASE n > t
          BY <1>6, <4>1, <5>1
        <5>2. CASE \E i \in 1..Len(V) : V[i].seq <= n
          BY <1>2, <1>4, <4>1, <5>2
        <5>3. QED
          BY <2>1, <5>1, <5>2
      <4>3. PICK i \in 1..Len(U) : U[i].seq = n
        BY <1>6, <4>1, <4>2 DEF NoHole
      <4>4. i \in 1..Len(V) /\ V[i] = U[i]
        BY <1>1, <1>2
      <4>5. QED
        BY <4>3, <4>4
    <3>3. QED
      BY <3>1, <3>2
  <2>2. QED
    BY <2>1 DEF NoHole
<1>7. QED
  BY <1>5, <1>6 DEF V

\* publish keeps the replay.
LEMMA PublishReplay ==
  ASSUME HubTypeOK, ReplayInv, NEW topic \in {"alerts", "logs"}, publish(topic)
  PROVE  ReplayInv'
<1>. DEFINE e == [topic |-> topic, seq |-> hubSeq + 1]
            A == Append(hubReplay, e)
            L == Len(hubReplay)
<1>1. /\ hubSeq \in Nat /\ e \in Event /\ hubReplay \in Seq(Event) /\ published \subseteq 1..hubSeq
      /\ e.seq = hubSeq + 1 /\ e.topic = topic /\ L \in Nat
  BY LenProperties DEF HubTypeOK, Event
<1>2. /\ hubSeq' = hubSeq + 1 /\ hubReplay' = Trimmed(A)
      /\ published' = IF topic = "alerts" THEN published \cup {hubSeq + 1} ELSE published
  BY DEF publish
<1>. HIDE DEF e
<1>3. /\ A \in Seq(Event) /\ A # <<>> /\ Len(A) = L + 1 /\ A[L + 1] = e
      /\ \A i \in 1..L : A[i] = hubReplay[i]
  BY <1>1, AppendProperties
<1>. HIDE DEF A
<1>4. /\ hubReplay' \in Seq(Event) /\ hubReplay' # <<>> /\ Len(hubReplay') <= L + 1
      /\ \A i \in 1..Len(hubReplay') : hubReplay'[i] = A[((L + 1) - Len(hubReplay')) + i]
  <2>1. /\ Trimmed(A) \in Seq(Event) /\ Trimmed(A) # <<>> /\ Len(Trimmed(A)) <= Len(A)
        /\ \A i \in 1..Len(Trimmed(A)) : Trimmed(A)[i] = A[(Len(A) - Len(Trimmed(A))) + i]
    BY <1>3, TrimmedFacts
  <2>2. QED
    BY <1>2, <1>3, <2>1
<1>5. ASSUME NEW j \in 1..(L + 1)
      PROVE  /\ A[j].seq = (hubSeq - L) + j
             /\ A[j].seq \in published' => A[j].topic = "alerts"
  <2>1. CASE j = L + 1
    <3>1. A[j] = e /\ e.seq = (hubSeq - L) + j
      BY <1>1, <1>3, <2>1
    <3>2. hubSeq + 1 \notin published
      BY <1>1
    <3>3. QED
      BY <1>1, <1>2, <3>1, <3>2
  <2>2. CASE j # L + 1
    <3>1. j \in 1..L /\ A[j] = hubReplay[j]
      BY <1>1, <1>3, <2>2
    <3>2. A[j].seq = (hubSeq - L) + j /\ (A[j].seq \in published => A[j].topic = "alerts")
      BY <3>1 DEF ReplayInv
    <3>3. A[j].seq # hubSeq + 1
      BY <1>1, <3>1, <3>2
    <3>4. QED
      BY <1>2, <3>2, <3>3
  <2>3. QED
    BY <2>1, <2>2
<1>6. ASSUME NEW i \in 1..Len(hubReplay')
      PROVE  /\ hubReplay'[i].seq = (hubSeq' - Len(hubReplay')) + i
             /\ hubReplay'[i].seq \in published' => hubReplay'[i].topic = "alerts"
  <2>1. Len(hubReplay') \in Nat
    BY <1>4, LenProperties
  <2>2. /\ ((L + 1) - Len(hubReplay')) + i \in 1..(L + 1)
        /\ (hubSeq - L) + (((L + 1) - Len(hubReplay')) + i) = (hubSeq' - Len(hubReplay')) + i
    BY <1>1, <1>2, <1>4, <2>1
  <2>3. QED
    BY <1>4, <1>5, <2>2
<1>7. Len(hubReplay') <= hubSeq'
  <2>1. L <= hubSeq /\ Len(hubReplay') \in Nat
    BY <1>4, LenProperties DEF ReplayInv
  <2>2. QED
    BY <1>1, <1>2, <1>4, <2>1
<1>8. QED
  BY <1>4, <1>6, <1>7 DEF ReplayInv

\* publish offers an event to the end of the stream, or drops the subscriber.
LEMMA PublishStream ==
  ASSUME HubTypeOK, StreamInv, NEW topic \in {"alerts", "logs"}, publish(topic),
         UNCHANGED <<epoch, cursor, cursorEpoch>>
  PROVE  StreamInv'
<1>. DEFINE e == [topic |-> topic, seq |-> hubSeq + 1]
<1>1. /\ hubSeq \in Nat /\ e \in Event /\ e.seq = hubSeq + 1 /\ conn \in Conn
      /\ published \subseteq 1..hubSeq /\ cursor \in Nat /\ epoch \in Nat /\ cursorEpoch \in Nat
  BY DEF HubTypeOK, Event
<1>2. /\ hubSeq' = hubSeq + 1
      /\ published' = IF topic = "alerts" THEN published \cup {hubSeq + 1} ELSE published
      /\ conn' = IF topic = "alerts" /\ conn.sub = "live" THEN Offered(conn, e) ELSE conn
  BY DEF publish
<1>3. ReplayInv'
  BY PublishReplay DEF StreamInv
<1>. HIDE DEF e
<1>4. /\ conn.left \in Seq(Message) /\ conn.out \in Seq(Message) /\ conn.buf \in Seq(Message)
      /\ Underway \in Seq(Message) /\ e \in Message
  BY <1>1, ConnFields, UnderwayType DEF Message
<1>5. Seen \in Nat /\ Seen' \in Nat /\ Seen <= Seen'
  BY <1>1, <1>2 DEF Seen
<1>6. InSequence(Underway, hubSeq, conn.gap) /\ PhaseInv
  BY DEF StreamInv
<1>7. Len(Underway) \in Nat /\ \A i \in 1..Len(Underway) : Underway[i].seq \in Nat
  BY <1>4, MessageFacts
<1>8. InSequence(Underway, hubSeq + 1, conn.gap)
  BY <1>1, <1>6, <1>7 DEF InSequence
<1>9. CASE conn' = conn /\ published' = published
  <2>1. NoHole(Underway, published, Seen) => NoHole(Underway, published, Seen')
    <3>1. \A n \in published : n > Seen' => n > Seen
      BY <1>1, <1>5
    <3>2. QED
      BY <3>1 DEF NoHole
  <2>2. Underway' = Underway /\ PhaseInv'
    BY <1>6, <1>9 DEF Underway, PhaseInv
  <2>3. QED
    BY <1>2, <1>3, <1>8, <1>9, <2>1, <2>2 DEF StreamInv
<1>10. CASE conn.sub # "live" /\ conn' = conn
  <2>1. Underway' = Underway /\ PhaseInv'
    BY <1>6, <1>10 DEF Underway, PhaseInv
  <2>2. QED
    BY <1>2, <1>3, <1>8, <1>10, <2>1 DEF StreamInv
<1>11. CASE conn' = [conn EXCEPT !.sub = "dropped"] /\ conn.sub = "live"
  <2>1. /\ conn'.sub = "dropped" /\ conn'.phase = conn.phase /\ conn'.out = conn.out /\ conn'.gap = conn.gap
        /\ conn'.left = conn.left /\ conn'.buf = conn.buf
    BY <1>1, <1>11 DEF Conn
  <2>2. Underway' = Underway /\ PhaseInv'
    BY <1>6, <1>11, <2>1 DEF Underway, PhaseInv
  <2>3. QED
    BY <1>2, <1>3, <1>8, <2>1, <2>2 DEF StreamInv
<1>12. CASE /\ conn' = [conn EXCEPT !.buf = Append(conn.buf, e)] /\ conn.sub = "live"
            /\ topic = "alerts"
  <2>1. /\ conn'.sub = conn.sub /\ conn'.phase = conn.phase /\ conn'.out = conn.out /\ conn'.gap = conn.gap
        /\ conn'.left = conn.left /\ conn'.buf = Append(conn.buf, e)
    BY <1>1, <1>12 DEF Conn
  <2>2. Underway' = Append(Underway, e)
    <3>1. conn.out \o conn.left \in Seq(Message)
      BY <1>4, ConcatProperties
    <3>2. (conn.out \o conn.left) \o Append(conn.buf, e) = Append((conn.out \o conn.left) \o conn.buf, e)
      <4>1. \A a, b \in Seq(Message), m \in Message : a \o Append(b, m) = Append(a \o b, m)
        BY MessageJoins
      <4>2. QED
        BY <1>4, <3>1, <4>1, Zenon
    <3>3. QED
      BY <2>1, <3>2 DEF Underway
  <2>3. PhaseInv'
    BY <1>6, <1>12, <2>1 DEF PhaseInv
  <2>4. InSequence(Underway', hubSeq', conn'.gap)
    BY <1>1, <1>2, <1>4, <1>6, <2>1, <2>2, StreamAppend
  <2>5. ASSUME conn'.sub = "live", ~conn'.gap
        PROVE  NoHole(Underway', published', Seen')
    <3>1. NoHole(Underway, published, Seen) /\ published \in SUBSET (1..hubSeq)
      BY <1>1, <2>1, <2>5 DEF StreamInv
    <3>2. NoHole(Append(Underway, e), published \cup {hubSeq + 1}, Seen')
      BY <1>1, <1>4, <1>5, <1>6, <3>1, StreamAppend
    <3>3. QED
      BY <1>2, <1>12, <2>2, <3>2
  <2>6. QED
    BY <1>3, <2>3, <2>4, <2>5 DEF StreamInv
<1>13. QED
  BY <1>1, <1>2, <1>9, <1>10, <1>11, <1>12 DEF Offered, Conn

\* Without a gap, Subscribe finds all that the browser has not seen.
LEMMA SubscribeFinds ==
  ASSUME HubTypeOK, ReplayInv, ~MissesEvents(cursor)
  PROVE  NoHole(AlertsAfter(cursor), published, Seen)
<1>. DEFINE found == AlertsAfter(cursor)
            L == Len(hubReplay)
<1>1. /\ hubSeq \in Nat /\ cursor \in Nat /\ published \subseteq 1..hubSeq
      /\ hubReplay \in Seq(Event) /\ L \in Nat /\ L <= hubSeq
  BY LenProperties DEF HubTypeOK, ReplayInv
<1>2. cursor <= hubSeq /\ (hubReplay # <<>> => cursor >= hubReplay[1].seq - 1)
  <2>1. hubReplay # <<>> => 1 \in 1..L /\ hubReplay[1].seq = (hubSeq - L) + 1
    BY <1>1, EmptySeq DEF ReplayInv
  <2>2. QED
    BY <1>1, <2>1 DEF MissesEvents
<1>3. cursor >= hubSeq - L
  <2>1. CASE hubReplay = <<>>
    BY <1>1, <2>1 DEF ReplayInv
  <2>2. CASE hubReplay # <<>>
    <3>1. 1 \in 1..L /\ hubReplay[1].seq = (hubSeq - L) + 1
      BY <1>1, <2>2, EmptySeq DEF ReplayInv
    <3>2. QED
      BY <1>1, <1>2, <2>2, <3>1
  <2>3. QED
    BY <2>1, <2>2
<1>4. Seen \in Nat /\ Seen >= cursor
  BY <1>1, <1>2 DEF Seen
<1>5. found \in Seq(Event) /\ \A k \in 1..Len(found) : found[k].seq \in Nat /\ found[k].seq > cursor
  <2>1. found \in Seq(Event) /\ \A k \in 1..Len(found) : found[k].seq > cursor
    BY <1>1, FoundAlerts
  <2>2. \A k \in 1..Len(found) : found[k] \in Event
    BY <2>1, ElementOfSeq
  <2>3. QED
    BY <2>1, <2>2 DEF Event
<1>6. \A i \in 1..L : (hubReplay[i].topic = "alerts" /\ hubReplay[i].seq > cursor) =>
                         \E k \in 1..Len(found) : found[k] = hubReplay[i]
  BY <1>1, FoundAlerts
<1>. HIDE DEF found
<1>7. ASSUME NEW n \in published, n > Seen \/ \E k \in 1..Len(found) : found[k].seq <= n
      PROVE  \E k \in 1..Len(found) : found[k].seq = n
  <2>1. n \in 1..hubSeq /\ n > cursor
    BY <1>1, <1>4, <1>5, <1>7
  <2>. DEFINE i == n - (hubSeq - L)
  <2>2. i \in 1..L /\ (hubSeq - L) + i = n
    BY <1>1, <1>3, <2>1
  <2>. HIDE DEF i
  <2>3. hubReplay[i].seq = n /\ hubReplay[i].topic = "alerts"
    BY <1>7, <2>2 DEF ReplayInv
  <2>4. QED
    BY <1>6, <2>1, <2>2, <2>3
<1>8. QED
  BY <1>7 DEF NoHole, found

\* The stream that a subscription begins with.
LEMMA SubscribeStream ==
  ASSUME HubTypeOK, StreamInv, HandleSubscribe
  PROVE  StreamInv'
<1>. DEFINE gap == MissesEvents(cursor)
            found == AlertsAfter(cursor)
<1>1. /\ hubSeq \in Nat /\ cursor \in Nat /\ hubReplay \in Seq(Event) /\ conn \in Conn
      /\ Len(hubReplay) \in Nat /\ Len(hubReplay) <= hubSeq
  BY LenProperties DEF HubTypeOK, StreamInv, ReplayInv
<1>2. /\ conn' = [conn EXCEPT !.phase = "replay", !.sub = "live", !.gap = gap,
                              !.left = (IF gap THEN <<Gap>> ELSE <<>>) \o found]
      /\ UNCHANGED <<hubSeq, hubReplay, published, epoch, cursor, cursorEpoch>>
      /\ conn.out = <<>> /\ conn.buf = <<>>
  BY DEF HandleSubscribe, serverVars, clientVars, StreamInv, PhaseInv
<1>3. /\ conn'.phase = "replay" /\ conn'.sub = "live" /\ conn'.gap = gap /\ conn'.out = <<>>
      /\ conn'.buf = <<>> /\ conn'.left = (IF gap THEN <<Gap>> ELSE <<>>) \o found
  BY <1>1, <1>2 DEF Conn
<1>4. \A i, j \in 1..Len(hubReplay) : i < j => hubReplay[i].seq < hubReplay[j].seq
  BY <1>1 DEF StreamInv, ReplayInv
<1>5. /\ found \in Seq(Event) /\ Len(found) \in Nat
      /\ \A k, l \in 1..Len(found) : k < l => found[k].seq < found[l].seq
      /\ \A k \in 1..Len(found) :
            found[k].seq > cursor /\ \E i \in 1..Len(hubReplay) : found[k] = hubReplay[i]
  BY <1>1, <1>4, FoundAlerts, LenProperties
<1>6. \A k \in 1..Len(found) : found[k] \in Event /\ found[k].seq \in Nat /\ found[k] # Gap
  <2>1. \A k \in 1..Len(found) : found[k] \in Event
    BY <1>5, ElementOfSeq
  <2>2. QED
    BY <2>1 DEF Event, Gap
<1>7. \A i \in 1..Len(hubReplay) : hubReplay[i].seq \in Nat /\ hubReplay[i].seq <= hubSeq
  BY <1>1 DEF StreamInv, ReplayInv
<1>8. \A k \in 1..Len(found) : found[k].seq <= hubSeq /\ found[k].seq >= 1
  BY <1>1, <1>5, <1>6, <1>7
<1>9. found \in Seq(Message) /\ <<Gap>> \in Seq(Message) /\ <<>> \in Seq(Message) /\ gap \in BOOLEAN
  <2>1. Event \subseteq Message /\ Gap \in Message
    BY DEF Message
  <2>2. QED
    BY <1>5, <2>1, SeqMonotonic DEF MissesEvents
<1>10. ReplayInv' /\ PhaseInv'
  BY <1>2, <1>3 DEF StreamInv, ReplayInv, PhaseInv
<1>11. ~gap => NoHole(found, published, Seen)
  BY SubscribeFinds DEF StreamInv
<1>. HIDE DEF gap, found
<1>12. Underway' = conn'.left
  <2>1. conn'.left \in Seq(Message)
    BY <1>3, <1>9, ConcatProperties
  <2>2. <<>> \o conn'.left = conn'.left /\ conn'.left \o <<>> = conn'.left
    BY <2>1, ConcatEmptySeq
  <2>3. Underway' = (<<>> \o conn'.left) \o <<>>
    BY <1>3 DEF Underway
  <2>4. QED
    BY <2>2, <2>3
<1>13. CASE gap
  <2>. DEFINE U == <<Gap>> \o found
  <2>1. /\ Len(U) = 1 + Len(found) /\ U[1] = Gap
        /\ \A i \in 2..(1 + Len(found)) : U[i] = found[i - 1]
    <3>1. /\ Len(<<Gap>>) = 1 /\ <<Gap>>[1] = Gap
      OBVIOUS
    <3>2. /\ Len(U) = Len(<<Gap>>) + Len(found)
          /\ \A i \in 1..(Len(<<Gap>>) + Len(found)) :
                U[i] = IF i <= Len(<<Gap>>) THEN <<Gap>>[i] ELSE found[i - Len(<<Gap>>)]
      BY <1>9, ConcatProperties
    <3>. HIDE DEF U
    <3>3. QED
      BY <1>5, <3>1, <3>2
  <2>2. Underway' = U
    BY <1>3, <1>12, <1>13
  <2>. HIDE DEF U
  <2>3. Gap.seq = 0
    BY DEF Gap
  <2>4. ASSUME NEW i \in 1..Len(U)
        PROVE  i = 1 \/ (i - 1 \in 1..Len(found) /\ U[i] = found[i - 1])
    BY <1>5, <2>1
  <2>5. ASSUME NEW i \in 1..Len(U), NEW j \in 1..Len(U), i < j
        PROVE  U[i].seq < U[j].seq
    <3>1. j # 1 /\ j - 1 \in 1..Len(found) /\ U[j] = found[j - 1]
      BY <1>5, <2>1, <2>5
    <3>2. CASE i = 1
      BY <1>6, <1>8, <2>1, <2>3, <3>1, <3>2
    <3>3. CASE i # 1
      <4>1. i - 1 \in 1..Len(found) /\ U[i] = found[i - 1] /\ i - 1 < j - 1
        BY <1>5, <2>1, <2>5, <3>3
      <4>2. QED
        BY <1>5, <3>1, <4>1
    <3>4. QED
      BY <3>2, <3>3
  <2>6. \A i \in 1..Len(U) : U[i].seq <= hubSeq
    BY <1>1, <1>8, <2>1, <2>3, <2>4
  <2>7. InSequence(U, hubSeq, gap)
    BY <1>13, <2>5, <2>6 DEF InSequence
  <2>8. QED
    BY <1>2, <1>3, <1>10, <1>13, <2>2, <2>7 DEF StreamInv
<1>14. CASE ~gap
  <2>1. Underway' = found
    BY <1>3, <1>9, <1>12, <1>14, ConcatEmptySeq
  <2>2. InSequence(found, hubSeq, gap)
    BY <1>5, <1>6, <1>8 DEF InSequence
  <2>3. Seen' = Seen
    BY <1>2 DEF Seen
  <2>4. QED
    BY <1>2, <1>3, <1>10, <1>11, <1>14, <2>1, <2>2, <2>3 DEF StreamInv
<1>15. QED
  BY <1>13, <1>14

\* A connection that ends, or begins again, has nothing on its way.
LEMMA CutStream ==
  ASSUME conn' = NoConn \/ conn' = [NoConn EXCEPT !.phase = "subscribe"], ReplayInv'
  PROVE  StreamInv'
<1>1. /\ conn'.sub = "none" /\ conn'.phase \in {"none", "subscribe"} /\ conn'.out = <<>>
      /\ conn'.left = <<>> /\ conn'.buf = <<>>
  BY DEF NoConn
<1>2. Underway' = <<>>
  <2>1. (<<>> \o <<>>) \o <<>> = <<>>
    BY EmptySeq, ConcatEmptySeq
  <2>2. QED
    BY <1>1, <2>1 DEF Underway
<1>3. QED
  BY <1>1, <1>2, EmptyStream DEF StreamInv, PhaseInv

\* A message that is queued stays where it is on its way.
LEMMA MovedStream ==
  ASSUME StreamInv, PhaseInv', Underway' = Underway, conn'.sub = conn.sub, conn'.gap = conn.gap,
         UNCHANGED <<hubSeq, hubReplay, published, epoch, cursor, cursorEpoch>>
  PROVE  StreamInv'
<1>1. Seen' = Seen /\ ReplayInv'
  BY DEF Seen, StreamInv, ReplayInv
<1>2. QED
  BY <1>1 DEF StreamInv

\* ServeHTTP queues the replay and forward the buffer: the order on the way stays.
LEMMA QueuedStream ==
  ASSUME HubTypeOK, StreamInv, SendReplay \/ Forward
  PROVE  StreamInv'
<1>1. /\ conn \in Conn /\ conn.left \in Seq(Message) /\ conn.out \in Seq(Message)
      /\ conn.buf \in Seq(Message) /\ <<>> \in Seq(Message)
  BY ConnFields, EmptySeq DEF HubTypeOK
<1>2. /\ UNCHANGED <<hubSeq, hubReplay, published, epoch, cursor, cursorEpoch>>
      /\ conn.phase \in {"replay", "serve"}
  BY DEF SendReplay, Forward, serverVars, clientVars
<1>3. ReplayInv'
  BY <1>2 DEF StreamInv, ReplayInv
<1>4. CASE conn' = NoConn
  BY <1>3, <1>4, CutStream
<1>5. CASE conn' = [conn EXCEPT !.phase = "serve"] /\ conn.left = <<>>
  <2>1. /\ conn'.phase = "serve" /\ conn'.sub = conn.sub /\ conn'.gap = conn.gap /\ conn'.left = conn.left
        /\ conn'.out = conn.out /\ conn'.buf = conn.buf
    BY <1>1, <1>5 DEF Conn
  <2>2. Underway' = Underway /\ PhaseInv'
    BY <1>5, <2>1 DEF Underway, PhaseInv
  <2>3. QED
    BY <1>2, <2>1, <2>2, MovedStream
<1>6. CASE /\ conn.phase = "replay" /\ conn.left # <<>>
           /\ conn' = [conn EXCEPT !.left = Tail(conn.left), !.out = Append(conn.out, Head(conn.left))]
  <2>1. /\ conn'.phase = "replay" /\ conn'.sub = conn.sub /\ conn'.gap = conn.gap
        /\ conn'.left = Tail(conn.left) /\ conn'.out = Append(conn.out, Head(conn.left))
        /\ conn'.buf = conn.buf
    BY <1>1, <1>6 DEF Conn
  <2>2. (Append(conn.out, Head(conn.left)) \o Tail(conn.left)) \o conn.buf = (conn.out \o conn.left) \o conn.buf
    <3>1. \A a, b, c \in Seq(Message) : b # <<>> => (Append(a, Head(b)) \o Tail(b)) \o c = (a \o b) \o c
      BY MessageMoves
    <3>2. QED
      BY <1>1, <1>6, <3>1, Zenon
  <2>3. Underway' = Underway /\ PhaseInv'
    BY <2>1, <2>2 DEF Underway, PhaseInv
  <2>4. QED
    BY <1>2, <2>1, <2>3, MovedStream
<1>7. CASE /\ conn.phase = "serve" /\ conn.buf # <<>>
           /\ conn' = [conn EXCEPT !.buf = Tail(conn.buf), !.out = Append(conn.out, Head(conn.buf))]
  <2>1. /\ conn'.phase = "serve" /\ conn'.sub = conn.sub /\ conn'.gap = conn.gap
        /\ conn'.buf = Tail(conn.buf) /\ conn'.out = Append(conn.out, Head(conn.buf))
        /\ conn'.left = conn.left /\ conn.left = <<>>
    BY <1>1, <1>7 DEF Conn, StreamInv, PhaseInv
  <2>2. (Append(conn.out, Head(conn.buf)) \o Tail(conn.buf)) \o <<>> = (conn.out \o conn.buf) \o <<>>
    <3>1. \A a, b, c \in Seq(Message) : b # <<>> => (Append(a, Head(b)) \o Tail(b)) \o c = (a \o b) \o c
      BY MessageMoves
    <3>2. QED
      BY <1>1, <1>7, <3>1, Zenon
  <2>3. Head(conn.buf) \in Message /\ Tail(conn.buf) \in Seq(Message)
    BY <1>1, <1>7, HeadTailProperties
  <2>4. Append(conn.out, Head(conn.buf)) \in Seq(Message)
    BY <1>1, <2>3, AppendProperties
  <2>5. \A a, b \in Seq(Message) : (a \o b) \o <<>> = a \o b /\ (a \o <<>>) \o b = a \o b
    <3>1. \A a, b \in Seq(Message) : a \o b \in Seq(Message)
      BY ConcatProperties
    <3>2. \A a \in Seq(Message) : a \o <<>> = a
      BY ConcatEmptySeq
    <3>3. QED
      BY <3>1, <3>2
  <2>6. Underway' = Underway
    <3>1. Underway' = Append(conn.out, Head(conn.buf)) \o Tail(conn.buf)
      BY <2>1, <2>3, <2>4, <2>5 DEF Underway
    <3>2. Underway = conn.out \o conn.buf
      BY <1>1, <2>1, <2>5 DEF Underway
    <3>3. /\ (Append(conn.out, Head(conn.buf)) \o Tail(conn.buf)) \o <<>> = Append(conn.out, Head(conn.buf)) \o Tail(conn.buf)
          /\ (conn.out \o conn.buf) \o <<>> = conn.out \o conn.buf
      BY <1>1, <2>3, <2>4, <2>5
    <3>4. QED
      BY <2>2, <3>1, <3>2, <3>3
  <2>7. PhaseInv'
    BY <2>1 DEF PhaseInv
  <2>8. QED
    BY <1>2, <2>1, <2>6, <2>7, MovedStream
<1>8. CASE SendReplay
  BY <1>1, <1>4, <1>5, <1>6, <1>8 DEF SendReplay, Queue, Conn
<1>9. CASE Forward
  BY <1>1, <1>4, <1>7, <1>9 DEF Forward, Queue, Conn
<1>10. QED
  BY <1>8, <1>9

\* The browser handles the first message of the stream.
LEMMA WrittenStream ==
  ASSUME HubTypeOK, StreamInv, Write
  PROVE  StreamInv'
<1>. DEFINE m == Head(conn.out)
<1>1. /\ conn \in Conn /\ conn.left \in Seq(Message) /\ conn.out \in Seq(Message)
      /\ conn.buf \in Seq(Message) /\ conn.out # <<>> /\ Underway \in Seq(Message)
      /\ hubSeq \in Nat /\ cursor \in Nat /\ epoch \in Nat /\ cursorEpoch \in Nat
      /\ published \subseteq 1..hubSeq
  BY ConnFields, UnderwayType DEF HubTypeOK, Write
<1>2. /\ conn' = [conn EXCEPT !.out = Tail(conn.out)] /\ OnMessage(m)
      /\ UNCHANGED <<hubSeq, hubReplay, published, epoch>>
  BY <1>1 DEF Write, serverVars, Conn
<1>3. /\ conn'.phase = conn.phase /\ conn'.sub = conn.sub /\ conn'.gap = conn.gap
      /\ conn'.left = conn.left /\ conn'.buf = conn.buf /\ conn'.out = Tail(conn.out)
  BY <1>1, <1>2 DEF Conn
<1>4. Underway # <<>> /\ Underway[1] = m /\ Underway' = Tail(Underway)
  <2>1. conn.left \o conn.buf \in Seq(Message) /\ Tail(conn.out) \in Seq(Message)
    BY <1>1, ConcatProperties, HeadTailProperties
  <2>2. \A a \in Seq(Message) : (a \o conn.left) \o conn.buf = a \o (conn.left \o conn.buf)
    <3>1. \A a, b, c \in Seq(Message) : (a \o b) \o c = a \o (b \o c)
      BY ConcatAssociative
    <3>2. QED
      BY <1>1, <3>1, Zenon
  <2>3. /\ conn.out \o (conn.left \o conn.buf) # <<>> /\ (conn.out \o (conn.left \o conn.buf))[1] = m
        /\ Tail(conn.out) \o (conn.left \o conn.buf) = Tail(conn.out \o (conn.left \o conn.buf))
    BY <1>1, <2>1, FirstLeaves
  <2>4. /\ Underway = conn.out \o (conn.left \o conn.buf)
        /\ Underway' = Tail(conn.out) \o (conn.left \o conn.buf)
    BY <1>1, <1>3, <2>1, <2>2 DEF Underway
  <2>5. QED
    BY <2>3, <2>4
<1>5. InSequence(Underway, hubSeq, conn.gap) /\ 1 \in 1..Len(Underway)
  BY <1>1, <1>4, EmptySeq DEF StreamInv
<1>6. m.seq \in Nat /\ m.seq <= hubSeq /\ (m = Gap => conn.gap)
  BY <1>1, <1>4, <1>5, MessageFacts DEF InSequence
<1>7. InSequence(Underway', hubSeq', conn'.gap)
  BY <1>1, <1>2, <1>3, <1>4, <1>5, StreamTail
<1>8. ReplayInv' /\ PhaseInv'
  BY <1>1, <1>2, <1>3 DEF StreamInv, ReplayInv, PhaseInv
<1>9. ASSUME conn'.sub = "live", ~conn'.gap
      PROVE  NoHole(Underway', published', Seen')
  <2>1. NoHole(Underway, published, Seen) /\ m # Gap
    BY <1>3, <1>6, <1>9 DEF StreamInv
  <2>2. m.seq <= Seen' /\ Seen' \in Nat /\ Seen \in Nat
    <3>1. CASE m.seq <= cursor
      BY <1>1, <1>2, <1>6, <2>1, <3>1 DEF OnMessage, Seen
    <3>2. CASE ~(m.seq <= cursor)
      <4>1. cursor' = m.seq /\ cursorEpoch' = epoch
        BY <1>2, <2>1, <3>2 DEF OnMessage
      <4>2. QED
        BY <1>1, <1>2, <1>6, <4>1 DEF Seen
    <3>3. QED
      BY <3>1, <3>2
  <2>3. published \in SUBSET Nat
    BY <1>1
  <2>4. NoHole(Tail(Underway), published, Seen')
    BY <1>1, <1>4, <1>5, <2>1, <2>2, <2>3, StreamTail
  <2>5. QED
    BY <1>2, <1>4, <2>4
<1>10. QED
  BY <1>7, <1>8, <1>9 DEF StreamInv

\* Every step keeps the invariant.
LEMMA StreamStep ==
  ASSUME HubTypeOK, StreamInv, [HubNext]_hubVars
  PROVE  StreamInv'
<1>1. CASE PublishAlert \/ PublishLog
  <2>1. UNCHANGED <<epoch, cursor, cursorEpoch>> /\ (publish("alerts") \/ publish("logs"))
    BY <1>1 DEF PublishAlert, PublishLog, clientVars
  <2>2. QED
    BY <2>1, PublishStream
<1>2. CASE HandleSubscribe
  BY <1>2, SubscribeStream
<1>3. CASE SendReplay \/ Forward
  BY <1>3, QueuedStream
<1>4. CASE Write
  BY <1>4, WrittenStream
<1>5. CASE ConnectionEnds \/ Connect
  <2>1. ReplayInv'
    BY <1>5 DEF ConnectionEnds, Connect, serverVars, StreamInv, ReplayInv
  <2>2. QED
    BY <1>5, <2>1, CutStream DEF ConnectionEnds, Connect
<1>6. CASE Restart
  <2>1. ReplayInv'
    BY <1>6 DEF Restart, ReplayInv
  <2>2. QED
    BY <1>6, <2>1, CutStream DEF Restart
<1>7. CASE UNCHANGED <<hubSeq, hubReplay, published, epoch, conn, cursor, cursorEpoch>>
  BY <1>7, MovedStream DEF Underway, StreamInv, PhaseInv
<1>8. CASE \/ CommitChange \/ SessionLost \/ OnClose \/ ReadAlerts \/ ReadOutdated
           \/ AnswerReload \/ AnswerOutdated \/ ReloadFails \/ UNCHANGED hubVars
  BY <1>7, <1>8 DEF CommitChange, SessionLost, OnClose, ReadAlerts, ReadOutdated, AnswerReload,
     AnswerOutdated, ReloadFails, hubVars, serverVars, clientVars
<1>9. QED
  BY <1>1, <1>2, <1>3, <1>4, <1>5, <1>6, <1>8 DEF HubNext

\* Nothing is on the way at the start.
LEMMA StreamInit == HubInit => StreamInv
<1>. SUFFICES ASSUME HubInit
              PROVE  StreamInv
  OBVIOUS
<1>1. /\ conn.sub = "none" /\ conn.phase = "none" /\ conn.out = <<>> /\ conn.left = <<>> /\ conn.buf = <<>>
  BY DEF HubInit, NoConn
<1>2. Underway = <<>>
  <2>1. (<<>> \o <<>>) \o <<>> = <<>>
    BY EmptySeq, ConcatEmptySeq
  <2>2. QED
    BY <1>1, <2>1 DEF Underway
<1>3. ReplayInv
  BY DEF HubInit, ReplayInv
<1>4. QED
  BY <1>1, <1>2, <1>3, EmptyStream DEF StreamInv, PhaseInv

\* The invariant says what NoSilentLoss says.
LEMMA StreamSuffices ==
  ASSUME HubTypeOK, StreamInv
  PROVE  NoSilentLoss
<1>1. ASSUME conn.sub = "live", ~conn.gap, cursorEpoch = epoch \/ cursor = 0, NEW n \in published, n > cursor
      PROVE  \E i \in 1..Len(Underway) : Underway[i].seq = n
  BY <1>1 DEF StreamInv, NoHole, Seen
<1>2. \A i, j \in 1..Len(Underway) : i < j => Underway[i].seq < Underway[j].seq
  BY DEF StreamInv, InSequence
<1>3. QED
  BY <1>1, <1>2 DEF NoSilentLoss

\* The hub, the connection and the page keep their types, and the replay, the queue
\* and the buffer the bounds that NewHub, ServeHTTP and Subscribe give them, whatever
\* these bounds are.
THEOREM HubTypes == HubSpec => []HubTypeOK
  BY HubTypeInit, HubTypeStep, PTL DEF HubSpec

\* Without a gap no alert event is lost or reordered between publish and the
\* browser, for every capacity of the replay, the queue and the buffer, any number
\* of changes, dropped subscribers, reconnections and restarts.
THEOREM NothingIsLostSilently == HubSpec => []NoSilentLoss
<1>1. HubTypeOK /\ StreamInv /\ [HubNext]_hubVars => StreamInv'
  BY StreamStep
<1>2. HubTypeOK /\ StreamInv => NoSilentLoss
  BY StreamSuffices
<1>3. QED
  BY <1>1, <1>2, StreamInit, HubTypes, PTL DEF HubSpec

=============================================================================

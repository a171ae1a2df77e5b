----------------------- MODULE StationServicesProofs ------------------------
(***************************************************************************)
(* What holds of the services of a station whatever the rest of the        *)
(* process does meanwhile: the live events reach a client in order and the *)
(* latest critical one always does; a heartbeat kept through an outage is  *)
(* the one before the beat it replaces; the commands table tells of the    *)
(* outbound queue, and no command is queued more often than it was asked   *)
(* for.  For any number of streams, events, beats, commands, requests and  *)
(* restarts, and any queue size.                                           *)
(***************************************************************************)
EXTENDS StationServices, SequenceTheorems, FiniteSetTheorems, TLAPS

-----------------------------------------------------------------------------
(* The inductive invariant of the broker. *)

Event == [sequence: Nat, critical: BOOLEAN]

StreamState ==
  [kind: {"sse", "ws"}, filter: SUBSET BOOLEAN, phase: {"opening", "running", "ended"},
   registered: BOOLEAN, closed: BOOLEAN, queue: Seq(Event), dropped: Nat,
   sent: Seq(Nat), urgent: SUBSET Nat]

\* Numbered events, the later ones behind; nothing comes behind the sentinel.
QueueInOrder(queue, closed, last) ==
  /\ \A i \in DOMAIN queue :
       /\ queue[i].sequence <= last
       /\ queue[i].sequence = 0 => queue[i] = Sentinel /\ closed /\ i = Len(queue)
  /\ \A i, j \in DOMAIN queue :
       i < j /\ queue[j].sequence # 0 => queue[i].sequence < queue[j].sequence

\* What was sent is older than what is queued.
SentBefore(sent, queue, last) ==
  /\ \A i \in DOMAIN sent : sent[i] <= last
  /\ \A i, j \in DOMAIN sent : i < j => sent[i] < sent[j]
  /\ \A i \in DOMAIN sent, j \in DOMAIN queue :
       queue[j].sequence # 0 => sent[i] < queue[j].sequence

\* The latest critical event is queued or sent.
LatestKept(urgent, sent, queue, last) ==
  /\ \A m \in urgent : m <= last /\ m # 0
  /\ urgent # {} =>
       \E n \in urgent :
         /\ \A m \in urgent : m <= n
         /\ \/ \E i \in DOMAIN queue : queue[i].sequence = n
            \/ \E i \in DOMAIN sent : sent[i] = n

StreamInOrder(s, last) ==
  /\ s \in StreamState
  /\ QueueInOrder(s.queue, s.closed, last)
  /\ SentBefore(s.sent, s.queue, last)
  /\ LatestKept(s.urgent, s.sent, s.queue, last)

BrokerInv ==
  /\ sequence \in Nat
  /\ streams \in Seq(StreamState)
  /\ \A k \in DOMAIN streams : StreamInOrder(streams[k], sequence)

-----------------------------------------------------------------------------
(* Queues. *)

LEMMA EventFacts ==
  ASSUME NEW queue \in Seq(Event)
  PROVE  /\ \A i \in DOMAIN queue : queue[i] \in Event /\ queue[i].sequence \in Nat /\ i \in Nat
         /\ Len(queue) \in Nat /\ DOMAIN queue = 1..Len(queue)
<1>1. \A i \in DOMAIN queue : queue[i] \in Event /\ i \in Nat
  OBVIOUS
<1> QED
  BY <1>1 DEF Event

LEMMA EventAppended ==
  ASSUME NEW queue \in Seq(Event), NEW event \in Event
  PROVE  /\ Append(queue, event) \in Seq(Event)
         /\ Len(Append(queue, event)) = Len(queue) + 1
         /\ \A i \in DOMAIN queue : i \in DOMAIN Append(queue, event) /\ Append(queue, event)[i] = queue[i]
         /\ Len(queue) + 1 \in DOMAIN Append(queue, event)
         /\ Append(queue, event)[Len(queue) + 1] = event
         /\ \A i \in DOMAIN Append(queue, event) : i \in DOMAIN queue \/ i = Len(queue) + 1
         /\ \A i \in DOMAIN queue : ~(Len(queue) + 1 < i) /\ ~(Len(queue) + 1 = i)
<1>1. /\ Len(queue) \in Nat /\ DOMAIN queue = 1..Len(queue)
      /\ Append(queue, event) \in Seq(Event)
      /\ Len(Append(queue, event)) = Len(queue) + 1
      /\ DOMAIN Append(queue, event) = 1..Len(queue) + 1
      /\ \A i \in 1..Len(queue) : Append(queue, event)[i] = queue[i]
      /\ Append(queue, event)[Len(queue) + 1] = event
  OBVIOUS
<1>2. /\ \A i \in 1..Len(queue) : i \in 1..Len(queue) + 1
      /\ Len(queue) + 1 \in 1..Len(queue) + 1
      /\ \A i \in 1..Len(queue) + 1 : i \in 1..Len(queue) \/ i = Len(queue) + 1
      /\ \A i \in 1..Len(queue) : ~(Len(queue) + 1 < i) /\ ~(Len(queue) + 1 = i)
  BY <1>1
<1> QED
  BY <1>1, <1>2

LEMMA EventRemoved ==
  ASSUME NEW queue \in Seq(Event), queue # <<>>
  PROVE  /\ Tail(queue) \in Seq(Event) /\ Len(Tail(queue)) + 1 = Len(queue)
         /\ \A i \in DOMAIN Tail(queue) :
              i + 1 \in DOMAIN queue /\ Tail(queue)[i] = queue[i + 1] /\ 1 < i + 1
         /\ \A i, j \in DOMAIN Tail(queue) : i < j => i + 1 < j + 1
         /\ \A i \in DOMAIN queue : i = 1 \/ (i - 1 \in DOMAIN Tail(queue) /\ (i - 1) + 1 = i)
         /\ \A i \in DOMAIN Tail(queue) : i + 1 = Len(queue) => i = Len(Tail(queue))
         /\ 1 \in DOMAIN queue /\ Head(queue) = queue[1] /\ Head(queue) \in Event
<1>1. /\ Len(queue) \in Nat \ {0} /\ DOMAIN queue = 1..Len(queue)
      /\ Tail(queue) \in Seq(Event) /\ Len(Tail(queue)) = Len(queue) - 1
      /\ DOMAIN Tail(queue) = 1..Len(queue) - 1
      /\ \A i \in 1..Len(queue) - 1 : Tail(queue)[i] = queue[i + 1]
      /\ Head(queue) = queue[1] /\ Head(queue) \in Event
  OBVIOUS
<1>2. ASSUME NEW l \in Nat \ {0}
      PROVE  /\ \A i \in 1..l - 1 : i + 1 \in 1..l /\ 1 < i + 1 /\ (i + 1 = l => i = l - 1)
             /\ \A i \in 1..l : i = 1 \/ (i - 1 \in 1..l - 1 /\ (i - 1) + 1 = i)
             /\ 1 \in 1..l /\ (l - 1) + 1 = l
  OBVIOUS
<1>3. ASSUME NEW l \in Nat \ {0}
      PROVE  \A i, j \in 1..l - 1 : i < j => i + 1 < j + 1
  OBVIOUS
<1> QED
  BY <1>1, <1>2, <1>3

\* Time passes: other streams get events.
LEMMA LaterInOrder ==
  ASSUME NEW s, NEW last \in Nat, StreamInOrder(s, last)
  PROVE  StreamInOrder(s, last + 1)
<1>1. /\ s.queue \in Seq(Event) /\ s.sent \in Seq(Nat) /\ s.urgent \subseteq Nat
  BY DEF StreamInOrder, StreamState
<1>2. /\ \A i \in DOMAIN s.queue : s.queue[i].sequence \in Nat
      /\ \A i \in DOMAIN s.sent : s.sent[i] \in Nat
      /\ \A n \in Nat : n <= last => n <= last + 1
  BY <1>1, EventFacts
<1>3. QueueInOrder(s.queue, s.closed, last + 1)
  BY <1>2 DEF StreamInOrder, QueueInOrder
<1>4. SentBefore(s.sent, s.queue, last + 1)
  BY <1>2 DEF StreamInOrder, SentBefore
<1>5. LatestKept(s.urgent, s.sent, s.queue, last + 1)
  BY <1>1, <1>2 DEF StreamInOrder, LatestKept
<1> QED
  BY <1>3, <1>4, <1>5 DEF StreamInOrder

\* An event of the next number goes behind the queue of an open subscription.
LEMMA AppendInOrder ==
  ASSUME NEW queue \in Seq(Event), NEW sent \in Seq(Nat), NEW last \in Nat,
         NEW event \in Event, event.sequence = last + 1,
         QueueInOrder(queue, FALSE, last), SentBefore(sent, queue, last)
  PROVE  /\ QueueInOrder(Append(queue, event), FALSE, last + 1)
         /\ SentBefore(sent, Append(queue, event), last + 1)
<1> DEFINE q == Append(queue, event)
           l == Len(queue) + 1
<1>1. /\ \A i \in DOMAIN queue : i \in DOMAIN q /\ q[i] = queue[i]
      /\ l \in DOMAIN q /\ q[l] = event
      /\ \A i \in DOMAIN q : i \in DOMAIN queue \/ i = l
      /\ \A i \in DOMAIN queue : ~(l < i)
      /\ ~(l < l)
  BY EventAppended, EventFacts
<1>2. /\ \A i \in DOMAIN queue : queue[i].sequence \in Nat
      /\ \A i \in DOMAIN sent : sent[i] \in Nat
      /\ \A n \in Nat : n <= last => n <= last + 1 /\ n < last + 1
      /\ last + 1 # 0 /\ last + 1 <= last + 1
  BY EventFacts
<1> SUFFICES QueueInOrder(q, FALSE, last + 1) /\ SentBefore(sent, q, last + 1)
  OBVIOUS
<1> HIDE DEF q, l
<1>3. ASSUME NEW i \in DOMAIN queue
      PROVE  queue[i].sequence # 0 /\ queue[i].sequence <= last
  BY DEF QueueInOrder
<1>4. ASSUME NEW i \in DOMAIN q
      PROVE  q[i].sequence <= last + 1 /\ q[i].sequence # 0
  BY <1>1, <1>2, <1>3
<1>5. ASSUME NEW i \in DOMAIN q, NEW j \in DOMAIN q, i < j, q[j].sequence # 0
      PROVE  q[i].sequence < q[j].sequence
  <2>1. CASE j \in DOMAIN queue
    <3>1. i \in DOMAIN queue
      BY <1>1, <1>5, <2>1
    <3> QED
      BY <1>1, <1>5, <2>1, <3>1 DEF QueueInOrder
  <2>2. CASE j = l
    <3>1. i \in DOMAIN queue
      BY <1>1, <1>5, <2>2
    <3> QED
      BY <1>1, <1>2, <1>3, <2>2, <3>1
  <2> QED
    BY <1>1, <2>1, <2>2
<1>6. QueueInOrder(q, FALSE, last + 1)
  BY <1>4, <1>5 DEF QueueInOrder
<1>7. /\ \A i \in DOMAIN sent : sent[i] <= last + 1 /\ sent[i] < last + 1
      /\ \A i, j \in DOMAIN sent : i < j => sent[i] < sent[j]
  BY <1>2 DEF SentBefore
<1>8. ASSUME NEW i \in DOMAIN sent, NEW j \in DOMAIN q, q[j].sequence # 0
      PROVE  sent[i] < q[j].sequence
  <2>1. CASE j \in DOMAIN queue
    BY <1>1, <1>8, <2>1 DEF SentBefore
  <2>2. CASE j = l
    BY <1>1, <1>7, <2>2
  <2> QED
    BY <1>1, <2>1, <2>2
<1> QED
  BY <1>6, <1>7, <1>8 DEF SentBefore

\* The head of the queue goes: sent, or displaced by a critical event.
LEMMA TailInOrder ==
  ASSUME NEW queue \in Seq(Event), queue # <<>>, NEW sent \in Seq(Nat), NEW last \in Nat,
         NEW closed, QueueInOrder(queue, closed, last), SentBefore(sent, queue, last)
  PROVE  QueueInOrder(Tail(queue), closed, last) /\ SentBefore(sent, Tail(queue), last)
<1> DEFINE q == Tail(queue)
<1>1. /\ \A i \in DOMAIN q : i + 1 \in DOMAIN queue /\ q[i] = queue[i + 1]
      /\ \A i, j \in DOMAIN q : i < j => i + 1 < j + 1
      /\ \A i \in DOMAIN q : i + 1 = Len(queue) => i = Len(q)
  BY EventRemoved
<1> SUFFICES QueueInOrder(q, closed, last) /\ SentBefore(sent, q, last)
  OBVIOUS
<1> HIDE DEF q
<1>2. \A i \in DOMAIN q :
        /\ q[i].sequence <= last
        /\ q[i].sequence = 0 => q[i] = Sentinel /\ closed /\ i = Len(q)
  BY <1>1 DEF QueueInOrder
<1>3. \A i, j \in DOMAIN q : i < j /\ q[j].sequence # 0 => q[i].sequence < q[j].sequence
  BY <1>1 DEF QueueInOrder
<1>4. SentBefore(sent, q, last)
  BY <1>1 DEF SentBefore
<1> QED
  BY <1>2, <1>3, <1>4 DEF QueueInOrder

LEMMA HeadIsSent ==
  ASSUME NEW queue \in Seq(Event), queue # <<>>, NEW sent \in Seq(Nat), NEW last \in Nat,
         NEW closed, Head(queue).sequence # 0,
         QueueInOrder(queue, closed, last), SentBefore(sent, queue, last)
  PROVE  /\ Append(sent, Head(queue).sequence) \in Seq(Nat)
         /\ SentBefore(Append(sent, Head(queue).sequence), Tail(queue), last)
<1> DEFINE q == Tail(queue)
           n == Head(queue).sequence
           t == Append(sent, n)
           l == Len(sent) + 1
<1>1. /\ \A i \in DOMAIN q : i + 1 \in DOMAIN queue /\ q[i] = queue[i + 1] /\ 1 < i + 1
      /\ 1 \in DOMAIN queue /\ Head(queue) = queue[1]
  BY EventRemoved
<1>2. n \in Nat
  BY <1>1, EventFacts
<1>3. /\ t \in Seq(Nat) /\ DOMAIN sent = 1..Len(sent) /\ Len(sent) \in Nat
      /\ DOMAIN t = 1..l /\ t[l] = n
      /\ \A i \in 1..Len(sent) : t[i] = sent[i]
  BY <1>2
<1>4. /\ \A i \in DOMAIN t : (i \in DOMAIN sent /\ t[i] = sent[i]) \/ (i = l /\ t[i] = n)
      /\ \A i \in DOMAIN sent : ~(l < i)
      /\ ~(l < l)
  <2> HIDE DEF t, n
  <2>1. \A i \in 1..l : i \in 1..Len(sent) \/ i = l
    BY <1>3
  <2>2. \A i \in 1..Len(sent) : ~(l < i)
    BY <1>3
  <2> QED
    BY <1>3, <2>1, <2>2
<1> SUFFICES SentBefore(t, q, last)
  BY <1>3
<1>5. n <= last /\ n # 0 /\ n = queue[1].sequence
  BY <1>1 DEF QueueInOrder
<1> HIDE DEF q, n, t, l
<1>6. \A i \in DOMAIN sent : sent[i] < n
  BY <1>1, <1>5 DEF SentBefore
<1>7. \A i \in DOMAIN t : t[i] <= last
  BY <1>4, <1>5 DEF SentBefore
<1>8. ASSUME NEW i \in DOMAIN t, NEW j \in DOMAIN t, i < j PROVE t[i] < t[j]
  <2>1. i \in DOMAIN sent /\ t[i] = sent[i]
    BY <1>4, <1>8
  <2> QED
    BY <1>4, <1>6, <1>8, <2>1 DEF SentBefore
<1>9. ASSUME NEW i \in DOMAIN t, NEW j \in DOMAIN q, q[j].sequence # 0
      PROVE  t[i] < q[j].sequence
  <2>1. CASE i \in DOMAIN sent /\ t[i] = sent[i]
    BY <1>1, <1>9, <2>1 DEF SentBefore
  <2>2. CASE i = l /\ t[i] = n
    BY <1>1, <1>5, <1>9, <2>2 DEF QueueInOrder
  <2> QED
    BY <1>4, <2>1, <2>2
<1> QED
  BY <1>7, <1>8, <1>9 DEF SentBefore

\* A critical event is the latest one from then on.
LEMMA CriticalIsLatest ==
  ASSUME NEW queue \in Seq(Event), NEW sent, NEW last \in Nat, NEW urgent \in SUBSET Nat,
         NEW event \in Event, event.sequence = last + 1,
         \A m \in urgent : m <= last /\ m # 0
  PROVE  LatestKept(urgent \union {last + 1}, sent, Append(queue, event), last + 1)
<1> DEFINE n == last + 1
           q == Append(queue, event)
<1>1. /\ \A m \in urgent : m <= n /\ m # 0
      /\ n <= n /\ n # 0
  OBVIOUS
<1>2. Len(queue) + 1 \in DOMAIN q /\ q[Len(queue) + 1].sequence = n
  BY EventAppended
<1> HIDE DEF n, q
<1>3. LatestKept(urgent \union {n}, sent, q, n)
  BY <1>1, <1>2 DEF LatestKept
<1> QED
  BY <1>3 DEF n, q

\* An event of no urgency changes nothing about the latest critical one.
LEMMA LatestWithMore ==
  ASSUME NEW queue \in Seq(Event), NEW sent, NEW last, NEW urgent, NEW event \in Event,
         LatestKept(urgent, sent, queue, last)
  PROVE  LatestKept(urgent, sent, Append(queue, event), last)
<1> DEFINE q == Append(queue, event)
<1>1. \A i \in DOMAIN queue : i \in DOMAIN q /\ q[i] = queue[i]
  BY EventAppended
<1> HIDE DEF q
<1>2. LatestKept(urgent, sent, q, last)
  BY <1>1 DEF LatestKept
<1> QED
  BY <1>2 DEF q

LEMMA LatestIsSent ==
  ASSUME NEW queue \in Seq(Event), queue # <<>>, NEW sent \in Seq(Nat), NEW last, NEW urgent,
         LatestKept(urgent, sent, queue, last)
  PROVE  LatestKept(urgent, Append(sent, Head(queue).sequence), Tail(queue), last)
<1> DEFINE q == Tail(queue)
           h == Head(queue)
           t == Append(sent, h.sequence)
<1>1. /\ \A i \in DOMAIN queue : i = 1 \/ (i - 1 \in DOMAIN q /\ (i - 1) + 1 = i)
      /\ \A i \in DOMAIN q : q[i] = queue[i + 1]
      /\ h = queue[1] /\ h \in Event
  BY EventRemoved
<1>2. h.sequence \in Nat
  BY <1>1 DEF Event
<1>3. /\ \A i \in DOMAIN sent : i \in DOMAIN t /\ t[i] = sent[i]
      /\ Len(sent) + 1 \in DOMAIN t /\ t[Len(sent) + 1] = h.sequence
  <2> HIDE DEF h
  <2> QED
    BY <1>2
<1> HIDE DEF q, h, t
<1>4. \A i \in DOMAIN queue :
        \/ i = 1
        \/ i - 1 \in DOMAIN q /\ q[i - 1].sequence = queue[i].sequence
  BY <1>1
<1>5. LatestKept(urgent, t, q, last)
  BY <1>1, <1>3, <1>4 DEF LatestKept
<1> QED
  BY <1>5 DEF q, h, t

-----------------------------------------------------------------------------
(* Streams. *)

LEMMA StreamFacts ==
  ASSUME NEW s \in StreamState
  PROVE  /\ s.queue \in Seq(Event) /\ s.sent \in Seq(Nat) /\ s.urgent \in SUBSET Nat
         /\ s.closed \in BOOLEAN /\ s.registered \in BOOLEAN /\ s.dropped \in Nat
         /\ s.kind \in {"sse", "ws"} /\ s.filter \in SUBSET BOOLEAN
         /\ s.phase \in {"opening", "running", "ended"}
BY DEF StreamState

\* Nothing is said of the other fields of a stream.
LEMMA SameInOrder ==
  ASSUME NEW s, NEW s2 \in StreamState, NEW last, StreamInOrder(s, last),
         s2.queue = s.queue, s2.closed = s.closed, s2.sent = s.sent, s2.urgent = s.urgent
  PROVE  StreamInOrder(s2, last)
BY DEF StreamInOrder

LEMMA NewInOrder ==
  ASSUME NEW last \in Nat, NEW s \in StreamState,
         s.queue = <<>>, s.sent = <<>>, s.urgent = {}
  PROVE  StreamInOrder(s, last)
BY DEF StreamInOrder, QueueInOrder, SentBefore, LatestKept

LEMMA StreamIsNew ==
  ASSUME NEW kind \in {"sse", "ws"}, NEW filter \in SUBSET BOOLEAN
  PROVE  /\ Stream(kind, filter) \in StreamState
         /\ Stream(kind, filter).queue = <<>> /\ Stream(kind, filter).sent = <<>>
         /\ Stream(kind, filter).urgent = {}
BY DEF Stream, StreamState

LEMMA EndedInOrder ==
  ASSUME NEW last \in Nat, NEW s \in StreamState, NEW registered \in BOOLEAN
  PROVE  Ended(s, registered) \in StreamState /\ StreamInOrder(Ended(s, registered), last)
<1> DEFINE e == Ended(s, registered)
<1>1. s.kind \in {"sse", "ws"} /\ s.filter \in SUBSET BOOLEAN
  BY StreamFacts
<1> DEFINE n == Stream(s.kind, s.filter)
<1>2. n \in StreamState /\ n.queue = <<>> /\ n.sent = <<>> /\ n.urgent = {}
  BY <1>1, StreamIsNew
<1> HIDE DEF n
<1>3. /\ [n EXCEPT !.phase = "ended", !.registered = registered] \in StreamState
      /\ [n EXCEPT !.phase = "ended", !.registered = registered].queue = <<>>
      /\ [n EXCEPT !.phase = "ended", !.registered = registered].sent = <<>>
      /\ [n EXCEPT !.phase = "ended", !.registered = registered].urgent = {}
  BY <1>2 DEF StreamState
<1>4. e \in StreamState /\ e.queue = <<>> /\ e.sent = <<>> /\ e.urgent = {}
  BY <1>3 DEF Ended, n
<1> HIDE DEF e
<1>5. e \in StreamState /\ StreamInOrder(e, last)
  BY <1>4, NewInOrder
<1> QED
  BY <1>5 DEF e

LEMMA SentinelFacts ==
  Sentinel \in Event /\ Sentinel.sequence = 0
BY DEF Sentinel, Event

\* Subscription.close
LEMMA CloseInOrder ==
  ASSUME NEW s, NEW last \in Nat, StreamInOrder(s, last)
  PROVE  Close(s) \in StreamState /\ StreamInOrder(Close(s), last)
<1>1. s \in StreamState /\ s.queue \in Seq(Event) /\ s.sent \in Seq(Nat)
  BY StreamFacts DEF StreamInOrder
<1>2. CASE s.closed \/ ~(Len(s.queue) < QueueSize)
  <2> DEFINE c == Close(s)
  <2>1. c \in StreamState /\ c.queue = s.queue /\ c.sent = s.sent /\ c.urgent = s.urgent
    BY <1>1, <1>2 DEF Close, StreamState
  <2>2. c.closed = s.closed \/ c.closed = TRUE
    BY <1>1, <1>2 DEF Close, StreamState
  <2> HIDE DEF c
  <2>3. QueueInOrder(s.queue, TRUE, last) /\ QueueInOrder(s.queue, s.closed, last)
    BY DEF StreamInOrder, QueueInOrder
  <2>4. StreamInOrder(c, last)
    BY <2>1, <2>2, <2>3 DEF StreamInOrder
  <2> QED
    BY <2>1, <2>4 DEF c
<1>3. CASE ~s.closed /\ Len(s.queue) < QueueSize
  <2> DEFINE q == Append(s.queue, Sentinel)
             c == [s EXCEPT !.registered = FALSE, !.closed = TRUE, !.queue = q]
             l == Len(s.queue) + 1
  <2>1. Close(s) = c
    BY <1>3 DEF Close
  <2>2. /\ q \in Seq(Event) /\ Len(q) = l
        /\ \A i \in DOMAIN s.queue : i \in DOMAIN q /\ q[i] = s.queue[i]
        /\ l \in DOMAIN q /\ q[l] = Sentinel
        /\ \A i \in DOMAIN q : i \in DOMAIN s.queue \/ i = l
        /\ \A i \in DOMAIN s.queue : ~(l < i)
    BY <1>1, EventAppended, SentinelFacts
  <2>3. LatestKept(s.urgent, s.sent, q, last)
    BY <1>1, LatestWithMore, SentinelFacts DEF StreamInOrder
  <2> HIDE DEF q, l
  <2>4. /\ c \in StreamState
        /\ c.queue = q /\ c.sent = s.sent /\ c.urgent = s.urgent /\ c.closed = TRUE
    BY <1>1, <2>2 DEF StreamState
  <2> HIDE DEF c
  <2>5. \A i \in DOMAIN q :
          /\ q[i].sequence <= last
          /\ q[i].sequence = 0 => q[i] = Sentinel /\ TRUE /\ i = Len(q)
    BY <1>3, <2>2, SentinelFacts DEF StreamInOrder, QueueInOrder
  <2>6. \A i, j \in DOMAIN q : i < j /\ q[j].sequence # 0 => q[i].sequence < q[j].sequence
    BY <2>2, SentinelFacts DEF StreamInOrder, QueueInOrder
  <2>7. SentBefore(s.sent, q, last)
    BY <2>2, SentinelFacts DEF StreamInOrder, SentBefore
  <2>8. StreamInOrder(c, last)
    BY <2>3, <2>4, <2>5, <2>6, <2>7 DEF StreamInOrder, QueueInOrder
  <2> QED
    BY <2>1, <2>4, <2>8
<1> QED
  BY <1>2, <1>3

\* One subscription in publish: room for the event, a critical event that
\* displaces the oldest item, or an event dropped.
LEMMA OfferInOrder ==
  ASSUME NEW s, NEW last \in Nat, NEW critical \in BOOLEAN, StreamInOrder(s, last)
  PROVE  LET event == [sequence |-> last + 1, critical |-> critical] IN
         Offer(s, event) \in StreamState /\ StreamInOrder(Offer(s, event), last + 1)
<1> DEFINE event == [sequence |-> last + 1, critical |-> critical]
           o == Offer(s, event)
           urgent == IF critical THEN s.urgent \union {last + 1} ELSE s.urgent
<1>1. /\ s \in StreamState /\ s.queue \in Seq(Event) /\ s.sent \in Seq(Nat)
      /\ s.urgent \in SUBSET Nat /\ s.dropped \in Nat /\ s.closed \in BOOLEAN
  BY StreamFacts DEF StreamInOrder
<1>2. event \in Event /\ event.sequence = last + 1 /\ event.critical = critical
  BY DEF Event
<1>3. urgent \in SUBSET Nat
  BY <1>1
<1>4. StreamInOrder(s, last + 1)
  BY LaterInOrder
<1> SUFFICES o \in StreamState /\ StreamInOrder(o, last + 1)
  OBVIOUS
<1>5. CASE s.phase = "ended" \/ s.closed \/ event.critical \notin s.filter
  BY <1>1, <1>4, <1>5 DEF Offer
<1>6. CASE ~(s.phase = "ended" \/ s.closed \/ event.critical \notin s.filter)
  <2>1. o = [Put(s, event) EXCEPT !.urgent = urgent]
    <3>1. o = [Put(s, event) EXCEPT !.urgent = IF critical THEN @ \union {last + 1} ELSE @]
      BY <1>2, <1>6 DEF Offer
    <3>2. Put(s, event).urgent = s.urgent
      BY <1>1 DEF Put, StreamState
    <3> QED
      BY <3>1, <3>2
  <2> HIDE DEF o, event, urgent
  <2>2. s.closed = FALSE
    BY <1>1, <1>6
  <2>3. /\ QueueInOrder(s.queue, FALSE, last) /\ SentBefore(s.sent, s.queue, last)
        /\ LatestKept(s.urgent, s.sent, s.queue, last)
        /\ LatestKept(s.urgent, s.sent, s.queue, last + 1)
    BY <1>4, <2>2 DEF StreamInOrder
  <2>4. ASSUME NEW p \in StreamState, NEW q \in Seq(Event),
               o = [p EXCEPT !.urgent = urgent], p.queue = q,
               p.closed = FALSE, p.sent = s.sent,
               QueueInOrder(q, FALSE, last + 1), SentBefore(s.sent, q, last + 1),
               LatestKept(urgent, s.sent, q, last + 1)
        PROVE  o \in StreamState /\ StreamInOrder(o, last + 1)
    <3>1. /\ o \in StreamState /\ o.queue = q /\ o.sent = s.sent /\ o.closed = FALSE
          /\ o.urgent = urgent
      BY <1>3, <2>4 DEF StreamState
    <3> QED
      BY <2>4, <3>1 DEF StreamInOrder
  <2>5. ASSUME NEW q \in Seq(Event), QueueInOrder(q, FALSE, last), SentBefore(s.sent, q, last),
               critical \/ LatestKept(s.urgent, s.sent, q, last + 1)
        PROVE  /\ QueueInOrder(Append(q, event), FALSE, last + 1)
               /\ SentBefore(s.sent, Append(q, event), last + 1)
               /\ LatestKept(urgent, s.sent, Append(q, event), last + 1)
    <3>1. /\ QueueInOrder(Append(q, event), FALSE, last + 1)
          /\ SentBefore(s.sent, Append(q, event), last + 1)
      BY <1>1, <1>2, <2>5, AppendInOrder
    <3>2. CASE critical
      <4>1. \A m \in s.urgent : m <= last /\ m # 0
        BY <2>3 DEF LatestKept
      <4> QED
        BY <1>1, <1>2, <3>1, <3>2, <4>1, CriticalIsLatest DEF urgent
    <3>3. CASE ~critical
      BY <1>1, <1>2, <2>5, <3>1, <3>3, LatestWithMore DEF urgent
    <3> QED
      BY <3>2, <3>3
  <2>6. CASE Len(s.queue) < QueueSize
    <3> DEFINE q == Append(s.queue, event)
               p == [s EXCEPT !.queue = q]
    <3>1. q \in Seq(Event)
      BY <1>1, <1>2, EventAppended
    <3>2. /\ QueueInOrder(q, FALSE, last + 1) /\ SentBefore(s.sent, q, last + 1)
          /\ LatestKept(urgent, s.sent, q, last + 1)
      BY <1>1, <2>3, <2>5
    <3>3. Put(s, event) = p
      BY <2>6 DEF Put
    <3> HIDE DEF q
    <3>4. p \in StreamState /\ p.queue = q /\ p.closed = FALSE /\ p.sent = s.sent
      BY <1>1, <2>2, <3>1 DEF StreamState
    <3> HIDE DEF p
    <3> QED
      BY <2>1, <2>4, <3>1, <3>2, <3>3, <3>4
  <2>7. CASE ~(Len(s.queue) < QueueSize) /\ critical
    <3> DEFINE q == Append(Tail(s.queue), event)
               p == [s EXCEPT !.queue = q]
    <3>1. s.queue # <<>>
      BY <2>7, BrokerAssumption DEF BrokerAssumption
    <3>2. /\ Tail(s.queue) \in Seq(Event)
          /\ QueueInOrder(Tail(s.queue), FALSE, last)
          /\ SentBefore(s.sent, Tail(s.queue), last)
      BY <1>1, <2>3, <3>1, TailInOrder, EventRemoved
    <3>3. q \in Seq(Event)
      BY <1>2, <3>2, EventAppended
    <3>4. /\ QueueInOrder(q, FALSE, last + 1) /\ SentBefore(s.sent, q, last + 1)
          /\ LatestKept(urgent, s.sent, q, last + 1)
      BY <2>5, <2>7, <3>2
    <3>5. Put(s, event) = p
      BY <1>2, <2>7 DEF Put, Displace
    <3> HIDE DEF q
    <3>6. p \in StreamState /\ p.queue = q /\ p.closed = FALSE /\ p.sent = s.sent
      BY <1>1, <2>2, <3>3 DEF StreamState
    <3> HIDE DEF p
    <3> QED
      BY <2>1, <2>4, <3>3, <3>4, <3>5, <3>6
  <2>8. CASE ~(Len(s.queue) < QueueSize) /\ ~critical
    <3> DEFINE d == s.dropped + 1
               p == [s EXCEPT !.dropped = d]
    <3>1. d \in Nat
      BY <1>1
    <3>2. Put(s, event) = p
      BY <1>2, <2>8 DEF Put
    <3> HIDE DEF d
    <3>3. p \in StreamState /\ p.queue = s.queue /\ p.closed = FALSE /\ p.sent = s.sent
      BY <1>1, <2>2, <3>1 DEF StreamState
    <3>4. urgent = s.urgent
      BY <2>8 DEF urgent
    <3>5. /\ QueueInOrder(s.queue, FALSE, last + 1) /\ SentBefore(s.sent, s.queue, last + 1)
          /\ LatestKept(urgent, s.sent, s.queue, last + 1)
      BY <1>4, <2>2, <3>4 DEF StreamInOrder
    <3> HIDE DEF p
    <3> QED
      BY <1>1, <2>1, <2>4, <3>2, <3>3, <3>5
  <2> QED
    BY <2>6, <2>7, <2>8
<1> QED
  BY <1>5, <1>6

\* The stream sends the event at the head of its queue.
LEMMA SendInOrder ==
  ASSUME NEW s, NEW last \in Nat, StreamInOrder(s, last), s.queue # <<>>,
         Head(s.queue) # Sentinel
  PROVE  LET t == [s EXCEPT !.queue = Tail(@), !.sent = Append(@, Head(s.queue).sequence)] IN
         t \in StreamState /\ StreamInOrder(t, last)
<1> DEFINE q == Tail(s.queue)
           sent == Append(s.sent, Head(s.queue).sequence)
           t == [s EXCEPT !.queue = q, !.sent = sent]
<1>1. s \in StreamState /\ s.queue \in Seq(Event) /\ s.sent \in Seq(Nat)
  BY StreamFacts DEF StreamInOrder
<1>2. Head(s.queue).sequence # 0
  <2>1. 1 \in DOMAIN s.queue /\ Head(s.queue) = s.queue[1]
    BY <1>1, EventRemoved
  <2> QED
    BY <2>1 DEF StreamInOrder, QueueInOrder
<1>3. /\ QueueInOrder(s.queue, s.closed, last) /\ SentBefore(s.sent, s.queue, last)
      /\ LatestKept(s.urgent, s.sent, s.queue, last)
  BY DEF StreamInOrder
<1>4. q \in Seq(Event) /\ QueueInOrder(q, s.closed, last)
  BY <1>1, <1>3, EventRemoved, TailInOrder
<1>5. sent \in Seq(Nat) /\ SentBefore(sent, q, last)
  BY <1>1, <1>2, <1>3, HeadIsSent
<1>6. LatestKept(s.urgent, sent, q, last)
  BY <1>1, <1>3, LatestIsSent
<1> SUFFICES t \in StreamState /\ StreamInOrder(t, last)
  OBVIOUS
<1> HIDE DEF q, sent
<1>7. /\ t \in StreamState /\ t.queue = q /\ t.sent = sent /\ t.urgent = s.urgent
      /\ t.closed = s.closed
  BY <1>1, <1>4, <1>5 DEF StreamState
<1> HIDE DEF t
<1> QED
  BY <1>4, <1>5, <1>6, <1>7 DEF StreamInOrder

-----------------------------------------------------------------------------
(* The broker's steps. *)

LEMMA EachStreamInOrder ==
  ASSUME BrokerInv, sequence' \in Nat,
         streams' = [k \in DOMAIN streams |-> streams'[k]],
         \A k \in DOMAIN streams :
           streams'[k] \in StreamState /\ StreamInOrder(streams'[k], sequence')
  PROVE  BrokerInv'
<1>1. Len(streams) \in Nat /\ DOMAIN streams = 1..Len(streams)
  BY DEF BrokerInv
<1>2. streams' \in [1..Len(streams) -> StreamState]
  BY <1>1
<1>3. streams' \in Seq(StreamState) /\ DOMAIN streams' = DOMAIN streams
  BY <1>1, <1>2
<1> QED
  BY <1>3 DEF BrokerInv

LEMMA OneStreamInOrder ==
  ASSUME BrokerInv, NEW k \in DOMAIN streams, NEW t \in StreamState,
         streams' = [streams EXCEPT ![k] = t],
         sequence' = sequence \/ sequence' = sequence + 1, StreamInOrder(t, sequence)
  PROVE  BrokerInv'
<1>1. sequence \in Nat /\ sequence' \in Nat
  BY DEF BrokerInv
<1>2. \A j \in DOMAIN streams :
        streams[j] \in StreamState /\ StreamInOrder(streams[j], sequence)
  BY DEF BrokerInv
<1>3. /\ streams' = [j \in DOMAIN streams |-> streams'[j]]
      /\ \A j \in DOMAIN streams : streams'[j] = IF j = k THEN t ELSE streams[j]
  BY DEF BrokerInv
<1>4. \A s : StreamInOrder(s, sequence) => StreamInOrder(s, sequence')
  BY <1>1, LaterInOrder
<1> QED
  BY <1>1, <1>2, <1>3, <1>4, EachStreamInOrder

LEMMA SubscribeKeeps ==
  ASSUME BrokerInv, NEW kind \in {"sse", "ws"}, NEW filter \in SUBSET BOOLEAN,
         Subscribe(kind, filter)
  PROVE  BrokerInv'
<1> DEFINE n == Stream(kind, filter)
<1>1. n \in StreamState /\ StreamInOrder(n, sequence)
  BY StreamIsNew, NewInOrder DEF BrokerInv
<1>2. streams' = Append(streams, n) /\ sequence' = sequence /\ streams \in Seq(StreamState)
  BY DEF Subscribe, BrokerInv
<1> HIDE DEF n
<1>3. /\ streams' \in Seq(StreamState)
      /\ \A k \in DOMAIN streams' : (k \in DOMAIN streams /\ streams'[k] = streams[k])
                                     \/ streams'[k] = n
  BY <1>1, <1>2
<1> QED
  BY <1>1, <1>2, <1>3 DEF BrokerInv

LEMMA PublishKeeps ==
  ASSUME BrokerInv, NEW critical \in BOOLEAN, Publish(critical) PROVE BrokerInv'
<1> DEFINE event == [sequence |-> sequence + 1, critical |-> critical]
<1>1. sequence \in Nat /\ sequence' = sequence + 1 /\ sequence' \in Nat
  BY DEF BrokerInv, Publish, UsesNumber
<1>2. streams' = [k \in DOMAIN streams |-> Offer(streams[k], event)]
  BY <1>1 DEF Publish
<1>3. \A k \in DOMAIN streams :
        /\ Offer(streams[k], event) \in StreamState
        /\ StreamInOrder(Offer(streams[k], event), sequence + 1)
  BY <1>1, OfferInOrder DEF BrokerInv
<1> HIDE DEF event
<1> QED
  BY <1>1, <1>2, <1>3, EachStreamInOrder

LEMMA OpenStreamKeeps ==
  ASSUME BrokerInv, NEW k \in DOMAIN streams, OpenStream(k) PROVE BrokerInv'
<1> DEFINE s == streams[k]
           t == [s EXCEPT !.phase = "running"]
<1>1. s \in StreamState /\ StreamInOrder(s, sequence)
  BY DEF BrokerInv
<1>2. streams' = [streams EXCEPT ![k] = t] /\ sequence' = sequence + 1
  BY DEF OpenStream, UsesNumber
<1> HIDE DEF s
<1>3. /\ t \in StreamState /\ t.queue = s.queue /\ t.closed = s.closed
      /\ t.sent = s.sent /\ t.urgent = s.urgent
  BY <1>1 DEF StreamState
<1> HIDE DEF t
<1> QED
  BY <1>1, <1>2, <1>3, SameInOrder, OneStreamInOrder

LEMMA SendNextKeeps ==
  ASSUME BrokerInv, NEW k \in DOMAIN streams, SendNext(k) PROVE BrokerInv'
<1> DEFINE s == streams[k]
           item == Head(s.queue)
           t == [s EXCEPT !.queue = Tail(@), !.sent = Append(@, item.sequence)]
<1>1. s \in StreamState /\ StreamInOrder(s, sequence) /\ sequence \in Nat
  BY DEF BrokerInv
<1>2. s.queue # <<>> /\ sequence' = sequence
  BY DEF SendNext
<1>3. CASE item = Sentinel
  <2>1. Ended(s, FALSE) = Ended([s EXCEPT !.queue = Tail(@)], FALSE)
    BY <1>1 DEF Ended, StreamState
  <2>2. streams' = [streams EXCEPT ![k] = Ended(s, FALSE)]
    BY <1>3, <2>1 DEF SendNext
  <2> HIDE DEF s
  <2> QED
    BY <1>1, <1>2, <2>2, EndedInOrder, OneStreamInOrder
<1>4. CASE item # Sentinel
  <2>1. streams' = [streams EXCEPT ![k] = t]
    BY <1>4 DEF SendNext
  <2>2. t \in StreamState /\ StreamInOrder(t, sequence)
    BY <1>1, <1>2, <1>4, SendInOrder
  <2> HIDE DEF t
  <2> QED
    BY <1>2, <2>1, <2>2, OneStreamInOrder
<1> QED
  BY <1>3, <1>4

LEMMA KeepAliveKeeps ==
  ASSUME BrokerInv, NEW k \in DOMAIN streams, KeepAlive(k) PROVE BrokerInv'
<1>1. streams[k] \in StreamState /\ StreamInOrder(streams[k], sequence)
  BY DEF BrokerInv
<1>2. streams' = [streams EXCEPT ![k] = streams[k]] /\ sequence' = sequence + 1
  BY DEF KeepAlive, UsesNumber, BrokerInv
<1> QED
  BY <1>1, <1>2, OneStreamInOrder

LEMMA LeaveStreamKeeps ==
  ASSUME BrokerInv, NEW k \in DOMAIN streams, LeaveStream(k) PROVE BrokerInv'
<1> DEFINE s == streams[k]
           registered == s.registered /\ s.phase = "opening"
<1>1. s \in StreamState /\ sequence \in Nat
  BY DEF BrokerInv
<1>2. streams' = [streams EXCEPT ![k] = Ended(s, registered)] /\ sequence' = sequence
  BY DEF LeaveStream
<1>3. registered \in BOOLEAN
  OBVIOUS
<1> HIDE DEF s, registered
<1> QED
  BY <1>1, <1>2, <1>3, EndedInOrder, OneStreamInOrder

LEMMA CloseAllKeeps ==
  ASSUME BrokerInv, CloseAll PROVE BrokerInv'
<1>1. /\ sequence \in Nat /\ sequence' = sequence
      /\ streams' = [k \in DOMAIN streams |->
                       IF streams[k].registered THEN Close(streams[k]) ELSE streams[k]]
  BY DEF BrokerInv, CloseAll
<1>2. \A k \in DOMAIN streams :
        /\ streams[k] \in StreamState /\ StreamInOrder(streams[k], sequence)
        /\ Close(streams[k]) \in StreamState /\ StreamInOrder(Close(streams[k]), sequence)
  BY <1>1, CloseInOrder DEF BrokerInv
<1> QED
  BY <1>1, <1>2, EachStreamInOrder

LEMMA BrokerStepKeeps == ASSUME BrokerInv, BrokerStep PROVE BrokerInv'
<1>1. \A filter \in Filters : filter \in SUBSET BOOLEAN
  BY BrokerAssumption DEF BrokerAssumption
<1> QED
  BY <1>1, SubscribeKeeps, PublishKeeps, OpenStreamKeeps, SendNextKeeps, KeepAliveKeeps,
     LeaveStreamKeeps, CloseAllKeeps DEF BrokerStep

LEMMA InitBroker == BrokerInit => BrokerInv
BY DEF BrokerInit, BrokerInv

LEMMA BrokerInvariant == Spec => []BrokerInv
<1>1. Init => BrokerInv
  BY InitBroker DEF Init
<1>2. BrokerInv /\ [Next]_vars => BrokerInv'
  <2> SUFFICES ASSUME BrokerInv, [Next]_vars PROVE BrokerInv'
    OBVIOUS
  <2>1. CASE UNCHANGED brokerVars
    BY <2>1 DEF brokerVars, BrokerInv
  <2>2. CASE Streams
    BY <2>2, BrokerStepKeeps DEF Streams
  <2>3. CASE ProcessRestarts
    BY <2>3 DEF ProcessRestarts, BrokerRestart, BrokerInv
  <2> QED
    BY <2>1, <2>2, <2>3 DEF Next, Delivers, Requests, Beats, vars
<1> QED
  BY <1>1, <1>2, PTL DEF Spec

\* However slow a client is, it gets the events in the order of their numbers
\* and none twice, also when critical events displace others and when the
\* subscription is closed with events queued (EventBroker.publish, Subscription).
THEOREM ClientsSeeOrder == Spec => []EventsInOrder
<1>1. BrokerInv => EventsInOrder
  <2> SUFFICES ASSUME BrokerInv, NEW k \in DOMAIN streams
               PROVE  LET s == streams[k] IN
                      /\ \A i, j \in DOMAIN s.sent : i < j => s.sent[i] < s.sent[j]
                      /\ \A i \in DOMAIN s.sent, n \in Queued(s) : s.sent[i] < n
    BY DEF EventsInOrder
  <2>1. SentBefore(streams[k].sent, streams[k].queue, sequence)
    BY DEF BrokerInv, StreamInOrder
  <2> QED
    BY <2>1 DEF SentBefore, Queued
<1> QED
  BY <1>1, BrokerInvariant, PTL

\* The latest critical event is in the queue of every client that has not left,
\* or was sent to it ("critical should still be delivered", publish).
THEOREM CriticalSurvives == Spec => []LatestCriticalArrives
<1>1. BrokerInv => LatestCriticalArrives
  <2> SUFFICES ASSUME BrokerInv, NEW k \in DOMAIN streams, streams[k].urgent # {}
               PROVE  \E n \in streams[k].urgent :
                        /\ n \in Queued(streams[k]) \union Sent(streams[k])
                        /\ \A m \in streams[k].urgent : m <= n
    BY DEF LatestCriticalArrives
  <2>1. LatestKept(streams[k].urgent, streams[k].sent, streams[k].queue, sequence)
    BY DEF BrokerInv, StreamInOrder
  <2>2. PICK n \in streams[k].urgent :
          /\ \A m \in streams[k].urgent : m <= n
          /\ \/ \E i \in DOMAIN streams[k].queue : streams[k].queue[i].sequence = n
             \/ \E i \in DOMAIN streams[k].sent : streams[k].sent[i] = n
    BY <2>1 DEF LatestKept
  <2>3. n # 0
    BY <2>1 DEF LatestKept
  <2> QED
    BY <2>2, <2>3 DEF Queued, Sent
<1> QED
  BY <1>1, BrokerInvariant, PTL

-----------------------------------------------------------------------------
(* The heartbeat: the beat that is kept is the last one made. *)

BeatInv ==
  /\ made \in Nat /\ pending \in Nat /\ published \in Nat
  /\ pending # 0 => pending = made

LEMMA BeatInvariant == Spec => []BeatInv
<1>1. Init => BeatInv
  BY DEF Init, BeatInit, BeatInv
<1>2. BeatInv /\ [Next]_vars => BeatInv'
  <2> SUFFICES ASSUME BeatInv, [Next]_vars PROVE BeatInv'
    OBVIOUS
  <2>1. CASE UNCHANGED beatVars
    BY <2>1 DEF beatVars, BeatInv
  <2>2. CASE BeatStep
    BY <2>2 DEF BeatInv, BeatStep, BeatOffline, BeatOnline, BeatFails, MakesBeat, Kept
  <2>3. CASE BeatRestart
    BY <2>3 DEF BeatInv, BeatRestart
  <2> QED
    BY <2>1, <2>2, <2>3 DEF Next, Delivers, Requests, Streams, Beats, ProcessRestarts, vars
<1> QED
  BY <1>1, <1>2, PTL DEF Spec

\* However many beats an outage swallows, the one sent when it ends is at most
\* one beat older than the beat it replaces (HeartbeatService.publish_once).
THEOREM BeatsAreRecent == Spec => HeartbeatIsRecent
<1> DEFINE Recent == published' # published /\ made' # 0 => published' + 1 >= made'
<1>1. BeatInv /\ [Next]_vars => [Recent]_beatVars
  <2> SUFFICES ASSUME BeatInv, [Next]_vars PROVE Recent \/ UNCHANGED beatVars
    OBVIOUS
  <2>1. CASE BeatStep
    BY <2>1 DEF BeatInv, BeatStep, BeatOffline, BeatOnline, BeatFails, MakesBeat
  <2>2. CASE BeatRestart
    BY <2>2 DEF BeatRestart
  <2> QED
    BY <2>1, <2>2 DEF Next, Delivers, Requests, Streams, Beats, ProcessRestarts, vars
<1> QED
  BY <1>1, BeatInvariant, PTL DEF Spec, HeartbeatIsRecent

-----------------------------------------------------------------------------
(* The inductive invariant of the command intake. *)

Via == {"cloud", "lab", "evaluate"}

Phase == {"look up", "evaluate", "settle", "look again", "queue", "create", "done"}

Task == [command: Commands, via: Via, phase: Phase, status: CommandStatus \union {None}]

\* Where a task may be with what is decided about its command.
IsRegular(t) ==
  /\ t.phase \in {"look up", "evaluate", "settle"} => t.status # "QUEUED" /\ t.via = "cloud"
  /\ t.phase = "evaluate" => t.status = None
  /\ t.phase = "queue" => t.status = None /\ t.via = "lab"
  /\ t.phase \in {"look again", "create"} => t.status # None
  /\ t.phase = "look again" => t.via = "cloud"

\* No row of the command may be there: it is going to be queued, or was just now.
NeedsNoRow(t) ==
  \/ t.phase = "evaluate"
  \/ t.phase = "settle" /\ t.status = None
  \/ t.phase = "look again" /\ t.status = "QUEUED"

\* What the intake knows of a command whose tasks did not overlap is right.
Serialized(c) ==
  /\ \A n, m \in Running(c) : n = m
  /\ queued[c] > 0 => commands[c] = "QUEUED" \/ \E n \in Running(c) : tasks[n].status = "QUEUED"
  /\ \A n \in Running(c) : NeedsNoRow(tasks[n]) => commands[c] = None
  /\ RequestsOf(c, "lab") = {} => queued[c] <= 1

Honest(c) ==
  /\ commands[c] = "QUEUED" => queued[c] > 0
  /\ \A n \in DOMAIN tasks :
       tasks[n].command = c /\ tasks[n].status = "QUEUED" => queued[c] > 0
  /\ c \notin doubtful => Serialized(c)

CommandTypes ==
  /\ tasks \in Seq(Task)
  /\ \A n \in DOMAIN tasks : IsRegular(tasks[n])
  /\ commands \in [Commands -> CommandStatus \union {None}]
  /\ queued \in [Commands -> Nat]

CommandInv == CommandTypes /\ \A c \in Commands : Honest(c)

LEMMA InitCommands == Init => CommandInv
<1> SUFFICES ASSUME Init PROVE CommandInv
  OBVIOUS
<1>1. /\ tasks = <<>> /\ commands = [c \in Commands |-> None]
      /\ queued = [c \in Commands |-> 0] /\ doubtful = {}
  BY DEF Init, CommandInit
<1>2. tasks \in Seq(Task) /\ DOMAIN tasks = {}
  BY <1>1
<1>3. CommandTypes
  BY <1>1, <1>2 DEF CommandTypes
<1>4. ASSUME NEW c \in Commands PROVE Honest(c)
  <2>1. Running(c) = {} /\ commands[c] = None /\ queued[c] = 0
    BY <1>1, <1>2 DEF Running
  <2>2. Serialized(c)
    BY <2>1 DEF Serialized
  <2>3. commands[c] # "QUEUED"
    BY <2>1, CommandAssumption DEF CommandAssumption, CommandStatus
  <2> QED
    BY <1>2, <2>2, <2>3 DEF Honest
<1> QED
  BY <1>3, <1>4 DEF CommandInv

-----------------------------------------------------------------------------
(* Steps of tasks. *)

LEMMA TaskFacts == ASSUME CommandInv
  PROVE  /\ Len(tasks) \in Nat /\ DOMAIN tasks = 1..Len(tasks)
         /\ \A n \in DOMAIN tasks :
              /\ tasks[n] \in Task /\ tasks[n].command \in Commands
              /\ tasks[n].via \in Via /\ IsRegular(tasks[n])
<1>1. tasks \in Seq(Task)
  BY DEF CommandInv, CommandTypes
<1>2. Len(tasks) \in Nat /\ DOMAIN tasks = 1..Len(tasks) /\ \A n \in DOMAIN tasks : tasks[n] \in Task
  BY <1>1
<1> QED
  BY <1>2 DEF Task, CommandInv, CommandTypes

\* The tasks of a command are what they were.
SameTasks(d) ==
  /\ \A m \in DOMAIN tasks : m \in DOMAIN tasks'
  /\ \A m \in DOMAIN tasks' : tasks'[m].command = d => m \in DOMAIN tasks
  /\ \A m \in DOMAIN tasks :
       tasks[m].command = d \/ tasks'[m].command = d => tasks'[m] = tasks[m]

LEMMA OtherCommand ==
  ASSUME NEW d \in Commands, Honest(d), SameTasks(d), doubtful \subseteq doubtful',
         commands'[d] = commands[d], queued'[d] = queued[d]
  PROVE  Honest(d)'
<1>1. Running(d)' = Running(d) /\ \A n \in Running(d) : tasks'[n] = tasks[n]
  BY DEF SameTasks, Running, IsDone
<1>2. RequestsOf(d, "lab")' = RequestsOf(d, "lab")
  BY DEF SameTasks, RequestsOf
<1>3. ASSUME Serialized(d) PROVE Serialized(d)'
  BY <1>1, <1>2, <1>3 DEF Serialized, NeedsNoRow
<1>4. \A n \in DOMAIN tasks' :
        tasks'[n].command = d /\ tasks'[n].status = "QUEUED" => queued'[d] > 0
  BY DEF Honest, SameTasks
<1> QED
  BY <1>3, <1>4 DEF Honest

LEMMA TaskRewritten ==
  ASSUME CommandInv, NEW n \in DOMAIN tasks, NEW t \in Task, IsRegular(t),
         t.command = tasks[n].command, tasks' = [tasks EXCEPT ![n] = t]
  PROVE  /\ tasks' \in Seq(Task) /\ DOMAIN tasks' = DOMAIN tasks /\ tasks'[n] = t
         /\ \A m \in DOMAIN tasks : m # n => tasks'[m] = tasks[m]
         /\ \A m \in DOMAIN tasks' : IsRegular(tasks'[m])
         /\ \A d \in Commands : d # t.command => SameTasks(d)
<1>1. tasks \in Seq(Task)
  BY DEF CommandInv, CommandTypes
<1>2. /\ tasks' \in Seq(Task) /\ DOMAIN tasks' = DOMAIN tasks /\ tasks'[n] = t
      /\ \A m \in DOMAIN tasks : m # n => tasks'[m] = tasks[m]
  BY <1>1
<1>3. \A m \in DOMAIN tasks' : IsRegular(tasks'[m])
  BY <1>2, TaskFacts
<1>4. \A d \in Commands : d # t.command => SameTasks(d)
  BY <1>2 DEF SameTasks
<1> QED
  BY <1>2, <1>3, <1>4

\* What is known while one task of a command runs.
LEMMA Alone ==
  ASSUME CommandInv, NEW n \in DOMAIN tasks, tasks[n].phase # "done",
         tasks[n].command \notin doubtful
  PROVE  LET c == tasks[n].command IN
         /\ queued[c] > 0 => commands[c] = "QUEUED" \/ tasks[n].status = "QUEUED"
         /\ NeedsNoRow(tasks[n]) => commands[c] = None
         /\ RequestsOf(c, "lab") = {} => queued[c] <= 1
         /\ Running(c) = {n}
<1> DEFINE c == tasks[n].command
<1>1. c \in Commands /\ n \in Running(c)
  BY TaskFacts DEF Running, IsDone
<1>2. Serialized(c)
  BY <1>1 DEF CommandInv, Honest
<1> QED
  BY <1>1, <1>2 DEF Serialized

\* What a task's step may do to its command, and to no other.
MayBecome(n, t) ==
  LET c == tasks[n].command IN
  /\ commands' \in [Commands -> CommandStatus \union {None}]
  /\ queued' \in [Commands -> Nat]
  /\ \A d \in Commands : d # c => commands'[d] = commands[d] /\ queued'[d] = queued[d]
  /\ doubtful \subseteq doubtful'
  /\ queued'[c] >= queued[c]
  /\ commands'[c] = "QUEUED" => queued'[c] > 0
  /\ t.status = "QUEUED" => queued'[c] > 0
  /\ c \notin doubtful' =>
       /\ queued'[c] > 0 => commands'[c] = "QUEUED" \/ (t.phase # "done" /\ t.status = "QUEUED")
       /\ NeedsNoRow(t) => commands'[c] = None
       /\ RequestsOf(c, "lab") = {} => queued'[c] <= 1

LEMMA TaskMoves ==
  ASSUME CommandInv, NEW n \in DOMAIN tasks, tasks[n].phase # "done",
         NEW t \in Task, IsRegular(t), t.command = tasks[n].command, t.via = tasks[n].via,
         tasks' = [tasks EXCEPT ![n] = t], MayBecome(n, t)
  PROVE  CommandInv'
<1> DEFINE c == tasks[n].command
<1>0. /\ commands' \in [Commands -> CommandStatus \union {None}]
      /\ queued' \in [Commands -> Nat]
      /\ \A d \in Commands : d # c => commands'[d] = commands[d] /\ queued'[d] = queued[d]
      /\ doubtful \subseteq doubtful'
      /\ queued'[c] >= queued[c]
      /\ commands'[c] = "QUEUED" => queued'[c] > 0
      /\ c \notin doubtful' =>
           /\ queued'[c] > 0 => commands'[c] = "QUEUED" \/ (t.phase # "done" /\ t.status = "QUEUED")
           /\ NeedsNoRow(t) => commands'[c] = None
           /\ RequestsOf(c, "lab") = {} => queued'[c] <= 1
      /\ t.status = "QUEUED" => queued'[c] > 0
      /\ t.command = c
  BY DEF MayBecome
<1>1. /\ tasks' \in Seq(Task) /\ DOMAIN tasks' = DOMAIN tasks /\ tasks'[n] = t
      /\ \A m \in DOMAIN tasks : m # n => tasks'[m] = tasks[m]
      /\ \A m \in DOMAIN tasks' : IsRegular(tasks'[m])
      /\ \A d \in Commands : d # c => SameTasks(d)
  BY TaskRewritten
<1>2. CommandTypes'
  BY <1>0, <1>1 DEF CommandTypes
<1>3. \A d \in Commands : d # c => Honest(d)'
  BY <1>0, <1>1, OtherCommand DEF CommandInv
<1>4. c \in Commands /\ queued[c] \in Nat /\ queued'[c] \in Nat
  BY <1>0, TaskFacts DEF CommandInv, CommandTypes
<1>5. \A m \in DOMAIN tasks' :
        tasks'[m].command = c /\ tasks'[m].status = "QUEUED" => queued'[c] > 0
  <2>1. \A m \in DOMAIN tasks : tasks[m].command = c /\ tasks[m].status = "QUEUED" => queued[c] > 0
    BY <1>4 DEF CommandInv, Honest
  <2>2. queued[c] > 0 => queued'[c] > 0
    BY <1>0, <1>4
  <2> QED
    BY <1>0, <1>1, <2>1, <2>2
<1>6. ASSUME c \notin doubtful' PROVE Serialized(c)'
  <2>1. Running(c) = {n}
    BY <1>0, <1>6, Alone
  <2>2. Running(c)' = IF t.phase = "done" THEN {} ELSE {n}
    <3>1. \A m \in DOMAIN tasks : m # n => ~(tasks'[m].command = c /\ tasks'[m].phase # "done")
      BY <1>1, <2>1 DEF Running, IsDone
    <3>2. \A m : m \in Running(c)' <=> m \in DOMAIN tasks' /\ tasks'[m].command = c /\ tasks'[m].phase # "done"
      BY DEF Running, IsDone
    <3>3. \A m : m \in Running(c)' <=> m = n /\ t.phase # "done"
      BY <1>0, <1>1, <3>1, <3>2
    <3>4. CASE t.phase = "done"
      BY <3>3, <3>4
    <3>5. CASE t.phase # "done"
      BY <3>3, <3>5
    <3> QED
      BY <3>4, <3>5
  <2>3. RequestsOf(c, "lab")' = RequestsOf(c, "lab")
    BY <1>0, <1>1 DEF RequestsOf
  <2>4. NeedsNoRow(t) => commands'[c] = None
    BY <1>0, <1>6
  <2>5. \A m \in Running(c)' : NeedsNoRow(tasks'[m]) => commands'[c] = None
    BY <1>1, <2>2, <2>4
  <2>6. queued'[c] > 0 => commands'[c] = "QUEUED" \/ \E m \in Running(c)' : tasks'[m].status = "QUEUED"
    BY <1>0, <1>1, <1>6, <2>2
  <2>7. \A l, m \in Running(c)' : l = m
    BY <2>2
  <2> QED
    BY <1>0, <1>6, <2>3, <2>5, <2>6, <2>7 DEF Serialized, NeedsNoRow
<1>7. Honest(c)'
  BY <1>0, <1>5, <1>6 DEF Honest
<1> QED
  BY <1>2, <1>3, <1>4, <1>7 DEF CommandInv

\* A task that only changes its phase.
LEMMA PhaseMoves ==
  ASSUME CommandInv, NEW n \in DOMAIN tasks, NEW p \in Phase
  PROVE  LET t == [tasks[n] EXCEPT !.phase = p] IN
         /\ t \in Task /\ t.command = tasks[n].command /\ t.via = tasks[n].via
         /\ t.phase = p /\ t.status = tasks[n].status
         /\ [tasks EXCEPT ![n].phase = p] = [tasks EXCEPT ![n] = t]
<1>1. tasks[n] \in Task
  BY TaskFacts
<1> QED
  BY <1>1 DEF Task

\* The command of a task, and what its rows and its counter are.
LEMMA CommandFacts ==
  ASSUME CommandInv, NEW n \in DOMAIN tasks
  PROVE  LET c == tasks[n].command IN
         /\ c \in Commands /\ queued[c] \in Nat
         /\ commands[c] \in CommandStatus \union {None}
         /\ commands[c] = "QUEUED" => queued[c] > 0
         /\ tasks[n].status = "QUEUED" => queued[c] > 0
         /\ tasks[n].status \in CommandStatus \union {None}
         /\ commands \in [Commands -> CommandStatus \union {None}]
         /\ queued \in [Commands -> Nat]
<1>1. tasks[n].command \in Commands /\ tasks[n] \in Task
  BY TaskFacts
<1> QED
  BY <1>1 DEF CommandInv, CommandTypes, Honest, Task

\* A step of a task that leaves the rows and the counters alone.
LEMMA StatusMoves ==
  ASSUME CommandInv, NEW n \in DOMAIN tasks, tasks[n].phase # "done", NEW t,
         UNCHANGED <<commands, queued, doubtful>>,
         t.status = "QUEUED" => tasks[n].status = "QUEUED",
         tasks[n].command \notin doubtful =>
           /\ tasks[n].status = "QUEUED" => t.phase # "done" /\ t.status = "QUEUED"
           /\ NeedsNoRow(t) => commands[tasks[n].command] = None
  PROVE  MayBecome(n, t)
<1> DEFINE c == tasks[n].command
<1>1. /\ c \in Commands /\ queued[c] \in Nat
      /\ commands[c] = "QUEUED" => queued[c] > 0
      /\ tasks[n].status = "QUEUED" => queued[c] > 0
      /\ commands \in [Commands -> CommandStatus \union {None}]
      /\ queued \in [Commands -> Nat]
  BY CommandFacts
<1>2. c \notin doubtful =>
        /\ queued[c] > 0 => commands[c] = "QUEUED" \/ tasks[n].status = "QUEUED"
        /\ RequestsOf(c, "lab") = {} => queued[c] <= 1
  BY Alone
<1>3. c \notin doubtful =>
        (queued[c] > 0 => commands[c] = "QUEUED" \/ (t.phase # "done" /\ t.status = "QUEUED"))
  BY <1>2
<1> QED
  BY <1>1, <1>2, <1>3 DEF MayBecome

LEMMA TaskIsTyped ==
  ASSUME CommandInv, NEW n \in DOMAIN tasks
  PROVE  /\ tasks[n] \in Task /\ IsRegular(tasks[n])
         /\ tasks[n].status \in CommandStatus \union {None}
BY TaskFacts DEF Task

LEMMA NoneIsNoStatus == \A st \in CommandStatus : st # None
BY CommandAssumption DEF CommandAssumption

LEMMA LookUpPreserves ==
  ASSUME CommandInv, NEW n \in DOMAIN tasks, LookUp(n) PROVE CommandInv'
<1> DEFINE c == tasks[n].command
           st == IF IsKnown(c) THEN "REJECTED" ELSE tasks[n].status
           p == IF st = None THEN "evaluate" ELSE "settle"
           t == [tasks[n] EXCEPT !.status = st, !.phase = p]
<1>1. /\ tasks[n].phase = "look up" /\ tasks[n].via = "cloud"
      /\ tasks' = [tasks EXCEPT ![n].status = st, ![n].phase = p]
      /\ UNCHANGED <<commands, queued, doubtful>>
  BY DEF LookUp, At
<1>2. /\ tasks[n] \in Task /\ IsRegular(tasks[n])
      /\ tasks[n].status \in CommandStatus \union {None}
  BY TaskIsTyped
<1>3. tasks[n].status # "QUEUED"
  BY <1>1, <1>2 DEF IsRegular
<1>4. st \in CommandStatus \union {None} /\ p \in {"evaluate", "settle"} /\ st # "QUEUED"
  BY <1>2, <1>3 DEF CommandStatus
<1>5. st = None => commands[c] = None
  BY NoneIsNoStatus DEF IsKnown, CommandStatus
<1>6. p = "evaluate" <=> st = None
  OBVIOUS
<1> HIDE DEF st, p
<1>7. /\ t \in Task /\ t.command = c /\ t.via = tasks[n].via /\ t.phase = p /\ t.status = st
  BY <1>2, <1>4 DEF Task, Phase
<1>8. tasks' = [tasks EXCEPT ![n] = t]
  BY <1>1
<1> HIDE DEF t
<1>9. IsRegular(t)
  BY <1>1, <1>4, <1>6, <1>7 DEF IsRegular
<1>10. NeedsNoRow(t) => commands[c] = None
  BY <1>4, <1>5, <1>6, <1>7 DEF NeedsNoRow
<1>11. MayBecome(n, t)
  BY <1>1, <1>3, <1>4, <1>7, <1>10, StatusMoves
<1> QED
  BY <1>1, <1>7, <1>8, <1>9, <1>11, TaskMoves

LEMMA EvaluatePreserves ==
  ASSUME CommandInv, NEW n \in DOMAIN tasks, Evaluate(n) PROVE CommandInv'
<1> DEFINE c == tasks[n].command
<1>1. /\ tasks[n].phase = "evaluate" /\ tasks[n].via = "cloud"
      /\ UNCHANGED <<commands, queued, doubtful>>
  BY DEF Evaluate, At
<1>2. PICK st \in {None, "EVALUATED_ONLY"} :
        tasks' = [tasks EXCEPT ![n].status = st, ![n].phase = "settle"]
  BY DEF Evaluate
<1> DEFINE t == [tasks[n] EXCEPT !.status = st, !.phase = "settle"]
<1>3. /\ st \in CommandStatus \union {None} /\ st # "QUEUED"
      /\ tasks[n] \in Task /\ IsRegular(tasks[n])
  BY TaskIsTyped, NoneIsNoStatus DEF CommandStatus
<1>4. /\ t \in Task /\ t.command = c /\ t.via = tasks[n].via
      /\ t.phase = "settle" /\ t.status = st
  BY <1>3 DEF Task, Phase
<1>5. tasks' = [tasks EXCEPT ![n] = t]
  BY <1>2
<1> HIDE DEF t
<1>6. IsRegular(t)
  BY <1>1, <1>3, <1>4 DEF IsRegular
<1>7. NeedsNoRow(tasks[n]) /\ tasks[n].status # "QUEUED"
  BY <1>1, <1>3, NoneIsNoStatus DEF NeedsNoRow, IsRegular, CommandStatus
<1>8. MayBecome(n, t)
  BY <1>1, <1>3, <1>4, <1>7, Alone, CommandFacts DEF MayBecome
<1> QED
  BY <1>1, <1>4, <1>5, <1>6, <1>8, TaskMoves

\* The command goes into the outbound queue.
LEMMA CounterFacts ==
  ASSUME CommandInv, NEW n \in DOMAIN tasks, Enqueues(tasks[n].command)
  PROVE  LET c == tasks[n].command IN
         /\ queued' \in [Commands -> Nat] /\ queued'[c] = queued[c] + 1
         /\ queued'[c] > 0 /\ queued'[c] >= queued[c]
         /\ \A d \in Commands : d # c => queued'[d] = queued[d]
BY CommandFacts DEF Enqueues

\* What Settle decides, and that it queues only what was not decided before.
LEMMA SettleDecides ==
  ASSUME CommandInv, NEW n \in DOMAIN tasks, Settle(n)
  PROVE  \E st \in CommandStatus :
           /\ tasks' = [tasks EXCEPT ![n].status = st, ![n].phase = "look again"]
           /\ \/ st = "QUEUED" /\ tasks[n].status = None /\ Enqueues(tasks[n].command)
              \/ st # "QUEUED" /\ UNCHANGED queued
<1>1. tasks[n].status \in CommandStatus \union {None} /\ IsRegular(tasks[n])
  BY TaskIsTyped
<1>2. tasks[n].status # "QUEUED"
  BY <1>1 DEF IsRegular, Settle, At
<1>3. CASE tasks[n].status # None
  <2>1. Concludes(n, tasks[n].status) /\ LeavesQueue
    BY <1>3 DEF Settle
  <2> QED
    BY <1>1, <1>2, <1>3, <2>1 DEF Concludes, LeavesQueue
<1>4. CASE tasks[n].status = None
  <2>1. \/ Concludes(n, "EVALUATED_ONLY") /\ LeavesQueue
        \/ Concludes(n, "QUEUED") /\ Enqueues(tasks[n].command)
        \/ Concludes(n, "ENQUEUE_FAILED") /\ LeavesQueue
    BY <1>4 DEF Settle
  <2> QED
    BY <1>4, <2>1 DEF Concludes, LeavesQueue, CommandStatus
<1> QED
  BY <1>3, <1>4

LEMMA SettlePreserves ==
  ASSUME CommandInv, NEW n \in DOMAIN tasks, Settle(n) PROVE CommandInv'
<1> DEFINE c == tasks[n].command
<1>1. /\ tasks[n].phase = "settle" /\ tasks[n].via = "cloud"
      /\ UNCHANGED <<commands, doubtful>>
  BY DEF Settle, At
<1>2. PICK st \in CommandStatus :
        /\ tasks' = [tasks EXCEPT ![n].status = st, ![n].phase = "look again"]
        /\ \/ st = "QUEUED" /\ tasks[n].status = None /\ Enqueues(c)
           \/ st # "QUEUED" /\ UNCHANGED queued
  BY SettleDecides
<1> DEFINE t == [tasks[n] EXCEPT !.status = st, !.phase = "look again"]
<1>3. tasks[n] \in Task /\ IsRegular(tasks[n])
  BY TaskIsTyped
<1>4. /\ t \in Task /\ t.command = c /\ t.via = tasks[n].via
      /\ t.phase = "look again" /\ t.status = st
  BY <1>3 DEF Task, Phase
<1>5. tasks' = [tasks EXCEPT ![n] = t]
  BY <1>2
<1> HIDE DEF t
<1>6. IsRegular(t) /\ (NeedsNoRow(t) <=> st = "QUEUED")
  BY <1>1, <1>4, NoneIsNoStatus DEF IsRegular, NeedsNoRow
<1>7. tasks[n].status # "QUEUED"
  BY <1>1, <1>3 DEF IsRegular
<1>8. CASE st = "QUEUED" /\ tasks[n].status = None /\ Enqueues(c)
  <2>1. NeedsNoRow(tasks[n])
    BY <1>1, <1>8 DEF NeedsNoRow
  <2>2. /\ c \in Commands /\ queued[c] \in Nat
        /\ commands \in [Commands -> CommandStatus \union {None}]
        /\ commands[c] = "QUEUED" => queued[c] > 0
    BY CommandFacts
  <2>3. c \notin doubtful => commands[c] = None /\ ~(queued[c] > 0)
    BY <1>1, <1>7, <2>1, Alone, NoneIsNoStatus DEF CommandStatus
  <2>4. /\ queued' \in [Commands -> Nat] /\ queued'[c] = queued[c] + 1
        /\ queued'[c] > 0 /\ queued'[c] >= queued[c]
        /\ \A d \in Commands : d # c => queued'[d] = queued[d]
    BY <1>8, CounterFacts
  <2>5. c \notin doubtful => queued'[c] <= 1
    BY <2>2, <2>3, <2>4
  <2>6. MayBecome(n, t)
    BY <1>1, <1>4, <1>6, <1>8, <2>2, <2>3, <2>4, <2>5 DEF MayBecome
  <2> QED
    BY <1>1, <1>4, <1>5, <1>6, <2>6, TaskMoves
<1>9. CASE st # "QUEUED" /\ UNCHANGED queued
  <2>1. MayBecome(n, t)
    BY <1>1, <1>4, <1>6, <1>7, <1>9, StatusMoves
  <2> QED
    BY <1>1, <1>4, <1>5, <1>6, <2>1, TaskMoves
<1> QED
  BY <1>2, <1>8, <1>9

LEMMA LookAgainPreserves ==
  ASSUME CommandInv, NEW n \in DOMAIN tasks, LookAgain(n) PROVE CommandInv'
<1> DEFINE c == tasks[n].command
           p == IF commands[c] = None THEN "create" ELSE "done"
           t == [tasks[n] EXCEPT !.phase = p]
<1>1. /\ tasks[n].phase = "look again"
      /\ tasks' = [tasks EXCEPT ![n].phase = p]
      /\ UNCHANGED <<commands, queued, doubtful>>
  BY DEF LookAgain, At, Moves
<1>2. p \in {"create", "done"} /\ (p = "create" <=> commands[c] = None)
  OBVIOUS
<1> HIDE DEF p
<1>3. /\ t \in Task /\ t.command = c /\ t.via = tasks[n].via
      /\ t.phase = p /\ t.status = tasks[n].status
      /\ tasks' = [tasks EXCEPT ![n] = t]
  <2>1. p \in Phase
    BY <1>2 DEF Phase
  <2>2. /\ t \in Task /\ t.command = tasks[n].command /\ t.via = tasks[n].via
        /\ t.phase = p /\ t.status = tasks[n].status
        /\ [tasks EXCEPT ![n].phase = p] = [tasks EXCEPT ![n] = t]
    BY <2>1, PhaseMoves, Zenon
  <2> QED
    BY <1>1, <2>2, Zenon
<1> HIDE DEF t
<1>4. IsRegular(t) /\ ~NeedsNoRow(t)
  BY <1>1, <1>2, <1>3, TaskFacts DEF IsRegular, NeedsNoRow
<1>5. tasks[n].status = "QUEUED" => NeedsNoRow(tasks[n])
  BY <1>1 DEF NeedsNoRow
<1>6. tasks[n].command \notin doubtful => (tasks[n].status = "QUEUED" => p = "create")
  BY <1>1, <1>2, <1>5, Alone
<1>7. MayBecome(n, t)
  <2>1. tasks[n].phase # "done" /\ t.phase = p /\ t.status = tasks[n].status
    BY <1>1, <1>3
  <2>2. p = "create" => p # "done"
    OBVIOUS
  <2>3. c \notin doubtful =>
          /\ tasks[n].status = "QUEUED" => t.phase # "done" /\ t.status = "QUEUED"
          /\ NeedsNoRow(t) => commands[c] = None
    BY <1>4, <1>6, <2>1, <2>2
  <2> QED
    BY <1>1, <2>1, <2>3, StatusMoves
<1> QED
  BY <1>1, <1>3, <1>4, <1>7, TaskMoves

LEMMA LabQueuePreserves ==
  ASSUME CommandInv, NEW n \in DOMAIN tasks, LabQueue(n) PROVE CommandInv'
<1> DEFINE c == tasks[n].command
<1>1. tasks[n] \in Task /\ IsRegular(tasks[n])
  BY TaskIsTyped
<1>2. /\ tasks[n].phase = "queue" /\ tasks[n].via = "lab" /\ tasks[n].status = None
      /\ UNCHANGED <<commands, doubtful>>
  BY <1>1 DEF LabQueue, At, IsRegular
<1>3. RequestsOf(c, "lab") # {}
  BY <1>2 DEF RequestsOf
<1>4. tasks[n].status # "QUEUED"
  BY <1>2, NoneIsNoStatus DEF CommandStatus
<1>5. CASE Admits(c)
  <2> DEFINE t == [tasks[n] EXCEPT !.status = "QUEUED", !.phase = "create"]
  <2>1. Enqueues(c) /\ tasks' = [tasks EXCEPT ![n].status = "QUEUED", ![n].phase = "create"]
    BY <1>5 DEF LabQueue
  <2>2. /\ t \in Task /\ t.command = c /\ t.via = tasks[n].via
        /\ t.phase = "create" /\ t.status = "QUEUED"
    BY <1>1 DEF Task, Phase, CommandStatus
  <2>3. tasks' = [tasks EXCEPT ![n] = t]
    BY <2>1
  <2> HIDE DEF t
  <2>4. IsRegular(t) /\ ~NeedsNoRow(t)
    BY <2>2, NoneIsNoStatus DEF IsRegular, NeedsNoRow, CommandStatus
  <2>5. /\ queued' \in [Commands -> Nat]
        /\ queued'[c] > 0 /\ queued'[c] >= queued[c]
        /\ \A d \in Commands : d # c => queued'[d] = queued[d]
    BY <2>1, CounterFacts
  <2>6. MayBecome(n, t)
    BY <1>2, <1>3, <2>2, <2>4, <2>5, CommandFacts DEF MayBecome
  <2> QED
    BY <1>2, <2>2, <2>3, <2>4, <2>6, TaskMoves
<1>6. CASE ~Admits(c)
  <2> DEFINE t == [tasks[n] EXCEPT !.phase = "done"]
  <2>1. UNCHANGED queued /\ tasks' = [tasks EXCEPT ![n].phase = "done"]
    BY <1>6 DEF LabQueue, Moves, LeavesQueue
  <2>2. /\ t \in Task /\ t.command = c /\ t.via = tasks[n].via
        /\ t.phase = "done" /\ t.status = tasks[n].status
        /\ tasks' = [tasks EXCEPT ![n] = t]
    BY <2>1, PhaseMoves DEF Phase
  <2> HIDE DEF t
  <2>3. IsRegular(t) /\ ~NeedsNoRow(t)
    BY <2>2 DEF IsRegular, NeedsNoRow
  <2>4. MayBecome(n, t)
    BY <1>2, <1>3, <1>4, <2>1, <2>2, <2>3, Alone, CommandFacts DEF MayBecome
  <2> QED
    BY <1>2, <2>2, <2>3, <2>4, TaskMoves
<1> QED
  BY <1>5, <1>6

LEMMA CreatePreserves ==
  ASSUME CommandInv, NEW n \in DOMAIN tasks, Create(n) PROVE CommandInv'
<1> DEFINE c == tasks[n].command
           t == [tasks[n] EXCEPT !.phase = "done"]
<1>1. /\ tasks[n].phase = "create" /\ UNCHANGED queued
      /\ commands' = Created(c, tasks[n].status)
      /\ doubtful' = IF IsKnown(c) THEN doubtful \union {c} ELSE doubtful
      /\ tasks' = [tasks EXCEPT ![n].phase = "done"]
  BY DEF Create, Moves
<1>2. /\ t \in Task /\ t.command = c /\ t.via = tasks[n].via
      /\ t.phase = "done" /\ t.status = tasks[n].status
      /\ tasks' = [tasks EXCEPT ![n] = t]
  BY <1>1, PhaseMoves DEF Phase
<1> HIDE DEF t
<1>3. IsRegular(t) /\ ~NeedsNoRow(t)
  BY <1>2 DEF IsRegular, NeedsNoRow
<1>4. doubtful \subseteq doubtful'
  BY <1>1
<1>5. CASE commands[c] = None
  <2>1. commands' = [commands EXCEPT ![c] = tasks[n].status]
    BY <1>1, <1>5 DEF Created
  <2>2. /\ c \in Commands /\ queued[c] \in Nat /\ queued \in [Commands -> Nat]
        /\ commands \in [Commands -> CommandStatus \union {None}]
        /\ tasks[n].status \in CommandStatus \union {None}
        /\ tasks[n].status = "QUEUED" => queued[c] > 0
    BY CommandFacts
  <2>3. /\ commands' \in [Commands -> CommandStatus \union {None}]
        /\ commands'[c] = tasks[n].status
        /\ \A d \in Commands : d # c => commands'[d] = commands[d]
    BY <2>1, <2>2
  <2>4. commands[c] # "QUEUED"
    BY <1>5, NoneIsNoStatus DEF CommandStatus
  <2>5. c \notin doubtful =>
          /\ queued[c] > 0 => tasks[n].status = "QUEUED"
          /\ RequestsOf(c, "lab") = {} => queued[c] <= 1
    BY <1>1, <2>4, Alone
  <2>6. MayBecome(n, t)
    BY <1>1, <1>2, <1>3, <1>4, <2>2, <2>3, <2>5 DEF MayBecome
  <2> QED
    BY <1>1, <1>2, <1>3, <2>6, TaskMoves
<1>6. CASE commands[c] # None
  <2>1. UNCHANGED commands /\ c \in doubtful'
    BY <1>1, <1>6 DEF Created, IsKnown
  <2>2. MayBecome(n, t)
    BY <1>1, <1>2, <1>4, <2>1, CommandFacts DEF MayBecome
  <2> QED
    BY <1>1, <1>2, <1>3, <2>2, TaskMoves
<1> QED
  BY <1>5, <1>6

LEMMA TaskFailsPreserves ==
  ASSUME CommandInv, NEW n \in DOMAIN tasks, TaskFails(n) PROVE CommandInv'
<1> DEFINE c == tasks[n].command
           t == [tasks[n] EXCEPT !.phase = "done"]
<1>1. /\ tasks[n].phase # "done" /\ UNCHANGED <<commands, queued>>
      /\ doubtful' = doubtful \union {c}
      /\ tasks' = [tasks EXCEPT ![n].phase = "done"]
  BY DEF TaskFails, Moves
<1>2. /\ t \in Task /\ t.command = c /\ t.via = tasks[n].via
      /\ t.phase = "done" /\ t.status = tasks[n].status
      /\ tasks' = [tasks EXCEPT ![n] = t]
  BY <1>1, PhaseMoves DEF Phase
<1> HIDE DEF t
<1>3. IsRegular(t)
  BY <1>2 DEF IsRegular
<1>4. MayBecome(n, t)
  BY <1>1, <1>2, CommandFacts DEF MayBecome
<1> QED
  BY <1>1, <1>2, <1>3, <1>4, TaskMoves

-----------------------------------------------------------------------------
(* Steps of no task. *)

LEMMA TaskBegins ==
  ASSUME CommandInv, NEW t \in Task, IsRegular(t), t.command \in Commands,
         ~NeedsNoRow(t), t.status # "QUEUED", t.phase # "done",
         tasks' = Append(tasks, t), UNCHANGED <<commands, queued>>,
         doubtful' = IF Running(t.command) = {} THEN doubtful ELSE doubtful \union {t.command}
  PROVE  CommandInv'
<1> DEFINE c == t.command
           new == Len(tasks) + 1
<1>1. tasks \in Seq(Task) /\ Len(tasks) \in Nat /\ DOMAIN tasks = 1..Len(tasks)
  BY TaskFacts DEF CommandInv, CommandTypes
<1>2. /\ tasks' \in Seq(Task) /\ DOMAIN tasks' = 1..new /\ tasks'[new] = t
      /\ \A m \in DOMAIN tasks : tasks'[m] = tasks[m]
  BY <1>1
<1>3. new \notin DOMAIN tasks /\ DOMAIN tasks' = DOMAIN tasks \union {new}
  BY <1>1, <1>2
<1> HIDE DEF new
<1>4. CommandTypes'
  BY <1>2, <1>3 DEF CommandInv, CommandTypes
<1>5. doubtful \subseteq doubtful'
  OBVIOUS
<1>6. ASSUME NEW d \in Commands, d # c PROVE Honest(d)'
  <2>1. SameTasks(d)
    BY <1>2, <1>3, <1>6 DEF SameTasks
  <2> QED
    BY <1>5, <2>1, OtherCommand DEF CommandInv
<1>7. Honest(c)'
  <2>1. Honest(c)
    BY DEF CommandInv
  <2>2. \A m \in DOMAIN tasks' :
          tasks'[m].command = c /\ tasks'[m].status = "QUEUED" => queued'[c] > 0
    BY <1>2, <1>3, <2>1 DEF Honest
  <2>3. ASSUME c \notin doubtful' PROVE Serialized(c)'
    <3>1. Running(c) = {} /\ Serialized(c)
      BY <2>1, <2>3 DEF Honest
    <3>2. \A m \in Running(c)' : m = new
      BY <1>2, <1>3, <3>1 DEF Running, IsDone
    <3>3. RequestsOf(c, "lab") \subseteq RequestsOf(c, "lab")'
      BY <1>2, <1>3 DEF RequestsOf
    <3>4. \A m \in Running(c)' : ~NeedsNoRow(tasks'[m])
      BY <1>2, <3>2
    <3> QED
      BY <3>1, <3>2, <3>3, <3>4 DEF Serialized, NeedsNoRow
  <2> QED
    BY <2>1, <2>2, <2>3 DEF Honest
<1> QED
  BY <1>4, <1>6, <1>7 DEF CommandInv

LEMMA RequestPreserves ==
  ASSUME CommandInv, NEW c \in Commands, Deliver(c) \/ LabSubmit(c) \/ EvaluateOnly(c)
  PROVE  CommandInv'
<1>1. PICK via \in Via, phase \in Phase, st \in CommandStatus \union {None} :
        /\ Begins(c, via, phase, st)
        /\ \/ via = "cloud" /\ phase = "look up" /\ st # "QUEUED"
           \/ via = "lab" /\ phase = "queue" /\ st = None
           \/ via = "evaluate" /\ phase = "create" /\ st \in {"ELIGIBLE", "REJECTED"}
  <2>1. None # "QUEUED"
    BY NoneIsNoStatus DEF CommandStatus
  <2>2. CASE Deliver(c)
    <3>1. PICK st \in {"REJECTED", "EVALUATED_ONLY", None} : Begins(c, "cloud", "look up", st)
      BY <2>2 DEF Deliver
    <3>2. st \in CommandStatus \union {None} /\ st # "QUEUED"
      BY <2>1 DEF CommandStatus
    <3>3. "cloud" \in Via /\ "look up" \in Phase
      BY DEF Via, Phase
    <3> QED  BY <3>1, <3>2, <3>3, Zenon
  <2>3. CASE LabSubmit(c)
    <3>1. Begins(c, "lab", "queue", None)
      BY <2>3 DEF LabSubmit
    <3>2. "lab" \in Via /\ "queue" \in Phase
      BY DEF Via, Phase
    <3> QED  BY <3>1, <3>2, Zenon
  <2>4. CASE EvaluateOnly(c)
    <3>1. PICK st \in {"ELIGIBLE", "REJECTED"} : Begins(c, "evaluate", "create", st)
      BY <2>4 DEF EvaluateOnly
    <3>2. st \in CommandStatus \union {None}
      BY DEF CommandStatus
    <3>3. "evaluate" \in Via /\ "create" \in Phase
      BY DEF Via, Phase
    <3> QED  BY <3>1, <3>2, <3>3, Zenon
  <2> QED  BY <2>2, <2>3, <2>4
<1> DEFINE t == [command |-> c, via |-> via, phase |-> phase, status |-> st]
<1>2. /\ tasks' = Append(tasks, t)
      /\ doubtful' = IF Running(c) = {} THEN doubtful ELSE doubtful \union {c}
  BY <1>1 DEF Begins
<1>3. /\ t \in Task /\ t.command = c /\ t.via = via /\ t.phase = phase /\ t.status = st
  BY DEF Task
<1>4. st # "QUEUED"
  BY <1>1, NoneIsNoStatus DEF CommandStatus
<1> HIDE DEF t
<1>5. IsRegular(t) /\ ~NeedsNoRow(t) /\ t.phase # "done"
  BY <1>1, <1>3, NoneIsNoStatus DEF IsRegular, NeedsNoRow, CommandStatus
<1>6. UNCHANGED <<commands, queued>>
  BY DEF Deliver, LabSubmit, EvaluateOnly
<1> QED
  BY <1>2, <1>3, <1>4, <1>5, <1>6, TaskBegins

LEMMA RestartPreserves ==
  ASSUME CommandInv, CommandsRestart PROVE CommandInv'
<1>1. /\ tasks' = [n \in DOMAIN tasks |-> [tasks[n] EXCEPT !.phase = "done"]]
      /\ doubtful' = doubtful \union {c \in Commands : Running(c) # {}}
      /\ commands' = [c \in Commands |-> Reconciled(c)]
      /\ UNCHANGED queued
  BY DEF CommandsRestart
<1>2. /\ DOMAIN tasks' = DOMAIN tasks
      /\ \A n \in DOMAIN tasks :
           /\ tasks'[n] \in Task /\ tasks'[n].phase = "done"
           /\ tasks'[n].command = tasks[n].command /\ tasks'[n].via = tasks[n].via
           /\ tasks'[n].status = tasks[n].status
  <2>1. \A n \in DOMAIN tasks : tasks[n] \in Task
    BY TaskFacts
  <2> QED
    BY <1>1, <2>1 DEF Task, Phase
<1>3. tasks' \in Seq(Task)
  <2>1. Len(tasks) \in Nat /\ tasks' \in [1..Len(tasks) -> Task]
    BY <1>1, <1>2, TaskFacts
  <2> QED
    BY <2>1, SeqDef
<1>4. \A c \in Commands :
        /\ Reconciled(c) \in CommandStatus \union {None}
        /\ Reconciled(c) = "QUEUED" <=> commands[c] = "QUEUED"
  BY DEF Reconciled, CommandInv, CommandTypes, CommandStatus
<1>5. CommandTypes'
  BY <1>1, <1>2, <1>3, <1>4 DEF CommandInv, CommandTypes, IsRegular
<1>6. ASSUME NEW c \in Commands PROVE Honest(c)'
  <2>1. Honest(c) /\ (commands'[c] = "QUEUED" <=> commands[c] = "QUEUED")
    BY <1>1, <1>4 DEF CommandInv
  <2>2. \A m \in DOMAIN tasks' :
          tasks'[m].command = c /\ tasks'[m].status = "QUEUED" => queued'[c] > 0
    BY <1>1, <1>2, <2>1 DEF Honest
  <2>3. ASSUME c \notin doubtful' PROVE Serialized(c)'
    <3>1. Running(c) = {} /\ Serialized(c)
      BY <1>1, <2>1, <2>3 DEF Honest
    <3>2. Running(c)' = {}
      BY <1>2 DEF Running, IsDone
    <3>3. RequestsOf(c, "lab")' = RequestsOf(c, "lab")
      BY <1>2 DEF RequestsOf
    <3> QED
      BY <1>1, <2>1, <3>1, <3>2, <3>3 DEF Serialized
  <2> QED
    BY <1>1, <2>1, <2>2, <2>3 DEF Honest
<1> QED
  BY <1>5, <1>6 DEF CommandInv

\* The other parts of the process, the queue's end of the line, and the clock.
LEMMA OthersPreserve ==
  ASSUME CommandInv, UNCHANGED <<tasks, commands, queued, doubtful>> PROVE CommandInv'
<1>1. CommandTypes'
  BY DEF CommandInv, CommandTypes
<1>2. ASSUME NEW c \in Commands PROVE Honest(c)'
  <2>1. Honest(c) /\ SameTasks(c)
    BY DEF CommandInv, SameTasks
  <2> QED
    BY <2>1, OtherCommand
<1> QED
  BY <1>1, <1>2 DEF CommandInv

-----------------------------------------------------------------------------
(* Every step. *)

LEMMA TaskStepPreserves == ASSUME CommandInv, TaskStep PROVE CommandInv'
<1>1. PICK n \in DOMAIN tasks :
        LookUp(n) \/ Evaluate(n) \/ Settle(n) \/ LookAgain(n) \/ LabQueue(n) \/ Create(n)
  BY DEF TaskStep
<1> QED
  BY <1>1, LookUpPreserves, EvaluatePreserves, SettlePreserves, LookAgainPreserves,
     LabQueuePreserves, CreatePreserves

LEMMA StepPreserves == ASSUME CommandInv, [Next]_vars PROVE CommandInv'
<1>1. CASE Delivers \/ Streams \/ Beats
  <2>1. UNCHANGED <<tasks, commands, queued, doubtful>>
    BY <1>1 DEF Delivers, Streams, Beats, commandVars
  <2> QED
    BY <2>1, OthersPreserve
<1>2. CASE Requests
  <2>1. CASE CommandStep
    <3>1. CASE Request
      BY <3>1, RequestPreserves DEF Request
    <3>2. CASE PopForAddress \/ PopForOther \/ ItemExpires \/ \E c \in Commands : CommandExpires(c)
      <4>1. UNCHANGED <<tasks, commands, queued, doubtful>>
        BY <3>2 DEF PopForAddress, PopForOther, ItemExpires, CommandExpires
      <4> QED
        BY <4>1, OthersPreserve
    <3> QED
      BY <2>1, <3>1, <3>2, TaskStepPreserves DEF CommandStep
  <2>2. CASE IntakeStarts
    <3>1. UNCHANGED <<tasks, commands, queued, doubtful>>
      BY <2>2 DEF IntakeStarts
    <3> QED
      BY <3>1, OthersPreserve
  <2>3. CASE \E c \in Commands : Deliver(c)
    BY <2>3, RequestPreserves
  <2>4. CASE \E n \in DOMAIN tasks : TaskFails(n)
    BY <2>4, TaskFailsPreserves
  <2> QED
    BY <1>2, <2>1, <2>2, <2>3, <2>4 DEF Requests
<1>3. CASE ProcessRestarts
  BY <1>3, RestartPreserves DEF ProcessRestarts
<1>4. CASE UNCHANGED vars
  <2>1. UNCHANGED <<tasks, commands, queued, doubtful>>
    BY <1>4 DEF vars, commandVars
  <2> QED
    BY <2>1, OthersPreserve
<1> QED
  BY <1>1, <1>2, <1>3, <1>4 DEF Next

LEMMA CommandInvariant == Spec => []CommandInv
<1>1. CommandInv /\ [Next]_vars => CommandInv'
  BY StepPreserves
<1> QED
  BY InitCommands, <1>1, PTL DEF Spec

-----------------------------------------------------------------------------
(* How often a command is put into the outbound queue and taken out of it. *)

Item == [command: Commands, old: BOOLEAN]

ItemsOf(items, c) == {i \in DOMAIN items : items[i].command = c}

\* What was sent and what is still queued was put there.
LineOK(items, sent, put) ==
  /\ items \in Seq(Item)
  /\ sent \in [Commands -> Nat]
  /\ put \in [Commands -> Nat]
  /\ \A c \in Commands : sent[c] + Cardinality(ItemsOf(items, c)) <= put[c]

LineInv == LineOK(outbound, transmitted, queued)

LEMMA ItemsAreFinite ==
  ASSUME NEW items \in Seq(Item), NEW c
  PROVE  /\ IsFiniteSet(ItemsOf(items, c))
         /\ Cardinality(ItemsOf(items, c)) \in Nat
<1>1. Len(items) \in Nat /\ DOMAIN items = 1..Len(items)
  OBVIOUS
<1>2. IsFiniteSet(1..Len(items))
  BY <1>1, FS_Interval
<1>3. ItemsOf(items, c) \in SUBSET (1..Len(items))
  BY <1>1 DEF ItemsOf
<1> QED  BY <1>2, <1>3, FS_Subset, FS_CardinalityType

\* A sequence that goes on after the k-th item has no more items of a command.
LEMMA SuffixCount ==
  ASSUME NEW s \in Seq(Item), NEW t \in Seq(Item), NEW k \in Nat,
         \A i \in 1..Len(t) : i + k \in 1..Len(s) /\ t[i] = s[i + k],
         NEW c
  PROVE  LET later == {i \in ItemsOf(s, c) : i > k} IN
         IsFiniteSet(later) /\ Cardinality(ItemsOf(t, c)) <= Cardinality(later)
<1> DEFINE later == {i \in ItemsOf(s, c) : i > k}
           f == [i \in ItemsOf(t, c) |-> i + k]
<1>1. /\ DOMAIN s = 1..Len(s) /\ DOMAIN t = 1..Len(t)
      /\ Len(s) \in Nat /\ Len(t) \in Nat
  OBVIOUS
<1>2. IsFiniteSet(later)
  BY ItemsAreFinite, FS_Subset
<1>3. \A i \in ItemsOf(t, c) : i \in Nat /\ i > 0 /\ i + k \in later
  BY <1>1 DEF ItemsOf
<1>4. f \in Injection(ItemsOf(t, c), later)
  <2>1. f \in [ItemsOf(t, c) -> later]
    BY <1>3
  <2>2. \A i, j \in ItemsOf(t, c) : f[i] = f[j] => i = j
    BY <1>3
  <2> QED  BY <2>1, <2>2 DEF Injection, IsInjective
<1> QED  BY <1>2, <1>4, FS_Injection

\* pop_for_address drops the first items and may take the next.
LEMMA FreshIsSuffix ==
  ASSUME NEW items \in Seq(Item)
  PROVE  \E k \in 0..Len(items) :
           /\ Fresh(items) \in Seq(Item)
           /\ Len(Fresh(items)) = Len(items) - k
           /\ \A i \in 1..Len(Fresh(items)) : i + k \in 1..Len(items) /\ Fresh(items)[i] = items[i + k]
<1> DEFINE gone == {i \in DOMAIN items : items[i].old}
           k == Cardinality(gone)
           l == Len(items)
           u == Fresh(items)
<1>1. l \in Nat /\ DOMAIN items = 1..l /\ \A i \in 1..l : items[i] \in Item
  OBVIOUS
<1>2. IsFiniteSet(1..l) /\ Cardinality(1..l) = l
  <2>1. 1 \in Int /\ l \in Int
    BY <1>1
  <2>2. IsFiniteSet(1..l) /\ Cardinality(1..l) = IF 1 > l THEN 0 ELSE l - 1 + 1
    BY <2>1, FS_Interval
  <2> HIDE DEF l
  <2> QED  BY <1>1, <2>2
<1>3. k \in Nat /\ k <= l
  BY <1>1, <1>2, FS_Subset, FS_CardinalityType
<1>4. u = SubSeq(items, k + 1, l)
  BY DEF Fresh
<1> HIDE DEF k, l, u
<1>5. /\ u \in Seq(Item)
      /\ Len(u) = IF k + 1 <= l THEN l - (k + 1) + 1 ELSE 0
      /\ \A i \in 1..(l - (k + 1) + 1) : u[i] = items[k + 1 + i - 1]
  <2>1. \A i \in (k + 1)..l : items[i] \in Item
    BY <1>1, <1>3
  <2>2. k + 1 \in Int /\ l \in Int
    BY <1>1, <1>3
  <2> QED  BY <1>4, <2>1, <2>2, SubSeqProperties
<1>6. Len(u) = l - k
  BY <1>1, <1>3, <1>5
<1>7. ASSUME NEW i \in 1..Len(u)
      PROVE  i + k \in 1..l /\ u[i] = items[i + k]
  <2>1. i \in 1..(l - (k + 1) + 1) /\ k + 1 + i - 1 = i + k
    BY <1>1, <1>3, <1>6
  <2>2. u[i] = items[k + 1 + i - 1]
    BY <1>5, <2>1
  <2> QED  BY <1>1, <1>3, <2>1, <2>2
<1>8. k \in 0..l
  BY <1>1, <1>3
<1> QED  BY <1>5, <1>6, <1>7, <1>8 DEF l, u

LEMMA LineFacts ==
  ASSUME LineInv
  PROVE  /\ outbound \in Seq(Item) /\ Len(outbound) \in Nat
         /\ DOMAIN outbound = 1..Len(outbound)
         /\ \A i \in 1..Len(outbound) : outbound[i] \in Item /\ outbound[i].command \in Commands
         /\ transmitted \in [Commands -> Nat] /\ queued \in [Commands -> Nat]
         /\ \A c \in Commands : /\ transmitted[c] \in Nat /\ queued[c] \in Nat
                                /\ IsFiniteSet(ItemsOf(outbound, c))
                                /\ Cardinality(ItemsOf(outbound, c)) \in Nat
                                /\ transmitted[c] + Cardinality(ItemsOf(outbound, c)) <= queued[c]
<1>1. outbound \in Seq(Item) /\ transmitted \in [Commands -> Nat] /\ queued \in [Commands -> Nat]
  BY DEF LineInv, LineOK
<1>2. /\ Len(outbound) \in Nat /\ DOMAIN outbound = 1..Len(outbound)
      /\ \A i \in 1..Len(outbound) : outbound[i] \in Item
  BY <1>1
<1>3. \A i \in 1..Len(outbound) : outbound[i].command \in Commands
  BY <1>2 DEF Item
<1>4. \A c \in Commands : /\ transmitted[c] \in Nat /\ queued[c] \in Nat
                          /\ transmitted[c] + Cardinality(ItemsOf(outbound, c)) <= queued[c]
  BY <1>1 DEF LineInv, LineOK
<1> QED  BY <1>1, <1>2, <1>3, <1>4, ItemsAreFinite

LEMMA EnqueueCounts ==
  ASSUME LineInv, NEW c \in Commands, Enqueues(c), UNCHANGED transmitted
  PROVE  LineInv'
<1> DEFINE item == [command |-> c, old |-> FALSE]
           l == Len(outbound)
<1>1. item \in Item /\ item.command = c
  BY DEF Item
<1>2. outbound' = Append(outbound, item) /\ queued' = [queued EXCEPT ![c] = @ + 1]
  BY DEF Enqueues
<1> HIDE DEF item
<1>3. /\ outbound' \in Seq(Item)
      /\ DOMAIN outbound' = 1..(l + 1)
      /\ outbound'[l + 1] = item
      /\ \A i \in 1..l : outbound'[i] = outbound[i]
  BY <1>1, <1>2, LineFacts
<1>4. /\ queued' \in [Commands -> Nat]
      /\ queued'[c] = queued[c] + 1
      /\ \A d \in Commands \ {c} : queued'[d] = queued[d]
  BY <1>2, LineFacts
<1>5. ASSUME NEW d \in Commands
      PROVE  transmitted[d] + Cardinality(ItemsOf(outbound', d)) <= queued'[d]
  <2>1. DOMAIN outbound = 1..l /\ l \in Nat
    BY LineFacts
  <2> HIDE DEF l
  <2>2. CASE d = c
    <3>1. ItemsOf(outbound', c) = ItemsOf(outbound, c) \union {l + 1} /\ l + 1 \notin ItemsOf(outbound, c)
      BY <1>1, <1>3, <2>1 DEF ItemsOf
    <3>2. Cardinality(ItemsOf(outbound', c)) = Cardinality(ItemsOf(outbound, c)) + 1
      BY <3>1, LineFacts, FS_AddElement
    <3> QED  BY <1>4, <2>2, <3>2, LineFacts
  <2>3. CASE d # c
    <3>1. ItemsOf(outbound', d) = ItemsOf(outbound, d)
      BY <1>1, <1>3, <2>1, <2>3 DEF ItemsOf
    <3> QED  BY <1>4, <2>3, <3>1, LineFacts
  <2> QED  BY <2>2, <2>3
<1> QED  BY <1>3, <1>4, <1>5, LineFacts DEF LineInv, LineOK

\* What is dropped makes the sum smaller.
LEMMA DroppingCounts ==
  ASSUME LineInv, NEW k \in Nat, outbound' \in Seq(Item),
         \A i \in 1..Len(outbound') :
           i + k \in 1..Len(outbound) /\ outbound'[i] = outbound[i + k],
         UNCHANGED <<transmitted, queued>>
  PROVE  LineInv'
<1>1. ASSUME NEW d \in Commands
      PROVE  transmitted[d] + Cardinality(ItemsOf(outbound', d)) <= queued[d]
  <2> DEFINE later == {i \in ItemsOf(outbound, d) : i > k}
  <2>1. IsFiniteSet(later) /\ Cardinality(ItemsOf(outbound', d)) <= Cardinality(later)
    BY LineFacts, SuffixCount
  <2>2. Cardinality(later) \in Nat /\ Cardinality(later) <= Cardinality(ItemsOf(outbound, d))
    BY LineFacts, FS_Subset, FS_CardinalityType
  <2>3. Cardinality(ItemsOf(outbound', d)) \in Nat
    BY ItemsAreFinite
  <2> QED  BY <2>1, <2>2, <2>3, LineFacts
<1> QED  BY <1>1, LineFacts DEF LineInv, LineOK

LEMMA PopCounts ==
  ASSUME LineInv, PopForAddress  PROVE LineInv'
<1>1. outbound \in Seq(Item) /\ Len(outbound) \in Nat
  BY LineFacts
<1>2. PICK k \in 0..Len(outbound) :
        /\ Fresh(outbound) \in Seq(Item)
        /\ Len(Fresh(outbound)) = Len(outbound) - k
        /\ \A i \in 1..Len(Fresh(outbound)) :
             i + k \in 1..Len(outbound) /\ Fresh(outbound)[i] = outbound[i + k]
  BY <1>1, FreshIsSuffix
<1>3. CASE Fresh(outbound) = <<>>
  <2>1. outbound' = <<>> /\ UNCHANGED <<transmitted, queued>>
    BY <1>3 DEF PopForAddress
  <2>2. outbound' \in Seq(Item) /\ Len(outbound') = 0
    BY <2>1
  <2> QED  BY <2>1, <2>2, DroppingCounts
<1>4. CASE Fresh(outbound) # <<>>
  <2> DEFINE u == Fresh(outbound)
             c == Head(u).command
             l == Len(outbound)
  <2>1. /\ outbound' = Tail(u) /\ UNCHANGED queued
        /\ transmitted' = [transmitted EXCEPT ![c] = @ + 1]
    BY <1>4 DEF PopForAddress, Remaining
  <2>2. /\ u \in Seq(Item) /\ u # <<>> /\ Len(u) = l - k /\ l \in Nat /\ k \in Nat
        /\ \A i \in 1..Len(u) : i + k \in 1..l /\ u[i] = outbound[i + k]
    BY <1>1, <1>2, <1>4
  <2> HIDE DEF u
  <2>3. /\ Tail(u) \in Seq(Item) /\ Len(u) \in Nat /\ Len(u) > 0
        /\ Len(Tail(u)) = Len(u) - 1 /\ Head(u) = u[1]
        /\ \A i \in 1..Len(Tail(u)) : Tail(u)[i] = u[i + 1]
    BY <2>2, HeadTailProperties
  <2>4. k + 1 \in 1..l /\ outbound[k + 1].command = c /\ c \in Commands
    <3>1. 1 \in 1..Len(u)
      BY <2>3
    <3> QED  BY <2>2, <2>3, <3>1, LineFacts
  <2> HIDE DEF c, l
  <2>5. \A i \in 1..Len(outbound') : i + (k + 1) \in 1..l /\ outbound'[i] = outbound[i + (k + 1)]
    <3> SUFFICES ASSUME NEW i \in 1..Len(Tail(u))
                 PROVE  i + (k + 1) \in 1..l /\ Tail(u)[i] = outbound[i + (k + 1)]
      BY <2>1
    <3>1. i + 1 \in 1..Len(u) /\ (i + 1) + k = i + (k + 1)
      BY <2>2, <2>3
    <3> QED  BY <2>2, <2>3, <3>1
  <2>6. ASSUME NEW d \in Commands
        PROVE  transmitted'[d] + Cardinality(ItemsOf(outbound', d)) <= queued[d]
    <3> DEFINE all == ItemsOf(outbound, d)
               later == {i \in all : i > k + 1}
               left == ItemsOf(outbound', d)
    <3>1. /\ IsFiniteSet(all) /\ Cardinality(all) \in Nat
          /\ transmitted[d] \in Nat /\ queued[d] \in Nat
          /\ transmitted[d] + Cardinality(all) <= queued[d]
          /\ transmitted \in [Commands -> Nat]
      BY LineFacts
    <3>2. IsFiniteSet(later) /\ Cardinality(left) <= Cardinality(later)
      <4>1. outbound' \in Seq(Item) /\ k + 1 \in Nat
        BY <2>1, <2>2, <2>3
      <4> QED  BY <1>1, <2>5, <4>1, SuffixCount DEF l
    <3>3. Cardinality(left) \in Nat
      BY <2>1, <2>3, ItemsAreFinite
    <3>4. Cardinality(later) \in Nat
      BY <3>2, FS_CardinalityType
    <3>5. CASE d = c
      <4>1. k + 1 \in all /\ k + 1 \notin later /\ later \union {k + 1} \subseteq all
        BY <2>2, <2>4, <3>5, LineFacts DEF ItemsOf, l
      <4> HIDE DEF all, later
      <4>2. Cardinality(later \union {k + 1}) = Cardinality(later) + 1
        BY <3>2, <4>1, FS_AddElement
      <4>3. Cardinality(later) + 1 <= Cardinality(all)
        BY <3>1, <4>1, <4>2, FS_Subset
      <4>4. transmitted'[d] = transmitted[d] + 1
        BY <2>1, <3>1, <3>5
      <4> QED  BY <3>1, <3>2, <3>3, <3>4, <4>3, <4>4
    <3>6. CASE d # c
      <4>1. Cardinality(later) <= Cardinality(all)
        BY <3>1, FS_Subset
      <4>2. transmitted'[d] = transmitted[d]
        BY <2>1, <3>1, <3>6
      <4> QED  BY <3>1, <3>2, <3>3, <3>4, <4>1, <4>2
    <3> QED  BY <3>5, <3>6
  <2>7. transmitted' \in [Commands -> Nat]
    BY <2>1, <2>4, LineFacts
  <2>8. outbound' \in Seq(Item) /\ queued' \in [Commands -> Nat]
    BY <2>1, <2>3, LineFacts
  <2> QED  BY <2>1, <2>6, <2>7, <2>8 DEF LineInv, LineOK
<1> QED  BY <1>3, <1>4

LEMMA PopForOtherCounts ==
  ASSUME LineInv, PopForOther  PROVE LineInv'
<1>1. outbound' = Fresh(outbound) /\ UNCHANGED <<transmitted, queued>> /\ outbound \in Seq(Item)
  BY LineFacts DEF PopForOther
<1>2. PICK k \in 0..Len(outbound) :
        /\ Fresh(outbound) \in Seq(Item)
        /\ \A i \in 1..Len(Fresh(outbound)) :
             i + k \in 1..Len(outbound) /\ Fresh(outbound)[i] = outbound[i + k]
  BY <1>1, FreshIsSuffix, Zenon
<1>3. k \in Nat
  BY LineFacts
<1> QED  BY <1>1, <1>2, <1>3, DroppingCounts

LEMMA ItemExpiresCounts ==
  ASSUME LineInv, ItemExpires  PROVE LineInv'
<1>1. PICK i \in DOMAIN outbound : outbound' = [outbound EXCEPT ![i].old = TRUE]
  BY DEF ItemExpires
<1> DEFINE item == [outbound[i] EXCEPT !.old = TRUE]
<1>2. outbound[i] \in Item
  BY LineFacts
<1>3. item \in Item /\ item.command = outbound[i].command
  BY <1>2 DEF Item
<1>4. outbound' = [outbound EXCEPT ![i] = item]
  BY <1>1
<1> HIDE DEF item
<1>5. /\ outbound' \in Seq(Item) /\ DOMAIN outbound' = DOMAIN outbound
      /\ \A j \in DOMAIN outbound : outbound'[j].command = outbound[j].command
  <2>1. outbound \in Seq(Item)
    BY LineFacts
  <2>2. outbound' \in Seq(Item) /\ DOMAIN outbound' = DOMAIN outbound
    BY <1>3, <1>4, <2>1
  <2>3. outbound'[i] = item /\ \A j \in DOMAIN outbound : j # i => outbound'[j] = outbound[j]
    BY <1>4
  <2> QED  BY <1>3, <2>2, <2>3
<1>6. \A c \in Commands : ItemsOf(outbound', c) = ItemsOf(outbound, c)
  BY <1>5 DEF ItemsOf
<1>7. UNCHANGED <<transmitted, queued>>
  BY DEF ItemExpires
<1> QED  BY <1>5, <1>6, <1>7, LineFacts DEF LineInv, LineOK

-----------------------------------------------------------------------------
(* Each request queues its command once at most. *)

\* Where a task may still queue its command.
MayQueue(t) == t.phase \in {"look up", "evaluate", "settle", "queue"}

\* The requests that have queued their command, or will not.
Spent(c) ==
  {n \in DOMAIN tasks :
     tasks[n].command = c /\ tasks[n].via \in {"cloud", "lab"} /\ ~MayQueue(tasks[n])}

SpentInv ==
  \A c \in Commands : queued[c] \in Nat /\ queued[c] <= Cardinality(Spent(c))

LEMMA RequestsAreFinite ==
  ASSUME NEW s \in Seq(Task), NEW T \in SUBSET DOMAIN s
  PROVE  IsFiniteSet(T) /\ Cardinality(T) \in Nat
<1>1. Len(s) \in Nat /\ DOMAIN s = 1..Len(s)
  OBVIOUS
<1>2. IsFiniteSet(1..Len(s)) /\ T \in SUBSET (1..Len(s))
  BY <1>1, FS_Interval
<1> QED  BY <1>2, FS_Subset, FS_CardinalityType

LEMMA SpentIsFinite ==
  ASSUME CommandInv, CommandInv', NEW c
  PROVE  /\ IsFiniteSet(Spent(c)) /\ Cardinality(Spent(c)) \in Nat
         /\ IsFiniteSet(Spent(c)') /\ Cardinality(Spent(c)') \in Nat
<1>1. tasks \in Seq(Task) /\ tasks' \in Seq(Task)
  BY DEF CommandInv, CommandTypes
<1>2. Spent(c) \in SUBSET DOMAIN tasks /\ Spent(c)' \in SUBSET DOMAIN tasks'
  BY DEF Spent
<1> QED  BY <1>1, <1>2, RequestsAreFinite

\* What a step does to the tasks it is not about, and to what is spent.
Proceeds(n, phase) ==
  /\ DOMAIN tasks' = DOMAIN tasks
  /\ \A m \in DOMAIN tasks : m # n => tasks'[m] = tasks[m]
  /\ tasks'[n].command = tasks[n].command /\ tasks'[n].via = tasks[n].via
  /\ tasks'[n].phase = phase

LEMMA Rewritten ==
  ASSUME CommandInv, NEW n \in DOMAIN tasks, NEW st, NEW p,
         \/ tasks' = [tasks EXCEPT ![n].status = st, ![n].phase = p]
         \/ tasks' = [tasks EXCEPT ![n].phase = p]
  PROVE  Proceeds(n, p)
<1>1. tasks[n] \in Task /\ tasks \in Seq(Task)
  BY TaskFacts DEF CommandInv, CommandTypes
<1>2. PICK q : /\ tasks' = [tasks EXCEPT ![n] = q]
               /\ q.command = tasks[n].command /\ q.via = tasks[n].via /\ q.phase = p
  <2>1. CASE tasks' = [tasks EXCEPT ![n].status = st, ![n].phase = p]
    <3> DEFINE q == [tasks[n] EXCEPT !.status = st, !.phase = p]
    <3>1. q.command = tasks[n].command /\ q.via = tasks[n].via /\ q.phase = p
      BY <1>1 DEF Task
    <3>2. tasks' = [tasks EXCEPT ![n] = q]
      BY <2>1
    <3> HIDE DEF q
    <3> QED  BY <3>1, <3>2
  <2>2. CASE tasks' = [tasks EXCEPT ![n].phase = p]
    <3> DEFINE q == [tasks[n] EXCEPT !.phase = p]
    <3>1. q.command = tasks[n].command /\ q.via = tasks[n].via /\ q.phase = p
      BY <1>1 DEF Task
    <3>2. tasks' = [tasks EXCEPT ![n] = q]
      BY <2>2
    <3> HIDE DEF q
    <3> QED  BY <3>1, <3>2
  <2> QED  BY <2>1, <2>2
<1> QED  BY <1>2 DEF Proceeds

\* A step that queues nothing and takes no task back.
LEMMA SpentStays ==
  ASSUME CommandInv, CommandInv', SpentInv, UNCHANGED queued,
         \A c \in Commands : Spent(c) \subseteq Spent(c)'
  PROVE  SpentInv'
<1> SUFFICES ASSUME NEW c \in Commands
             PROVE  queued'[c] \in Nat /\ queued'[c] <= Cardinality(Spent(c)')
  BY DEF SpentInv
<1> DEFINE before == Spent(c)
           after == Spent(c)'
<1>1. IsFiniteSet(after) /\ Cardinality(after) \in Nat
  BY SpentIsFinite
<1>2. Cardinality(before) \in Nat /\ before \subseteq after
  BY SpentIsFinite
<1>3. queued[c] \in Nat /\ queued[c] <= Cardinality(before) /\ queued'[c] = queued[c]
  BY DEF SpentInv
<1> HIDE DEF before, after
<1>4. Cardinality(before) <= Cardinality(after)
  BY <1>1, <1>2, FS_Subset
<1> QED  BY <1>1, <1>2, <1>3, <1>4 DEF after

LEMMA ProceedsSpent ==
  ASSUME NEW n \in DOMAIN tasks, NEW p, Proceeds(n, p),
         MayQueue(tasks[n]) \/ p \notin {"look up", "evaluate", "settle", "queue"},
         NEW c
  PROVE  Spent(c) \subseteq Spent(c)'
BY DEF Proceeds, Spent, MayQueue

LEMMA CountsCompare ==
  ASSUME NEW had \in Nat, NEW was \in Nat, NEW is \in Nat, had <= was
  PROVE  /\ was + 1 <= is => had + 1 \in Nat /\ had + 1 <= is
         /\ was <= is => had <= is
OBVIOUS

\* A step that queues a command leaves the phases in which that is possible.
LEMMA QueueingSpent ==
  ASSUME CommandInv, CommandInv', SpentInv,
         NEW n \in DOMAIN tasks, NEW p, Proceeds(n, p),
         MayQueue(tasks[n]), p \notin {"look up", "evaluate", "settle", "queue"},
         tasks[n].via \in {"cloud", "lab"}, Enqueues(tasks[n].command)
  PROVE  SpentInv'
<1> SUFFICES ASSUME NEW c \in Commands
             PROVE  queued'[c] \in Nat /\ queued'[c] <= Cardinality(Spent(c)')
  BY DEF SpentInv
<1> DEFINE before == Spent(c)
           after == Spent(c)'
           was == Cardinality(before)
           is == Cardinality(after)
           had == queued[c]
           has == queued'[c]
<1>1. IsFiniteSet(after) /\ is \in Nat
  BY SpentIsFinite
<1>2. IsFiniteSet(before) /\ was \in Nat /\ before \subseteq after
  BY SpentIsFinite, ProceedsSpent
<1>3. had \in Nat /\ had <= was
  BY DEF SpentInv
<1>4. CASE c = tasks[n].command
  <2>1. n \notin before /\ n \in after
    BY <1>4 DEF Spent, Proceeds, MayQueue
  <2>2. has = had + 1
    BY <1>4, CounterFacts
  <2> HIDE DEF before, after
  <2>3. Cardinality(before \union {n}) = was + 1
    BY <1>2, <2>1, FS_AddElement
  <2>4. Cardinality(before \union {n}) <= is
    BY <1>1, <1>2, <2>1, FS_Subset
  <2>5. was + 1 <= is
    BY <2>3, <2>4
  <2> HIDE DEF was, is, had, has
  <2>6. has \in Nat /\ has <= is
    BY <1>1, <1>2, <1>3, <2>2, <2>5, CountsCompare, Zenon
  <2> QED  BY <2>6 DEF has, is, after
<1>5. CASE c # tasks[n].command
  <2>1. has = had
    BY <1>5, CounterFacts
  <2> HIDE DEF before, after
  <2>2. was <= is
    BY <1>1, <1>2, FS_Subset
  <2> HIDE DEF was, is, had, has
  <2>3. has \in Nat /\ has <= is
    BY <1>1, <1>2, <1>3, <2>1, <2>2, CountsCompare, Zenon
  <2> QED  BY <2>3 DEF has, is, after
<1> QED  BY <1>4, <1>5

LEMMA TaskStepSpends ==
  ASSUME CommandInv, CommandInv', SpentInv, TaskStep
  PROVE  SpentInv'
<1>1. PICK n \in DOMAIN tasks :
        LookUp(n) \/ Evaluate(n) \/ Settle(n) \/ LookAgain(n) \/ LabQueue(n) \/ Create(n)
  BY DEF TaskStep
<1>2. CASE LookUp(n) \/ Evaluate(n)
  <2>1. UNCHANGED queued /\ MayQueue(tasks[n])
    BY <1>2 DEF LookUp, Evaluate, At, MayQueue
  <2>2. PICK p, st : tasks' = [tasks EXCEPT ![n].status = st, ![n].phase = p]
    BY <1>2 DEF LookUp, Evaluate
  <2>3. Proceeds(n, p)
    BY <2>2, Rewritten, Zenon
  <2>4. \A c : Spent(c) \subseteq Spent(c)'
    BY <2>1, <2>3, ProceedsSpent
  <2> QED  BY <2>1, <2>4, SpentStays
<1>3. CASE Settle(n)
  <2>1. tasks[n].via = "cloud" /\ MayQueue(tasks[n])
    BY <1>3 DEF Settle, At, MayQueue
  <2>2. PICK st : /\ tasks' = [tasks EXCEPT ![n].status = st, ![n].phase = "look again"]
                  /\ Enqueues(tasks[n].command) \/ UNCHANGED queued
    BY <1>3, SettleDecides
  <2>3. Proceeds(n, "look again")
    BY <2>2, Rewritten
  <2>4. CASE Enqueues(tasks[n].command)
    BY <2>1, <2>3, <2>4, QueueingSpent
  <2>5. CASE UNCHANGED queued
    BY <2>1, <2>3, <2>5, ProceedsSpent, SpentStays
  <2> QED  BY <2>2, <2>4, <2>5
<1>4. CASE LookAgain(n) \/ Create(n)
  <2>1. UNCHANGED queued
    BY <1>4 DEF LookAgain, Create
  <2>2. PICK p \in {"create", "done"} : tasks' = [tasks EXCEPT ![n].phase = p]
    BY <1>4 DEF LookAgain, Create, Moves
  <2>3. Proceeds(n, p)
    BY <2>2, Rewritten
  <2>4. p \notin {"look up", "evaluate", "settle", "queue"}
    BY <2>2
  <2>5. \A c : Spent(c) \subseteq Spent(c)'
    BY <2>3, <2>4, ProceedsSpent
  <2> QED  BY <2>1, <2>5, SpentStays
<1>5. CASE LabQueue(n)
  <2>1. tasks[n].via = "lab" /\ MayQueue(tasks[n])
    BY <1>5 DEF LabQueue, At, MayQueue
  <2>2. CASE Admits(tasks[n].command)
    <3>1. /\ Enqueues(tasks[n].command)
          /\ tasks' = [tasks EXCEPT ![n].status = "QUEUED", ![n].phase = "create"]
      BY <1>5, <2>2 DEF LabQueue
    <3>2. Proceeds(n, "create")
      BY <3>1, Rewritten
    <3> QED  BY <2>1, <3>1, <3>2, QueueingSpent
  <2>3. CASE ~Admits(tasks[n].command)
    <3>1. UNCHANGED queued /\ tasks' = [tasks EXCEPT ![n].phase = "done"]
      BY <1>5, <2>3 DEF LabQueue, Moves, LeavesQueue
    <3>2. Proceeds(n, "done")
      BY <3>1, Rewritten
    <3> QED  BY <3>1, <3>2, ProceedsSpent, SpentStays
  <2> QED  BY <2>2, <2>3
<1> QED  BY <1>1, <1>2, <1>3, <1>4, <1>5

\* A request that begins, a task that is cut short, and a restart.
LEMMA OtherStepsSpend ==
  ASSUME CommandInv, CommandInv', SpentInv,
         \/ \E c \in Commands : Deliver(c) \/ LabSubmit(c) \/ EvaluateOnly(c)
         \/ \E n \in DOMAIN tasks : TaskFails(n)
         \/ CommandsRestart
         \/ UNCHANGED <<tasks, queued>>
  PROVE  SpentInv'
<1>1. CASE \E c \in Commands : Deliver(c) \/ LabSubmit(c) \/ EvaluateOnly(c)
  <2>1. UNCHANGED queued
    BY <1>1 DEF Deliver, LabSubmit, EvaluateOnly
  <2>2. \E t : tasks' = Append(tasks, t)
    BY <1>1 DEF Deliver, LabSubmit, EvaluateOnly, Begins
  <2>3. \A n \in DOMAIN tasks : n \in DOMAIN tasks' /\ tasks'[n] = tasks[n]
    <3>1. tasks \in Seq(Task)
      BY DEF CommandInv, CommandTypes
    <3> QED  BY <2>2, <3>1
  <2>4. \A c : Spent(c) \subseteq Spent(c)'
    BY <2>3 DEF Spent, MayQueue
  <2> QED  BY <2>1, <2>4, SpentStays
<1>2. CASE \E n \in DOMAIN tasks : TaskFails(n)
  <2>1. PICK n \in DOMAIN tasks : TaskFails(n)
    BY <1>2
  <2>2. UNCHANGED queued /\ tasks' = [tasks EXCEPT ![n].phase = "done"]
    BY <2>1 DEF TaskFails, Moves
  <2>3. Proceeds(n, "done")
    BY <2>2, Rewritten
  <2> QED  BY <2>2, <2>3, ProceedsSpent, SpentStays
<1>3. CASE CommandsRestart
  <2>1. UNCHANGED queued /\ tasks' = [n \in DOMAIN tasks |-> [tasks[n] EXCEPT !.phase = "done"]]
    BY <1>3 DEF CommandsRestart
  <2>2. \A n \in DOMAIN tasks : /\ n \in DOMAIN tasks' /\ tasks'[n].phase = "done"
                                /\ tasks'[n].command = tasks[n].command
                                /\ tasks'[n].via = tasks[n].via
    BY <2>1, TaskFacts DEF Task
  <2>3. \A c : Spent(c) \subseteq Spent(c)'
    BY <2>2 DEF Spent, MayQueue
  <2> QED  BY <2>1, <2>3, SpentStays
<1>4. CASE UNCHANGED <<tasks, queued>>
  <2>1. \A c : Spent(c) \subseteq Spent(c)'
    BY <1>4 DEF Spent, MayQueue
  <2> QED  BY <1>4, <2>1, SpentStays
<1> QED  BY <1>1, <1>2, <1>3, <1>4

LEMMA StepSpends ==
  ASSUME CommandInv, CommandInv', SpentInv, [Next]_vars
  PROVE  SpentInv'
<1>1. \/ TaskStep
      \/ \E c \in Commands : Deliver(c) \/ LabSubmit(c) \/ EvaluateOnly(c)
      \/ \E n \in DOMAIN tasks : TaskFails(n)
      \/ CommandsRestart
      \/ UNCHANGED <<tasks, queued>>
  <2>1. CASE CommandStep
    BY <2>1 DEF CommandStep, Request, PopForAddress, PopForOther, ItemExpires, CommandExpires
  <2>2. CASE Requests
    BY <2>1, <2>2 DEF Requests, IntakeStarts
  <2> QED  BY <2>2 DEF Next, Delivers, Streams, Beats, ProcessRestarts, vars, commandVars
<1> QED  BY <1>1, TaskStepSpends, OtherStepsSpend

LEMMA StepCounts ==
  ASSUME CommandInv, LineInv, [Next]_vars
  PROVE  LineInv'
<1>1. \/ TaskStep
      \/ PopForAddress \/ PopForOther \/ ItemExpires
      \/ CommandsRestart
      \/ UNCHANGED <<outbound, transmitted, queued>>
  <2>1. CASE CommandStep
    BY <2>1 DEF CommandStep, Request, LabSubmit, EvaluateOnly, CommandExpires
  <2>2. CASE Requests
    BY <2>1, <2>2 DEF Requests, IntakeStarts, Deliver, TaskFails
  <2> QED  BY <2>2 DEF Next, Delivers, Streams, Beats, ProcessRestarts, vars, commandVars
<1>2. CASE TaskStep
  <2>1. \/ UNCHANGED <<outbound, transmitted, queued>>
        \/ \E n \in DOMAIN tasks : Enqueues(tasks[n].command) /\ UNCHANGED transmitted
    BY <1>2 DEF TaskStep, LookUp, Evaluate, Settle, LookAgain, LabQueue, Create, LeavesQueue
  <2>2. CASE UNCHANGED <<outbound, transmitted, queued>>
    BY <2>2 DEF LineInv, LineOK
  <2> QED  BY <2>1, <2>2, TaskFacts, EnqueueCounts
<1>3. CASE CommandsRestart
  <2>1. outbound' = <<>> /\ UNCHANGED <<transmitted, queued>>
    BY <1>3 DEF CommandsRestart
  <2>2. outbound' \in Seq(Item) /\ Len(outbound') = 0
    BY <2>1
  <2> QED  BY <2>1, <2>2, DroppingCounts
<1>4. CASE UNCHANGED <<outbound, transmitted, queued>>
  BY <1>4 DEF LineInv, LineOK
<1> QED  BY <1>1, <1>2, <1>3, <1>4, PopCounts, PopForOtherCounts, ItemExpiresCounts

OnceInv == CommandInv /\ LineInv /\ SpentInv

LEMMA OnceInvariant == Spec => []OnceInv
<1>1. Init => OnceInv
  <2> SUFFICES ASSUME Init  PROVE OnceInv
    OBVIOUS
  <2>1. /\ tasks = <<>> /\ outbound = <<>>
        /\ queued = [c \in Commands |-> 0] /\ transmitted = [c \in Commands |-> 0]
    BY DEF Init, CommandInit
  <2>2. outbound \in Seq(Item) /\ DOMAIN outbound = {} /\ DOMAIN tasks = {}
    BY <2>1
  <2>3. \A c : ItemsOf(outbound, c) = {} /\ Spent(c) = {}
    BY <2>2 DEF ItemsOf, Spent
  <2>4. Cardinality({}) = 0
    BY FS_EmptySet
  <2>5. LineInv
    BY <2>1, <2>2, <2>3, <2>4 DEF LineInv, LineOK
  <2>6. SpentInv
    <3> SUFFICES ASSUME NEW c \in Commands
                 PROVE  queued[c] \in Nat /\ queued[c] <= Cardinality(Spent(c))
      BY DEF SpentInv
    <3>1. queued[c] = 0
      BY <2>1
    <3>2. Cardinality(Spent(c)) = 0
      BY <2>3, <2>4, Zenon
    <3> QED  BY <3>1, <3>2
  <2> QED  BY <2>5, <2>6, InitCommands DEF OnceInv
<1>2. OnceInv /\ [Next]_vars => OnceInv'
  BY StepPreserves, StepSpends, StepCounts DEF OnceInv
<1> QED  BY <1>1, <1>2, PTL DEF Spec

-----------------------------------------------------------------------------
(* The theorems about commands. *)

\* Whatever the three producers of rows do and whenever the station restarts, a
\* row QUEUED tells of a command that was put on the line, and one that was put
\* there by tasks that did not overlap has such a row (_persist_cloud_command,
\* lab_submit_command and evaluate_command, commands.create).
THEOREM RowsAreTrue == Spec => []RowsTellExecution
<1>1. CommandInv => RowsTellExecution
  <2> SUFFICES ASSUME CommandInv, NEW c \in Commands
               PROVE  /\ commands[c] = "QUEUED" => queued[c] > 0
                      /\ c \notin doubtful /\ Running(c) = {} /\ queued[c] > 0
                            => commands[c] = "QUEUED"
    BY DEF RowsTellExecution
  <2>1. Honest(c)
    BY DEF CommandInv
  <2> QED
    BY <2>1 DEF Honest, Serialized
<1> QED
  BY <1>1, CommandInvariant, PTL

\* A cloud command whose deliveries were handled one after the other goes on the
\* line once at most: _seen and the commands table together reject the rest, also
\* after restarts (handle_command).
THEOREM CloudCommandsGoOnce == Spec => []CloudCommandQueuedOnce
<1>1. CommandInv => CloudCommandQueuedOnce
  BY DEF CommandInv, Honest, Serialized, CloudCommandQueuedOnce
<1> QED
  BY <1>1, CommandInvariant, PTL

\* A pump hears a command at most once for each request that named it, however
\* requests interleave and restarts cut them off: what was sent or waits in the
\* queue was put there, and each request puts it there once at most
\* (OutboundQueue).
THEOREM RequestsAreSentOnce == Spec => []SentOncePerRequest
<1>1. OnceInv => SentOncePerRequest
  <2> SUFFICES ASSUME OnceInv, NEW c \in Commands
               PROVE  /\ transmitted[c]
                           + Cardinality({i \in DOMAIN outbound : outbound[i].command = c})
                           <= queued[c]
                      /\ queued[c] <= Cardinality(RequestsOf(c, "cloud") \union RequestsOf(c, "lab"))
    BY DEF SentOncePerRequest
  <2> DEFINE all == RequestsOf(c, "cloud") \union RequestsOf(c, "lab")
  <2>1. transmitted[c] + Cardinality(ItemsOf(outbound, c)) <= queued[c]
    BY DEF OnceInv, LineInv, LineOK
  <2>2. queued[c] \in Nat /\ queued[c] <= Cardinality(Spent(c))
    BY DEF OnceInv, SpentInv
  <2>3. tasks \in Seq(Task)
    BY DEF OnceInv, CommandInv, CommandTypes
  <2>4. all \in SUBSET DOMAIN tasks /\ Spent(c) \subseteq all
    BY DEF RequestsOf, Spent
  <2>5. IsFiniteSet(all) /\ Cardinality(all) \in Nat /\ Cardinality(Spent(c)) \in Nat
    BY <2>3, <2>4, RequestsAreFinite
  <2>6. Cardinality(Spent(c)) <= Cardinality(all)
    BY <2>4, <2>5, FS_Subset
  <2> HIDE DEF all
  <2>7. queued[c] <= Cardinality(all)
    BY <2>2, <2>5, <2>6
  <2> QED  BY <2>1, <2>7 DEF ItemsOf, all
<1> QED
  BY <1>1, OnceInvariant, PTL

=============================================================================

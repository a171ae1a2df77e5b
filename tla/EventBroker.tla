----------------------------- MODULE EventBroker ----------------------------
(***************************************************************************)
(* The live events of the API: EventBroker (events/broker.py) fans an      *)
(* event out to bounded queues, one for each subscription, and a stream,   *)
(* sse_stream or ws_stream (api/routes/events.py), sends what its queue    *)
(* holds, or a HEARTBEAT when it has been empty for long.                  *)
(*                                                                         *)
(* An event is its sequence number and whether it is critical; a filter is *)
(* the set of those it lets pass.  Events of a stream's own making, its    *)
(* CONNECTED and its HEARTBEATs, only take sequence numbers.               *)
(***************************************************************************)
EXTENDS Naturals, Sequences, FiniteSets

CONSTANTS
  MaxSubscribers,  \* max_sse_subscribers, or max_ws_subscribers
  QueueSize,       \* queue_size
  Filters,         \* the filters in use: sets of values of an event's critical
  MaxStreams,      \* bound: streams ever asked for
  MaxSequence      \* bound: sequence numbers used

VARIABLES
  sequence,        \* _seq of the broker
  streams          \* the k-th stream and its subscription

brokerVars == <<sequence, streams>>

ASSUME BrokerAssumption ==
  /\ {MaxSubscribers, QueueSize} \subseteq Nat \ {0}
  /\ {MaxStreams, MaxSequence} \subseteq Nat
  /\ Filters \subseteq SUBSET BOOLEAN

BrokerInit == sequence = 0 /\ streams = <<>>

\* What Subscription.close puts into the queue.
Sentinel == [sequence |-> 0, critical |-> FALSE]

\* phase: "opening" until CONNECTED is sent; registered: in _subs.
\* sent and urgent are histories: the numbers of the events sent, and of the
\* critical ones among those offered.
Stream(kind, filter) ==
  [kind |-> kind, filter |-> filter, phase |-> "opening",
   registered |-> TRUE, closed |-> FALSE, queue |-> <<>>, dropped |-> 0,
   sent |-> <<>>, urgent |-> {}]

Active(kind) ==
  {k \in DOMAIN streams : streams[k].kind = kind /\ streams[k].registered}

\* subscribe
Subscribe(kind, filter) ==
  /\ Len(streams) < MaxStreams
  /\ Cardinality(Active(kind)) < MaxSubscribers
  /\ streams' = Append(streams, Stream(kind, filter))
  /\ UNCHANGED sequence

UsesNumber == sequence < MaxSequence /\ sequence' = sequence + 1

\* Mutant of Displace: the event goes to the front of the queue.
DisplaceFirst(queue, event) == <<event>> \o Tail(queue)

\* The oldest item makes room for a critical event.
Displace(queue, event) == Append(Tail(queue), event)

\* Mutant of Put: a critical event is dropped like any other.
PutIfRoom(s, event) ==
  IF Len(s.queue) < QueueSize THEN [s EXCEPT !.queue = Append(@, event)]
  ELSE [s EXCEPT !.dropped = @ + 1]

\* One subscription in publish.
Put(s, event) ==
  IF Len(s.queue) < QueueSize THEN [s EXCEPT !.queue = Append(@, event)]
  ELSE IF event.critical THEN [s EXCEPT !.queue = Displace(@, event)]
  ELSE [s EXCEPT !.dropped = @ + 1]

\* Nobody reads the queue of a stream that has ended.
Offer(s, event) ==
  IF s.phase = "ended" \/ s.closed \/ event.critical \notin s.filter THEN s
  ELSE [Put(s, event) EXCEPT
          !.urgent = IF event.critical THEN @ \union {event.sequence} ELSE @]

\* publish_typed
Publish(critical) ==
  /\ UsesNumber
  /\ LET event == [sequence |-> sequence', critical |-> critical] IN
     streams' = [k \in DOMAIN streams |-> Offer(streams[k], event)]

\* The stream's generator starts: CONNECTED.
OpenStream(k) ==
  /\ streams[k].phase = "opening"
  /\ UsesNumber
  /\ streams' = [streams EXCEPT ![k].phase = "running"]

\* Subscription.close of a subscription that leaves _subs: no room, no sentinel.
Close(s) ==
  IF s.closed THEN [s EXCEPT !.registered = FALSE]
  ELSE [s EXCEPT !.registered = FALSE, !.closed = TRUE,
                 !.queue = IF Len(@) < QueueSize THEN Append(@, Sentinel) ELSE @]

\* A stream that is no more; only whether it is in _subs still matters.
Ended(s, registered) ==
  [Stream(s.kind, s.filter) EXCEPT !.phase = "ended", !.registered = registered]

\* The stream sends the next item, or ends at the sentinel.
SendNext(k) ==
  /\ streams[k].phase = "running" /\ streams[k].queue # <<>>
  /\ LET item == Head(streams[k].queue)
         s == [streams[k] EXCEPT !.queue = Tail(@)] IN
     streams' = [streams EXCEPT ![k] =
                   IF item = Sentinel THEN Ended(s, FALSE)
                   ELSE [s EXCEPT !.sent = Append(@, item.sequence)]]
  /\ UNCHANGED sequence

\* keepalive seconds without an event: HEARTBEAT.
KeepAlive(k) ==
  /\ streams[k].phase = "running" /\ streams[k].queue = <<>>
  /\ UsesNumber
  /\ UNCHANGED streams

\* The client goes away.  A stream that has not sent CONNECTED is not in its try
\* block yet: nobody unsubscribes it.
LeaveStream(k) ==
  /\ streams[k].phase # "ended"
  /\ streams' = [streams EXCEPT ![k] = Ended(@, @.registered /\ @.phase = "opening")]
  /\ UNCHANGED sequence

\* close_all, when the application shuts down.
CloseAll ==
  /\ \E k \in DOMAIN streams : streams[k].registered
  /\ streams' = [k \in DOMAIN streams |->
                   IF streams[k].registered THEN Close(streams[k]) ELSE streams[k]]
  /\ UNCHANGED sequence

\* The process ends.
BrokerRestart ==
  /\ sequence' = 0
  /\ streams' = <<>>

BrokerStep ==
  \/ \E kind \in {"sse", "ws"}, filter \in Filters : Subscribe(kind, filter)
  \/ \E critical \in BOOLEAN : Publish(critical)
  \/ \E k \in DOMAIN streams :
       OpenStream(k) \/ SendNext(k) \/ KeepAlive(k) \/ LeaveStream(k)
  \/ CloseAll

-----------------------------------------------------------------------------
(* Properties *)

Queued(s) == {s.queue[i].sequence : i \in DOMAIN s.queue} \ {0}
Sent(s) == {s.sent[i] : i \in DOMAIN s.sent}

\* However slow a client is, it gets the broker's events in the order of their
\* numbers and none twice, also when critical events displace others (publish).
EventsInOrder ==
  \A k \in DOMAIN streams :
    LET s == streams[k] IN
    /\ \A i, j \in DOMAIN s.sent : i < j => s.sent[i] < s.sent[j]
    /\ \A i \in DOMAIN s.sent, n \in Queued(s) : s.sent[i] < n

\* "Critical should still be delivered": the latest critical event is on its way
\* to every client that has not left, whatever filled the queue.
LatestCriticalArrives ==
  \A k \in DOMAIN streams :
    LET s == streams[k] IN
    s.phase # "ended" /\ s.urgent # {} =>
      \E n \in s.urgent :
        n \in Queued(s) \union Sent(s) /\ \A m \in s.urgent : m <= n

=============================================================================

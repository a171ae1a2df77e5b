----------------------------- MODULE MqttClient -----------------------------
(***************************************************************************)
(* PahoMqttClient (cloud/mqtt/client.py), the library under it and the     *)
(* broker: what publish makes of a message.  The library keeps a QoS 1     *)
(* message until its PUBACK arrives and sends it again after a             *)
(* reconnection, also when publish has given up waiting for it; it forgets *)
(* everything when the process ends.  Its callbacks run in a thread of     *)
(* their own, so a PUBACK may be read before publish has put the message's *)
(* future into _pending_acks.                                              *)
(***************************************************************************)
EXTENDS Naturals, Sequences

CONSTANTS
  MaxOutages       \* bound: losses of the connection

VARIABLES
  connected,       \* is_connected: _meta.state is CONNECTED
  outbox,          \* the library's QoS 1 messages, the oldest first
  received,        \* history: how often the broker has received each subject
  outages

clientVars == <<connected, outbox, received, outages>>

ClientInit ==
  /\ connected = FALSE
  /\ outbox = <<>>
  /\ outages = 0

\* taken: the broker has it; awaited: its mid is in _pending_acks.
Message(subject) == [subject |-> subject, taken |-> FALSE, awaited |-> TRUE]

\* publish with QoS 1; it raises MqttNotConnectedError unless connected.
Hands(subject) ==
  /\ connected
  /\ outbox' = Append(outbox, Message(subject))
  /\ UNCHANGED <<connected, received, outages>>

\* The PUBACK is read before the future is registered: nobody hears of it.
AcknowledgedTooEarly(subject) ==
  /\ connected /\ outbox = <<>>
  /\ received' = [received EXCEPT ![subject] = @ + 1]
  /\ UNCHANGED <<connected, outbox, outages>>

\* The library has lost its socket, _on_disconnect is yet to run: rc is not 0,
\* and the message is kept all the same.
Refuses(subject) ==
  /\ connected
  /\ outbox' = Append(outbox, [Message(subject) EXCEPT !.awaited = FALSE])
  /\ UNCHANGED <<connected, received, outages>>

\* publish with QoS 0: the message is on its way, or lost.
Casts(subject) ==
  /\ connected
  /\ received' \in {received, [received EXCEPT ![subject] = @ + 1]}
  /\ UNCHANGED <<connected, outbox, outages>>

\* The wait for the PUBACK times out and the mid is popped.
GivesUp ==
  /\ outbox' = [i \in DOMAIN outbox |-> [outbox[i] EXCEPT !.awaited = FALSE]]
  /\ UNCHANGED <<connected, received, outages>>

\* The broker receives the messages in order.
BrokerTakes ==
  /\ connected
  /\ \E i \in DOMAIN outbox :
       /\ ~outbox[i].taken
       /\ \A j \in 1..i-1 : outbox[j].taken
       /\ outbox' = [outbox EXCEPT ![i].taken = TRUE]
       /\ received' = [received EXCEPT ![outbox[i].subject] = @ + 1]
  /\ UNCHANGED <<connected, outages>>

IsAcknowledged(m) == m.taken

\* _on_publish: the PUBACK of the oldest message.
PubackArrives ==
  /\ connected
  /\ outbox # <<>> /\ IsAcknowledged(Head(outbox))
  /\ outbox' = Tail(outbox)
  /\ UNCHANGED <<connected, received, outages>>

\* _on_connect: what has no PUBACK is sent again.
Connects ==
  /\ ~connected
  /\ connected' = TRUE
  /\ outbox' = [i \in DOMAIN outbox |-> [outbox[i] EXCEPT !.taken = FALSE]]
  /\ UNCHANGED <<received, outages>>

\* _on_disconnect
Disconnects ==
  /\ connected
  /\ outages < MaxOutages /\ outages' = outages + 1
  /\ connected' = FALSE
  /\ UNCHANGED <<outbox, received>>

\* The process ends.
ClientEnds ==
  /\ connected' = FALSE
  /\ outbox' = <<>>
  /\ UNCHANGED <<received, outages>>

=============================================================================

------------------------------ MODULE Heartbeat -----------------------------
(***************************************************************************)
(* HeartbeatService.publish_once (cloud/heartbeat.py): a beat goes out     *)
(* with QoS 0; of those made while there is no connection only the latest  *)
(* is kept, and it is sent in place of the next one.  A beat is its        *)
(* sequence number.                                                        *)
(***************************************************************************)
EXTENDS MqttClient

CONSTANTS
  MaxBeats         \* bound: beats made by one process

VARIABLES
  made,            \* _seq
  pending,         \* _pending_latest: a sequence number, 0 for none
  published        \* history: the last beat handed to the client, 0 for none

beatVars == <<made, pending, published>>

BeatInit == made = 0 /\ pending = 0 /\ published = 0

\* Mutant of Kept: the first one is kept.
KeptFirst(beat) == IF pending = 0 THEN beat ELSE pending

Kept(beat) == beat

MakesBeat == made < MaxBeats /\ made' = made + 1

BeatOffline ==
  /\ MakesBeat /\ ~connected
  /\ pending' = Kept(made')
  /\ UNCHANGED published

BeatOnline ==
  /\ MakesBeat /\ connected
  /\ published' = IF pending = 0 THEN made' ELSE pending
  /\ pending' = 0

\* publish raises: the beat it was to send is forgotten, the new one kept.
BeatFails ==
  /\ MakesBeat /\ connected
  /\ pending' = made'
  /\ UNCHANGED published

\* The process ends.
BeatRestart == made' = 0 /\ pending' = 0 /\ published' = 0

BeatStep == BeatOffline \/ BeatOnline \/ BeatFails

-----------------------------------------------------------------------------
(* Properties *)

\* A beat kept through an outage and sent afterwards is the one before the beat
\* it replaces: however long the outage, the cloud gets nothing older
\* (publish_once, "Replace previous pending heartbeat").
HeartbeatIsRecent ==
  [][published' # published /\ made' # 0 => published' + 1 >= made']_beatVars

=============================================================================

--------------------------- MODULE StationServices --------------------------
(***************************************************************************)
(* The process that runs beside the polling loop (cloud/runtime.py and     *)
(* api/lifespan.py): the sync worker, the heartbeat and the command intake *)
(* share an MQTT connection and a database, the API's routes its queue and *)
(* its event broker, and a restart ends them all.                          *)
(*                                                                         *)
(* What a behaviour asks of each of them is chosen at its start.           *)
(***************************************************************************)
EXTENDS SyncDelivery, CommandIntake, EventBroker, Heartbeat

CONSTANTS
  Loads,           \* records of bounds: [rows, outages, commands, requests,
                   \* streams, events, beats]
  MaxTroubles      \* bound: outages, errors and restarts together

VARIABLE load      \* the bounds of this behaviour

deliveryVars == <<syncVars, clientVars>>

vars == <<deliveryVars, commandVars, brokerVars, beatVars, load>>

ASSUME LoadAssumption == MaxTroubles \in Nat

Init ==
  /\ ClientInit /\ SyncInit /\ CommandInit /\ BrokerInit /\ BeatInit
  /\ load \in Loads

\* mqtt.enabled; without it only the API's streams are looked at.
UsesMqtt == load.streams = 0

Delivers == UsesMqtt /\ SyncStep /\ UNCHANGED <<commandVars, brokerVars, beatVars>>

\* Messages come, and the intake is started, while there is a connection; a
\* statement of the database may raise.
Requests ==
  /\ load.commands # {}
  /\ \/ CommandStep /\ UNCHANGED deliveryVars
     \/ /\ connected
        /\ IntakeStarts \/ \E c \in Commands : Deliver(c)
        /\ UNCHANGED deliveryVars
     \/ /\ \E n \in DOMAIN tasks : TaskFails(n)
        /\ Raises
        /\ UNCHANGED <<rows, worker, crashes, clientVars>>
  /\ UNCHANGED <<brokerVars, beatVars>>

Streams == load.streams > 0 /\ BrokerStep /\ UNCHANGED <<deliveryVars, commandVars, beatVars>>

Beats == BeatStep /\ UNCHANGED <<deliveryVars, commandVars, brokerVars>>

\* The process ends, is started again and recovers.
ProcessRestarts == Restart /\ CommandsRestart /\ BrokerRestart /\ BeatRestart

WithinLoad ==
  /\ Len(rows') <= load.rows
  /\ Len(tasks') <= load.requests
  /\ {tasks'[n].command : n \in DOMAIN tasks'} \union expired' \subseteq load.commands
  /\ Len(streams') <= load.streams
  /\ sequence' <= load.events
  /\ made' <= load.beats
  /\ outages' <= load.outages
  /\ outages' + errors' + crashes' <= MaxTroubles

Next ==
  /\ Delivers \/ Requests \/ Streams \/ Beats \/ ProcessRestarts
  /\ WithinLoad
  /\ UNCHANGED load

\* The worker's task runs on, clocks tick, and the library reconnects.
Fairness ==
  /\ WF_deliveryVars(WorkerStep)
  /\ WF_deliveryVars(UsesMqtt /\ Connects /\ UNCHANGED syncVars)
  /\ \A k \in 1..MaxRows : WF_deliveryVars(k \in DOMAIN rows /\ TimePasses(k))

Spec == Init /\ [][Next]_vars /\ Fairness

=============================================================================

-------------------------- MODULE MCStationServices -------------------------
(* Model checking of StationServices: entries, commands and what is asked. *)
EXTENDS StationServices

CONSTANTS c1, c2

\* Heartbeat-like entries go without an acknowledgement.
QosOf(k) == IF k = 2 THEN {0} ELSE {1}

\* One command that changes the pump, one that only asks.
CommandOf(c) ==
  [type |-> IF c = c1 THEN "STOP" ELSE "READ_STATUS",
   simulator_only |-> TRUE, valid |-> TRUE]

PumpContexts ==
  {[NewContext("FILLING", TRUE) EXCEPT !.selected_nozzle = 1], NewContext("DISCONNECTED", FALSE)}

FilterSets == {BOOLEAN, {TRUE}}

Load(nrows, noutages, cs, nrequests, nstreams, nevents, nbeats) ==
  [rows |-> nrows, outages |-> noutages, commands |-> cs, requests |-> nrequests,
   streams |-> nstreams, events |-> nevents, beats |-> nbeats]

\* One part of the process at its busiest, or some of each.
StationLoads ==
  {Load(3, 1, {}, 0, 0, 0, 0), Load(0, 0, {c1, c2}, 2, 0, 0, 0), Load(0, 0, {c1}, 3, 0, 0, 0),
   Load(0, 0, {}, 0, 1, 6, 0), Load(0, 0, {}, 0, 2, 3, 0), Load(0, 1, {}, 0, 0, 0, 5),
   Load(1, 0, {c1}, 1, 0, 0, 0)}

=============================================================================

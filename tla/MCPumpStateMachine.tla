-------------------------- MODULE MCPumpStateMachine ------------------------
(* Model checking of PumpStateMachine: which observations the callers make. *)
EXTENDS PumpStateMachine

CONSTANTS f1, f2, k1, k2, t1

Plain(events) == {NoObservation(e) : e \in events}

\* The controller's and the operator's events carry nothing.
LinkEvents == Plain({"COMMUNICATION_STARTED", "COMMUNICATION_LOST"})
ServiceEvents ==
  Plain({"PUMP_DISCOVERED", "CONFIGURATION_MISSING", "FAULT_CLEARED",
         "MAINTENANCE_ENTERED", "MAINTENANCE_EXITED", "SUSPENDED_OBSERVED",
         "RESUMED_OBSERVED", "LIMIT_REACHED"})

SaleEvents ==
  Plain({"RESET_OBSERVED", "READY_OBSERVED", "NOZZLE_RETURNED",
         "FILLING_STARTED", "FILLING_UPDATED"})
  \union {[NoObservation("AUTHORIZATION_CONFIRMED") EXCEPT !.tx = t1]}
  \union {[NoObservation("FILLING_STARTED") EXCEPT !.implicit = TRUE]}

\* The two completions of two sales: frames and keys as the mapper pairs them.
Completions ==
  {[NoObservation("FILLING_COMPLETED") EXCEPT !.frame = f1, !.key = k1],
   [NoObservation("FILLING_COMPLETED") EXCEPT !.frame = f2, !.key = k2],
   NoObservation("FILLING_COMPLETED")}

Faults ==
  {[NoObservation("FAULT_OBSERVED") EXCEPT !.fault = 1], NoObservation("FAULT_OBSERVED")}

Lift == [NoObservation("NOZZLE_LIFTED") EXCEPT !.nozzle = 1, !.price = TRUE]
Unknown == [NoObservation("UNKNOWN_OBSERVATION") EXCEPT !.raw = 7, !.frame = f1]

\* Observations with times, late ones among them.
TimedObservations ==
  {[NoObservation("READY_OBSERVED") EXCEPT !.at = t] : t \in {1, 2}}

\* Two sales one after the other, their completions replayed in any order.
SaleObservations ==
  LinkEvents \union ServiceEvents \union SaleEvents \union Completions \union Faults
  \union {Lift, Unknown} \union TimedObservations

=============================================================================

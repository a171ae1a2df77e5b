----------------------------- MODULE WayneMapper ----------------------------
(***************************************************************************)
(* state_machine/wayne_mapper.py: how the controller session reads one     *)
(* transaction of a pump's DATA frame.  The session has resolved the       *)
(* direction (pump to controller), so TRANS 0x01 is a DC1 status and       *)
(* TRANS 0x03 a DC3 nozzle status.                                         *)
(*                                                                         *)
(* A report is what the session uses of a decoded transaction.             *)
(***************************************************************************)
EXTENDS PumpStates

\* WaynePumpStatus
NotProgrammed == 0
ResetStatus == 1
Authorized == 2
Filling == 4
FillingCompleted == 5
MaxReached == 6
SwitchedOff == 7
Suspended == 8

DC1(status)       == [type |-> "DC1", value |-> status, out |-> FALSE]
DC2(volume)       == [type |-> "DC2", value |-> volume, out |-> FALSE]
DC3(nozzle, out)  == [type |-> "DC3", value |-> nozzle, out |-> out]
DC5(alarm)        == [type |-> "DC5", value |-> alarm, out |-> FALSE]
DC9               == [type |-> "DC9", value |-> None, out |-> FALSE]
DC101(total)      == [type |-> "DC101", value |-> total, out |-> FALSE]

\* completion_key: the frame is all that tells one completion from another.
CompletionKey(frame) == <<"complete", frame>>

\* Mutant of FillingEvent: forgets that a pause comes before.
FillingEventUnpaused(c) ==
  IF c.current_state = "FILLING" \/ c.last_raw_wayne_status = Filling
  THEN "FILLING_UPDATED" ELSE "FILLING_STARTED"

\* Filling after a pause, while filling, or from anything else.
FillingEvent(c) ==
  IF c.last_raw_wayne_status = Suspended THEN "RESUMED_OBSERVED"
  ELSE IF c.current_state = "FILLING" \/ c.last_raw_wayne_status = Filling
       THEN "FILLING_UPDATED"
  ELSE "FILLING_STARTED"

\* _status_code_to_event; a status with no event of its own is preserved.
StatusEvents ==
  {<<NotProgrammed, "CONFIGURATION_MISSING">>, <<ResetStatus, "RESET_OBSERVED">>,
   <<Authorized, "AUTHORIZATION_CONFIRMED">>,
   <<FillingCompleted, "FILLING_COMPLETED">>, <<MaxReached, "LIMIT_REACHED">>,
   <<Suspended, "SUSPENDED_OBSERVED">>}

StatusEvent(status, c) ==
  IF status = Filling THEN FillingEvent(c)
  ELSE IF \E e \in PumpEvent : <<status, e>> \in StatusEvents
       THEN CHOOSE e \in PumpEvent : <<status, e>> \in StatusEvents
  ELSE "UNKNOWN_OBSERVATION"

\* Mutant of NozzleEvent: looks at the state before the nozzle.
NozzleEventByState(out, c) ==
  IF c.current_state \in {"NOZZLE_UP", "AUTHORIZED", "FILLING", "SUSPENDED"}
  THEN "NOZZLE_RETURNED"
  ELSE IF out THEN "NOZZLE_LIFTED" ELSE "READY_OBSERVED"

\* Mutant of NozzleEvent: forgets that a pump in RESET is idle too.
NozzleEventUnlessReady(out, c) ==
  IF out THEN "NOZZLE_LIFTED"
  ELSE IF c.current_state \in {"READY", "DISCOVERING"} THEN "READY_OBSERVED"
  ELSE "NOZZLE_RETURNED"

\* The holstered nozzle of an idle pump is the only sign of READY.
NozzleEvent(out, c) ==
  IF out THEN "NOZZLE_LIFTED"
  ELSE IF c.current_state \in {"NOZZLE_UP", "AUTHORIZED", "FILLING", "SUSPENDED"}
       THEN "NOZZLE_RETURNED"
  ELSE "READY_OBSERVED"

\* Mutant of ReportEvent: an alarm is preserved like an unknown transaction.
ReportEventUnalarmed(r, c) ==
  IF r.type = "DC1" THEN StatusEvent(r.value, c)
  ELSE IF r.type = "DC2" THEN "FILLING_UPDATED"
  ELSE IF r.type = "DC3" THEN NozzleEvent(r.out, c)
  ELSE IF r.type = "DC9" THEN "PUMP_DISCOVERED"
  ELSE "UNKNOWN_OBSERVATION"

ReportEvent(r, c) ==
  IF r.type = "DC1" THEN StatusEvent(r.value, c)
  ELSE IF r.type = "DC2" THEN "FILLING_UPDATED"
  ELSE IF r.type = "DC3" THEN NozzleEvent(r.out, c)
  ELSE IF r.type = "DC5" THEN "FAULT_OBSERVED"
  ELSE IF r.type = "DC9" THEN "PUMP_DISCOVERED"
  ELSE "UNKNOWN_OBSERVATION"

\* map_wayne_observation as _decode_and_apply calls it: an alarm code travels
\* as a raw Wayne status, and nothing carries a price or a fault code.
Mapped(r, frame, c) ==
  [NoObservation(ReportEvent(r, c)) EXCEPT
     !.frame = frame,
     !.nozzle = IF r.type = "DC3" THEN r.value ELSE None,
     !.raw = IF r.type \in {"DC1", "DC5"} THEN r.value ELSE None,
     !.key = IF r = DC1(FillingCompleted) THEN CompletionKey(frame) ELSE None]

=============================================================================

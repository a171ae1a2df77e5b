----------------------------- MODULE PumpStates -----------------------------
(***************************************************************************)
(* The normalized pump state machine as a pure function: the states and    *)
(* events of intelipump_fdc.domain, the transition table of                *)
(* state_machine/transitions.py, and PumpStateMachine.apply of             *)
(* state_machine/machine.py, which maps a pump context and one observation *)
(* to the next context.                                                    *)
(*                                                                         *)
(* The module has no variables: the controller session, the simulated pump *)
(* and the state machine's own specification all apply it.                 *)
(***************************************************************************)
EXTENDS Naturals

CONSTANT None   \* Python's None: an absent optional value

PumpState ==
  {"DISCONNECTED", "DISCOVERING", "NOT_PROGRAMMED", "RESET", "READY",
   "NOZZLE_UP", "AUTHORIZED", "FILLING", "FILLING_COMPLETE", "SUSPENDED",
   "LIMIT_REACHED", "FAULTED", "MAINTENANCE"}

OperationalStates == PumpState \ {"DISCONNECTED"}

PumpEvent ==
  {"COMMUNICATION_STARTED", "COMMUNICATION_LOST", "PUMP_DISCOVERED",
   "CONFIGURATION_MISSING", "RESET_OBSERVED", "READY_OBSERVED",
   "NOZZLE_LIFTED", "NOZZLE_RETURNED", "AUTHORIZATION_CONFIRMED",
   "FILLING_STARTED", "FILLING_UPDATED", "FILLING_COMPLETED",
   "LIMIT_REACHED", "SUSPENDED_OBSERVED", "RESUMED_OBSERVED",
   "FAULT_OBSERVED", "FAULT_CLEARED", "MAINTENANCE_ENTERED",
   "MAINTENANCE_EXITED", "UNKNOWN_OBSERVATION"}

-----------------------------------------------------------------------------
(* The table: <<from, event, to>>. *)

TransitionTable ==
  {<<"DISCONNECTED",   "COMMUNICATION_STARTED",   "DISCOVERING">>,
   <<"DISCOVERING",    "CONFIGURATION_MISSING",   "NOT_PROGRAMMED">>,
   <<"DISCOVERING",    "RESET_OBSERVED",          "RESET">>,
   <<"DISCOVERING",    "READY_OBSERVED",          "READY">>,
   <<"DISCOVERING",    "PUMP_DISCOVERED",         "RESET">>,
   <<"NOT_PROGRAMMED", "RESET_OBSERVED",          "RESET">>,
   <<"NOT_PROGRAMMED", "READY_OBSERVED",          "READY">>,
   <<"RESET",          "READY_OBSERVED",          "READY">>,
   <<"RESET",          "CONFIGURATION_MISSING",   "NOT_PROGRAMMED">>,
   <<"READY",          "NOZZLE_LIFTED",           "NOZZLE_UP">>,
   <<"READY",          "RESET_OBSERVED",          "RESET">>,
   <<"NOZZLE_UP",      "AUTHORIZATION_CONFIRMED", "AUTHORIZED">>,
   <<"NOZZLE_UP",      "NOZZLE_RETURNED",         "READY">>,
   <<"NOZZLE_UP",      "FILLING_STARTED",         "FILLING">>,
   <<"AUTHORIZED",     "FILLING_STARTED",         "FILLING">>,
   <<"AUTHORIZED",     "NOZZLE_RETURNED",         "READY">>,
   <<"FILLING",        "FILLING_UPDATED",         "FILLING">>,
   <<"FILLING",        "FILLING_COMPLETED",       "FILLING_COMPLETE">>,
   <<"FILLING",        "SUSPENDED_OBSERVED",      "SUSPENDED">>,
   <<"FILLING",        "LIMIT_REACHED",           "LIMIT_REACHED">>,
   <<"SUSPENDED",      "RESUMED_OBSERVED",        "FILLING">>,
   <<"SUSPENDED",      "FILLING_COMPLETED",       "FILLING_COMPLETE">>,
   <<"SUSPENDED",      "LIMIT_REACHED",           "LIMIT_REACHED">>,
   <<"LIMIT_REACHED",  "FILLING_COMPLETED",       "FILLING_COMPLETE">>,
   <<"LIMIT_REACHED",  "RESET_OBSERVED",          "RESET">>,
   <<"FILLING_COMPLETE", "RESET_OBSERVED",        "RESET">>,
   <<"FAULTED",        "FAULT_CLEARED",           "DISCOVERING">>,
   <<"MAINTENANCE",    "MAINTENANCE_EXITED",      "DISCOVERING">>}

\* The three loops under the table add a rule for many source states.
Leads(s, e, t) ==
  \/ <<s, e, t>> \in TransitionTable
  \/ e = "COMMUNICATION_LOST" /\ s \in PumpState /\ t = "DISCONNECTED"
  \/ e = "FAULT_OBSERVED" /\ s \in OperationalStates /\ t = "FAULTED"
  \/ e = "MAINTENANCE_ENTERED" /\ s \in PumpState \ {"MAINTENANCE"} /\ t = "MAINTENANCE"

HasTransition(s, e) == \E t \in PumpState : Leads(s, e, t)

\* lookup_transition, where the pair has an entry.
Target(s, e) == CHOOSE t \in PumpState : Leads(s, e, t)

SameStateNoopEvents ==
  {<<"READY", "READY_OBSERVED">>,        <<"RESET", "RESET_OBSERVED">>,
   <<"FILLING", "FILLING_UPDATED">>,     <<"FILLING", "FILLING_STARTED">>,
   <<"AUTHORIZED", "AUTHORIZATION_CONFIRMED">>,
   <<"NOZZLE_UP", "NOZZLE_LIFTED">>,
   <<"FILLING_COMPLETE", "FILLING_COMPLETED">>,
   <<"SUSPENDED", "SUSPENDED_OBSERVED">>,
   <<"LIMIT_REACHED", "LIMIT_REACHED">>, <<"FAULTED", "FAULT_OBSERVED">>,
   <<"DISCONNECTED", "COMMUNICATION_LOST">>,
   <<"DISCOVERING", "COMMUNICATION_STARTED">>,
   <<"MAINTENANCE", "MAINTENANCE_ENTERED">>,
   <<"NOT_PROGRAMMED", "CONFIGURATION_MISSING">>}

-----------------------------------------------------------------------------
(* Contexts and observations.                                              *)
(*                                                                         *)
(* A context is PumpContext without pump_id, dart_address,                 *)
(* last_transition_at and the warnings.  An observation is the argument    *)
(* list of apply: the event, the source frame it came from, its time, and  *)
(* the optional fields a caller may pass.                                  *)

NoObservation(e) ==
  [event |-> e, frame |-> None, at |-> None, nozzle |-> None, tx |-> None,
   raw |-> None, price |-> None, fault |-> None, key |-> None,
   implicit |-> FALSE]

NewContext(s, healthy) ==
  [current_state |-> s, previous_state |-> None, selected_nozzle |-> None,
   active_transaction_id |-> None, last_observation_at |-> None,
   last_raw_wayne_status |-> None, communication_healthy |-> healthy,
   price_verified |-> FALSE, fault_code |-> None, state_version |-> 0,
   completed_evidence_keys |-> {}, last_source_frame_hex |-> None]

\* `new if new is not None else old`
Or(new, old) == IF new # None THEN new ELSE old

\* Mutant of BumpIf: every observation counts as a change.
AlwaysBump(meaningful, version) == version + 1

BumpIf(meaningful, version) == IF meaningful THEN version + 1 ELSE version

-----------------------------------------------------------------------------
(* The early returns of apply, in the order of the code. *)

\* Mutant of IsStale: the comparison the wrong way round.
IsStaleReversed(c, o) ==
  /\ o.at # None
  /\ c.last_observation_at # None
  /\ o.at > c.last_observation_at

IsStale(c, o) ==
  /\ o.at # None
  /\ c.last_observation_at # None
  /\ o.at < c.last_observation_at

IsDuplicateFrame(c, o) == o.frame # None /\ o.frame = c.last_source_frame_hex

\* Mutant of IsDuplicateCompletion: looks for a repeat only while complete.
IsImmediateRepeat(c, o) ==
  /\ c.current_state = "FILLING_COMPLETE"
  /\ o.event = "FILLING_COMPLETED"
  /\ o.key # None
  /\ o.key \in c.completed_evidence_keys

IsDuplicateCompletion(c, o) ==
  /\ o.event = "FILLING_COMPLETED"
  /\ o.key # None
  /\ o.key \in c.completed_evidence_keys

\* Mutant of IsUnconfirmedFilling: guards the state after the one it means.
IsUnconfirmedLate(c, o) ==
  /\ c.current_state = "AUTHORIZED"
  /\ o.event = "FILLING_STARTED"
  /\ ~o.implicit

IsUnconfirmedFilling(c, o) ==
  /\ c.current_state = "NOZZLE_UP"
  /\ o.event = "FILLING_STARTED"
  /\ ~o.implicit

Outcome(c, o) ==
  IF IsStale(c, o) THEN "stale_observation"
  ELSE IF IsDuplicateFrame(c, o) THEN "duplicate_source_frame"
  ELSE IF IsDuplicateCompletion(c, o) THEN "duplicate_completion_evidence"
  ELSE IF o.event = "UNKNOWN_OBSERVATION" THEN "unknown_observation_preserved"
  ELSE IF IsUnconfirmedFilling(c, o) THEN "implicit_authorize_not_supported"
  ELSE IF <<c.current_state, o.event>> \in SameStateNoopEvents THEN "same_state_noop"
  ELSE IF ~HasTransition(c.current_state, o.event) THEN "invalid_transition"
  ELSE "transition_applied"

Rejections ==
  {"stale_observation", "implicit_authorize_not_supported", "invalid_transition"}

-----------------------------------------------------------------------------
(* What each outcome does to the context. *)

\* A duplicate only moves the observation time.
Seen(c, o) == [c EXCEPT !.last_observation_at = Or(o.at, @)]

KeepUnknown(c, o) ==
  [c EXCEPT !.last_observation_at = Or(o.at, @),
            !.last_raw_wayne_status = Or(o.raw, @),
            !.last_source_frame_hex = Or(o.frame, @),
            !.state_version =
               BumpIf(o.raw # None /\ o.raw # c.last_raw_wayne_status, @)]

\* The fields _apply_context_fields counts as a meaningful change.
Refreshed(c, o) ==
  [c EXCEPT !.selected_nozzle = Or(o.nozzle, @),
            !.active_transaction_id = Or(o.tx, @),
            !.last_raw_wayne_status = Or(o.raw, @),
            !.price_verified = Or(o.price, @),
            !.fault_code = Or(o.fault, @)]

\* Mutant of HealthAfter: forgets that a loss ends the healthy spell.
HealthOnceStarted(c, e) == e = "COMMUNICATION_STARTED" \/ c.communication_healthy

HealthAfter(c, e) ==
  IF e = "COMMUNICATION_STARTED" THEN TRUE
  ELSE IF e = "COMMUNICATION_LOST" THEN FALSE
  ELSE c.communication_healthy

Noop(c, o) ==
  [Refreshed(c, o) EXCEPT
     !.last_observation_at = Or(o.at, @),
     !.last_source_frame_hex = Or(o.frame, @),
     !.communication_healthy = HealthAfter(c, o.event),
     !.state_version = BumpIf(Refreshed(c, o) # c, @)]

EndsTransaction(e, t) ==
  /\ t \in {"RESET", "READY", "DISCONNECTED", "DISCOVERING"}
  /\ e \in {"RESET_OBSERVED", "COMMUNICATION_LOST", "FAULT_CLEARED",
            "MAINTENANCE_EXITED"}

TransactionAfter(c, o, t) ==
  IF EndsTransaction(o.event, t) THEN None ELSE Or(o.tx, c.active_transaction_id)

FaultAfter(c, o) ==
  IF o.event = "FAULT_CLEARED" THEN None ELSE Or(o.fault, c.fault_code)

\* Mutant of EvidenceAfter: keeps the absent key too.
EvidenceOfEveryCompletion(c, o) ==
  IF o.event = "FILLING_COMPLETED"
  THEN c.completed_evidence_keys \union {o.key}
  ELSE c.completed_evidence_keys

EvidenceAfter(c, o) ==
  IF o.event = "FILLING_COMPLETED" /\ o.key # None
  THEN c.completed_evidence_keys \union {o.key}
  ELSE c.completed_evidence_keys

Move(c, o) ==
  LET t == Target(c.current_state, o.event) IN
  [c EXCEPT !.previous_state = c.current_state,
            !.current_state = t,
            !.state_version = @ + 1,
            !.last_observation_at = Or(o.at, @),
            !.communication_healthy = HealthAfter(c, o.event),
            !.selected_nozzle = Or(o.nozzle, @),
            !.active_transaction_id = TransactionAfter(c, o, t),
            !.last_raw_wayne_status = Or(o.raw, @),
            !.price_verified = Or(o.price, @),
            !.fault_code = FaultAfter(c, o),
            !.completed_evidence_keys = EvidenceAfter(c, o),
            !.last_source_frame_hex = Or(o.frame, @)]

\* PumpStateMachine.apply
Apply(c, o) ==
  LET outcome == Outcome(c, o) IN
  IF outcome = "transition_applied" THEN Move(c, o)
  ELSE IF outcome = "same_state_noop" THEN Noop(c, o)
  ELSE IF outcome = "unknown_observation_preserved" THEN KeepUnknown(c, o)
  ELSE IF outcome \in Rejections THEN c
  ELSE Seen(c, o)

=============================================================================

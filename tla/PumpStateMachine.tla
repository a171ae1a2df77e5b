--------------------------- MODULE PumpStateMachine -------------------------
(***************************************************************************)
(* One PumpStateMachine object driven by arbitrary observations: every     *)
(* caller (the controller session, the simulated pump, a test) reaches it  *)
(* only through apply, and the machine itself must keep a pump's life      *)
(* cycle legal whatever the callers report, in any order, with replays.    *)
(*                                                                         *)
(* Each action is one way out of apply: its early returns and its          *)
(* transition.  confirmed and completions are history variables.           *)
(***************************************************************************)
EXTENDS PumpStates

CONSTANTS
  Observations,   \* the argument lists callers may pass to apply
  EvidenceKeys,   \* completion evidence keys
  MaxVersion      \* bound on state_version

VARIABLES
  ctx,            \* the machine's PumpContext
  reason,         \* TransitionResult.reason of the last apply
  confirmed,      \* the sale in progress was authorized (or allowed to be implicit)
  completions     \* how many completions each evidence key has produced

vars == <<ctx, reason, confirmed, completions>>

OptionalBoolean == BOOLEAN \union {None}

\* What the type annotations of apply promise of an argument list, with the
\* two habits of the mapper: only a completion carries a key, and an evidence
\* key is never reused by another kind of event.
ObservationAssumption ==
  \A o \in Observations :
    /\ DOMAIN o = {"event", "frame", "at", "nozzle", "tx", "raw", "price",
                   "fault", "key", "implicit"}
    /\ o.event \in PumpEvent
    /\ o.at \in Nat \union {None}
    /\ o.price \in OptionalBoolean
    /\ o.key \in EvidenceKeys \union {None}
    /\ o.implicit \in BOOLEAN

ASSUME ConstantAssumption ==
  /\ ObservationAssumption
  /\ MaxVersion \in Nat
  /\ None \notin Nat /\ None \notin BOOLEAN /\ None \notin EvidenceKeys
  /\ None \notin PumpState

\* The states in which a sale is being dispensed or has been dispensed.
SaleStates == {"FILLING", "SUSPENDED", "LIMIT_REACHED", "FILLING_COMPLETE"}

-----------------------------------------------------------------------------

Init ==
  /\ ctx = NewContext("DISCONNECTED", FALSE)
  /\ reason = None
  /\ confirmed = FALSE
  /\ completions = [k \in EvidenceKeys |-> 0]

Yields(o, outcomes) ==
  /\ Outcome(ctx, o) \in outcomes
  /\ reason' = Outcome(ctx, o)
  /\ ctx' = Apply(ctx, o)
  /\ ctx'.state_version <= MaxVersion

\* Stale, unauthorized or undocumented: the context keeps its value.
Reject(o) ==
  /\ Yields(o, Rejections)
  /\ UNCHANGED <<confirmed, completions>>

IgnoreDuplicate(o) ==
  /\ Yields(o, {"duplicate_source_frame", "duplicate_completion_evidence"})
  /\ UNCHANGED <<confirmed, completions>>

PreserveUnknown(o) ==
  /\ Yields(o, {"unknown_observation_preserved"})
  /\ UNCHANGED <<confirmed, completions>>

RepeatState(o) ==
  /\ Yields(o, {"same_state_noop"})
  /\ UNCHANGED <<confirmed, completions>>

Transit(o) ==
  /\ Yields(o, {"transition_applied"})
  /\ confirmed' = \/ o.event = "AUTHORIZATION_CONFIRMED"
                  \/ o.event = "FILLING_STARTED" /\ o.implicit
                  \/ confirmed /\ ctx'.current_state \in SaleStates
  /\ completions' =
       IF o.event = "FILLING_COMPLETED" /\ o.key # None
       THEN [completions EXCEPT ![o.key] = @ + 1]
       ELSE completions

Next == \E o \in Observations :
  \/ Reject(o)
  \/ IgnoreDuplicate(o)
  \/ PreserveUnknown(o)
  \/ RepeatState(o)
  \/ Transit(o)

Spec == Init /\ [][Next]_vars

-----------------------------------------------------------------------------
(* Properties *)

\* Every field of a context is absent or was carried by some observation.
Carried(field) == {o[field] : o \in Observations} \union {None}

Context ==
  [current_state: PumpState,
   previous_state: PumpState \union {None},
   selected_nozzle: Carried("nozzle"),
   active_transaction_id: Carried("tx"),
   last_observation_at: Nat \union {None},
   last_raw_wayne_status: Carried("raw"),
   communication_healthy: BOOLEAN,
   price_verified: BOOLEAN,
   fault_code: Carried("fault"),
   state_version: Nat,
   completed_evidence_keys: SUBSET EvidenceKeys,
   last_source_frame_hex: Carried("frame")]

\* apply always leaves a PumpContext behind: none of its branches mixes up or
\* forgets a field.
TypeOK ==
  /\ ctx \in Context
  /\ confirmed \in BOOLEAN
  /\ completions \in [EvidenceKeys -> Nat]

\* A machine in a dispensing state has, since it last left the idle states,
\* seen the pump confirm an authorization, or been told explicitly that the
\* authorization was implicit: no order of replayed, late or missing
\* observations starts a sale (machine.py, the NOZZLE_UP guard and the table).
FuellingWasAuthorized ==
  ctx.current_state \in SaleStates \union {"AUTHORIZED"} => confirmed

\* Completion evidence is used at most once in the machine's life, also when
\* the completion comes back after other sales (completed_evidence_keys).
CompletedOncePerEvidence ==
  \A k \in EvidenceKeys : completions[k] <= 1

\* What a reader sees of a context: the eligibility guards (guards.py), the
\* STATE_CHANGED payload and the comparison of insert_if_meaningful.
Versioned(c) ==
  <<c.current_state, c.selected_nozzle, c.active_transaction_id,
    c.last_raw_wayne_status, c.communication_healthy, c.price_verified, c.fault_code>>

\* All a reader sees of this step is that a pump in DISCOVERING is healthy.
RegainsHealth ==
  /\ ctx.current_state = "DISCOVERING"
  /\ Versioned(ctx') = Versioned([ctx EXCEPT !.communication_healthy = TRUE])

\* state_version goes up, by one, exactly when something a reader sees has
\* changed, with one exception: COMMUNICATION_STARTED in a DISCOVERING that was
\* entered without communication (by way of MAINTENANCE) makes the pump
\* healthy under the version it had (machine.py:233-236).  Two contexts with the
\* same version differ, if at all, in a health gained so.
VersionFollowsView ==
  [][ctx'.state_version = IF Versioned(ctx') = Versioned(ctx) \/ RegainsHealth
                          THEN ctx.state_version
                          ELSE ctx.state_version + 1]_vars

\* Observations that carry a time never move the pump's clock backwards, and a
\* stale one changes nothing the pump's life cycle depends on.
TimeNeverGoesBack ==
  [][ctx.last_observation_at # None =>
       /\ ctx'.last_observation_at # None
       /\ ctx'.last_observation_at >= ctx.last_observation_at]_vars

\* Healthy communication is never claimed for a disconnected pump, whichever
\* way the machine came to disconnect.
HealthyMeansConnected ==
  ctx.communication_healthy => ctx.current_state # "DISCONNECTED"

=============================================================================

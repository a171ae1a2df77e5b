------------------------ MODULE PumpStateMachineProofs ----------------------
(***************************************************************************)
(* What the pump state machine guarantees for every set of observations,   *)
(* any number of evidence keys and any bound on the version.               *)
(***************************************************************************)
EXTENDS PumpStateMachine, TLAPS

\* A pair with an entry in the table has a target, and it is a pump state.
LEMMA TargetIsLeadTo ==
  ASSUME NEW s, NEW e, HasTransition(s, e)
  PROVE  Target(s, e) \in PumpState /\ Leads(s, e, Target(s, e))
BY DEF HasTransition, Target

\* Only three ways of entering a sale that is not already in progress.
LEMMA SaleEntry ==
  ASSUME NEW s \in PumpState, NEW e, HasTransition(s, e),
         Target(s, e) \in SaleStates \union {"AUTHORIZED"},
         e # "AUTHORIZATION_CONFIRMED"
  PROVE  /\ Target(s, e) \in SaleStates
         /\ \/ s \in SaleStates \union {"AUTHORIZED"}
            \/ s = "NOZZLE_UP" /\ e = "FILLING_STARTED"
<1> DEFINE t == Target(s, e)
<1>1. Leads(s, e, t)
  BY TargetIsLeadTo
<1> HIDE DEF t
<1>2. t \in SaleStates \union {"AUTHORIZED"}
  BY DEF t
<1>3. <<s, e, t>> \in TransitionTable
  BY <1>1, <1>2 DEF Leads, SaleStates
<1>4. /\ t \in SaleStates
      /\ s \in SaleStates \union {"AUTHORIZED"} \/ (s = "NOZZLE_UP" /\ e = "FILLING_STARTED")
  BY <1>2, <1>3 DEF TransitionTable, SaleStates
<1> QED
  BY <1>4 DEF t

-----------------------------------------------------------------------------
(* The inductive invariant: the history of completions is what the machine  *)
(* remembers of it.                                                         *)

EvidenceIsRecorded ==
  \A k \in EvidenceKeys :
    completions[k] = IF k \in ctx.completed_evidence_keys THEN 1 ELSE 0

Inv ==
  /\ TypeOK
  /\ FuellingWasAuthorized
  /\ HealthyMeansConnected
  /\ EvidenceIsRecorded

\* Observations carry well-typed times, prices, keys and events.
LEMMA ObservationTypes ==
  ASSUME NEW o \in Observations
  PROVE  /\ o.event \in PumpEvent
         /\ o.at \in Nat \union {None}
         /\ o.price \in BOOLEAN \union {None}
         /\ o.key \in EvidenceKeys \union {None}
         /\ o.nozzle \in Carried("nozzle") /\ o.tx \in Carried("tx")
         /\ o.raw \in Carried("raw") /\ o.fault \in Carried("fault")
         /\ o.frame \in Carried("frame")
BY ConstantAssumption DEF ConstantAssumption, ObservationAssumption, OptionalBoolean, Carried

\* The way out that apply takes decides the next context.
LEMMA ApplyByOutcome ==
  ASSUME NEW c, NEW o
  PROVE  /\ Outcome(c, o) \in Rejections => Apply(c, o) = c
         /\ Outcome(c, o) \in {"duplicate_source_frame", "duplicate_completion_evidence"}
              => Apply(c, o) = Seen(c, o)
         /\ Outcome(c, o) = "unknown_observation_preserved" => Apply(c, o) = KeepUnknown(c, o)
         /\ Outcome(c, o) = "same_state_noop" => Apply(c, o) = Noop(c, o)
         /\ Outcome(c, o) = "transition_applied" => Apply(c, o) = Move(c, o)
BY DEF Apply, Rejections

\* What a transition requires: the earlier ways out of apply were not taken.
LEMMA TransitionConditions ==
  ASSUME NEW c, NEW o, Outcome(c, o) = "transition_applied"
  PROVE  /\ ~IsStale(c, o)
         /\ ~IsDuplicateCompletion(c, o)
         /\ ~IsUnconfirmedFilling(c, o)
         /\ <<c.current_state, o.event>> \notin SameStateNoopEvents
         /\ HasTransition(c.current_state, o.event)
BY DEF Outcome

\* Every way out of apply keeps a context a context.
LEMMA ApplyKeepsContext ==
  ASSUME NEW c \in Context, NEW o \in Observations
  PROVE  Apply(c, o) \in Context
<1> DEFINE C(f) == Carried(f)
<1>0. /\ c.current_state \in PumpState
      /\ c.previous_state \in PumpState \union {None}
      /\ c.selected_nozzle \in C("nozzle") /\ c.active_transaction_id \in C("tx")
      /\ c.last_raw_wayne_status \in C("raw") /\ c.fault_code \in C("fault")
      /\ c.last_source_frame_hex \in C("frame")
      /\ c.last_observation_at \in Nat \union {None}
      /\ c.price_verified \in BOOLEAN /\ c.communication_healthy \in BOOLEAN
      /\ c.state_version \in Nat /\ c.completed_evidence_keys \in SUBSET EvidenceKeys
  BY DEF Context
<1>o. /\ Or(o.nozzle, c.selected_nozzle) \in C("nozzle")
      /\ Or(o.tx, c.active_transaction_id) \in C("tx")
      /\ Or(o.raw, c.last_raw_wayne_status) \in C("raw")
      /\ Or(o.fault, c.fault_code) \in C("fault")
      /\ Or(o.frame, c.last_source_frame_hex) \in C("frame")
      /\ Or(o.at, c.last_observation_at) \in Nat \union {None}
      /\ Or(o.price, c.price_verified) \in BOOLEAN
      /\ None \in C("tx") /\ None \in C("fault")
  BY <1>0, ObservationTypes DEF Or, Carried
<1>v. c.state_version + 1 \in Nat /\ \A cond : BumpIf(cond, c.state_version) \in Nat
  BY <1>0 DEF BumpIf
<1>h. HealthAfter(c, o.event) \in BOOLEAN
  BY <1>0 DEF HealthAfter
<1>f. FaultAfter(c, o) \in C("fault")
  BY <1>o DEF FaultAfter
<1>t. \A t : TransactionAfter(c, o, t) \in C("tx")
  BY <1>o DEF TransactionAfter
<1>e. EvidenceAfter(c, o) \in SUBSET EvidenceKeys
  BY <1>0, ObservationTypes DEF EvidenceAfter
<1> HIDE DEF C
<1>1. Seen(c, o) \in Context
  BY <1>o DEF Seen, Context, C
<1>2. KeepUnknown(c, o) \in Context
  BY <1>o, <1>v DEF KeepUnknown, Context, C
<1>3. Refreshed(c, o) \in Context /\ Refreshed(c, o).state_version = c.state_version
  BY <1>o, <1>0 DEF Refreshed, Context, C
<1>4. Noop(c, o) \in Context
  <2> DEFINE r == Refreshed(c, o)
             v == BumpIf(r # c, c.state_version)
  <2>1. /\ r \in Context
        /\ r.last_observation_at = c.last_observation_at
        /\ r.last_source_frame_hex = c.last_source_frame_hex
        /\ r.state_version = c.state_version
    BY <1>3 DEF Refreshed, Context
  <2>2. Noop(c, o) =
          [r EXCEPT !.last_observation_at = Or(o.at, c.last_observation_at),
                    !.last_source_frame_hex = Or(o.frame, c.last_source_frame_hex),
                    !.communication_healthy = HealthAfter(c, o.event),
                    !.state_version = v]
    BY <2>1 DEF Noop
  <2>3. v \in Nat
    BY <1>0 DEF BumpIf
  <2> HIDE DEF r, v
  <2> QED
    BY <2>1, <2>2, <2>3, <1>o, <1>h DEF Context, C
<1>5. ASSUME HasTransition(c.current_state, o.event) PROVE Move(c, o) \in Context
  <2>1. Target(c.current_state, o.event) \in PumpState
    BY <1>5, TargetIsLeadTo
  <2> QED
    BY <2>1, <1>o, <1>0, <1>v, <1>h, <1>f, <1>t, <1>e DEF Move, Context, C
<1> QED
  BY <1>1, <1>2, <1>4, <1>5, ApplyByOutcome, TransitionConditions DEF Outcome, Rejections

\* A duplicate, unknown or repeated observation leaves the life cycle alone.
LEMMA StateKept ==
  ASSUME NEW c \in Context, NEW o \in Observations,
         Outcome(c, o) # "transition_applied"
  PROVE  /\ Apply(c, o).current_state = c.current_state
         /\ Apply(c, o).completed_evidence_keys = c.completed_evidence_keys
         /\ Apply(c, o).communication_healthy # c.communication_healthy =>
              /\ Outcome(c, o) = "same_state_noop"
              /\ Apply(c, o).communication_healthy = HealthAfter(c, o.event)
<1>1. Seen(c, o).current_state = c.current_state
      /\ Seen(c, o).completed_evidence_keys = c.completed_evidence_keys
      /\ Seen(c, o).communication_healthy = c.communication_healthy
  BY DEF Seen, Context
<1>2. KeepUnknown(c, o).current_state = c.current_state
      /\ KeepUnknown(c, o).completed_evidence_keys = c.completed_evidence_keys
      /\ KeepUnknown(c, o).communication_healthy = c.communication_healthy
  BY DEF KeepUnknown, Context
<1>3. Noop(c, o).current_state = c.current_state
      /\ Noop(c, o).completed_evidence_keys = c.completed_evidence_keys
      /\ Noop(c, o).communication_healthy = HealthAfter(c, o.event)
  BY DEF Noop, Refreshed, Context, HealthAfter
<1> QED
  BY <1>1, <1>2, <1>3, ApplyByOutcome DEF Outcome, Rejections

\* What a transition does to the fields the invariant is about.
LEMMA MoveFields ==
  ASSUME NEW c \in Context, NEW o
  PROVE  /\ Move(c, o).current_state = Target(c.current_state, o.event)
         /\ Move(c, o).completed_evidence_keys = EvidenceAfter(c, o)
         /\ Move(c, o).communication_healthy = HealthAfter(c, o.event)
BY DEF Move, Context

\* A pump that transits to DISCONNECTED has lost communication.
LEMMA DisconnectedByLoss ==
  ASSUME NEW s \in PumpState, NEW e, HasTransition(s, e), Target(s, e) = "DISCONNECTED"
  PROVE  e = "COMMUNICATION_LOST"
BY TargetIsLeadTo DEF Leads, TransitionTable

LEMMA InitInv == Init => Inv
<1> SUFFICES ASSUME Init PROVE Inv
  OBVIOUS
<1> USE DEF Init
<1>0. ctx.current_state = "DISCONNECTED" /\ ctx.communication_healthy = FALSE
      /\ ctx.completed_evidence_keys = {}
  BY DEF NewContext
<1>1. TypeOK
  <2>1. ctx \in Context
    BY DEF NewContext, Context, Carried, PumpState
  <2> QED
    BY <2>1 DEF TypeOK
<1>2. FuellingWasAuthorized /\ HealthyMeansConnected
  BY <1>0 DEF FuellingWasAuthorized, HealthyMeansConnected, SaleStates
<1>3. EvidenceIsRecorded
  BY <1>0 DEF EvidenceIsRecorded
<1> QED
  BY <1>1, <1>2, <1>3 DEF Inv

LEMMA StepInv == Inv /\ [Next]_vars => Inv'
<1> SUFFICES ASSUME Inv, [Next]_vars PROVE Inv'
  OBVIOUS
<1>1. CASE UNCHANGED vars
  BY <1>1 DEF vars, Inv, TypeOK, FuellingWasAuthorized, HealthyMeansConnected,
              EvidenceIsRecorded
<1>2. ASSUME NEW o \in Observations,
             Reject(o) \/ IgnoreDuplicate(o) \/ PreserveUnknown(o) \/ RepeatState(o)
      PROVE  Inv'
  \* No transition: the state and the evidence stay, and health can only
  \* change through a repeated observation of the state the pump is in.
  <2>1. /\ ctx \in Context /\ ctx' = Apply(ctx, o)
        /\ Outcome(ctx, o) # "transition_applied"
        /\ confirmed' = confirmed /\ completions' = completions
    BY <1>2 DEF Inv, TypeOK, Reject, IgnoreDuplicate, PreserveUnknown, RepeatState,
                Yields, Rejections
  <2>2. ctx'.current_state = ctx.current_state
        /\ ctx'.completed_evidence_keys = ctx.completed_evidence_keys
    BY <2>1, StateKept
  <2>3. TypeOK'
    BY <2>1, ApplyKeepsContext DEF Inv, TypeOK
  <2>4. HealthyMeansConnected'
    <3>1. CASE ctx'.communication_healthy = ctx.communication_healthy
      BY <2>2, <3>1 DEF Inv, HealthyMeansConnected
    <3>2. CASE ctx'.communication_healthy # ctx.communication_healthy
      <4>1. /\ Outcome(ctx, o) = "same_state_noop"
            /\ ctx'.communication_healthy = HealthAfter(ctx, o.event)
        BY <2>1, <3>2, StateKept
      <4>2. <<ctx.current_state, o.event>> \in SameStateNoopEvents
        BY <4>1 DEF Outcome
      <4>3. ctx.current_state = "DISCONNECTED" => o.event = "COMMUNICATION_LOST"
        BY <4>2 DEF SameStateNoopEvents
      <4> QED
        BY <2>2, <4>1, <4>3 DEF HealthAfter, HealthyMeansConnected
    <3> QED
      BY <3>1, <3>2
  <2>5. FuellingWasAuthorized' /\ EvidenceIsRecorded'
    BY <2>1, <2>2 DEF Inv, FuellingWasAuthorized, EvidenceIsRecorded
  <2> QED
    BY <2>3, <2>4, <2>5 DEF Inv
<1>3. ASSUME NEW o \in Observations, Transit(o) PROVE Inv'
  <2>1. /\ ctx \in Context /\ Outcome(ctx, o) = "transition_applied"
        /\ ctx' = Apply(ctx, o)
    BY <1>3 DEF Transit, Yields, Inv, TypeOK
  <2>2. /\ ctx' = Move(ctx, o)
        /\ ~IsDuplicateCompletion(ctx, o) /\ ~IsUnconfirmedFilling(ctx, o)
        /\ HasTransition(ctx.current_state, o.event)
    BY <2>1, ApplyByOutcome, TransitionConditions
  <2> DEFINE s == ctx.current_state
             t == Target(s, o.event)
  <2>3. /\ ctx'.current_state = t
        /\ ctx'.completed_evidence_keys = EvidenceAfter(ctx, o)
        /\ ctx'.communication_healthy = HealthAfter(ctx, o.event)
        /\ s \in PumpState
    BY <2>1, <2>2, MoveFields DEF Context
  <2>4. confirmed' \in BOOLEAN /\ (confirmed' <=>
             \/ o.event = "AUTHORIZATION_CONFIRMED"
             \/ o.event = "FILLING_STARTED" /\ o.implicit
             \/ confirmed /\ ctx'.current_state \in SaleStates)
    BY <1>3 DEF Transit
  <2>5. /\ completions \in [EvidenceKeys -> Nat]
        /\ o.key \in EvidenceKeys \union {None}
        /\ completions' = IF o.event = "FILLING_COMPLETED" /\ o.key # None
                          THEN [completions EXCEPT ![o.key] = @ + 1]
                          ELSE completions
    BY <1>3, ObservationTypes DEF Transit, Inv, TypeOK
  <2>6. TypeOK'
    <3>1. completions' \in [EvidenceKeys -> Nat]
      BY <2>5
    <3>2. ctx' \in Context
      BY <2>1, ApplyKeepsContext
    <3> QED
      BY <3>1, <3>2, <2>4 DEF TypeOK
  <2>7. FuellingWasAuthorized'
    <3> SUFFICES ASSUME t \in SaleStates \union {"AUTHORIZED"},
                        o.event # "AUTHORIZATION_CONFIRMED"
                 PROVE  confirmed'
      BY <2>3, <2>4 DEF FuellingWasAuthorized
    <3>1. /\ t \in SaleStates
          /\ \/ s \in SaleStates \union {"AUTHORIZED"}
             \/ s = "NOZZLE_UP" /\ o.event = "FILLING_STARTED"
      BY <2>2, <2>3, SaleEntry
    <3>2. s = "NOZZLE_UP" /\ o.event = "FILLING_STARTED" => o.implicit
      BY <2>2 DEF IsUnconfirmedFilling
    <3>3. s \in SaleStates \union {"AUTHORIZED"} => confirmed
      BY DEF Inv, FuellingWasAuthorized
    <3> QED
      BY <3>1, <3>2, <3>3, <2>3, <2>4
  <2>8. HealthyMeansConnected'
    BY <2>2, <2>3, DisconnectedByLoss DEF HealthyMeansConnected, HealthAfter
  <2>9. EvidenceIsRecorded'
    <3> SUFFICES ASSUME NEW k \in EvidenceKeys
                 PROVE  completions'[k] = IF k \in EvidenceAfter(ctx, o) THEN 1 ELSE 0
      BY <2>3 DEF EvidenceIsRecorded
    <3>1. completions[k] = IF k \in ctx.completed_evidence_keys THEN 1 ELSE 0
      BY DEF Inv, EvidenceIsRecorded
    <3>2. CASE o.event = "FILLING_COMPLETED" /\ o.key # None
      <4>1. o.key \notin ctx.completed_evidence_keys
        BY <3>2, <2>2 DEF IsDuplicateCompletion
      <4>2. EvidenceAfter(ctx, o) = ctx.completed_evidence_keys \union {o.key}
        BY <3>2 DEF EvidenceAfter
      <4>3. completions'[k] = IF k = o.key THEN completions[k] + 1 ELSE completions[k]
        BY <3>2, <2>5
      <4> QED
        BY <3>1, <4>1, <4>2, <4>3
    <3>3. CASE ~(o.event = "FILLING_COMPLETED" /\ o.key # None)
      BY <3>1, <3>3, <2>5 DEF EvidenceAfter
    <3> QED
      BY <3>2, <3>3
  <2> QED
    BY <2>6, <2>7, <2>8, <2>9 DEF Inv
<1> QED
  BY <1>1, <1>2, <1>3 DEF Next

LEMMA InvHolds == Spec => []Inv
BY InitInv, StepInv, PTL DEF Spec

-----------------------------------------------------------------------------

\* The machine always holds a well-formed context whose optional fields are
\* absent or come from an observation.
THEOREM TypeCorrect == Spec => []TypeOK
<1>1. Inv => TypeOK
  BY DEF Inv
<1> QED
  BY <1>1, InvHolds, PTL

\* No sequence of observations takes a pump into a sale that was neither
\* confirmed by the pump nor explicitly allowed to be implicit.
THEOREM NoUnauthorizedSale == Spec => []FuellingWasAuthorized
<1>1. Inv => FuellingWasAuthorized
  BY DEF Inv
<1> QED
  BY <1>1, InvHolds, PTL

\* Completion evidence completes at most one sale, however often and whenever
\* it is replayed.
THEOREM EvidenceUsedOnce == Spec => []CompletedOncePerEvidence
<1>1. Inv => CompletedOncePerEvidence
  BY DEF Inv, EvidenceIsRecorded, CompletedOncePerEvidence
<1> QED
  BY <1>1, InvHolds, PTL

\* A disconnected pump is never reported healthy.
THEOREM HealthIsHonest == Spec => []HealthyMeansConnected
<1>1. Inv => HealthyMeansConnected
  BY DEF Inv
<1> QED
  BY <1>1, InvHolds, PTL

-----------------------------------------------------------------------------
(* Action properties: what no single apply may do. *)

\* Every way out of apply keeps the observation's time or, if it is not stale,
\* takes it over.
LEMMA TimeOfApply ==
  ASSUME NEW c \in Context, NEW o \in Observations
  PROVE  \/ Apply(c, o).last_observation_at = c.last_observation_at
         \/ /\ ~IsStale(c, o)
            /\ Apply(c, o).last_observation_at = Or(o.at, c.last_observation_at)
<1>1. Seen(c, o).last_observation_at = Or(o.at, c.last_observation_at)
  BY DEF Seen, Context
<1>2. KeepUnknown(c, o).last_observation_at = Or(o.at, c.last_observation_at)
  BY DEF KeepUnknown, Context
<1>3. Noop(c, o).last_observation_at = Or(o.at, c.last_observation_at)
  BY DEF Noop, Refreshed, Context
<1>4. Move(c, o).last_observation_at = Or(o.at, c.last_observation_at)
  BY DEF Move, Context
<1> QED
  BY <1>1, <1>2, <1>3, <1>4, ApplyByOutcome DEF Outcome, Rejections

\* A step of the machine is one call of apply.
LEMMA StepIsApply ==
  ASSUME Next PROVE \E o \in Observations : ctx' = Apply(ctx, o)
BY DEF Next, Reject, IgnoreDuplicate, PreserveUnknown, RepeatState, Transit, Yields

\* The machine's observation time never moves back, whatever late observations
\* are replayed to it.
THEOREM TimeIsMonotonic == Spec => TimeNeverGoesBack
<1> DEFINE Later == ctx.last_observation_at # None =>
                      /\ ctx'.last_observation_at # None
                      /\ ctx'.last_observation_at >= ctx.last_observation_at
<1>1. ASSUME Inv, Next PROVE Later
  <2>1. PICK o \in Observations : ctx' = Apply(ctx, o)
    BY <1>1, StepIsApply
  <2>2. ctx \in Context
    BY <1>1 DEF Inv, TypeOK
  <2>3. ctx.last_observation_at \in Nat \union {None} /\ o.at \in Nat \union {None}
    BY <2>2, ObservationTypes DEF Context
  <2>4. \/ ctx'.last_observation_at = ctx.last_observation_at
        \/ /\ ~IsStale(ctx, o)
           /\ ctx'.last_observation_at = Or(o.at, ctx.last_observation_at)
    BY <2>1, <2>2, TimeOfApply
  <2> QED
    BY <2>3, <2>4, ConstantAssumption DEF IsStale, Or, ConstantAssumption
<1>2. Inv /\ [Next]_vars => [Later]_vars
  BY <1>1
<1> QED
  BY <1>2, InvHolds, PTL DEF Spec, TimeNeverGoesBack

\* A transition that is not a same-state noop leaves its state.
LEMMA TransitionMoves ==
  ASSUME NEW s \in PumpState, NEW e, HasTransition(s, e), <<s, e>> \notin SameStateNoopEvents
  PROVE  Target(s, e) # s
<1>1. Leads(s, e, Target(s, e))
  BY TargetIsLeadTo
<1>2. <<s, e, s>> \notin TransitionTable
  BY DEF TransitionTable, SameStateNoopEvents
<1> QED
  BY <1>1, <1>2 DEF Leads, OperationalStates, SameStateNoopEvents

\* All that changes of a reader's view is that the pump is healthy.
OnlyHealthGained(c, d) ==
  /\ c.current_state = "DISCOVERING"
  /\ Versioned(d) = Versioned([c EXCEPT !.communication_healthy = TRUE])

\* The two events that change the health of a machine that stays where it is.
LEMMA NoopHealth ==
  ASSUME NEW c \in Context, c.communication_healthy => c.current_state # "DISCONNECTED",
         NEW e, <<c.current_state, e>> \in SameStateNoopEvents,
         HealthAfter(c, e) # c.communication_healthy
  PROVE  c.current_state = "DISCOVERING" /\ HealthAfter(c, e) = TRUE
<1>1. e \in {"COMMUNICATION_LOST", "COMMUNICATION_STARTED"}
  BY DEF HealthAfter
<1>2. CASE e = "COMMUNICATION_LOST"
  <2>1. c.current_state = "DISCONNECTED"
    BY <1>2 DEF SameStateNoopEvents
  <2> QED
    BY <1>2, <2>1 DEF HealthAfter, Context
<1>3. CASE e = "COMMUNICATION_STARTED"
  BY <1>3 DEF SameStateNoopEvents, HealthAfter
<1> QED
  BY <1>1, <1>2, <1>3

\* _apply_context_fields bumps the version for exactly the fields it changes;
\* the health apply sets after it has no part in that.
LEMMA NoopVersion ==
  ASSUME NEW c \in Context, c.communication_healthy => c.current_state # "DISCONNECTED",
         NEW o \in Observations, <<c.current_state, o.event>> \in SameStateNoopEvents
  PROVE  Noop(c, o).state_version =
           IF Versioned(Noop(c, o)) = Versioned(c) \/ OnlyHealthGained(c, Noop(c, o))
           THEN c.state_version ELSE c.state_version + 1
<1> DEFINE r == Refreshed(c, o)
           n == Noop(c, o)
           Fields(d) == <<d.selected_nozzle, d.active_transaction_id,
                          d.last_raw_wayne_status, d.price_verified, d.fault_code>>
<1>1. n.state_version = BumpIf(r # c, c.state_version)
  BY DEF Noop, Refreshed, Context
<1>2. /\ n.current_state = c.current_state /\ Fields(n) = Fields(r)
      /\ n.communication_healthy = HealthAfter(c, o.event)
  BY DEF Noop, Refreshed, Context, HealthAfter
<1>3. r = c => Fields(r) = Fields(c)
  OBVIOUS
<1>4. ASSUME Fields(r) = Fields(c) PROVE r = c
  <2>1. /\ Or(o.nozzle, c.selected_nozzle) = c.selected_nozzle
        /\ Or(o.tx, c.active_transaction_id) = c.active_transaction_id
        /\ Or(o.raw, c.last_raw_wayne_status) = c.last_raw_wayne_status
        /\ Or(o.price, c.price_verified) = c.price_verified
        /\ Or(o.fault, c.fault_code) = c.fault_code
    BY <1>4 DEF Refreshed, Context
  <2> QED
    BY <2>1 DEF Refreshed, Context
<1>5. /\ Versioned(n) = Versioned(c) => Fields(n) = Fields(c)
      /\ OnlyHealthGained(c, n) => Fields(n) = Fields(c)
  BY DEF Versioned, OnlyHealthGained, Context
<1>6. ASSUME Fields(n) = Fields(c)
      PROVE  Versioned(n) = Versioned(c) \/ OnlyHealthGained(c, n)
  <2>1. CASE HealthAfter(c, o.event) = c.communication_healthy
    BY <1>2, <1>6, <2>1 DEF Versioned
  <2>2. CASE HealthAfter(c, o.event) # c.communication_healthy
    <3>1. c.current_state = "DISCOVERING" /\ n.communication_healthy = TRUE
      BY <1>2, <2>2, NoopHealth
    <3> QED
      BY <1>2, <1>6, <3>1 DEF Versioned, OnlyHealthGained, Context
  <2> QED
    BY <2>1, <2>2
<1>7. Fields(n) = Fields(c) <=> r = c
  BY <1>2, <1>3, <1>4
<1> HIDE DEF r, n, Fields
<1>8. n.state_version = IF Versioned(n) = Versioned(c) \/ OnlyHealthGained(c, n)
                        THEN c.state_version ELSE c.state_version + 1
  BY <1>1, <1>5, <1>6, <1>7 DEF BumpIf
<1> QED
  BY <1>8 DEF n

\* apply bumps the version once for every change of the view, a health gained
\* in DISCOVERING apart, and never else.
LEMMA VersionOfApply ==
  ASSUME NEW c \in Context, c.communication_healthy => c.current_state # "DISCONNECTED",
         NEW o \in Observations
  PROVE  Apply(c, o).state_version =
           IF Versioned(Apply(c, o)) = Versioned(c) \/ OnlyHealthGained(c, Apply(c, o))
           THEN c.state_version ELSE c.state_version + 1
<1>1. Seen(c, o).state_version = c.state_version /\ Versioned(Seen(c, o)) = Versioned(c)
  BY DEF Seen, Context, Versioned
<1>2. KeepUnknown(c, o).state_version =
        IF Versioned(KeepUnknown(c, o)) = Versioned(c) \/ OnlyHealthGained(c, KeepUnknown(c, o))
        THEN c.state_version ELSE c.state_version + 1
  <2>1. KeepUnknown(c, o).state_version =
          BumpIf(o.raw # None /\ o.raw # c.last_raw_wayne_status, c.state_version)
    BY DEF KeepUnknown, Context
  <2>2. Versioned(KeepUnknown(c, o)) = Versioned(c)
          <=> Or(o.raw, c.last_raw_wayne_status) = c.last_raw_wayne_status
    BY DEF KeepUnknown, Context, Versioned
  <2>3. OnlyHealthGained(c, KeepUnknown(c, o))
          => Or(o.raw, c.last_raw_wayne_status) = c.last_raw_wayne_status
    BY DEF KeepUnknown, Context, Versioned, OnlyHealthGained
  <2> QED
    BY <2>1, <2>2, <2>3 DEF BumpIf, Or
<1>3. ASSUME Outcome(c, o) = "transition_applied"
      PROVE  /\ Move(c, o).state_version = c.state_version + 1
             /\ Versioned(Move(c, o)) # Versioned(c)
             /\ ~OnlyHealthGained(c, Move(c, o))
  <2>1. Target(c.current_state, o.event) # c.current_state
    BY <1>3, TransitionConditions, TransitionMoves DEF Context
  <2>2. Move(c, o).state_version = c.state_version + 1
    BY DEF Move, Context
  <2>3. Move(c, o).current_state # c.current_state
    BY <2>1, MoveFields
  <2> QED
    BY <2>2, <2>3 DEF Versioned, OnlyHealthGained, Context
<1>4. ASSUME Outcome(c, o) = "same_state_noop"
      PROVE  <<c.current_state, o.event>> \in SameStateNoopEvents
  BY <1>4 DEF Outcome
<1> QED
  BY <1>1, <1>2, <1>3, <1>4, NoopVersion, ApplyByOutcome DEF Outcome, Rejections

\* Readers may compare versions: for every set of observations a change of the
\* view, communication_healthy included, is one step of the version, and with an
\* equal version the view is equal up to a health that a repeated
\* COMMUNICATION_STARTED gave back in DISCOVERING.
THEOREM VersionIsFaithful == Spec => VersionFollowsView
<1> DEFINE Faithful == ctx'.state_version =
                         IF Versioned(ctx') = Versioned(ctx) \/ RegainsHealth
                         THEN ctx.state_version
                         ELSE ctx.state_version + 1
<1>1. ASSUME Inv, Next PROVE Faithful
  <2>1. PICK o \in Observations : ctx' = Apply(ctx, o)
    BY <1>1, StepIsApply
  <2>2. RegainsHealth <=> OnlyHealthGained(ctx, ctx')
    BY DEF RegainsHealth, OnlyHealthGained
  <2> QED
    BY <1>1, <2>1, <2>2, VersionOfApply DEF Inv, TypeOK, HealthyMeansConnected
<1>2. Inv /\ [Next]_vars => [Faithful]_vars
  BY <1>1
<1> QED
  BY <1>2, InvHolds, PTL DEF Spec, VersionFollowsView

=============================================================================

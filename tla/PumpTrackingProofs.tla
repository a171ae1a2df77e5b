------------------------- MODULE PumpTrackingProofs -------------------------
(***************************************************************************)
(* The simulated pump's filling engine, its sales, amounts, totals and     *)
(* alarms, for any nozzles, prices, presets and limits.                    *)
(***************************************************************************)
EXTENDS PumpTracking, ControllerSessionProofs, SequenceTheorems, FiniteSetTheorems

Flowing == {"FILLING", "SUSPENDED"}

\* AUTHORIZED and LIMIT_REACHED are passed through within one operation.
Settled == PumpState \ {"AUTHORIZED", "LIMIT_REACHED"}

-----------------------------------------------------------------------------
(* The transition table. *)

\* Where an event that is no duplicate takes a machine that was not told of an
\* implicit authorization.
After(s, e) ==
  IF \/ s = "NOZZLE_UP" /\ e = "FILLING_STARTED"
     \/ <<s, e>> \in SameStateNoopEvents
     \/ ~HasTransition(s, e)
  THEN s ELSE Target(s, e)

LEMMA AfterLeads ==
  ASSUME NEW s \in PumpState, NEW e, After(s, e) # s
  PROVE  After(s, e) \in PumpState /\ Leads(s, e, After(s, e))
         /\ ~(s = "NOZZLE_UP" /\ e = "FILLING_STARTED")
BY DEF After, HasTransition, Target

LEMMA AfterState == ASSUME NEW s \in PumpState, NEW e  PROVE After(s, e) \in PumpState
BY AfterLeads

\* The table has one entry for a pair of state and event.
LEMMA AfterIsEntry ==
  ASSUME NEW s \in PumpState, NEW e, NEW t \in PumpState,
         <<s, e, t>> \in TransitionTable, e \notin {"COMMUNICATION_LOST", "FAULT_OBSERVED",
                                                    "MAINTENANCE_ENTERED"},
         <<s, e>> \notin SameStateNoopEvents,
         ~(s = "NOZZLE_UP" /\ e = "FILLING_STARTED")
  PROVE  After(s, e) = t
<1>1. HasTransition(s, e)
  BY DEF HasTransition, Leads
<1>2. After(s, e) = Target(s, e)
  BY <1>1 DEF After
<1>3. Leads(s, e, Target(s, e))
  BY <1>1 DEF HasTransition, Target
<1>4. <<s, e, Target(s, e)>> \in TransitionTable
  BY <1>3 DEF Leads
<1> HIDE DEF After
<1> DEFINE u == Target(s, e)
<1> HIDE DEF u
<1>5. \A v : <<s, e, t>> \in TransitionTable /\ <<s, e, v>> \in TransitionTable => v = t
  BY DEF TransitionTable
<1> QED  BY <1>2, <1>4, <1>5

\* The events an operation other than a sale's passes to the machine.
Quiet == {"COMMUNICATION_STARTED", "PUMP_DISCOVERED", "RESET_OBSERVED", "READY_OBSERVED",
          "NOZZLE_LIFTED", "NOZZLE_RETURNED", "FAULT_CLEARED"}

LEMMA QuietState ==
  ASSUME NEW s \in Settled, NEW e \in Quiet
  PROVE  /\ After(s, e) \in Settled
         /\ s \in Flowing => After(s, e) = s
         /\ s \notin Flowing => After(s, e) \notin Flowing
<1> DEFINE t == After(s, e)
<1>1. s \in PumpState
  BY DEF Settled
<1>2. CASE t = s
  BY <1>2
<1>3. CASE t # s
  <2>1. <<s, e, t>> \in TransitionTable
    BY <1>1, <1>3, AfterLeads DEF Leads, Quiet
  <2>2. t \in PumpState
    BY <1>1, AfterState
  <2> HIDE DEF t
  <2>3. s \notin Flowing /\ t \notin Flowing /\ t \in Settled
    BY <2>1, <2>2 DEF TransitionTable, Quiet, Flowing, Settled
  <2> QED  BY <2>3 DEF t
<1> QED  BY <1>2, <1>3

\* The events of a sale, in the states the pump has them.
LEMMA SaleTransitions ==
  /\ After("NOZZLE_UP", "AUTHORIZATION_CONFIRMED") = "AUTHORIZED"
  /\ After("AUTHORIZED", "FILLING_STARTED") = "FILLING"
  /\ After("FILLING", "FILLING_UPDATED") = "FILLING"
  /\ After("FILLING", "SUSPENDED_OBSERVED") = "SUSPENDED"
  /\ After("SUSPENDED", "RESUMED_OBSERVED") = "FILLING"
  /\ After("FILLING", "LIMIT_REACHED") = "LIMIT_REACHED"
  /\ \A s \in {"FILLING", "SUSPENDED", "LIMIT_REACHED"} :
       After(s, "FILLING_COMPLETED") = "FILLING_COMPLETE"
<1>1. After("NOZZLE_UP", "AUTHORIZATION_CONFIRMED") = "AUTHORIZED"
  BY AfterIsEntry DEF TransitionTable, SameStateNoopEvents, PumpState
<1>2. After("AUTHORIZED", "FILLING_STARTED") = "FILLING"
  BY AfterIsEntry DEF TransitionTable, SameStateNoopEvents, PumpState
<1>3. After("FILLING", "FILLING_UPDATED") = "FILLING"
  BY DEF After, SameStateNoopEvents
<1>4. After("FILLING", "SUSPENDED_OBSERVED") = "SUSPENDED"
  BY AfterIsEntry DEF TransitionTable, SameStateNoopEvents, PumpState
<1>5. After("SUSPENDED", "RESUMED_OBSERVED") = "FILLING"
  BY AfterIsEntry DEF TransitionTable, SameStateNoopEvents, PumpState
<1>6. After("FILLING", "LIMIT_REACHED") = "LIMIT_REACHED"
  BY AfterIsEntry DEF TransitionTable, SameStateNoopEvents, PumpState
<1>7. \A s \in {"FILLING", "SUSPENDED", "LIMIT_REACHED"} :
        After(s, "FILLING_COMPLETED") = "FILLING_COMPLETE"
  BY AfterIsEntry DEF TransitionTable, SameStateNoopEvents, PumpState
<1> QED  BY <1>1, <1>2, <1>3, <1>4, <1>5, <1>6, <1>7

\* A fault and a lost line end every state a sale is in.
LEMMA Interruptions ==
  ASSUME NEW s \in Settled
  PROVE  /\ After(s, "FAULT_OBSERVED") \in Settled \ Flowing
         /\ After(s, "COMMUNICATION_LOST") \in Settled \ Flowing
<1>1. s \in PumpState
  BY DEF Settled
<1>2. HasTransition(s, "COMMUNICATION_LOST")
  BY <1>1 DEF HasTransition, Leads, PumpState
<1>3. s # "DISCONNECTED" => HasTransition(s, "FAULT_OBSERVED")
  BY <1>1 DEF HasTransition, Leads, PumpState, OperationalStates
<1>4. \A t : Leads(s, "COMMUNICATION_LOST", t) => t = "DISCONNECTED"
  BY DEF Leads, TransitionTable
<1>5. \A t : Leads(s, "FAULT_OBSERVED", t) => t = "FAULTED"
  BY DEF Leads, TransitionTable
<1>6. After(s, "COMMUNICATION_LOST") \in Settled \ Flowing
  <2>1. CASE After(s, "COMMUNICATION_LOST") # s
    BY <1>1, <1>4, <2>1, AfterLeads DEF Settled, Flowing
  <2>2. CASE After(s, "COMMUNICATION_LOST") = s
    <3>1. <<s, "COMMUNICATION_LOST">> \in SameStateNoopEvents \/ Leads(s, "COMMUNICATION_LOST", s)
      BY <1>2, <2>2 DEF After, HasTransition, Target
    <3>2. s = "DISCONNECTED"
      BY <1>4, <3>1 DEF SameStateNoopEvents
    <3> QED  BY <2>2, <3>2 DEF Settled, Flowing, PumpState
  <2> QED  BY <2>1, <2>2
<1>7. After(s, "FAULT_OBSERVED") \in Settled \ Flowing
  <2>1. CASE After(s, "FAULT_OBSERVED") # s
    BY <1>1, <1>5, <2>1, AfterLeads DEF Settled, Flowing
  <2>2. CASE After(s, "FAULT_OBSERVED") = s
    <3>1. \/ <<s, "FAULT_OBSERVED">> \in SameStateNoopEvents \/ s = "DISCONNECTED"
          \/ Leads(s, "FAULT_OBSERVED", s)
      BY <1>3, <2>2 DEF After, HasTransition, Target
    <3>2. s \in {"DISCONNECTED", "FAULTED"}
      BY <1>5, <3>1 DEF SameStateNoopEvents
    <3> QED  BY <2>2, <3>2 DEF Settled, Flowing, PumpState
  <2> QED  BY <2>1, <2>2
<1> QED  BY <1>6, <1>7

-----------------------------------------------------------------------------
(* The pump's machine. *)

Chosen == Nozzles \union {None}
Number == Nat \union {None}
Fault == {None, 1}
Keys == Number \X Nat \X Nat

Context ==
  [current_state: PumpState, previous_state: PumpState \union {None},
   selected_nozzle: Chosen, active_transaction_id: Number,
   last_observation_at: {None}, last_raw_wayne_status: Number,
   communication_healthy: BOOLEAN, price_verified: BOOLEAN, fault_code: Fault,
   state_version: Nat, completed_evidence_keys: SUBSET Keys,
   last_source_frame_hex: {None}]

\* What the pump tells its machine.
Observation ==
  [event: PumpEvent \ {"UNKNOWN_OBSERVATION"}, frame: {None}, at: {None}, nozzle: Chosen,
   tx: Number, raw: Number, price: BOOLEAN \union {None},
   fault: Fault, key: Keys \union {None}, implicit: {FALSE}]

LEMMA ToldFields ==
  ASSUME NEW c \in Context, NEW o \in Observation
  PROVE  /\ Or(o.nozzle, c.selected_nozzle) \in Chosen
         /\ Or(o.tx, c.active_transaction_id) \in Number
         /\ Or(o.raw, c.last_raw_wayne_status) \in Number
         /\ Or(o.fault, c.fault_code) \in Fault
         /\ Or(o.frame, c.last_source_frame_hex) = None
         /\ Or(o.at, c.last_observation_at) = None
         /\ Or(o.price, c.price_verified) \in BOOLEAN
BY DEF Or, Context, Observation, Number, Fault, Chosen

LEMMA NoopContext ==
  ASSUME NEW c \in Context, NEW o \in Observation
  PROVE  /\ Noop(c, o) \in Context /\ Noop(c, o).current_state = c.current_state
         /\ Noop(c, o).completed_evidence_keys = c.completed_evidence_keys
<1> DEFINE r == Refreshed(c, o)
           v == BumpIf(r # c, c.state_version)
           h == HealthAfter(c, o.event)
<1>1. /\ r \in Context /\ r.current_state = c.current_state
      /\ r.completed_evidence_keys = c.completed_evidence_keys
      /\ r.last_observation_at = c.last_observation_at
      /\ r.last_source_frame_hex = c.last_source_frame_hex
      /\ r.state_version = c.state_version
  BY ToldFields DEF Refreshed, Context
<1>2. Noop(c, o) = [r EXCEPT !.last_observation_at = None, !.last_source_frame_hex = None,
                             !.communication_healthy = h, !.state_version = v]
  BY <1>1, ToldFields DEF Noop
<1>c. c.communication_healthy \in BOOLEAN /\ c.state_version \in Nat
  BY DEF Context
<1>v. v \in Nat
  BY <1>c DEF BumpIf
<1>h. h \in BOOLEAN
  BY <1>c DEF HealthAfter
<1>3. v \in Nat /\ h \in BOOLEAN
  BY <1>v, <1>h
<1> HIDE DEF r, v, h
<1> QED  BY <1>1, <1>2, <1>3 DEF Context

LEMMA MoveContext ==
  ASSUME NEW c \in Context, NEW o \in Observation, HasTransition(c.current_state, o.event)
  PROVE  /\ Move(c, o) \in Context
         /\ Move(c, o).current_state = Target(c.current_state, o.event)
         /\ Move(c, o).completed_evidence_keys = EvidenceAfter(c, o)
<1> DEFINE t == Target(c.current_state, o.event)
           h == HealthAfter(c, o.event)
           x == TransactionAfter(c, o, t)
           f == FaultAfter(c, o)
           k == EvidenceAfter(c, o)
<1>1. t \in PumpState /\ c.current_state \in PumpState
  BY DEF HasTransition, Target, Context
<1>c. /\ c.communication_healthy \in BOOLEAN /\ c.state_version \in Nat
      /\ c.completed_evidence_keys \in SUBSET Keys /\ o.key \in Keys \union {None}
  BY DEF Context, Observation
<1>h. h \in BOOLEAN
  BY <1>c DEF HealthAfter
<1>x. x \in Number
  BY ToldFields DEF TransactionAfter, Number
<1>f. f \in Fault
  BY ToldFields DEF FaultAfter, Fault
<1>k. k \in SUBSET Keys
  BY <1>c DEF EvidenceAfter
<1>p. c.current_state \in PumpState \union {None} /\ None \in {None}
  BY <1>1
<1>2. h \in BOOLEAN /\ x \in Number /\ f \in Fault /\ k \in SUBSET Keys
      /\ c.state_version + 1 \in Nat
  BY <1>c, <1>h, <1>x, <1>f, <1>k
<1> DEFINE n == Or(o.nozzle, c.selected_nozzle)
           w == Or(o.raw, c.last_raw_wayne_status)
           p == Or(o.price, c.price_verified)
<1>o. n \in Chosen /\ w \in Number /\ p \in BOOLEAN
  BY ToldFields
<1>3. Move(c, o) = [c EXCEPT !.previous_state = c.current_state, !.current_state = t,
                             !.state_version = c.state_version + 1,
                             !.last_observation_at = None,
                             !.communication_healthy = h, !.selected_nozzle = n,
                             !.active_transaction_id = x, !.last_raw_wayne_status = w,
                             !.price_verified = p, !.fault_code = f,
                             !.completed_evidence_keys = k, !.last_source_frame_hex = None]
  BY ToldFields DEF Move
<1> DEFINE d == [c EXCEPT !.previous_state = c.current_state, !.current_state = t,
                          !.state_version = c.state_version + 1,
                          !.last_observation_at = None,
                          !.communication_healthy = h, !.selected_nozzle = n]
<1> HIDE DEF t, h, x, f, k, n, w, p
<1>4. d \in Context /\ d.current_state = t
  BY <1>1, <1>2, <1>o, <1>p DEF Context
<1>5. Move(c, o) = [d EXCEPT !.active_transaction_id = x, !.last_raw_wayne_status = w,
                             !.price_verified = p, !.fault_code = f,
                             !.completed_evidence_keys = k, !.last_source_frame_hex = None]
  BY <1>3
<1> HIDE DEF d
<1>6. Move(c, o) \in Context /\ Move(c, o).current_state = t
      /\ Move(c, o).completed_evidence_keys = k
  BY <1>2, <1>4, <1>5, <1>o DEF Context
<1> QED  BY <1>6 DEF t, k

LEMMA AppliedContext ==
  ASSUME NEW c \in Context, NEW o \in Observation
  PROVE  /\ Apply(c, o) \in Context
         /\ Apply(c, o).completed_evidence_keys \in
              {c.completed_evidence_keys, EvidenceAfter(c, o)}
         /\ IF IsDuplicateCompletion(c, o)
            THEN Apply(c, o).current_state = c.current_state
            ELSE Apply(c, o).current_state = After(c.current_state, o.event)
<1>1. ~IsStale(c, o) /\ ~IsDuplicateFrame(c, o) /\ o.event # "UNKNOWN_OBSERVATION" /\ ~o.implicit
      /\ c.current_state \in PumpState
  BY DEF IsStale, IsDuplicateFrame, Observation, Context
<1>2. Seen(c, o) \in Context /\ Seen(c, o).current_state = c.current_state
      /\ Seen(c, o).completed_evidence_keys = c.completed_evidence_keys
  BY ToldFields DEF Seen, Context
<1>3. CASE IsDuplicateCompletion(c, o)
  <2>1. Outcome(c, o) = "duplicate_completion_evidence"
    BY <1>1, <1>3 DEF Outcome
  <2>2. Apply(c, o) = Seen(c, o)
    BY <2>1 DEF Apply, Rejections
  <2> QED  BY <1>2, <1>3, <2>2
<1>4. CASE ~IsDuplicateCompletion(c, o) /\ IsUnconfirmedFilling(c, o)
  <2>1. Outcome(c, o) = "implicit_authorize_not_supported"
    BY <1>1, <1>4 DEF Outcome
  <2>2. Apply(c, o) = c
    BY <2>1 DEF Apply, Rejections
  <2> QED  BY <1>4, <2>2 DEF After, IsUnconfirmedFilling
<1>5. CASE /\ ~IsDuplicateCompletion(c, o) /\ ~IsUnconfirmedFilling(c, o)
           /\ <<c.current_state, o.event>> \in SameStateNoopEvents
  <2>1. Outcome(c, o) = "same_state_noop"
    BY <1>1, <1>5 DEF Outcome
  <2>2. Apply(c, o) = Noop(c, o)
    BY <2>1 DEF Apply, Rejections
  <2> QED  BY <1>5, <2>2, NoopContext DEF After
<1>6. CASE /\ ~IsDuplicateCompletion(c, o) /\ ~IsUnconfirmedFilling(c, o)
           /\ <<c.current_state, o.event>> \notin SameStateNoopEvents
           /\ ~HasTransition(c.current_state, o.event)
  <2>1. Outcome(c, o) = "invalid_transition"
    BY <1>1, <1>6 DEF Outcome
  <2>2. Apply(c, o) = c
    BY <2>1 DEF Apply, Rejections
  <2> QED  BY <1>6, <2>2 DEF After
<1>7. CASE /\ ~IsDuplicateCompletion(c, o) /\ ~IsUnconfirmedFilling(c, o)
           /\ <<c.current_state, o.event>> \notin SameStateNoopEvents
           /\ HasTransition(c.current_state, o.event)
  <2>1. Outcome(c, o) = "transition_applied"
    BY <1>1, <1>7 DEF Outcome
  <2>2. Apply(c, o) = Move(c, o)
    BY <2>1 DEF Apply
  <2>3. After(c.current_state, o.event) = Target(c.current_state, o.event)
    BY <1>1, <1>7 DEF After, IsUnconfirmedFilling
  <2> QED  BY <1>7, <2>2, <2>3, MoveContext
<1> QED  BY <1>3, <1>4, <1>5, <1>6, <1>7

-----------------------------------------------------------------------------
(* The pump. *)

SimPump ==
  [ctx: Context, prices: [Nozzles -> Nat], volume: Nat, amount: Nat, total_volume: Nat,
   total_amount: Nat, selected_nozzle: Chosen, nozzle_out: BOOLEAN, price_verified: BOOLEAN,
   wayne_status: Nat, enabled: BOOLEAN, fault_code: Fault, active_transaction_id: Number,
   filling_active: BOOLEAN, suspended: BOOLEAN, preset_volume: Number,
   preset_amount: Number, sales: Nat]

\* Two pumps in the same place of the same sale, whatever their machines say.
SameSale(q, p) ==
  /\ q.volume = p.volume /\ q.amount = p.amount
  /\ q.active_transaction_id = p.active_transaction_id /\ q.sales = p.sales
  /\ q.filling_active = p.filling_active /\ q.suspended = p.suspended

SameTerms(q, p) == q.preset_volume = p.preset_volume /\ q.preset_amount = p.preset_amount

SameMachine(q, p) ==
  State(q) = State(p) /\ q.ctx.completed_evidence_keys = p.ctx.completed_evidence_keys

LEMMA SyncedContext ==
  ASSUME NEW p \in SimPump
  PROVE  /\ Synced(p) \in Context /\ Synced(p).current_state = State(p)
         /\ Synced(p).completed_evidence_keys = p.ctx.completed_evidence_keys
         /\ Synced(p).active_transaction_id = p.active_transaction_id
         /\ Synced(p).selected_nozzle = p.selected_nozzle
<1> DEFINE c == p.ctx
<1>1. /\ c \in Context /\ p.selected_nozzle \in Chosen /\ p.price_verified \in BOOLEAN
      /\ p.enabled \in BOOLEAN /\ p.active_transaction_id \in Number /\ p.fault_code \in Fault
      /\ p.wayne_status \in Number
  BY DEF SimPump, Number
<1>2. Synced(p) = [c EXCEPT !.selected_nozzle = p.selected_nozzle,
                            !.price_verified = p.price_verified,
                            !.communication_healthy = p.enabled,
                            !.active_transaction_id = p.active_transaction_id,
                            !.fault_code = p.fault_code,
                            !.last_raw_wayne_status = p.wayne_status]
  BY DEF Synced
<1>3. State(p) = c.current_state
  BY DEF State
<1> HIDE DEF c
<1>4. Synced(p) \in Context /\ Synced(p).current_state = c.current_state
      /\ Synced(p).completed_evidence_keys = c.completed_evidence_keys
      /\ Synced(p).active_transaction_id = p.active_transaction_id
      /\ Synced(p).selected_nozzle = p.selected_nozzle
  BY <1>1, <1>2 DEF Context
<1> QED  BY <1>3, <1>4 DEF c

LEMMA UnversionedContext ==
  ASSUME NEW c \in Context
  PROVE  /\ Unversioned(c) \in Context /\ Unversioned(c).current_state = c.current_state
         /\ Unversioned(c).completed_evidence_keys = c.completed_evidence_keys
BY DEF Unversioned, Context

LEMMA AppliedPump ==
  ASSUME NEW p \in SimPump, NEW o \in Observation
  PROVE  LET q == Applied(p, o) IN
         /\ q \in SimPump /\ SameSale(q, p) /\ SameTerms(q, p)
         /\ q.total_volume = p.total_volume /\ q.total_amount = p.total_amount
         /\ q.ctx.completed_evidence_keys \in
              {p.ctx.completed_evidence_keys,
               p.ctx.completed_evidence_keys \union ({o.key} \ {None})}
         /\ IF o.event = "FILLING_COMPLETED" /\ o.key # None
                 /\ o.key \in p.ctx.completed_evidence_keys
            THEN State(q) = State(p) ELSE State(q) = After(State(p), o.event)
<1> DEFINE y == Synced(p)
           a == Apply(y, o)
           c == Unversioned(a)
           q == Applied(p, o)
           n == IF o.event = "COMMUNICATION_LOST" THEN FALSE
                ELSE IF o.event = "COMMUNICATION_STARTED" THEN TRUE ELSE p.enabled
<1>1. y \in Context /\ y.current_state = State(p)
      /\ y.completed_evidence_keys = p.ctx.completed_evidence_keys
  BY SyncedContext
<1>2. /\ a \in Context
      /\ a.completed_evidence_keys \in {y.completed_evidence_keys, EvidenceAfter(y, o)}
      /\ IF IsDuplicateCompletion(y, o) THEN a.current_state = y.current_state
         ELSE a.current_state = After(y.current_state, o.event)
  BY <1>1, AppliedContext
<1>3. /\ c \in Context /\ c.current_state = a.current_state
      /\ c.completed_evidence_keys = a.completed_evidence_keys
  BY <1>2, UnversionedContext
<1>4. p.enabled \in BOOLEAN /\ c.price_verified \in BOOLEAN
  BY <1>3 DEF SimPump, Context
<1>5. n \in BOOLEAN
  BY <1>4
<1>6. q = [p EXCEPT !.ctx = c, !.price_verified = c.price_verified, !.enabled = n]
  BY DEF Applied
<1> HIDE DEF c, n, q
<1>7. q \in SimPump /\ q.ctx = c /\ q.total_volume = p.total_volume
      /\ q.total_amount = p.total_amount
  BY <1>3, <1>4, <1>5, <1>6 DEF SimPump
<1>8. SameSale(q, p) /\ SameTerms(q, p)
  BY <1>6 DEF SimPump, SameSale, SameTerms
<1>9. /\ State(q) = a.current_state
      /\ q.ctx.completed_evidence_keys \in {y.completed_evidence_keys, EvidenceAfter(y, o)}
  BY <1>2, <1>3, <1>7 DEF State
<1> HIDE DEF a, y
<1>10. /\ q.ctx.completed_evidence_keys \in
              {p.ctx.completed_evidence_keys,
               p.ctx.completed_evidence_keys \union ({o.key} \ {None})}
  BY <1>1, <1>9 DEF EvidenceAfter
<1>11. IF o.event = "FILLING_COMPLETED" /\ o.key # None
             /\ o.key \in p.ctx.completed_evidence_keys
       THEN State(q) = State(p) ELSE State(q) = After(State(p), o.event)
  BY <1>1, <1>2, <1>9 DEF IsDuplicateCompletion
<1> QED  BY <1>7, <1>8, <1>10, <1>11 DEF q

-----------------------------------------------------------------------------
(* The inductive invariant, of a pump and the receipts of its sales. *)

EngineAgrees(p) ==
  /\ State(p) \in Settled
  /\ p.filling_active <=> State(p) \in Flowing
  /\ p.filling_active => (p.suspended <=> State(p) = "SUSPENDED")

\* The evidence of a completion, and so its key, is that of a receipt; a sale that
\* goes on has none.
SalesAgree(p, sold) ==
  /\ \A r \in sold : r[1] \in 1..p.sales
  /\ \A r, s \in sold : r[1] = s[1] => r = s
  /\ p.ctx.completed_evidence_keys \subseteq sold
  /\ p.filling_active =>
       /\ p.active_transaction_id = p.sales /\ p.sales > 0
       /\ \A r \in sold : r[1] # p.sales

WithinLimits(p) ==
  p.filling_active =>
    /\ p.volume <= LimitVolume(p)
    /\ p.preset_amount # None => p.amount <= p.preset_amount

PumpOK(p, sold) ==
  p \in SimPump /\ EngineAgrees(p) /\ SalesAgree(p, sold) /\ WithinLimits(p)

\* A change of fields no sale depends on.
LEMMA OtherFields ==
  ASSUME NEW sold, NEW p, PumpOK(p, sold), NEW q \in SimPump,
         SameSale(q, p), SameTerms(q, p), SameMachine(q, p)
  PROVE  PumpOK(q, sold)
<1>1. /\ State(q) = State(p) /\ q.filling_active = p.filling_active
      /\ q.suspended = p.suspended
  BY DEF SameSale, SameMachine
<1>2. EngineAgrees(q)
  BY <1>1, Zenon DEF PumpOK, EngineAgrees
<1>3. SalesAgree(q, sold)
  BY Zenon DEF PumpOK, SalesAgree, SameSale, SameMachine
<1>4. LimitVolume(q) = LimitVolume(p)
  BY DEF LimitVolume, SameTerms
<1>5. WithinLimits(q)
  BY <1>4, Zenon DEF PumpOK, WithinLimits, SameSale, SameTerms
<1> QED  BY <1>2, <1>3, <1>5 DEF PumpOK

\* A pump whose engine stands and whose machine is in no state of a sale.
LEMMA EngineStands ==
  ASSUME NEW sold, NEW p, SalesAgree(p, sold), NEW q \in SimPump,
         q.filling_active = FALSE, State(q) \in Settled \ Flowing, q.sales = p.sales,
         q.ctx.completed_evidence_keys \subseteq sold
  PROVE  PumpOK(q, sold)
<1>1. EngineAgrees(q)
  BY DEF EngineAgrees
<1>2. SalesAgree(q, sold)
  BY DEF SalesAgree
<1>3. WithinLimits(q)
  BY DEF WithinLimits
<1> QED  BY <1>1, <1>2, <1>3 DEF PumpOK

\* An event that is none of a sale's leaves the sale as it is.
LEMMA QuietPump ==
  ASSUME NEW sold, NEW p, PumpOK(p, sold),
         NEW o \in Observation, o.event \in Quiet, o.key = None
  PROVE  PumpOK(Applied(p, o), sold) /\ SameSale(Applied(p, o), p)
<1> DEFINE q == Applied(p, o)
<1>1. p \in SimPump /\ EngineAgrees(p) /\ SalesAgree(p, sold) /\ WithinLimits(p)
  BY DEF PumpOK
<1>2. /\ q \in SimPump /\ SameSale(q, p) /\ SameTerms(q, p)
      /\ q.ctx.completed_evidence_keys = p.ctx.completed_evidence_keys
      /\ State(q) = After(State(p), o.event)
  <2>1. o.event # "FILLING_COMPLETED"
    BY DEF Quiet
  <2>2. /\ q \in SimPump /\ SameSale(q, p) /\ SameTerms(q, p)
        /\ q.ctx.completed_evidence_keys \in
              {p.ctx.completed_evidence_keys,
               p.ctx.completed_evidence_keys \union ({o.key} \ {None})}
        /\ State(q) = After(State(p), o.event)
    BY <1>1, <2>1, AppliedPump
  <2> HIDE DEF q
  <2> QED  BY <2>2
<1> HIDE DEF q
<1>3. /\ State(q) \in Settled
      /\ State(p) \in Flowing => State(q) = State(p)
      /\ State(p) \notin Flowing => State(q) \notin Flowing
  BY <1>1, <1>2, QuietState DEF EngineAgrees
<1>4. CASE State(p) \in Flowing
  <2>1. SameMachine(q, p)
    BY <1>2, <1>3, <1>4 DEF SameMachine
  <2> QED  BY <1>2, <2>1, OtherFields DEF q
<1>5. CASE State(p) \notin Flowing
  <2>1. p.filling_active = FALSE
    BY <1>1, <1>5 DEF EngineAgrees, SimPump
  <2>2. q.filling_active = FALSE /\ q.sales = p.sales
    BY <1>2, <2>1 DEF SameSale
  <2>3. q.ctx.completed_evidence_keys \subseteq sold
    BY <1>1, <1>2 DEF SalesAgree
  <2> QED  BY <1>1, <1>2, <1>3, <1>5, <2>2, <2>3, EngineStands DEF q
<1> QED  BY <1>4, <1>5

LEMMA PlainObservation ==
  ASSUME NEW e \in PumpEvent \ {"UNKNOWN_OBSERVATION"}
  PROVE  /\ NoObservation(e) \in Observation /\ NoObservation(e).event = e
         /\ NoObservation(e).key = None
BY DEF NoObservation, Observation, Chosen, Number, Fault

LEMMA RawObservation ==
  ASSUME NEW e \in PumpEvent \ {"UNKNOWN_OBSERVATION"}, NEW n \in Nat
  PROVE  LET o == [NoObservation(e) EXCEPT !.raw = n] IN
         o \in Observation /\ o.event = e /\ o.key = None
<1> DEFINE b == NoObservation(e)
<1>1. b \in Observation /\ b.event = e /\ b.key = None /\ n \in Number
  BY PlainObservation DEF Number
<1> HIDE DEF b
<1>2. [b EXCEPT !.raw = n] \in Observation /\ [b EXCEPT !.raw = n].event = e
      /\ [b EXCEPT !.raw = n].key = None
  BY <1>1 DEF Observation
<1> QED  BY <1>2 DEF b

LEMMA QuietEvent ==
  ASSUME NEW sold, NEW p, PumpOK(p, sold), NEW e \in Quiet
  PROVE  /\ PumpOK(Event(p, e), sold) /\ SameSale(Event(p, e), p)
         /\ PumpOK(RawEvent(p, e), sold) /\ SameSale(RawEvent(p, e), p)
<1>1. e \in PumpEvent \ {"UNKNOWN_OBSERVATION"}
  BY DEF Quiet, PumpEvent
<1>2. p.wayne_status \in Nat
  BY DEF PumpOK, SimPump
<1>3. PumpOK(Event(p, e), sold) /\ SameSale(Event(p, e), p)
  BY <1>1, PlainObservation, QuietPump DEF Event
<1> DEFINE o == [NoObservation(e) EXCEPT !.raw = p.wayne_status]
<1>4. o \in Observation /\ o.event = e /\ o.key = None
  BY <1>1, <1>2, RawObservation
<1>5. RawEvent(p, e) = Applied(p, o)
  BY DEF RawEvent
<1> HIDE DEF o
<1>6. PumpOK(RawEvent(p, e), sold) /\ SameSale(RawEvent(p, e), p)
  BY <1>4, <1>5, QuietPump
<1> QED  BY <1>3, <1>6

-----------------------------------------------------------------------------
(* The operations that leave the sale alone. *)

Invariant == PumpOK(pump, receipts)

AmountKept ==
  (/\ pump.filling_active
   /\ pump'.active_transaction_id = pump.active_transaction_id
   /\ pump.amount <= pump.volume * UnitPrice(pump))
  => pump'.amount >= pump.amount

LEMMA SaleGoesOn ==
  ASSUME Invariant, SameSale(pump', pump)  PROVE AmountKept
<1>1. pump.amount \in Nat /\ pump'.amount = pump.amount
  BY DEF Invariant, PumpOK, SimPump, SameSale
<1> QED  BY <1>1 DEF AmountKept

LEMMA SameSaleTransitive ==
  ASSUME NEW p, NEW q, NEW r, SameSale(q, p), SameSale(r, q)  PROVE SameSale(r, p)
BY DEF SameSale

LEMMA ColdStartKeeps ==
  ASSUME Invariant, ColdStart  PROVE Invariant' /\ AmountKept
<1> DEFINE started == IF pump.enabled THEN pump ELSE Event(pump, "COMMUNICATION_STARTED")
           e == Event(started, "PUMP_DISCOVERED")
           found == [e EXCEPT !.wayne_status = ResetStatus]
           r == RawEvent(found, "RESET_OBSERVED")
           reset == [r EXCEPT !.nozzle_out = FALSE]
           ready == Event(reset, "READY_OBSERVED")
           OK(p) == PumpOK(p, receipts) /\ SameSale(p, pump)
<1>1. OK(started)
  <2>1. OK(pump)
    BY DEF Invariant, SameSale
  <2>2. OK(Event(pump, "COMMUNICATION_STARTED"))
    BY QuietEvent DEF Invariant, Quiet
  <2> QED  BY <2>1, <2>2
<1> HIDE DEF started
<1>2. OK(e)
  BY <1>1, QuietEvent, SameSaleTransitive DEF Quiet
<1> HIDE DEF e
<1>3. OK(found)
  <2>1. /\ found \in SimPump /\ SameSale(found, e) /\ SameTerms(found, e) /\ SameMachine(found, e)
    BY <1>2 DEF PumpOK, SimPump, SameSale, SameTerms, SameMachine, State, ResetStatus
  <2> QED  BY <1>2, <2>1, OtherFields, SameSaleTransitive
<1> HIDE DEF found
<1>4. OK(r)
  BY <1>3, QuietEvent, SameSaleTransitive DEF Quiet
<1> HIDE DEF r
<1>5. OK(reset)
  <2>1. /\ reset \in SimPump /\ SameSale(reset, r) /\ SameTerms(reset, r) /\ SameMachine(reset, r)
    BY <1>4 DEF PumpOK, SimPump, SameSale, SameTerms, SameMachine, State
  <2> QED  BY <1>4, <2>1, OtherFields, SameSaleTransitive
<1> HIDE DEF reset
<1>6. OK(ready)
  BY <1>5, QuietEvent, SameSaleTransitive DEF Quiet
<1>7. pump' = ready /\ receipts' = receipts
  BY DEF ColdStart, Becomes, NothingSold, started, e, found, r, reset, ready
<1> HIDE DEF ready
<1> QED  BY <1>6, <1>7, SaleGoesOn DEF Invariant

\* A command that leaves the synchronized context behind.
LEMMA SyncedPump ==
  ASSUME NEW sold, NEW p, PumpOK(p, sold)
  PROVE  LET q == [p EXCEPT !.ctx = Synced(p)] IN PumpOK(q, sold) /\ SameSale(q, p)
<1> DEFINE c == Synced(p)
           q == [p EXCEPT !.ctx = c]
<1>1. p \in SimPump
  BY DEF PumpOK
<1>2. /\ c \in Context /\ c.current_state = State(p)
      /\ c.completed_evidence_keys = p.ctx.completed_evidence_keys
  BY <1>1, SyncedContext
<1> HIDE DEF c
<1>3. q \in SimPump /\ SameSale(q, p) /\ SameTerms(q, p) /\ q.ctx = c
  BY <1>1, <1>2 DEF SimPump, SameSale, SameTerms
<1> HIDE DEF q
<1>4. SameMachine(q, p)
  BY <1>2, <1>3 DEF SameMachine, State
<1> QED  BY <1>3, <1>4, OtherFields DEF q, c

LEMMA LiftNozzleKeeps ==
  ASSUME Invariant, NEW n \in Nozzles, LiftNozzle(n)  PROVE Invariant' /\ AmountKept
<1> DEFINE lifted == [pump EXCEPT !.selected_nozzle = n, !.nozzle_out = TRUE,
                                  !.price_verified = TRUE]
           y == [lifted EXCEPT !.ctx = Synced(lifted)]
           b == NoObservation("NOZZLE_LIFTED")
           o == [b EXCEPT !.nozzle = n, !.price = TRUE]
           p == Applied(y, o)
<1>1. PumpOK(lifted, receipts) /\ SameSale(lifted, pump)
  <2>1. /\ lifted \in SimPump /\ SameSale(lifted, pump) /\ SameTerms(lifted, pump)
        /\ SameMachine(lifted, pump)
    BY DEF Invariant, PumpOK, SimPump, SameSale, SameTerms, SameMachine, State, Chosen
  <2> QED  BY <2>1, OtherFields DEF Invariant
<1> HIDE DEF lifted
<1>2. PumpOK(y, receipts) /\ SameSale(y, lifted)
  BY <1>1, SyncedPump
<1> HIDE DEF y
<1>3. o \in Observation /\ o.event = "NOZZLE_LIFTED" /\ o.key = None
  <2>1. b \in Observation /\ b.event = "NOZZLE_LIFTED" /\ b.key = None
    BY PlainObservation DEF PumpEvent
  <2> HIDE DEF b
  <2> QED  BY <2>1 DEF Observation, Chosen
<1> HIDE DEF o
<1>4. PumpOK(p, receipts) /\ SameSale(p, y)
  BY <1>2, <1>3, QuietPump DEF Quiet
<1>5. pump' = p /\ receipts' = receipts
  BY DEF LiftNozzle, Becomes, NothingSold, lifted, y, b, o, p
<1> HIDE DEF p
<1> QED  BY <1>1, <1>2, <1>4, <1>5, SameSaleTransitive, SaleGoesOn DEF Invariant

LEMMA ReturnNozzleKeeps ==
  ASSUME Invariant, ReturnNozzle  PROVE Invariant' /\ AmountKept
<1> DEFINE back == [pump EXCEPT !.nozzle_out = FALSE]
           p == IF State(pump) \in {"NOZZLE_UP", "AUTHORIZED"}
                THEN Event(back, "NOZZLE_RETURNED") ELSE back
<1>1. PumpOK(back, receipts) /\ SameSale(back, pump)
  <2>1. /\ back \in SimPump /\ SameSale(back, pump) /\ SameTerms(back, pump)
        /\ SameMachine(back, pump)
    BY DEF Invariant, PumpOK, SimPump, SameSale, SameTerms, SameMachine, State
  <2> QED  BY <2>1, OtherFields DEF Invariant
<1> HIDE DEF back
<1>2. PumpOK(p, receipts) /\ SameSale(p, pump)
  BY <1>1, QuietEvent, SameSaleTransitive DEF Quiet
<1>3. pump' = p /\ receipts' = receipts
  BY DEF ReturnNozzle, Becomes, NothingSold, back, p
<1> HIDE DEF p
<1> QED  BY <1>2, <1>3, SaleGoesOn DEF Invariant

LEMMA RefuseKeeps ==
  ASSUME Invariant, Refuse  PROVE Invariant' /\ AmountKept
<1>1. pump' = [pump EXCEPT !.ctx = Synced(pump)] /\ receipts' = receipts
  BY DEF Refuse, Becomes, NothingSold
<1>2. PumpOK(pump', receipts) /\ SameSale(pump', pump)
  BY <1>1, SyncedPump DEF Invariant
<1> QED  BY <1>1, <1>2, SaleGoesOn DEF Invariant

-----------------------------------------------------------------------------
(* Commands. *)

LEMMA ExecutesIn ==
  ASSUME Invariant, NEW command \in PumpCommand \ {"READ_STATUS"}, NEW preset,
         Executes(command, preset)
  PROVE  State(pump) \in EligibleStates(command)
<1>1. pump \in SimPump
  BY DEF Invariant, PumpOK
<1>2. Synced(pump).current_state = State(pump)
  BY <1>1, SyncedContext
<1> QED  BY <1>2 DEF Executes, Eligible

LEMMA StandsOutsideSales ==
  ASSUME NEW sold, NEW p, PumpOK(p, sold), State(p) \notin Flowing
  PROVE  p.filling_active = FALSE
BY DEF PumpOK, EngineAgrees, SimPump

LEMMA SetPriceKeeps ==
  ASSUME Invariant, NEW n \in Nozzles, NEW price \in NewPrices, SetPrice(n, price)
  PROVE  Invariant' /\ AmountKept
<1> DEFINE priced == [pump EXCEPT !.prices[n] = price, !.price_verified = TRUE]
           p == [priced EXCEPT !.ctx = Synced(priced)]
<1>1. PumpOK(priced, receipts) /\ SameSale(priced, pump)
  <2>1. pump \in SimPump /\ price \in Nat
    BY PumpAssumption DEF Invariant, PumpOK
  <2>2. [pump.prices EXCEPT ![n] = price] \in [Nozzles -> Nat]
    BY <2>1 DEF SimPump
  <2>3. /\ priced \in SimPump /\ SameSale(priced, pump) /\ SameTerms(priced, pump)
        /\ SameMachine(priced, pump)
    BY <2>1, <2>2 DEF SimPump, SameSale, SameTerms, SameMachine, State
  <2> QED  BY <2>3, OtherFields DEF Invariant
<1> HIDE DEF priced
<1>2. PumpOK(p, receipts) /\ SameSale(p, priced)
  BY <1>1, SyncedPump
<1>3. pump' = p /\ receipts' = receipts
  BY DEF SetPrice, Becomes, NothingSold, priced, p
<1> HIDE DEF p
<1> QED  BY <1>1, <1>2, <1>3, SameSaleTransitive, SaleGoesOn DEF Invariant

\* A preset is given before the sale: the limits of one that goes on are fixed.
LEMMA PresetKeeps ==
  ASSUME Invariant, NEW v \in Presets, PresetVolume(v) \/ PresetAmount(v)
  PROVE  Invariant' /\ AmountKept
<1> DEFINE y == Synced(pump)
<1>1. pump \in SimPump /\ v \in Number /\ EngineAgrees(pump) /\ SalesAgree(pump, receipts)
  BY PumpAssumption DEF Invariant, PumpOK, Number
<1>2. /\ y \in Context /\ y.current_state = State(pump)
      /\ y.completed_evidence_keys = pump.ctx.completed_evidence_keys
  BY <1>1, SyncedContext
<1>3. State(pump) \in PresetStates
  BY ExecutesIn DEF PresetVolume, PresetAmount, PumpCommand, EligibleStates
<1>4. pump.filling_active = FALSE /\ State(pump) \in Settled \ Flowing
  BY <1>1, <1>3, StandsOutsideSales DEF Invariant, PresetStates, Flowing, EngineAgrees
<1>5. /\ receipts' = receipts
      /\ \/ pump' = [pump EXCEPT !.ctx = y, !.preset_volume = v]
         \/ pump' = [pump EXCEPT !.ctx = y, !.preset_amount = v]
  BY DEF PresetVolume, PresetAmount, Becomes, NothingSold
<1> HIDE DEF y
<1> DEFINE q == [pump EXCEPT !.ctx = y]
<1>q. q \in SimPump /\ q.ctx = y /\ SameSale(q, pump)
  BY <1>1, <1>2 DEF SimPump, SameSale
<1>p. pump' = [q EXCEPT !.preset_volume = v] \/ pump' = [q EXCEPT !.preset_amount = v]
  BY <1>5
<1> HIDE DEF q
<1>6. pump' \in SimPump /\ pump'.ctx = y /\ SameSale(pump', pump)
  <2>1. CASE pump' = [q EXCEPT !.preset_volume = v]
    BY <1>1, <1>q, <2>1 DEF SimPump, SameSale
  <2>2. CASE pump' = [q EXCEPT !.preset_amount = v]
    BY <1>1, <1>q, <2>2 DEF SimPump, SameSale
  <2> QED  BY <1>p, <2>1, <2>2
<1>7. /\ State(pump') \in Settled \ Flowing /\ pump'.filling_active = FALSE
      /\ pump'.sales = pump.sales /\ pump'.ctx.completed_evidence_keys \subseteq receipts
  BY <1>1, <1>2, <1>4, <1>6 DEF State, SameSale, SalesAgree
<1> QED  BY <1>1, <1>5, <1>6, <1>7, EngineStands, SaleGoesOn DEF Invariant

LEMMA AuthorizeKeeps ==
  ASSUME Invariant, Authorize  PROVE Invariant' /\ AmountKept
<1> DEFINE tx == pump.sales + 1
           opened == [pump EXCEPT !.active_transaction_id = tx, !.sales = tx,
                                  !.volume = 0, !.amount = 0, !.wayne_status = Authorized]
           b == NoObservation("AUTHORIZATION_CONFIRMED")
           o == [b EXCEPT !.tx = tx, !.raw = Authorized]
           authorized == Applied(opened, o)
           filling == [authorized EXCEPT !.filling_active = TRUE, !.suspended = FALSE,
                                         !.wayne_status = Filling]
           u == [NoObservation("FILLING_STARTED") EXCEPT !.raw = filling.wayne_status]
           started == Applied(filling, u)
<1>1. pump \in SimPump /\ SalesAgree(pump, receipts) /\ pump.sales \in Nat
      /\ tx \in Nat /\ tx \in Number
  BY DEF Invariant, PumpOK, SimPump, Number
<1>2. State(pump) = "NOZZLE_UP" /\ pump.filling_active = FALSE
  <2>1. State(pump) = "NOZZLE_UP"
    BY ExecutesIn DEF Authorize, PumpCommand, EligibleStates
  <2> QED  BY <2>1, StandsOutsideSales DEF Invariant, Flowing
<1>3. pump' = started /\ receipts' = receipts
  BY DEF Authorize, Becomes, NothingSold, RawEvent
<1>t. tx = pump.sales + 1
  OBVIOUS
<1> HIDE DEF tx
<1>4. /\ opened \in SimPump /\ State(opened) = "NOZZLE_UP" /\ SameTerms(opened, pump)
      /\ opened.active_transaction_id = tx /\ opened.sales = tx
      /\ opened.volume = 0 /\ opened.amount = 0
      /\ opened.ctx.completed_evidence_keys = pump.ctx.completed_evidence_keys
  BY <1>1, <1>2 DEF SimPump, State, SameTerms, Authorized
<1> HIDE DEF opened
<1>5. o \in Observation /\ o.event = "AUTHORIZATION_CONFIRMED" /\ o.key = None
  <2>1. b \in Observation /\ b.event = "AUTHORIZATION_CONFIRMED" /\ b.key = None
    BY PlainObservation DEF PumpEvent
  <2> HIDE DEF b
  <2> QED  BY <1>1, <2>1 DEF Observation, Number, Authorized
<1> HIDE DEF o
<1>6. /\ authorized \in SimPump /\ State(authorized) = "AUTHORIZED"
      /\ SameTerms(authorized, opened) /\ SameSale(authorized, opened)
      /\ authorized.ctx.completed_evidence_keys = opened.ctx.completed_evidence_keys
  <2>1. /\ authorized \in SimPump /\ SameTerms(authorized, opened) /\ SameSale(authorized, opened)
        /\ authorized.ctx.completed_evidence_keys \in
              {opened.ctx.completed_evidence_keys,
               opened.ctx.completed_evidence_keys \union ({o.key} \ {None})}
        /\ State(authorized) = After(State(opened), o.event)
    BY <1>4, <1>5, AppliedPump
  <2> HIDE DEF authorized
  <2> QED  BY <1>4, <1>5, <2>1, SaleTransitions
<1> HIDE DEF authorized
<1>7. /\ filling \in SimPump /\ State(filling) = "AUTHORIZED" /\ SameTerms(filling, authorized)
      /\ filling.filling_active = TRUE /\ filling.suspended = FALSE
      /\ filling.active_transaction_id = tx /\ filling.sales = tx
      /\ filling.volume = 0 /\ filling.amount = 0 /\ filling.wayne_status \in Nat
      /\ filling.ctx.completed_evidence_keys = authorized.ctx.completed_evidence_keys
  BY <1>4, <1>6 DEF SimPump, State, SameTerms, SameSale, Filling
<1> HIDE DEF filling
<1>8. u \in Observation /\ u.event = "FILLING_STARTED" /\ u.key = None
  BY <1>7, RawObservation DEF PumpEvent
<1> HIDE DEF u
<1>9. /\ started \in SimPump /\ State(started) = "FILLING"
      /\ SameTerms(started, filling) /\ SameSale(started, filling)
      /\ started.ctx.completed_evidence_keys = filling.ctx.completed_evidence_keys
  <2>1. /\ started \in SimPump /\ SameTerms(started, filling) /\ SameSale(started, filling)
        /\ started.ctx.completed_evidence_keys \in
              {filling.ctx.completed_evidence_keys,
               filling.ctx.completed_evidence_keys \union ({u.key} \ {None})}
        /\ State(started) = After(State(filling), u.event)
    BY <1>7, <1>8, AppliedPump
  <2> HIDE DEF started
  <2> QED  BY <1>7, <1>8, <2>1, SaleTransitions
<1> HIDE DEF started
<1>10. /\ started.filling_active = TRUE /\ started.suspended = FALSE
       /\ started.active_transaction_id = tx /\ started.sales = tx
       /\ started.volume = 0 /\ started.amount = 0
       /\ started.ctx.completed_evidence_keys = pump.ctx.completed_evidence_keys
  BY <1>4, <1>6, <1>7, <1>9 DEF SameSale
<1>11. EngineAgrees(started)
  BY <1>9, <1>10 DEF EngineAgrees, Flowing, Settled, PumpState
<1>12. SalesAgree(started, receipts)
  BY <1>1, <1>10, <1>t DEF SalesAgree
<1>13. WithinLimits(started)
  <2>1. started.preset_volume \in Number /\ started.preset_amount \in Number
    BY <1>9 DEF SimPump
  <2>2. LimitVolume(started) \in Nat
    BY <2>1, PumpAssumption DEF LimitVolume, Number
  <2> QED  BY <1>10, <2>1, <2>2 DEF WithinLimits, Number
<1> QED  BY <1>2, <1>3, <1>9, <1>11, <1>12, <1>13 DEF Invariant, PumpOK, AmountKept

\* A pump in the sale it opened last, of which nothing is accounted for yet.
OpenSale(p, sold) ==
  /\ p \in SimPump /\ SalesAgree(p, sold)
  /\ p.active_transaction_id = p.sales /\ p.sales > 0 /\ \A r \in sold : r[1] # p.sales

\* The completion of an open sale is new evidence, and its receipt the sale's only.
LEMMA SaleCompletes ==
  ASSUME NEW sold, NEW p, OpenSale(p, sold),
         State(p) \in {"FILLING", "SUSPENDED", "LIMIT_REACHED"}
  PROVE  PumpOK(Completed(p), sold \union {Receipt(p)}) /\ Completed(p).amount = p.amount
<1> DEFINE h == Halted(p)
           stopped == [Credited(h) EXCEPT !.wayne_status = FillingCompleted]
           k == Receipt(p)
           b == NoObservation("FILLING_COMPLETED")
           o == [b EXCEPT !.raw = FillingCompleted, !.key = k]
           q == Applied(stopped, o)
<1>1. /\ p \in SimPump /\ SalesAgree(p, sold) /\ p.sales \in Nat /\ p.sales > 0
      /\ p.active_transaction_id = p.sales /\ \A r \in sold : r[1] # p.sales
      /\ p.volume \in Nat /\ p.amount \in Nat
  BY DEF OpenSale, SimPump
<1>2. k = <<p.sales, p.volume, p.amount>> /\ k \in Keys /\ k[1] = p.sales
  BY <1>1 DEF Receipt, Keys, Number
<1>3. Completed(p) = q
  BY DEF Completed, Receipt
<1> HIDE DEF k
<1>4. /\ h \in SimPump /\ State(h) = State(p) /\ h.sales = p.sales /\ h.amount = p.amount
      /\ h.filling_active = FALSE /\ h.ctx = p.ctx
  BY <1>1 DEF Halted, SimPump, State
<1> HIDE DEF h
<1>5. /\ stopped \in SimPump /\ State(stopped) = State(p) /\ stopped.sales = p.sales
      /\ stopped.amount = p.amount /\ stopped.filling_active = FALSE /\ stopped.ctx = p.ctx
  <2> DEFINE c == Credited(h)
  <2>1. h.total_volume + h.volume \in Nat /\ h.total_amount + h.amount \in Nat
    BY <1>4 DEF SimPump
  <2>2. /\ c \in SimPump /\ State(c) = State(h) /\ c.sales = h.sales /\ c.amount = h.amount
        /\ c.filling_active = h.filling_active /\ c.ctx = h.ctx
    BY <1>4, <2>1 DEF Credited, SimPump, State
  <2> HIDE DEF c
  <2>3. /\ [c EXCEPT !.wayne_status = FillingCompleted] \in SimPump
        /\ State([c EXCEPT !.wayne_status = FillingCompleted]) = State(p)
        /\ [c EXCEPT !.wayne_status = FillingCompleted].sales = p.sales
        /\ [c EXCEPT !.wayne_status = FillingCompleted].amount = p.amount
        /\ [c EXCEPT !.wayne_status = FillingCompleted].filling_active = FALSE
        /\ [c EXCEPT !.wayne_status = FillingCompleted].ctx = p.ctx
    BY <1>4, <2>2 DEF SimPump, State, FillingCompleted
  <2> QED  BY <2>3 DEF c
<1> HIDE DEF stopped
<1>6. o \in Observation /\ o.event = "FILLING_COMPLETED" /\ o.key = k
  <2>1. b \in Observation /\ b.event = "FILLING_COMPLETED"
    BY PlainObservation DEF PumpEvent
  <2> HIDE DEF b
  <2> QED  BY <1>2, <2>1 DEF Observation, Number, FillingCompleted
<1> HIDE DEF o
<1>7. k \notin stopped.ctx.completed_evidence_keys
  BY <1>1, <1>2, <1>5 DEF SalesAgree
<1>8. /\ q \in SimPump /\ SameSale(q, stopped) /\ State(q) = "FILLING_COMPLETE"
      /\ q.ctx.completed_evidence_keys \subseteq sold \union {k}
  <2>1. /\ q \in SimPump /\ SameSale(q, stopped)
        /\ q.ctx.completed_evidence_keys \in
              {stopped.ctx.completed_evidence_keys,
               stopped.ctx.completed_evidence_keys \union ({o.key} \ {None})}
        /\ State(q) = After(State(stopped), o.event)
    BY <1>5, <1>6, <1>7, AppliedPump
  <2> HIDE DEF q
  <2> QED  BY <1>1, <1>5, <1>6, <2>1, SaleTransitions DEF SalesAgree
<1> HIDE DEF q
<1>9. q.filling_active = FALSE /\ q.sales = p.sales /\ q.amount = p.amount
  BY <1>5, <1>8 DEF SameSale
<1>10. SalesAgree(q, sold \union {k})
  BY <1>1, <1>2, <1>8, <1>9 DEF SalesAgree
<1>11. PumpOK(q, sold \union {k})
  BY <1>8, <1>9, <1>10, EngineStands DEF Settled, PumpState, Flowing
<1> QED  BY <1>3, <1>9, <1>11 DEF k

LEMMA FlowingSaleIsOpen ==
  ASSUME NEW sold, NEW p, PumpOK(p, sold), State(p) \in Flowing
  PROVE  p.filling_active = TRUE /\ OpenSale(p, sold)
<1>1. p.filling_active = TRUE
  BY DEF PumpOK, EngineAgrees, SimPump
<1> QED  BY <1>1 DEF OpenSale, PumpOK, SalesAgree

LEMMA StopKeeps ==
  ASSUME Invariant, Stop  PROVE Invariant' /\ AmountKept
<1>1. State(pump) \in Flowing
  <2>1. State(pump) \in StopStates
    BY ExecutesIn DEF Stop, PumpCommand, EligibleStates
  <2> QED  BY <2>1 DEF StopStates, Flowing, Invariant, PumpOK, EngineAgrees, Settled
<1>2. pump' = Completed(pump) /\ receipts' = receipts \union {Receipt(pump)}
  BY DEF Stop, Becomes
<1>3. PumpOK(pump', receipts') /\ pump'.amount = pump.amount
  BY <1>1, <1>2, FlowingSaleIsOpen, SaleCompletes DEF Invariant, Flowing
<1>4. pump.amount \in Nat
  BY DEF Invariant, PumpOK, SimPump
<1> QED  BY <1>3, <1>4 DEF Invariant, AmountKept

\* SUSPEND and RESUME: the flag and the machine change together.
LEMMA PauseKeeps ==
  ASSUME Invariant, NEW pause \in BOOLEAN, NEW w \in Nat, NEW e, NEW p,
         \/ State(pump) = "FILLING" /\ e = "SUSPENDED_OBSERVED" /\ pause = TRUE
         \/ State(pump) = "SUSPENDED" /\ e = "RESUMED_OBSERVED" /\ pause = FALSE,
         p = [pump EXCEPT !.suspended = pause, !.wayne_status = w],
         pump' = RawEvent(p, e), receipts' = receipts
  PROVE  Invariant' /\ AmountKept
<1> DEFINE o == [NoObservation(e) EXCEPT !.raw = p.wayne_status]
           q == Applied(p, o)
<1>1. /\ pump \in SimPump /\ EngineAgrees(pump) /\ SalesAgree(pump, receipts)
      /\ WithinLimits(pump) /\ pump.filling_active = TRUE
  BY FlowingSaleIsOpen DEF Invariant, PumpOK, Flowing
<1>2. /\ p \in SimPump /\ State(p) = State(pump) /\ SameTerms(p, pump)
      /\ p.suspended = pause /\ p.filling_active = TRUE /\ p.wayne_status \in Nat
      /\ p.volume = pump.volume /\ p.amount = pump.amount /\ p.sales = pump.sales
      /\ p.active_transaction_id = pump.active_transaction_id
      /\ p.ctx.completed_evidence_keys = pump.ctx.completed_evidence_keys
  BY <1>1 DEF SimPump, State, SameTerms
<1>3. pump' = q
  BY DEF RawEvent
<1>4. o \in Observation /\ o.event = e /\ o.key = None
  <2>1. e \in PumpEvent \ {"UNKNOWN_OBSERVATION"}
    BY DEF PumpEvent
  <2> QED  BY <1>2, <2>1, RawObservation
<1> HIDE DEF o
<1>5. /\ q \in SimPump /\ SameSale(q, p) /\ SameTerms(q, p)
      /\ q.ctx.completed_evidence_keys = p.ctx.completed_evidence_keys
      /\ State(q) = After(State(p), e)
  <2>1. e # "FILLING_COMPLETED"
    OBVIOUS
  <2>2. /\ q \in SimPump /\ SameSale(q, p) /\ SameTerms(q, p)
        /\ q.ctx.completed_evidence_keys \in
              {p.ctx.completed_evidence_keys,
               p.ctx.completed_evidence_keys \union ({o.key} \ {None})}
        /\ State(q) = After(State(p), e)
    BY <1>2, <1>4, <2>1, AppliedPump
  <2> HIDE DEF q
  <2> QED  BY <1>4, <2>2
<1> HIDE DEF q
<1>6. /\ State(q) = IF pause THEN "SUSPENDED" ELSE "FILLING"
      /\ q.suspended = pause /\ q.filling_active = TRUE
  <2>1. \/ State(p) = "FILLING" /\ e = "SUSPENDED_OBSERVED" /\ pause = TRUE
        \/ State(p) = "SUSPENDED" /\ e = "RESUMED_OBSERVED" /\ pause = FALSE
    BY <1>2
  <2> QED  BY <1>2, <1>5, <2>1, SaleTransitions DEF SameSale
<1>7. EngineAgrees(q)
  BY <1>6 DEF EngineAgrees, Settled, Flowing, PumpState
<1>8. SalesAgree(q, receipts)
  BY <1>1, <1>2, <1>5 DEF SalesAgree, SameSale
<1>9. WithinLimits(q)
  <2>1. LimitVolume(q) = LimitVolume(pump) /\ q.preset_amount = pump.preset_amount
    BY <1>2, <1>5 DEF LimitVolume, SameTerms
  <2>2. q.volume = pump.volume /\ q.amount = pump.amount
    BY <1>2, <1>5 DEF SameSale
  <2> QED  BY <1>1, <2>1, <2>2 DEF WithinLimits
<1>10. pump'.amount = pump.amount /\ pump.amount \in Nat
  BY <1>1, <1>2, <1>3, <1>5 DEF SameSale, SimPump
<1> QED  BY <1>3, <1>5, <1>7, <1>8, <1>9, <1>10 DEF Invariant, PumpOK, AmountKept

LEMMA SuspendKeeps ==
  ASSUME Invariant, Suspend  PROVE Invariant' /\ AmountKept
<1> DEFINE p == [pump EXCEPT !.suspended = TRUE, !.wayne_status = Suspended]
<1>1. State(pump) = "FILLING"
  BY ExecutesIn DEF Suspend, PumpCommand, EligibleStates
<1>2. pump' = RawEvent(p, "SUSPENDED_OBSERVED") /\ receipts' = receipts
  BY DEF Suspend, Becomes, NothingSold
<1>3. Suspended \in Nat
  BY DEF Suspended
<1>4. p = [pump EXCEPT !.suspended = TRUE, !.wayne_status = Suspended]
  OBVIOUS
<1> HIDE DEF p
<1> QED  BY <1>1, <1>2, <1>3, <1>4, PauseKeeps

LEMMA ResumeKeeps ==
  ASSUME Invariant, Resume  PROVE Invariant' /\ AmountKept
<1> DEFINE p == [pump EXCEPT !.suspended = FALSE, !.wayne_status = Filling]
<1>1. State(pump) = "SUSPENDED"
  BY ExecutesIn DEF Resume, PumpCommand, EligibleStates
<1>2. pump' = RawEvent(p, "RESUMED_OBSERVED") /\ receipts' = receipts
  BY DEF Resume, Becomes, NothingSold
<1>3. Filling \in Nat
  BY DEF Filling
<1>4. p = [pump EXCEPT !.suspended = FALSE, !.wayne_status = Filling]
  OBVIOUS
<1> HIDE DEF p
<1> QED  BY <1>1, <1>2, <1>3, <1>4, PauseKeeps

LEMMA ClearedPump ==
  ASSUME NEW p \in SimPump
  PROVE  /\ Cleared(p) \in SimPump /\ Cleared(p).filling_active = FALSE
         /\ Cleared(p).sales = p.sales /\ Cleared(p).ctx = p.ctx
         /\ Cleared(p).active_transaction_id = None
<1> DEFINE h == Halted(p)
<1>1. /\ h \in SimPump /\ h.filling_active = FALSE /\ h.sales = p.sales /\ h.ctx = p.ctx
  BY DEF Halted, SimPump
<1>2. Cleared(p) = [h EXCEPT !.volume = 0, !.amount = 0,
            !.preset_volume = None, !.preset_amount = None,
            !.active_transaction_id = None, !.wayne_status = ResetStatus]
  BY DEF Cleared
<1> HIDE DEF h
<1>3. None \in Number /\ ResetStatus \in Nat
  BY DEF Number, ResetStatus
<1> DEFINE d == [h EXCEPT !.volume = 0, !.amount = 0,
                          !.preset_volume = None, !.preset_amount = None]
<1>4. /\ d \in SimPump /\ d.filling_active = h.filling_active /\ d.sales = h.sales
      /\ d.ctx = h.ctx
  BY <1>1, <1>3 DEF SimPump
<1>5. Cleared(p) = [d EXCEPT !.active_transaction_id = None, !.wayne_status = ResetStatus]
  BY <1>2
<1> HIDE DEF d
<1>6. /\ Cleared(p) \in SimPump /\ Cleared(p).filling_active = d.filling_active
      /\ Cleared(p).sales = d.sales /\ Cleared(p).ctx = d.ctx
      /\ Cleared(p).active_transaction_id = None
  BY <1>3, <1>4, <1>5 DEF SimPump
<1> QED  BY <1>1, <1>4, <1>6

LEMMA ResetKeeps ==
  ASSUME Invariant, Reset  PROVE Invariant' /\ AmountKept
<1> DEFINE c == Cleared(pump)
           r == RawEvent(c, "RESET_OBSERVED")
           p == IF pump.nozzle_out THEN r ELSE Event(r, "READY_OBSERVED")
<1>1. pump \in SimPump /\ EngineAgrees(pump) /\ SalesAgree(pump, receipts)
  BY DEF Invariant, PumpOK
<1>2. State(pump) \in Settled \ Flowing
  <2>1. State(pump) \in ResetEligibleStates
    BY ExecutesIn DEF Reset, PumpCommand, EligibleStates
  <2> QED  BY <1>1, <2>1 DEF ResetEligibleStates, EngineAgrees, Flowing
<1>3. PumpOK(c, receipts)
  <2>1. /\ c \in SimPump /\ c.filling_active = FALSE /\ c.sales = pump.sales /\ c.ctx = pump.ctx
    BY <1>1, ClearedPump
  <2> HIDE DEF c
  <2>2. State(c) = State(pump) /\ c.ctx.completed_evidence_keys \subseteq receipts
    BY <1>1, <2>1 DEF State, SalesAgree
  <2> QED  BY <1>1, <1>2, <2>1, <2>2, EngineStands
<1> HIDE DEF c
<1>4. PumpOK(r, receipts)
  BY <1>3, QuietEvent DEF Quiet
<1> HIDE DEF r
<1>5. PumpOK(p, receipts)
  BY <1>4, QuietEvent DEF Quiet
<1>6. pump' = p /\ receipts' = receipts
  BY DEF Reset, Becomes, NothingSold, c, r, p
<1> HIDE DEF p
<1>7. pump.filling_active = FALSE
  BY <1>2, StandsOutsideSales DEF Invariant
<1> QED  BY <1>5, <1>6, <1>7 DEF Invariant, AmountKept

-----------------------------------------------------------------------------
(* The filling engine. *)

LEMMA PriceType ==
  ASSUME NEW p \in SimPump  PROVE UnitPrice(p) \in Nat
<1>1. 1 \in Nozzles
  BY PumpAssumption, LenProperties, EmptySeq DEF Nozzles
<1>2. p.prices \in [Nozzles -> Nat] /\ p.selected_nozzle \in Chosen
  BY DEF SimPump
<1> QED  BY <1>1, <1>2 DEF UnitPrice, Chosen

LEMMA LimitType ==
  ASSUME NEW p \in SimPump
  PROVE  LimitVolume(p) \in Nat /\ (p.preset_amount # None => p.preset_amount \in Nat)
<1>1. p.preset_volume \in Number /\ p.preset_amount \in Number
  BY DEF SimPump
<1> QED  BY <1>1, PumpAssumption DEF LimitVolume, Number

LEMMA ProductGrows ==
  ASSUME NEW m \in Nat, NEW n \in Nat, NEW u \in Nat, m <= n
  PROVE  m * u \in Nat /\ n * u \in Nat /\ m * u <= n * u
<1>1. PICK d \in Nat : n = m + d
  <2>1. n - m \in Nat /\ n = m + (n - m)
    OBVIOUS
  <2> QED  BY <2>1
<1>2. m * u \in Nat /\ d * u \in Nat /\ n * u = m * u + d * u
  BY <1>1
<1> QED  BY <1>1, <1>2

\* One interval: the volume rises within its limit, and the amount with it.
LEMMA FlowedPump ==
  ASSUME Invariant, State(pump) = "FILLING"
  PROVE  /\ PumpOK(Flowed(pump), receipts) /\ State(Flowed(pump)) = "FILLING"
         /\ pump.amount <= pump.volume * UnitPrice(pump) => Flowed(pump).amount >= pump.amount
<1> DEFINE limit == LimitVolume(pump)
           u == UnitPrice(pump)
           v == IF pump.volume + 1 >= limit THEN limit ELSE pump.volume + 1
           a == v * u
           m == IF AmountReached(pump, a) THEN pump.preset_amount ELSE a
           paid == [pump EXCEPT !.volume = v, !.amount = m]
           b == NoObservation("FILLING_UPDATED")
           o == [b EXCEPT !.raw = Filling]
           q == Applied(paid, o)
<1>1. /\ pump \in SimPump /\ EngineAgrees(pump) /\ SalesAgree(pump, receipts)
      /\ pump.volume \in Nat /\ pump.amount \in Nat /\ pump.filling_active = TRUE
      /\ pump.suspended = FALSE
      /\ limit \in Nat /\ u \in Nat /\ pump.volume <= limit
      /\ pump.preset_amount # None =>
           pump.preset_amount \in Nat /\ pump.amount <= pump.preset_amount
  <2>1. pump \in SimPump /\ EngineAgrees(pump) /\ SalesAgree(pump, receipts) /\ WithinLimits(pump)
    BY DEF Invariant, PumpOK
  <2>2. pump.filling_active = TRUE /\ pump.suspended = FALSE
    BY <2>1 DEF EngineAgrees, Flowing, SimPump
  <2>3. pump.volume \in Nat /\ pump.amount \in Nat
    BY <2>1 DEF SimPump
  <2>4. limit \in Nat /\ u \in Nat /\ (pump.preset_amount # None => pump.preset_amount \in Nat)
    BY <2>1, PriceType, LimitType
  <2> HIDE DEF u
  <2> QED  BY <2>1, <2>2, <2>3, <2>4 DEF WithinLimits
<1>2. Flowed(pump) = q
  BY DEF Flowed
<1>l. limit = LimitVolume(pump)
  OBVIOUS
<1> HIDE DEF limit
<1>3. v \in Nat /\ pump.volume <= v /\ v <= limit
  BY <1>1
<1> HIDE DEF v
<1>4. pump.volume * u \in Nat /\ a \in Nat /\ pump.volume * u <= a
  <2> HIDE DEF u
  <2> QED  BY <1>1, <1>3, ProductGrows
<1>5. /\ m \in Nat /\ (pump.preset_amount # None => m <= pump.preset_amount)
      /\ pump.amount <= pump.volume * u => m >= pump.amount
  <2> HIDE DEF a, u
  <2> QED  BY <1>1, <1>4 DEF AmountReached
<1>u. u = UnitPrice(pump)
  OBVIOUS
<1> HIDE DEF m, a, u
<1>6. /\ paid \in SimPump /\ State(paid) = "FILLING" /\ SameTerms(paid, pump)
      /\ paid.volume = v /\ paid.amount = m /\ paid.sales = pump.sales
      /\ paid.active_transaction_id = pump.active_transaction_id
      /\ paid.filling_active = TRUE /\ paid.suspended = FALSE
      /\ paid.ctx.completed_evidence_keys = pump.ctx.completed_evidence_keys
  BY <1>1, <1>3, <1>5 DEF SimPump, State, SameTerms
<1> HIDE DEF paid
<1>7. o \in Observation /\ o.event = "FILLING_UPDATED" /\ o.key = None
  BY RawObservation DEF PumpEvent, Filling
<1> HIDE DEF o
<1>8. /\ q \in SimPump /\ SameSale(q, paid) /\ SameTerms(q, paid) /\ State(q) = "FILLING"
      /\ q.ctx.completed_evidence_keys = paid.ctx.completed_evidence_keys
  <2>1. /\ q \in SimPump /\ SameSale(q, paid) /\ SameTerms(q, paid)
        /\ q.ctx.completed_evidence_keys \in
              {paid.ctx.completed_evidence_keys,
               paid.ctx.completed_evidence_keys \union ({o.key} \ {None})}
        /\ State(q) = After(State(paid), o.event)
    BY <1>6, <1>7, AppliedPump
  <2> HIDE DEF q
  <2> QED  BY <1>6, <1>7, <2>1, SaleTransitions
<1> HIDE DEF q
<1>9. EngineAgrees(q)
  BY <1>6, <1>8 DEF EngineAgrees, SameSale, Flowing, Settled, PumpState
<1>10. SalesAgree(q, receipts)
  BY <1>1, <1>6, <1>8 DEF SalesAgree, SameSale
<1>11. WithinLimits(q)
  <2>1. LimitVolume(q) = limit /\ q.preset_amount = pump.preset_amount
    BY <1>6, <1>8, <1>l DEF LimitVolume, SameTerms
  <2>2. q.volume = v /\ q.amount = m
    BY <1>6, <1>8 DEF SameSale
  <2> QED  BY <1>3, <1>5, <2>1, <2>2 DEF WithinLimits
<1> QED  BY <1>2, <1>5, <1>6, <1>8, <1>9, <1>10, <1>11, <1>u DEF PumpOK, SameSale

\* A sale that has reached its preset is still open.
LEMMA LimitShownPump ==
  ASSUME NEW sold, NEW p, PumpOK(p, sold), State(p) = "FILLING"
  PROVE  LET q == LimitShown(p) IN
         /\ OpenSale(q, sold) /\ State(q) \in {"FILLING", "LIMIT_REACHED"}
         /\ Receipt(q) = Receipt(p) /\ q.amount = p.amount
<1>1. OpenSale(p, sold)
  BY FlowingSaleIsOpen DEF Flowing
<1>2. CASE ~HasPreset(p)
  BY <1>1, <1>2 DEF LimitShown
<1>3. CASE HasPreset(p)
  <2> DEFINE w == [p EXCEPT !.wayne_status = MaxReached]
             o == [NoObservation("LIMIT_REACHED") EXCEPT !.raw = w.wayne_status]
             q == Applied(w, o)
  <2>1. LimitShown(p) = q
    BY <1>3 DEF LimitShown, RawEvent
  <2>2. /\ w \in SimPump /\ SameSale(w, p) /\ State(w) = "FILLING" /\ w.wayne_status \in Nat
        /\ w.ctx.completed_evidence_keys = p.ctx.completed_evidence_keys
    BY <1>1 DEF OpenSale, SimPump, SameSale, State, MaxReached
  <2> HIDE DEF w
  <2>3. o \in Observation /\ o.event = "LIMIT_REACHED" /\ o.key = None
    BY <2>2, RawObservation DEF PumpEvent
  <2> HIDE DEF o
  <2>4. /\ q \in SimPump /\ SameSale(q, w) /\ State(q) = "LIMIT_REACHED"
        /\ q.ctx.completed_evidence_keys = p.ctx.completed_evidence_keys
    <3>1. /\ q \in SimPump /\ SameSale(q, w)
          /\ q.ctx.completed_evidence_keys \in
              {w.ctx.completed_evidence_keys,
               w.ctx.completed_evidence_keys \union ({o.key} \ {None})}
          /\ State(q) = After(State(w), o.event)
      BY <2>2, <2>3, AppliedPump
    <3> HIDE DEF q
    <3> QED  BY <2>2, <2>3, <3>1, SaleTransitions
  <2> HIDE DEF q
  <2>5. SameSale(q, p)
    BY <2>2, <2>4, SameSaleTransitive
  <2>6. OpenSale(q, sold)
    BY <1>1, <2>4, <2>5 DEF OpenSale, SalesAgree, SameSale
  <2>7. Receipt(q) = Receipt(p) /\ q.amount = p.amount
    BY <2>5 DEF Receipt, SameSale
  <2> QED  BY <2>1, <2>4, <2>6, <2>7
<1> QED  BY <1>2, <1>3

LEMMA FillOneIntervalKeeps ==
  ASSUME Invariant, FillOneInterval  PROVE Invariant' /\ AmountKept
<1> DEFINE flowed == Flowed(pump)
           shown == LimitShown(flowed)
           done == Completed(shown)
<1>1. State(pump) = "FILLING"
  BY DEF FillOneInterval, FuelFlows, Invariant, PumpOK, EngineAgrees, Settled
<1>2. /\ PumpOK(flowed, receipts) /\ State(flowed) = "FILLING"
      /\ pump.amount <= pump.volume * UnitPrice(pump) => flowed.amount >= pump.amount
  BY <1>1, FlowedPump
<1>3. \/ pump' = flowed /\ receipts' = receipts
      \/ pump' = done /\ receipts' = receipts \union {Receipt(flowed)}
  BY DEF FillOneInterval, Becomes
<1> HIDE DEF flowed
<1>4. /\ OpenSale(shown, receipts) /\ State(shown) \in {"FILLING", "LIMIT_REACHED"}
      /\ Receipt(shown) = Receipt(flowed) /\ shown.amount = flowed.amount
  BY <1>2, LimitShownPump
<1> HIDE DEF shown
<1>5. PumpOK(done, receipts \union {Receipt(flowed)}) /\ done.amount = flowed.amount
  <2>1. State(shown) \in {"FILLING", "SUSPENDED", "LIMIT_REACHED"}
    BY <1>4
  <2>2. PumpOK(done, receipts \union {Receipt(shown)}) /\ done.amount = shown.amount
    BY <1>4, <2>1, SaleCompletes
  <2> QED  BY <1>4, <2>2
<1> HIDE DEF done
<1>6. PumpOK(pump', receipts') /\ pump'.amount = flowed.amount
  BY <1>2, <1>3, <1>5
<1> QED  BY <1>2, <1>6 DEF Invariant, AmountKept

-----------------------------------------------------------------------------
(* Mishaps and recovery. *)

\* What ends a sale without completing it stops the engine.
LEMMA Interrupted ==
  ASSUME NEW sold, NEW p, PumpOK(p, sold), NEW h \in SimPump, SameMachine(h, p),
         h.filling_active = FALSE, h.sales = p.sales,
         NEW o \in Observation, o.event \in {"FAULT_OBSERVED", "COMMUNICATION_LOST"},
         o.key = None
  PROVE  PumpOK(Applied(h, o), sold) /\ Applied(h, o).amount = h.amount
<1> DEFINE q == Applied(h, o)
<1>1. /\ SalesAgree(p, sold) /\ EngineAgrees(p)
      /\ State(h) = State(p) /\ h.ctx.completed_evidence_keys = p.ctx.completed_evidence_keys
  BY DEF PumpOK, SameMachine
<1>2. /\ q \in SimPump /\ SameSale(q, h)
      /\ q.ctx.completed_evidence_keys = h.ctx.completed_evidence_keys
      /\ State(q) = After(State(h), o.event)
  <2>1. o.event # "FILLING_COMPLETED"
    OBVIOUS
  <2>2. /\ q \in SimPump /\ SameSale(q, h)
        /\ q.ctx.completed_evidence_keys \in
              {h.ctx.completed_evidence_keys,
               h.ctx.completed_evidence_keys \union ({o.key} \ {None})}
        /\ State(q) = After(State(h), o.event)
    BY <2>1, AppliedPump
  <2> HIDE DEF q
  <2> QED  BY <2>2
<1> HIDE DEF q
<1>3. State(q) \in Settled \ Flowing
  BY <1>1, <1>2, Interruptions DEF EngineAgrees
<1>4. q.filling_active = FALSE /\ q.sales = p.sales /\ q.amount = h.amount
  BY <1>2 DEF SameSale
<1>5. q.ctx.completed_evidence_keys \subseteq sold
  BY <1>1, <1>2 DEF SalesAgree
<1>6. PumpOK(q, sold)
  BY <1>1, <1>2, <1>3, <1>4, <1>5, EngineStands
<1> QED  BY <1>4, <1>6 DEF q

LEMMA InjectFaultKeeps ==
  ASSUME Invariant, InjectFault  PROVE Invariant' /\ AmountKept
<1> DEFINE h == Halted(pump)
           f == [h EXCEPT !.fault_code = 1, !.wayne_status = ResetStatus]
           b == NoObservation("FAULT_OBSERVED")
           o == [b EXCEPT !.fault = 1]
           p == Applied(f, o)
<1>1. pump \in SimPump /\ pump.amount \in Nat
  BY DEF Invariant, PumpOK, SimPump
<1>2. /\ h \in SimPump /\ SameMachine(h, pump) /\ h.filling_active = FALSE
      /\ h.sales = pump.sales /\ h.amount = pump.amount
  BY <1>1 DEF Halted, SimPump, SameMachine, State
<1>3. pump' = p /\ receipts' = receipts
  BY DEF InjectFault, Mishap, Becomes, NothingSold
<1> HIDE DEF h
<1>4. /\ f \in SimPump /\ SameMachine(f, pump) /\ f.filling_active = FALSE
      /\ f.sales = pump.sales /\ f.amount = pump.amount
  BY <1>2 DEF SimPump, SameMachine, State, Fault, ResetStatus
<1> HIDE DEF f
<1>5. o \in Observation /\ o.event = "FAULT_OBSERVED" /\ o.key = None
  <2>1. b \in Observation /\ b.event = "FAULT_OBSERVED" /\ b.key = None
    BY PlainObservation DEF PumpEvent
  <2> HIDE DEF b
  <2> QED  BY <2>1 DEF Observation, Fault
<1> HIDE DEF o
<1>6. PumpOK(p, receipts) /\ p.amount = pump.amount
  BY <1>4, <1>5, Interrupted DEF Invariant
<1> HIDE DEF p
<1> QED  BY <1>1, <1>3, <1>6 DEF Invariant, AmountKept

LEMMA DisableCommunicationKeeps ==
  ASSUME Invariant, DisableCommunication  PROVE Invariant' /\ AmountKept
<1> DEFINE h == [pump EXCEPT !.enabled = FALSE, !.filling_active = FALSE]
           o == NoObservation("COMMUNICATION_LOST")
           p == Applied(h, o)
<1>1. pump \in SimPump /\ pump.amount \in Nat
  BY DEF Invariant, PumpOK, SimPump
<1>2. /\ h \in SimPump /\ SameMachine(h, pump) /\ h.filling_active = FALSE
      /\ h.sales = pump.sales /\ h.amount = pump.amount
  BY <1>1 DEF SimPump, SameMachine, State
<1>3. pump' = p /\ receipts' = receipts
  BY DEF DisableCommunication, Mishap, Becomes, NothingSold, Event
<1> HIDE DEF h
<1>4. o \in Observation /\ o.event = "COMMUNICATION_LOST" /\ o.key = None
  BY PlainObservation DEF PumpEvent
<1> HIDE DEF o
<1>5. PumpOK(p, receipts) /\ p.amount = pump.amount
  BY <1>2, <1>4, Interrupted DEF Invariant
<1> HIDE DEF p
<1> QED  BY <1>1, <1>3, <1>5 DEF Invariant, AmountKept

LEMMA EnableCommunicationKeeps ==
  ASSUME Invariant, EnableCommunication  PROVE Invariant' /\ AmountKept
<1> DEFINE w == [pump EXCEPT !.enabled = TRUE]
           p == Event(w, "COMMUNICATION_STARTED")
<1>1. PumpOK(w, receipts) /\ SameSale(w, pump)
  <2>1. w \in SimPump /\ SameSale(w, pump) /\ SameTerms(w, pump) /\ SameMachine(w, pump)
    BY DEF Invariant, PumpOK, SimPump, SameSale, SameTerms, SameMachine, State
  <2> QED  BY <2>1, OtherFields DEF Invariant
<1>2. pump' = p /\ receipts' = receipts
  BY DEF EnableCommunication, Becomes, NothingSold
<1> HIDE DEF w
<1>3. PumpOK(p, receipts) /\ SameSale(p, w)
  BY <1>1, QuietEvent DEF Quiet
<1> HIDE DEF p
<1> QED  BY <1>1, <1>2, <1>3, SameSaleTransitive, SaleGoesOn DEF Invariant

LEMMA ClearFaultKeeps ==
  ASSUME Invariant, ClearFault  PROVE Invariant' /\ AmountKept
<1> DEFINE w == [pump EXCEPT !.fault_code = None]
           e == Event(w, "FAULT_CLEARED")
           c == [e EXCEPT !.wayne_status = ResetStatus]
           r == Event(c, "RESET_OBSERVED")
           p == Event(r, "READY_OBSERVED")
<1>1. PumpOK(w, receipts) /\ SameSale(w, pump)
  <2>1. w \in SimPump /\ SameSale(w, pump) /\ SameTerms(w, pump) /\ SameMachine(w, pump)
    BY DEF Invariant, PumpOK, SimPump, SameSale, SameTerms, SameMachine, State, Fault
  <2> QED  BY <2>1, OtherFields DEF Invariant
<1>2. pump' = p /\ receipts' = receipts
  BY DEF ClearFault, Becomes, NothingSold
<1> HIDE DEF w
<1>3. PumpOK(e, receipts) /\ SameSale(e, pump)
  BY <1>1, QuietEvent, SameSaleTransitive DEF Quiet
<1> HIDE DEF e
<1>4. PumpOK(c, receipts) /\ SameSale(c, pump)
  <2>1. c \in SimPump /\ SameSale(c, e) /\ SameTerms(c, e) /\ SameMachine(c, e)
    BY <1>3 DEF PumpOK, SimPump, SameSale, SameTerms, SameMachine, State, ResetStatus
  <2> QED  BY <1>3, <2>1, OtherFields, SameSaleTransitive
<1> HIDE DEF c
<1>5. PumpOK(r, receipts) /\ SameSale(r, pump)
  BY <1>4, QuietEvent, SameSaleTransitive DEF Quiet
<1> HIDE DEF r
<1>6. PumpOK(p, receipts) /\ SameSale(p, pump)
  BY <1>5, QuietEvent, SameSaleTransitive DEF Quiet
<1> HIDE DEF p
<1> QED  BY <1>2, <1>6, SaleGoesOn DEF Invariant

\* A machine built anew remembers no evidence.
LEMMA NewContexts ==
  ASSUME NEW s \in PumpState, NEW healthy \in BOOLEAN
  PROVE  /\ NewContext(s, healthy) \in Context
         /\ NewContext(s, healthy).current_state = s
         /\ NewContext(s, healthy).completed_evidence_keys = {}
BY DEF NewContext, Context, Chosen, Number, Fault

LEMMA RestartPumpKeeps ==
  ASSUME Invariant, RestartPump  PROVE Invariant' /\ AmountKept
<1> DEFINE x == Cleared(pump)
           cleared == [x EXCEPT !.nozzle_out = FALSE, !.fault_code = None]
           cl == NewContext("DISCOVERING", TRUE)
           cd == NewContext("DISCONNECTED", FALSE)
           live == [cleared EXCEPT !.ctx = cl]
           dead == [cleared EXCEPT !.ctx = cd, !.wayne_status = pump.wayne_status]
           r == Event(live, "RESET_OBSERVED")
           p == Event(r, "READY_OBSERVED")
<1>1. /\ pump \in SimPump /\ SalesAgree(pump, receipts) /\ pump.wayne_status \in Nat
      /\ pump.filling_active => pump.active_transaction_id # None
  BY PumpAssumption DEF Invariant, PumpOK, SalesAgree, SimPump
<1>2. receipts' = receipts /\ (pump' = p \/ pump' = dead)
  BY DEF RestartPump, Mishap, NothingSold, Becomes
<1>3. /\ x \in SimPump /\ x.filling_active = FALSE /\ x.sales = pump.sales
      /\ x.active_transaction_id = None
  BY <1>1, ClearedPump
<1> HIDE DEF x
<1>4. /\ cleared \in SimPump /\ cleared.filling_active = FALSE /\ cleared.sales = pump.sales
      /\ cleared.active_transaction_id = None
  BY <1>3 DEF SimPump, Fault
<1> HIDE DEF cleared
<1>5. /\ cl \in Context /\ cl.current_state = "DISCOVERING" /\ cl.completed_evidence_keys = {}
      /\ cd \in Context /\ cd.current_state = "DISCONNECTED" /\ cd.completed_evidence_keys = {}
  BY NewContexts DEF PumpState
<1> HIDE DEF cl, cd
<1>6. /\ live \in SimPump /\ live.ctx = cl /\ live.filling_active = FALSE
      /\ live.sales = pump.sales /\ live.active_transaction_id = None
  BY <1>4, <1>5 DEF SimPump
<1>7. /\ dead \in SimPump /\ dead.ctx = cd /\ dead.filling_active = FALSE
      /\ dead.sales = pump.sales /\ dead.active_transaction_id = None
  BY <1>1, <1>4, <1>5 DEF SimPump
<1> HIDE DEF live, dead
<1>8. PumpOK(live, receipts)
  <2>1. State(live) \in Settled \ Flowing /\ live.ctx.completed_evidence_keys \subseteq receipts
    BY <1>5, <1>6 DEF State, Settled, Flowing, PumpState
  <2> QED  BY <1>1, <1>6, <2>1, EngineStands
<1>9. PumpOK(dead, receipts)
  <2>1. State(dead) \in Settled \ Flowing /\ dead.ctx.completed_evidence_keys \subseteq receipts
    BY <1>5, <1>7 DEF State, Settled, Flowing, PumpState
  <2> QED  BY <1>1, <1>7, <2>1, EngineStands
<1>10. PumpOK(r, receipts) /\ SameSale(r, live)
  BY <1>8, QuietEvent DEF Quiet
<1> HIDE DEF r
<1>11. PumpOK(p, receipts) /\ SameSale(p, live)
  BY <1>10, QuietEvent, SameSaleTransitive DEF Quiet
<1> HIDE DEF p
<1>12. p.active_transaction_id = None
  BY <1>6, <1>11 DEF SameSale
<1> QED  BY <1>1, <1>2, <1>7, <1>9, <1>11, <1>12 DEF Invariant, AmountKept

-----------------------------------------------------------------------------

LEMMA AnswerKeeps == ASSUME Invariant, UNCHANGED <<pump, receipts>>  PROVE Invariant' /\ AmountKept
<1>1. SameSale(pump', pump)
  BY DEF SameSale
<1> QED  BY <1>1, SaleGoesOn DEF Invariant

LEMMA PumpKeeps ==
  ASSUME Invariant, PumpNext  PROVE Invariant' /\ AmountKept
<1>1. CASE ColdStart
  BY <1>1, ColdStartKeeps
<1>2. CASE Customer
  BY <1>2, LiftNozzleKeeps, ReturnNozzleKeeps DEF Customer
<1>3. CASE Commands
  <2>1. CASE Answer
    BY <2>1, AnswerKeeps DEF Answer, NothingSold
  <2>2. CASE \E n \in Nozzles, price \in NewPrices : SetPrice(n, price)
    BY <2>2, SetPriceKeeps
  <2>3. CASE \E v \in Presets : PresetVolume(v) \/ PresetAmount(v)
    BY <2>3, PresetKeeps
  <2> QED  BY <1>3, <2>1, <2>2, <2>3, RefuseKeeps, AuthorizeKeeps, StopKeeps, SuspendKeeps,
              ResumeKeeps, ResetKeeps DEF Commands
<1>4. CASE FillOneInterval
  BY <1>4, FillOneIntervalKeeps
<1>5. CASE InjectFault
  BY <1>5, InjectFaultKeeps
<1>6. CASE ClearFault \/ EnableCommunication
  BY <1>6, ClearFaultKeeps, EnableCommunicationKeeps
<1>7. CASE RestartPump \/ DisableCommunication
  BY <1>7, RestartPumpKeeps, DisableCommunicationKeeps
<1> QED  BY <1>1, <1>2, <1>3, <1>4, <1>5, <1>6, <1>7
         DEF PumpNext, QueueingStep, OtherStep, ForgettingStep

LEMMA NextKeeps ==
  ASSUME Invariant, [Next]_vars  PROVE Invariant' /\ AmountKept
<1>1. PumpNext \/ UNCHANGED <<pump, receipts>>
  BY DEF Next, Observed, Unobserved, PumpMoves, DeliverReport, DeliverNothing, PumpNext,
         OtherStep, vars, pumpVars
<1> QED  BY <1>1, PumpKeeps, AnswerKeeps

LEMMA InvariantHolds == Spec => []Invariant
<1>1. Init => Invariant
  <2> SUFFICES ASSUME Init  PROVE Invariant
    OBVIOUS
  <2> DEFINE c == NewContext("DISCONNECTED", FALSE)
  <2>1. pump = NewSimulatedPump /\ receipts = {}
    BY DEF Init, PumpInit
  <2>2. c \in Context /\ c.current_state = "DISCONNECTED" /\ c.completed_evidence_keys = {}
    BY NewContexts DEF PumpState
  <2>3. Prices \in [Nozzles -> Nat]
    BY PumpAssumption DEF Nozzles
  <2>4. NewSimulatedPump.ctx = c
    BY DEF NewSimulatedPump
  <2> HIDE DEF c
  <2>5. pump \in SimPump
    BY <2>1, <2>2, <2>3, <2>4 DEF NewSimulatedPump, SimPump, Chosen, Number, Fault, ResetStatus
  <2>6. pump.filling_active = FALSE /\ pump.ctx = c
    BY <2>1, <2>4 DEF NewSimulatedPump
  <2>7. State(pump) \in Settled \ Flowing /\ pump.ctx.completed_evidence_keys = {}
    BY <2>2, <2>6 DEF State, Settled, Flowing, PumpState
  <2>8. SalesAgree(pump, receipts)
    BY <2>1, <2>6, <2>7 DEF SalesAgree
  <2> QED  BY <2>5, <2>6, <2>7, <2>8, EngineStands DEF Invariant
<1>2. Invariant /\ [Next]_vars => Invariant'
  BY NextKeeps
<1> QED  BY <1>1, <1>2, PTL DEF Spec

-----------------------------------------------------------------------------
(* Sums over receipts. *)

\* MapThenSumSet is a recursive function of the subsets of the set it sums over.
SumStep(s, field, f) ==
  IF s = {} THEN 0 ELSE LET r == CHOOSE q \in s : TRUE IN r[field] + f[s \ {r}]

IsSum(f, D, field) == f = [s \in D |-> SumStep(s, field, f)]

LEMMA SumStepIs ==
  ASSUME NEW s, s # {}, NEW field, NEW f
  PROVE  \E r \in s : (r = CHOOSE q \in s : TRUE) /\ SumStep(s, field, f) = r[field] + f[s \ {r}]
BY DEF SumStep

LEMMA SumExists ==
  ASSUME NEW S, IsFiniteSet(S), NEW field
  PROVE  \E f : IsSum(f, SUBSET S, field)
<1> DEFINE D(n) == {s \in SUBSET S : Cardinality(s) <= n}
           N == Cardinality(S)
           T == {n \in 0..N : \E f : IsSum(f, D(n), field)}
<1>1. N \in Nat /\ \A s \in SUBSET S : IsFiniteSet(s) /\ Cardinality(s) \in Nat /\ Cardinality(s) <= N
  BY FS_Subset, FS_CardinalityType
<1>2. 0 \in T
  <2> DEFINE f == [s \in D(0) |-> 0]
  <2>1. ASSUME NEW s \in D(0)  PROVE SumStep(s, field, f) = f[s]
    <3>1. Cardinality(s) = 0 /\ IsFiniteSet(s)
      BY <1>1, <2>1
    <3>2. s = {}
      BY <3>1, FS_EmptySet
    <3> QED  BY <3>2 DEF SumStep
  <2>2. IsSum(f, D(0), field)
    <3> DEFINE G == D(0)
    <3>1. f = [s \in G |-> 0] /\ \A s \in G : SumStep(s, field, f) = f[s]
      BY <2>1
    <3> HIDE DEF f, G
    <3>2. f = [s \in G |-> f[s]]
      BY <3>1
    <3>3. f = [s \in G |-> SumStep(s, field, f)]
      BY <3>1, <3>2
    <3> QED  BY <3>3 DEF IsSum, G
  <2>3. 0 \in 0..N
    BY <1>1
  <2> HIDE DEF f, D
  <2> QED  BY <2>2, <2>3
<1>3. ASSUME NEW n \in Nat, n < N, n \in T  PROVE n + 1 \in T
  <2>1. PICK f : IsSum(f, D(n), field)
    BY <1>3
  <2> DEFINE G == D(n + 1)
             g == [s \in G |-> IF s \in D(n) THEN f[s] ELSE SumStep(s, field, f)]
  <2>2. ASSUME NEW s \in G  PROVE g[s] = SumStep(s, field, g)
    <3>1. g[s] = SumStep(s, field, f)
      <4>1. CASE s \in D(n)
        <5> HIDE DEF D
        <5> QED  BY <2>1, <4>1 DEF IsSum
      <4> QED  BY <4>1
    <3>2. CASE s = {}
      BY <3>1, <3>2 DEF SumStep
    <3>3. CASE s # {}
      <4>1. PICK r \in s : (r = CHOOSE q \in s : TRUE) /\ SumStep(s, field, f) = r[field] + f[s \ {r}]
        BY <3>3, SumStepIs
      <4>2. s \in SUBSET S /\ Cardinality(s) <= n + 1 /\ IsFiniteSet(s) /\ Cardinality(s) \in Nat
        BY <1>1
      <4>3. Cardinality(s \ {r}) = Cardinality(s) - 1
        BY <4>2, FS_RemoveElement
      <4>4. s \ {r} \in D(n) /\ s \ {r} \in G
        BY <4>2, <4>3
      <4>5. g[s \ {r}] = f[s \ {r}]
        <5> HIDE DEF D, G
        <5> QED  BY <4>4
      <4> HIDE DEF g, D, G
      <4>6. SumStep(s, field, g) = r[field] + g[s \ {r}]
        BY <3>3, <4>1 DEF SumStep
      <4> QED  BY <3>1, <4>1, <4>5, <4>6
    <3> QED  BY <3>2, <3>3
  <2>3. g = [s \in G |-> g[s]]
    OBVIOUS
  <2> HIDE DEF g
  <2>4. IsSum(g, G, field)
    BY <2>2, <2>3 DEF IsSum
  <2>5. n + 1 \in 0..N
    BY <1>1, <1>3
  <2> HIDE DEF D
  <2> QED  BY <2>4, <2>5 DEF G
<1>4. N \in T
  <2> HIDE DEF T, N
  <2>1. 0..N \subseteq T
    BY <1>1, <1>2, <1>3, UpTo
  <2> QED  BY <1>1, <2>1
<1>5. D(N) = SUBSET S
  BY <1>1
<1> HIDE DEF D, N
<1> QED  BY <1>4, <1>5

LEMMA SumIsFound ==
  ASSUME NEW S, IsFiniteSet(S), NEW field
  PROVE  \E f : IsSum(f, SUBSET S, field) /\ SumOf(field, S) = f[S]
<1> DEFINE P(g) == g = [s \in SUBSET S |-> SumStep(s, field, g)]
<1>1. P(CHOOSE g : P(g))
  <2>1. \E f : P(f)
    BY SumExists DEF IsSum
  <2> QED  BY <2>1
<1>2. SumOf(field, S) = (CHOOSE g : P(g))[S]
  BY DEF SumOf, MapThenSumSet, MapThenFoldSet, SumStep
<1> QED  BY <1>1, <1>2 DEF IsSum

\* In whatever order the elements are taken.
SumsUp(f, S, field) ==
  \A s \in SUBSET S : f[s] \in Nat /\ \A r \in s : f[s] = r[field] + f[s \ {r}]

LEMMA SumOfAny ==
  ASSUME NEW S, IsFiniteSet(S), NEW field, \A r \in S : r[field] \in Nat,
         NEW f, IsSum(f, SUBSET S, field)
  PROVE  SumsUp(f, S, field)
<1> DEFINE Right(s) == f[s] \in Nat /\ \A r \in s : f[s] = r[field] + f[s \ {r}]
           N == Cardinality(S)
           T == {n \in 0..N : \A s \in SUBSET S : Cardinality(s) <= n => Right(s)}
<1>1. N \in Nat /\ \A s \in SUBSET S : IsFiniteSet(s) /\ Cardinality(s) \in Nat /\ Cardinality(s) <= N
  BY FS_Subset, FS_CardinalityType
<1>2. \A s \in SUBSET S : f[s] = SumStep(s, field, f)
  BY DEF IsSum
<1>3. f[{}] = 0
  BY <1>2 DEF SumStep
<1>e. Cardinality({}) = 0
  <2> HIDE DEF T, Right, N
  <2> QED  BY FS_EmptySet, Zenon
<1>4. 0 \in T
  <2>1. ASSUME NEW s \in SUBSET S, Cardinality(s) <= 0  PROVE Right(s)
    <3>1. IsFiniteSet(s) /\ Cardinality(s) = 0
      BY <1>1, <2>1
    <3>2. s = {}
      BY <3>1, FS_EmptySet
    <3> QED  BY <1>3, <3>2
  <2>2. 0 \in 0..N
    BY <1>1
  <2> HIDE DEF Right, N
  <2> QED  BY <2>1, <2>2
<1>5. ASSUME NEW n \in Nat, n < N, n \in T  PROVE n + 1 \in T
  <2>1. ASSUME NEW s \in SUBSET S, Cardinality(s) = n + 1  PROVE Right(s)
    <3>1. s # {}
      <4> HIDE DEF T, Right, N
      <4> QED  BY <1>e, <2>1
    <3>2. PICK c \in s : f[s] = c[field] + f[s \ {c}]
      <4>1. \E c \in s : SumStep(s, field, f) = c[field] + f[s \ {c}]
        BY <3>1, SumStepIs
      <4> HIDE DEF T, Right, N
      <4> QED  BY <1>2, <4>1
    <3>3. \A r \in s : s \ {r} \in SUBSET S /\ Cardinality(s \ {r}) <= n
      BY <1>1, <2>1, FS_RemoveElement
    <3>4. \A r \in s : Right(s \ {r})
      BY <1>5, <3>3
    <3>5. f[s] \in Nat
      <4>1. c[field] \in Nat /\ f[s \ {c}] \in Nat
        BY <3>2, <3>4
      <4> QED  BY <3>2, <4>1
    <3>6. ASSUME NEW r \in s  PROVE f[s] = r[field] + f[s \ {r}]
      <4>1. CASE r = c
        BY <3>2, <4>1
      <4>2. CASE r # c
        <5> DEFINE t == s \ {c}
                   u == s \ {r}
                   v == t \ {r}
        <5>1. r \in t /\ c \in u /\ u \ {c} = v
          BY <4>2
        <5>2. Right(t) /\ Right(u)
          BY <3>4
        <5>3. f[t] = r[field] + f[v] /\ f[u] = c[field] + f[v]
          BY <5>1, <5>2
        <5>4. v \in SUBSET S /\ Cardinality(v) <= n
          <6>1. /\ v \in SUBSET t /\ v \in SUBSET S /\ IsFiniteSet(t)
                /\ Cardinality(t) <= n
            BY <1>1, <3>3
          <6>2. Cardinality(v) \in Nat /\ Cardinality(t) \in Nat
            BY <1>1
          <6> HIDE DEF v, t, u, T, Right, N
          <6>3. Cardinality(v) <= Cardinality(t)
            BY <6>1, FS_Subset, Zenon
          <6> QED  BY <6>1, <6>2, <6>3
        <5>5. f[t] \in Nat /\ f[u] \in Nat /\ c[field] \in Nat /\ r[field] \in Nat
          BY <5>2
        <5>6. f[v] \in Nat
          <6> HIDE DEF v
          <6> QED  BY <1>5, <5>4
        <5>7. f[s] = c[field] + f[t]
          BY <3>2
        <5> HIDE DEF v, t, u
        <5>8. f[s] = r[field] + f[u]
          BY <5>3, <5>5, <5>6, <5>7
        <5> QED  BY <5>8 DEF u
      <4> QED  BY <4>1, <4>2
    <3> QED  BY <3>5, <3>6
  <2>2. \A s \in SUBSET S : Cardinality(s) <= n => Right(s)
    BY <1>5
  <2>3. n + 1 \in 0..N
    BY <1>1, <1>5
  <2> HIDE DEF Right
  <2>4. \A s \in SUBSET S : Cardinality(s) <= n + 1 => Right(s)
    BY <1>1, <2>1, <2>2
  <2> QED  BY <2>3, <2>4
<1>6. 0..N \subseteq T
  <2> HIDE DEF T, N
  <2> QED  BY <1>1, <1>4, <1>5, UpTo
<1>7. ASSUME NEW s \in SUBSET S  PROVE Right(s)
  <2>1. Cardinality(s) <= N /\ N \in 0..N
    BY <1>1
  <2> HIDE DEF Right, N
  <2> QED  BY <1>6, <2>1
<1> QED  BY <1>7 DEF SumsUp

LEMMA SumsAgree ==
  ASSUME NEW T, IsFiniteSet(T), NEW S, S \subseteq T, NEW field, NEW f, NEW g,
         IsSum(f, SUBSET S, field), IsSum(g, SUBSET T, field)
  PROVE  \A s \in SUBSET S : f[s] = g[s]
<1> DEFINE N == Cardinality(S)
           Q == {n \in 0..N : \A s \in SUBSET S : Cardinality(s) <= n => f[s] = g[s]}
<1>1. IsFiniteSet(S)
  BY FS_Subset
<1>2. N \in Nat /\ \A s \in SUBSET S : IsFiniteSet(s) /\ Cardinality(s) \in Nat /\ Cardinality(s) <= N
  BY <1>1, FS_Subset, FS_CardinalityType
<1>3. \A s \in SUBSET S : f[s] = SumStep(s, field, f) /\ g[s] = SumStep(s, field, g)
  BY DEF IsSum
<1>4. f[{}] = g[{}]
  BY <1>3 DEF SumStep
<1>5. 0 \in Q
  <2>1. ASSUME NEW s \in SUBSET S, Cardinality(s) <= 0  PROVE f[s] = g[s]
    <3>1. IsFiniteSet(s) /\ Cardinality(s) = 0
      BY <1>2, <2>1
    <3>2. s = {}
      BY <3>1, FS_EmptySet
    <3> QED  BY <1>4, <3>2
  <2>2. 0 \in 0..N
    BY <1>2
  <2> HIDE DEF N
  <2> QED  BY <2>1, <2>2
<1>6. ASSUME NEW n \in Nat, n < N, n \in Q  PROVE n + 1 \in Q
  <2>1. ASSUME NEW s \in SUBSET S, Cardinality(s) <= n + 1  PROVE f[s] = g[s]
    <3>1. CASE s = {}
      BY <1>4, <3>1
    <3>2. CASE s # {}
      <4>1. PICK r \in s : (r = CHOOSE q \in s : TRUE) /\ SumStep(s, field, f) = r[field] + f[s \ {r}]
        BY <3>2, SumStepIs
      <4>2. SumStep(s, field, g) = r[field] + g[s \ {r}]
        BY <3>2, <4>1 DEF SumStep
      <4>3. s \ {r} \in SUBSET S /\ Cardinality(s \ {r}) <= n
        BY <1>2, <2>1, FS_RemoveElement
      <4>4. f[s \ {r}] = g[s \ {r}]
        BY <1>6, <4>3
      <4> QED  BY <1>3, <4>1, <4>2, <4>4
    <3> QED  BY <3>1, <3>2
  <2>2. n + 1 \in 0..N
    BY <1>2, <1>6
  <2> HIDE DEF N
  <2> QED  BY <2>1, <2>2
<1>7. 0..N \subseteq Q
  <2> HIDE DEF Q, N
  <2> QED  BY <1>2, <1>5, <1>6, UpTo
<1>8. N \in 0..N
  BY <1>2
<1> HIDE DEF N
<1> QED  BY <1>2, <1>7, <1>8

\* A new element adds its field to the sum.
LEMMA SumOfNone == ASSUME NEW field  PROVE SumOf(field, {}) = 0
<1>1. PICK f : IsSum(f, SUBSET {}, field) /\ SumOf(field, {}) = f[{}]
  BY SumIsFound, FS_EmptySet
<1> QED  BY <1>1 DEF IsSum, SumStep

LEMMA SumOfMore ==
  ASSUME NEW S, IsFiniteSet(S), NEW r, r \notin S, NEW field,
         \A q \in S \union {r} : q[field] \in Nat
  PROVE  SumOf(field, S \union {r}) = SumOf(field, S) + r[field]
<1> DEFINE T == S \union {r}
<1>1. IsFiniteSet(T)
  BY FS_AddElement
<1>2. PICK f : IsSum(f, SUBSET S, field) /\ SumOf(field, S) = f[S]
  BY SumIsFound
<1>3. PICK g : IsSum(g, SUBSET T, field) /\ SumOf(field, T) = g[T]
  BY <1>1, SumIsFound
<1>4. S \subseteq T /\ r \in T /\ T \ {r} = S /\ \A q \in T : q[field] \in Nat
  OBVIOUS
<1> HIDE DEF T
<1>5. f[S] = g[S]
  <2>1. \A s \in SUBSET S : f[s] = g[s]
    BY <1>1, <1>2, <1>3, <1>4, SumsAgree
  <2> QED  BY <2>1
<1>6. g[T] = r[field] + g[S] /\ g[S] \in Nat
  <2>1. SumsUp(g, T, field)
    <3>1. (\A q \in T : q[field] \in Nat) /\ IsFiniteSet(T) /\ IsSum(g, SUBSET T, field)
      BY <1>1, <1>3, <1>4
    <3> QED  BY <3>1, SumOfAny
  <2> QED  BY <1>4, <2>1 DEF SumsUp
<1>7. SumOf(field, T) = SumOf(field, S) + r[field]
  BY <1>2, <1>3, <1>4, <1>5, <1>6
<1> QED  BY <1>7 DEF T

-----------------------------------------------------------------------------
(* The totals count every sale once. *)

HasTotals(p) == {"total_volume", "total_amount"} \subseteq DOMAIN p

\* The totals of p, whatever else changed.
SameTotals(q, p) ==
  HasTotals(q) /\ q.total_volume = p.total_volume /\ q.total_amount = p.total_amount

LEMMA SameTotalsTransitive ==
  ASSUME NEW p, NEW q, NEW r, SameTotals(q, p), SameTotals(r, q)
  PROVE  SameTotals(r, p)
BY DEF SameTotals

\* Nothing the machine does touches the totals.
LEMMA AppliedTotals ==
  ASSUME NEW p, HasTotals(p), NEW o
  PROVE  SameTotals(Applied(p, o), p)
<1> DEFINE c == Unversioned(Apply(Synced(p), o))
           n == IF o.event = "COMMUNICATION_LOST" THEN FALSE
                ELSE IF o.event = "COMMUNICATION_STARTED" THEN TRUE ELSE p.enabled
           q == Applied(p, o)
<1>1. q = [p EXCEPT !.ctx = c, !.price_verified = c.price_verified, !.enabled = n]
  BY DEF Applied
<1> HIDE DEF c, n, q
<1>2. SameTotals(q, p)
  BY <1>1 DEF SameTotals, HasTotals
<1> QED  BY <1>2 DEF q

LEMMA EventTotals ==
  ASSUME NEW p, NEW b, SameTotals(p, b), NEW e
  PROVE  SameTotals(Event(p, e), b) /\ SameTotals(RawEvent(p, e), b)
<1>1. HasTotals(p)
  BY DEF SameTotals
<1>2. SameTotals(Event(p, e), p) /\ SameTotals(RawEvent(p, e), p)
  BY <1>1, AppliedTotals DEF Event, RawEvent
<1> QED  BY <1>2, SameTotalsTransitive

\* The total of a pump whose sale has been completed.
LEMMA CompletedTotals ==
  ASSUME NEW p, HasTotals(p), {"volume", "amount"} \subseteq DOMAIN p
  PROVE  /\ Completed(p).total_volume = p.total_volume + p.volume
         /\ Completed(p).total_amount = p.total_amount + p.amount
<1> DEFINE h == Halted(p)
           paid == Credited(h)
           stopped == [paid EXCEPT !.wayne_status = FillingCompleted]
           o == [NoObservation("FILLING_COMPLETED") EXCEPT
                   !.raw = FillingCompleted,
                   !.key = <<p.active_transaction_id, p.volume, p.amount>>]
<1>1. /\ SameTotals(h, p) /\ {"volume", "amount"} \subseteq DOMAIN h
      /\ h.volume = p.volume /\ h.amount = p.amount
  BY DEF Halted, HasTotals, SameTotals
<1>2. Completed(p) = Applied(stopped, o)
  BY DEF Completed
<1> HIDE DEF h, o
<1>3. /\ HasTotals(paid) /\ paid.total_volume = h.total_volume + h.volume
      /\ paid.total_amount = h.total_amount + h.amount
  BY <1>1 DEF Credited, HasTotals, SameTotals
<1> HIDE DEF paid
<1>4. SameTotals(stopped, paid)
  BY <1>3 DEF HasTotals, SameTotals
<1> HIDE DEF stopped
<1>5. SameTotals(Applied(stopped, o), stopped)
  BY <1>4, AppliedTotals DEF SameTotals
<1> QED  BY <1>1, <1>2, <1>3, <1>4, <1>5 DEF SameTotals

\* A step that completes no sale.
SellsNothing == SameTotals(pump', pump) /\ receipts' = receipts

\* A step that completes the sale p is in.
Sells(p) ==
  /\ SameTotals(p, pump) /\ OpenSale(p, receipts)
  /\ pump' = Completed(p) /\ receipts' = receipts \union {Receipt(p)}

LEMMA CommandTotals ==
  ASSUME HasTotals(pump), Refuse \/ Answer \/ Authorize \/ Suspend \/ Resume \/ Reset
  PROVE  SellsNothing
<1>0. SameTotals(pump, pump) /\ receipts' = receipts
  BY DEF SameTotals, Refuse, Answer, Authorize, Suspend, Resume, Reset, NothingSold
<1>1. CASE Refuse
  <2>1. pump' = [pump EXCEPT !.ctx = Synced(pump)]
    BY <1>1 DEF Refuse, Becomes
  <2> QED  BY <1>0, <2>1 DEF SellsNothing, SameTotals, HasTotals
<1>2. CASE Answer
  BY <1>0, <1>2 DEF Answer, SellsNothing, SameTotals, HasTotals
<1>3. CASE Authorize
  <2> DEFINE tx == pump.sales + 1
             opened == [pump EXCEPT !.active_transaction_id = tx, !.sales = tx,
                                    !.volume = 0, !.amount = 0, !.wayne_status = Authorized]
             authorized == Applied(opened, [NoObservation("AUTHORIZATION_CONFIRMED") EXCEPT
                                              !.tx = tx, !.raw = Authorized])
             running == [authorized EXCEPT !.filling_active = TRUE, !.suspended = FALSE,
                                           !.wayne_status = Filling]
  <2>1. pump' = RawEvent(running, "FILLING_STARTED")
    BY <1>3 DEF Authorize, Becomes
  <2>2. SameTotals(opened, pump)
    BY <1>0 DEF SameTotals, HasTotals
  <2> HIDE DEF opened
  <2>3. SameTotals(authorized, opened)
    BY <2>2, AppliedTotals DEF SameTotals
  <2> HIDE DEF authorized
  <2>4. SameTotals(running, authorized)
    BY <2>3 DEF SameTotals, HasTotals
  <2> HIDE DEF running
  <2>5. SameTotals(running, pump)
    BY <2>2, <2>3, <2>4, SameTotalsTransitive
  <2> QED  BY <1>0, <2>1, <2>5, EventTotals DEF SellsNothing
<1>4. CASE Suspend \/ Resume
  <2> DEFINE s == [pump EXCEPT !.suspended = TRUE, !.wayne_status = Suspended]
             t == [pump EXCEPT !.suspended = FALSE, !.wayne_status = Filling]
  <2>1. pump' \in {RawEvent(s, "SUSPENDED_OBSERVED"), RawEvent(t, "RESUMED_OBSERVED")}
    BY <1>4 DEF Suspend, Resume, Becomes
  <2>2. SameTotals(s, pump) /\ SameTotals(t, pump)
    BY <1>0 DEF SameTotals, HasTotals
  <2> HIDE DEF s, t
  <2> QED  BY <1>0, <2>1, <2>2, EventTotals DEF SellsNothing
<1>5. CASE Reset
  <2> DEFINE cleared == Cleared(pump)
             reset == RawEvent(cleared, "RESET_OBSERVED")
  <2>1. pump' \in {reset, Event(reset, "READY_OBSERVED")}
    BY <1>5 DEF Reset, Becomes
  <2>2. SameTotals(cleared, pump)
    BY <1>0 DEF Cleared, Halted, SameTotals, HasTotals
  <2> HIDE DEF cleared
  <2>3. SameTotals(reset, pump)
    BY <2>2, EventTotals
  <2> HIDE DEF reset
  <2> QED  BY <1>0, <2>1, <2>3, EventTotals DEF SellsNothing
<1> QED  BY <1>1, <1>2, <1>3, <1>4, <1>5

LEMMA TermsTotals ==
  ASSUME HasTotals(pump),
         \/ \E n \in Nozzles, price \in NewPrices : SetPrice(n, price)
         \/ \E v \in Presets : PresetVolume(v) \/ PresetAmount(v)
  PROVE  SellsNothing
<1>1. ASSUME NEW n, NEW price, SetPrice(n, price)  PROVE SellsNothing
  <2> DEFINE priced == [pump EXCEPT !.prices[n] = price, !.price_verified = TRUE]
             p == [priced EXCEPT !.ctx = Synced(priced)]
  <2>1. pump' = p /\ receipts' = receipts
    BY <1>1 DEF SetPrice, Becomes, NothingSold
  <2>2. SameTotals(priced, pump)
    BY DEF SameTotals, HasTotals
  <2> HIDE DEF priced
  <2>3. SameTotals(p, priced)
    BY <2>2 DEF SameTotals, HasTotals
  <2> HIDE DEF p
  <2> QED  BY <2>1, <2>2, <2>3, SameTotalsTransitive DEF SellsNothing
<1>2. ASSUME NEW v, PresetVolume(v) \/ PresetAmount(v)  PROVE SellsNothing
  <2> DEFINE p == [pump EXCEPT !.ctx = Synced(pump), !.preset_volume = v]
             q == [pump EXCEPT !.ctx = Synced(pump), !.preset_amount = v]
  <2>1. pump' \in {p, q} /\ receipts' = receipts
    BY <1>2 DEF PresetVolume, PresetAmount, Becomes, NothingSold
  <2>2. SameTotals(p, pump) /\ SameTotals(q, pump)
    BY DEF SameTotals, HasTotals
  <2> HIDE DEF p, q
  <2> QED  BY <2>1, <2>2 DEF SellsNothing
<1> QED  BY <1>1, <1>2

LEMMA CustomerTotals ==
  ASSUME HasTotals(pump), ColdStart \/ Customer  PROVE SellsNothing
<1>0. SameTotals(pump, pump) /\ receipts' = receipts
  BY DEF SameTotals, ColdStart, Customer, ReturnNozzle, LiftNozzle, NothingSold
<1>1. CASE ColdStart
  <2> DEFINE started == IF pump.enabled THEN pump ELSE Event(pump, "COMMUNICATION_STARTED")
             seen == Event(started, "PUMP_DISCOVERED")
             found == [seen EXCEPT !.wayne_status = ResetStatus]
             idle == RawEvent(found, "RESET_OBSERVED")
             reset == [idle EXCEPT !.nozzle_out = FALSE]
  <2>1. pump' = Event(reset, "READY_OBSERVED")
    BY <1>1 DEF ColdStart, Becomes
  <2>2. SameTotals(started, pump)
    BY <1>0, EventTotals
  <2> HIDE DEF started
  <2>3. SameTotals(seen, pump)
    BY <2>2, EventTotals
  <2> HIDE DEF seen
  <2>4. SameTotals(found, pump)
    BY <2>3 DEF SameTotals, HasTotals
  <2> HIDE DEF found
  <2>5. SameTotals(idle, pump)
    BY <2>4, EventTotals
  <2> HIDE DEF idle
  <2>6. SameTotals(reset, pump)
    BY <2>5 DEF SameTotals, HasTotals
  <2> HIDE DEF reset
  <2> QED  BY <1>0, <2>1, <2>6, EventTotals DEF SellsNothing
<1>2. ASSUME NEW n, LiftNozzle(n)  PROVE SellsNothing
  <2> DEFINE lifted == [pump EXCEPT !.selected_nozzle = n, !.nozzle_out = TRUE,
                                    !.price_verified = TRUE]
             synced == [lifted EXCEPT !.ctx = Synced(lifted)]
             o == [NoObservation("NOZZLE_LIFTED") EXCEPT !.nozzle = n, !.price = TRUE]
  <2>1. pump' = Applied(synced, o)
    BY <1>2 DEF LiftNozzle, Becomes
  <2>2. SameTotals(lifted, pump)
    BY <1>0 DEF SameTotals, HasTotals
  <2> HIDE DEF lifted, o
  <2>3. SameTotals(synced, pump)
    BY <2>2 DEF SameTotals, HasTotals
  <2> HIDE DEF synced
  <2>4. SameTotals(Applied(synced, o), synced)
    BY <2>3, AppliedTotals DEF SameTotals
  <2> QED  BY <1>0, <2>1, <2>3, <2>4, SameTotalsTransitive DEF SellsNothing
<1>3. CASE ReturnNozzle
  <2> DEFINE back == [pump EXCEPT !.nozzle_out = FALSE]
  <2>1. pump' \in {back, Event(back, "NOZZLE_RETURNED")}
    BY <1>3 DEF ReturnNozzle, Becomes
  <2>2. SameTotals(back, pump)
    BY <1>0 DEF SameTotals, HasTotals
  <2> HIDE DEF back
  <2> QED  BY <1>0, <2>1, <2>2, EventTotals DEF SellsNothing
<1> QED  BY <1>1, <1>2, <1>3 DEF Customer

LEMMA MishapTotals ==
  ASSUME HasTotals(pump),
         \/ InjectFault \/ ClearFault \/ RestartPump \/ DisableCommunication
         \/ EnableCommunication
  PROVE  SellsNothing
<1>0. SameTotals(pump, pump) /\ receipts' = receipts
  BY DEF SameTotals, InjectFault, ClearFault, RestartPump, DisableCommunication,
         EnableCommunication, Mishap, NothingSold
<1>1. CASE InjectFault
  <2> DEFINE h == [Halted(pump) EXCEPT !.fault_code = 1, !.wayne_status = ResetStatus]
             o == [NoObservation("FAULT_OBSERVED") EXCEPT !.fault = 1]
  <2>1. pump' = Applied(h, o)
    BY <1>1 DEF InjectFault, Becomes
  <2>2. SameTotals(h, pump)
    BY <1>0 DEF Halted, SameTotals, HasTotals
  <2> HIDE DEF h, o
  <2>3. SameTotals(Applied(h, o), h)
    BY <2>2, AppliedTotals DEF SameTotals
  <2> QED  BY <1>0, <2>1, <2>2, <2>3, SameTotalsTransitive DEF SellsNothing
<1>2. CASE ClearFault
  <2> DEFINE mended == [pump EXCEPT !.fault_code = None]
             told == Event(mended, "FAULT_CLEARED")
             cleared == [told EXCEPT !.wayne_status = ResetStatus]
             reset == Event(cleared, "RESET_OBSERVED")
  <2>1. pump' = Event(reset, "READY_OBSERVED")
    BY <1>2 DEF ClearFault, Becomes
  <2>2. SameTotals(mended, pump)
    BY <1>0 DEF SameTotals, HasTotals
  <2> HIDE DEF mended
  <2>3. SameTotals(told, pump)
    BY <2>2, EventTotals
  <2> HIDE DEF told
  <2>4. SameTotals(cleared, pump)
    BY <2>3 DEF SameTotals, HasTotals
  <2> HIDE DEF cleared
  <2>5. SameTotals(reset, pump)
    BY <2>4, EventTotals
  <2> HIDE DEF reset
  <2> QED  BY <1>0, <2>1, <2>5, EventTotals DEF SellsNothing
<1>3. CASE RestartPump
  <2> DEFINE cleared == [Cleared(pump) EXCEPT !.nozzle_out = FALSE, !.fault_code = None]
             live == [cleared EXCEPT !.ctx = NewContext("DISCOVERING", TRUE)]
             dead == [cleared EXCEPT !.ctx = NewContext("DISCONNECTED", FALSE),
                                     !.wayne_status = pump.wayne_status]
             reset == Event(live, "RESET_OBSERVED")
  <2>1. pump' \in {Event(reset, "READY_OBSERVED"), dead}
    BY <1>3 DEF RestartPump, Becomes
  <2>2. SameTotals(cleared, pump)
    BY <1>0 DEF Cleared, Halted, SameTotals, HasTotals
  <2> HIDE DEF cleared
  <2>3. SameTotals(live, pump) /\ SameTotals(dead, pump)
    BY <2>2 DEF SameTotals, HasTotals
  <2> HIDE DEF live, dead
  <2>4. SameTotals(reset, pump)
    BY <2>3, EventTotals
  <2> HIDE DEF reset
  <2> QED  BY <1>0, <2>1, <2>3, <2>4, EventTotals DEF SellsNothing
<1>4. CASE DisableCommunication \/ EnableCommunication
  <2> DEFINE off == [pump EXCEPT !.enabled = FALSE, !.filling_active = FALSE]
             on == [pump EXCEPT !.enabled = TRUE]
  <2>1. pump' \in {Event(off, "COMMUNICATION_LOST"), Event(on, "COMMUNICATION_STARTED")}
    BY <1>4 DEF DisableCommunication, EnableCommunication, Becomes
  <2>2. SameTotals(off, pump) /\ SameTotals(on, pump)
    BY <1>0 DEF SameTotals, HasTotals
  <2> HIDE DEF off, on
  <2> QED  BY <1>0, <2>1, <2>2, EventTotals DEF SellsNothing
<1> QED  BY <1>1, <1>2, <1>3, <1>4

\* STOP and the limit complete the sale that goes on.
LEMMA StopTotals ==
  ASSUME Invariant, Stop  PROVE Sells(pump)
<1>1. State(pump) \in Flowing
  <2>1. State(pump) \in StopStates
    BY ExecutesIn DEF Stop, PumpCommand, EligibleStates
  <2> QED  BY <2>1 DEF StopStates, Flowing, Invariant, PumpOK, EngineAgrees, Settled
<1>2. OpenSale(pump, receipts)
  BY <1>1, FlowingSaleIsOpen DEF Invariant
<1>3. pump' = Completed(pump) /\ receipts' = receipts \union {Receipt(pump)}
  BY DEF Stop, Becomes
<1>4. SameTotals(pump, pump)
  BY DEF SameTotals, HasTotals, Invariant, PumpOK, SimPump
<1> QED  BY <1>2, <1>3, <1>4 DEF Sells

LEMMA FillTotals ==
  ASSUME Invariant, FillOneInterval  PROVE SellsNothing \/ \E p : Sells(p)
<1> DEFINE flowed == Flowed(pump)
           shown == LimitShown(flowed)
<1>1. State(pump) = "FILLING"
  BY DEF FillOneInterval, FuelFlows, Invariant, PumpOK, EngineAgrees, Settled
<1>2. PumpOK(flowed, receipts) /\ State(flowed) = "FILLING"
  BY <1>1, FlowedPump
<1>3. \/ pump' = flowed /\ receipts' = receipts
      \/ pump' = Completed(shown) /\ receipts' = receipts \union {Receipt(flowed)}
  BY DEF FillOneInterval, Becomes
<1>4. SameTotals(flowed, pump)
  <2> DEFINE volume == IF pump.volume + 1 >= LimitVolume(pump) THEN LimitVolume(pump)
                       ELSE pump.volume + 1
             amount == volume * UnitPrice(pump)
             m == IF AmountReached(pump, amount) THEN pump.preset_amount ELSE amount
             paid == [pump EXCEPT !.volume = volume, !.amount = m]
             o == [NoObservation("FILLING_UPDATED") EXCEPT !.raw = Filling]
  <2>1. flowed = Applied(paid, o)
    BY DEF Flowed
  <2> HIDE DEF volume, m, flowed, o
  <2>2. SameTotals(paid, pump)
    BY DEF SameTotals, HasTotals, Invariant, PumpOK, SimPump
  <2> HIDE DEF paid
  <2>3. SameTotals(Applied(paid, o), paid)
    BY <2>2, AppliedTotals DEF SameTotals
  <2> QED  BY <2>1, <2>2, <2>3, SameTotalsTransitive
<1> HIDE DEF flowed
<1>5. SameTotals(shown, pump)
  <2> DEFINE w == [flowed EXCEPT !.wayne_status = MaxReached]
  <2>1. shown = flowed \/ shown = RawEvent(w, "LIMIT_REACHED")
    BY DEF LimitShown
  <2>2. SameTotals(w, pump)
    BY <1>4 DEF SameTotals, HasTotals
  <2> HIDE DEF w, shown
  <2> QED  BY <1>4, <2>1, <2>2, EventTotals
<1>6. OpenSale(shown, receipts) /\ Receipt(shown) = Receipt(flowed)
  BY <1>2, LimitShownPump
<1> HIDE DEF shown
<1> QED  BY <1>3, <1>4, <1>5, <1>6 DEF SellsNothing, Sells

LEMMA StepTotals ==
  ASSUME Invariant, PumpNext  PROVE SellsNothing \/ \E p : Sells(p)
<1>1. HasTotals(pump)
  BY DEF HasTotals, Invariant, PumpOK, SimPump
<1>2. CASE FillOneInterval
  BY <1>2, FillTotals
<1>3. CASE Stop
  BY <1>3, StopTotals
<1> QED  BY <1>1, <1>2, <1>3, CommandTotals, TermsTotals, CustomerTotals, MishapTotals
         DEF PumpNext, QueueingStep, OtherStep, ForgettingStep, Commands

\* The inductive invariant, with Invariant: the totals are sums of numbers.
Tally ==
  /\ IsFiniteSet(receipts)
  /\ \A r \in receipts : r[2] \in Nat /\ r[3] \in Nat
  /\ pump.total_volume = SumOf(2, receipts)
  /\ pump.total_amount = SumOf(3, receipts)

LEMMA TallyKept ==
  ASSUME Invariant, Tally, [Next]_vars  PROVE Tally'
<1>1. CASE UNCHANGED <<pump, receipts>>
  BY <1>1 DEF Tally
<1>2. CASE SellsNothing
  BY <1>2 DEF Tally, SellsNothing, SameTotals
<1>3. ASSUME NEW p, Sells(p)  PROVE Tally'
  <2> DEFINE r == Receipt(p)
             q == Completed(p)
             S == receipts \union {r}
  <2>1. /\ p \in SimPump /\ p.active_transaction_id = p.sales
        /\ \A s \in receipts : s[1] # p.sales
    BY <1>3 DEF Sells, OpenSale
  <2>2. p.volume \in Nat /\ p.amount \in Nat
    BY <2>1 DEF SimPump
  <2>3. r[1] = p.sales /\ r[2] = p.volume /\ r[3] = p.amount
    BY <2>1 DEF Receipt
  <2>4. /\ q.total_volume = p.total_volume + p.volume
        /\ q.total_amount = p.total_amount + p.amount
    <3>1. HasTotals(p) /\ {"volume", "amount"} \subseteq DOMAIN p
      BY <2>1 DEF HasTotals, SimPump
    <3> QED  BY <3>1, CompletedTotals
  <2> HIDE DEF r, q
  <2>5. pump' = q /\ receipts' = S /\ r \notin receipts
        /\ p.total_volume = pump.total_volume /\ p.total_amount = pump.total_amount
    BY <1>3, <2>1, <2>3 DEF Sells, SameTotals, r, q
  <2>6. IsFiniteSet(S) /\ \A s \in S : s[2] \in Nat /\ s[3] \in Nat
    BY <2>2, <2>3, FS_AddElement DEF Tally
  <2>7. /\ SumOf(2, S) = SumOf(2, receipts) + r[2]
        /\ SumOf(3, S) = SumOf(3, receipts) + r[3]
    <3>1. IsFiniteSet(receipts) /\ r \notin receipts
      BY <2>5 DEF Tally
    <3>2. (\A s \in receipts \union {r} : s[2] \in Nat) /\ (\A s \in receipts \union {r} : s[3] \in Nat)
      BY <2>6
    <3> QED  BY <3>1, <3>2, SumOfMore
  <2>8. pump'.total_volume = SumOf(2, S) /\ pump'.total_amount = SumOf(3, S)
    BY <2>3, <2>4, <2>5, <2>7 DEF Tally
  <2>9. /\ pump'.total_volume = SumOf(2, receipts') /\ pump'.total_amount = SumOf(3, receipts')
        /\ IsFiniteSet(receipts') /\ \A s \in receipts' : s[2] \in Nat /\ s[3] \in Nat
    BY <2>5, <2>6, <2>8
  <2> QED  BY <2>9 DEF Tally
<1>4. PumpNext \/ UNCHANGED <<pump, receipts>>
  BY DEF Next, Observed, Unobserved, PumpMoves, DeliverReport, DeliverNothing, PumpNext,
         OtherStep, vars, pumpVars
<1> QED  BY <1>1, <1>2, <1>3, <1>4, StepTotals

LEMMA TallyInvariant == Spec => []Tally
<1>1. Init => Tally
  <2> SUFFICES ASSUME Init  PROVE Tally
    OBVIOUS
  <2>1. pump = NewSimulatedPump /\ receipts = {}
    BY DEF Init, PumpInit
  <2>2. pump.total_volume = 0 /\ pump.total_amount = 0
    BY <2>1 DEF NewSimulatedPump
  <2>3. SumOf(2, receipts) = 0 /\ SumOf(3, receipts) = 0
    BY <2>1, SumOfNone
  <2> QED  BY <2>1, <2>2, <2>3, FS_EmptySet DEF Tally
<1>2. Invariant /\ Tally /\ [Next]_vars => Tally'
  BY TallyKept
<1> QED  BY <1>1, <1>2, InvariantHolds, PTL DEF Spec

-----------------------------------------------------------------------------
(* The alarm of a pump reaches its controller. *)

\* Nothing is said of the pump but what its machine needs.
IsPump(p) ==
  /\ DOMAIN p = DOMAIN NewSimulatedPump /\ p = [f \in DOMAIN p |-> p[f]]
  /\ IsContext(p.ctx)

Alarmed(p) == State(p) = "FAULTED"

LEMMA SyncedFields ==
  ASSUME NEW p, IsPump(p)
  PROVE  IsContext(Synced(p)) /\ Synced(p).current_state = State(p)
<1> DEFINE c == p.ctx
<1>1. Synced(p) = [c EXCEPT !.selected_nozzle = p.selected_nozzle,
                            !.price_verified = p.price_verified,
                            !.communication_healthy = p.enabled,
                            !.active_transaction_id = p.active_transaction_id,
                            !.fault_code = p.fault_code,
                            !.last_raw_wayne_status = p.wayne_status]
  BY DEF Synced
<1>2. IsContext(c) /\ State(p) = c.current_state
  BY DEF IsPump, State
<1> HIDE DEF c
<1> QED  BY <1>1, <1>2 DEF IsContext, ContextFields

LEMMA UnversionedFields ==
  ASSUME NEW c, IsContext(c)
  PROVE  /\ IsContext(Unversioned(c)) /\ Unversioned(c).current_state = c.current_state
         /\ Unversioned(c).last_source_frame_hex = c.last_source_frame_hex
BY DEF IsContext, ContextFields, Unversioned

\* Only FAULT_OBSERVED takes a machine to FAULTED.
LEMMA AlarmTargets ==
  ASSUME NEW s, NEW e, e # "FAULT_OBSERVED"
  PROVE  ~Leads(s, e, "FAULTED")
BY DEF Leads, TransitionTable

LEMMA PumpApplied ==
  ASSUME NEW p, IsPump(p), NEW o, o.at = None
  PROVE  /\ IsPump(Applied(p, o))
         /\ Alarmed(Applied(p, o)) => Alarmed(p) \/ o.event = "FAULT_OBSERVED"
<1> DEFINE a == Apply(Synced(p), o)
           c == Unversioned(a)
           n == IF o.event = "COMMUNICATION_LOST" THEN FALSE
                ELSE IF o.event = "COMMUNICATION_STARTED" THEN TRUE ELSE p.enabled
           q == Applied(p, o)
<1>1. /\ IsContext(a)
      /\ a.current_state = State(p) \/ Leads(State(p), o.event, a.current_state)
  BY SyncedFields, AppliedFields, StateApplied
<1>2. IsContext(c) /\ c.current_state = a.current_state
  BY <1>1, UnversionedFields
<1>3. q = [p EXCEPT !.ctx = c, !.price_verified = c.price_verified, !.enabled = n]
  BY DEF Applied
<1> HIDE DEF a, c, n, q
<1>4. IsPump(q) /\ q.ctx = c
  BY <1>2, <1>3 DEF IsPump, NewSimulatedPump
<1> QED  BY <1>1, <1>2, <1>4, AlarmTargets DEF Alarmed, State, q

\* q is a pump, faulted only if p is.
Unalarmed(q, p) == IsPump(q) /\ (Alarmed(q) => Alarmed(p))

LEMMA UnalarmedTransitive ==
  ASSUME NEW p, NEW q, NEW r, Unalarmed(q, p), Unalarmed(r, q)
  PROVE  Unalarmed(r, p)
BY DEF Unalarmed

\* What _sync_context_fields leaves behind when a command is refused.
LEMMA SyncedUnalarmed ==
  ASSUME NEW p, IsPump(p), NEW q, q = [p EXCEPT !.ctx = Synced(p)]
  PROVE  Unalarmed(q, p)
<1> DEFINE y == Synced(p)
<1>1. IsContext(y) /\ y.current_state = State(p)
  BY SyncedFields
<1>2. q = [p EXCEPT !.ctx = y]
  OBVIOUS
<1> HIDE DEF y
<1>3. IsPump(q) /\ q.ctx = y
  BY <1>1, <1>2 DEF IsPump, NewSimulatedPump
<1> QED  BY <1>1, <1>3 DEF Unalarmed, Alarmed, State

LEMMA EventUnalarmed ==
  ASSUME NEW p, IsPump(p), NEW e, e # "FAULT_OBSERVED"
  PROVE  Unalarmed(Event(p, e), p) /\ Unalarmed(RawEvent(p, e), p)
<1>1. NoObservation(e).at = None /\ NoObservation(e).event = e
  BY DEF NoObservation
<1>2. LET o == [NoObservation(e) EXCEPT !.raw = p.wayne_status]
      IN  o.at = None /\ o.event = e
  BY DEF NoObservation
<1> QED  BY <1>1, <1>2, PumpApplied DEF Unalarmed, Event, RawEvent

\* A pump with the same machine.
LEMMA SameContextUnalarmed ==
  ASSUME NEW p, IsPump(p), NEW q, q.ctx = p.ctx,
         DOMAIN q = DOMAIN p, q = [f \in DOMAIN q |-> q[f]]
  PROVE  Unalarmed(q, p)
BY DEF Unalarmed, IsPump, Alarmed, State

\* The events of a sale: with an observation that has other fields too.
LEMMA CompletedUnalarmed ==
  ASSUME NEW p, IsPump(p)
  PROVE  Unalarmed(Completed(p), p)
<1> DEFINE s == [Credited(Halted(p)) EXCEPT !.wayne_status = FillingCompleted]
           o == [NoObservation("FILLING_COMPLETED") EXCEPT
                   !.raw = FillingCompleted,
                   !.key = <<p.active_transaction_id, p.volume, p.amount>>]
<1>1. Unalarmed(s, p)
  <2>1. s.ctx = p.ctx /\ DOMAIN s = DOMAIN p /\ s = [f \in DOMAIN s |-> s[f]]
    BY DEF Credited, Halted, IsPump, NewSimulatedPump
  <2> HIDE DEF s
  <2> QED  BY <2>1, SameContextUnalarmed
<1>2. o.at = None /\ o.event = "FILLING_COMPLETED"
  BY DEF NoObservation
<1>3. Completed(p) = Applied(s, o)
  BY DEF Completed
<1> HIDE DEF s, o
<1>4. Unalarmed(Applied(s, o), s)
  BY <1>1, <1>2, PumpApplied DEF Unalarmed
<1> QED  BY <1>1, <1>3, <1>4, UnalarmedTransitive

LEMMA FlowedUnalarmed ==
  ASSUME NEW p, IsPump(p)
  PROVE  Unalarmed(Flowed(p), p)
<1> DEFINE volume == IF p.volume + 1 >= LimitVolume(p) THEN LimitVolume(p) ELSE p.volume + 1
           due == volume * UnitPrice(p)
           amount == IF AmountReached(p, due) THEN p.preset_amount ELSE due
           s == [p EXCEPT !.volume = volume, !.amount = amount]
           o == [NoObservation("FILLING_UPDATED") EXCEPT !.raw = Filling]
<1>1. Flowed(p) = Applied(s, o)
  BY DEF Flowed
<1> HIDE DEF volume, due, amount
<1>2. Unalarmed(s, p)
  <2>1. s.ctx = p.ctx /\ DOMAIN s = DOMAIN p /\ s = [f \in DOMAIN s |-> s[f]]
    BY DEF IsPump, NewSimulatedPump
  <2> HIDE DEF s
  <2> QED  BY <2>1, SameContextUnalarmed
<1>3. o.at = None /\ o.event = "FILLING_UPDATED"
  BY DEF NoObservation
<1> HIDE DEF s, o
<1>4. Unalarmed(Applied(s, o), s)
  BY <1>2, <1>3, PumpApplied DEF Unalarmed
<1> QED  BY <1>1, <1>2, <1>4, UnalarmedTransitive

LEMMA LimitUnalarmed ==
  ASSUME NEW p, IsPump(p)
  PROVE  Unalarmed(LimitShown(p), p)
<1> DEFINE s == [p EXCEPT !.wayne_status = MaxReached]
<1>1. Unalarmed(s, p)
  <2>1. s.ctx = p.ctx /\ DOMAIN s = DOMAIN p /\ s = [f \in DOMAIN s |-> s[f]]
    BY DEF IsPump, NewSimulatedPump
  <2> HIDE DEF s
  <2> QED  BY <2>1, SameContextUnalarmed
<1>2. LimitShown(p) = p \/ LimitShown(p) = RawEvent(s, "LIMIT_REACHED")
  BY DEF LimitShown
<1> HIDE DEF s
<1>3. Unalarmed(RawEvent(s, "LIMIT_REACHED"), s)
  BY <1>1, EventUnalarmed DEF Unalarmed
<1>4. Unalarmed(p, p)
  BY DEF Unalarmed
<1> QED  BY <1>1, <1>2, <1>3, <1>4, UnalarmedTransitive

\* The reports of a step.
IsReports(e) == \E S : e \in Seq(S)

LEMMA ReportsJoin ==
  ASSUME NEW d, IsReports(d), NEW e, IsReports(e)
  PROVE  /\ IsReports(d \o e) /\ Len(d) \in Nat /\ Len(e) \in Nat
         /\ Len(d \o e) = Len(d) + Len(e)
         /\ \A i \in 1..Len(d) : (d \o e)[i] = d[i]
         /\ \A i \in 1..Len(e) : (d \o e)[Len(d) + i] = e[i]
<1>1. PICK S : d \in Seq(S)
  BY DEF IsReports
<1>2. PICK T : e \in Seq(T)
  BY DEF IsReports
<1> DEFINE U == S \union T
<1>3. d \in Seq(U) /\ e \in Seq(U)
  <2>1. Seq(S) \subseteq Seq(U) /\ Seq(T) \subseteq Seq(U)
    OBVIOUS
  <2> QED  BY <1>1, <1>2, <2>1
<1> HIDE DEF U
<1>4. d \o e \in Seq(U)
  BY <1>3
<1> QED  BY <1>3, <1>4 DEF IsReports

LEMMA FewReports ==
  /\ IsReports(<<>>) /\ \A a : IsReports(<<a>>)
  /\ \A a, b : IsReports(<<a, b>>)
<1>1. <<>> \in Seq({})
  OBVIOUS
<1>2. \A a : <<a>> \in Seq({a})
  OBVIOUS
<1>3. \A a, b : <<a, b>> \in Seq({a, b})
  OBVIOUS
<1> QED  BY <1>1, <1>2, <1>3 DEF IsReports

LEMMA PumpReports ==
  \A p : /\ IsReports(StatusAndNozzle(p)) /\ IsReports(FillReport(p))
         /\ IsReports(StatusAndNozzle(p) \o FillReport(p))
         /\ IsReports(CompletionReports(p))
<1>1. \A p : IsReports(StatusAndNozzle(p)) /\ IsReports(FillReport(p))
  BY FewReports DEF StatusAndNozzle, FillReport
<1>2. \A p : IsReports(StatusAndNozzle(p) \o FillReport(p))
  BY <1>1, ReportsJoin
<1> QED  BY <1>1, <1>2 DEF CompletionReports

\* A step that reports, and faults no pump.
Quietly == Unalarmed(pump', pump) /\ IsReports(emitted')

LEMMA ColdStartQuiet ==
  ASSUME IsPump(pump), ColdStart  PROVE Quietly
<1> DEFINE started == IF pump.enabled THEN pump ELSE Event(pump, "COMMUNICATION_STARTED")
           seen == Event(started, "PUMP_DISCOVERED")
           found == [seen EXCEPT !.wayne_status = ResetStatus]
           idle == RawEvent(found, "RESET_OBSERVED")
           reset == [idle EXCEPT !.nozzle_out = FALSE]
           ready == Event(reset, "READY_OBSERVED")
<1>1. Unalarmed(pump, pump)
  BY DEF Unalarmed
<1>2. Unalarmed(started, pump)
  BY <1>1, EventUnalarmed
<1> HIDE DEF started
<1>3. Unalarmed(seen, started)
  BY <1>2, EventUnalarmed DEF Unalarmed
<1> HIDE DEF seen
<1>4. Unalarmed(found, seen)
  <2>1. found.ctx = seen.ctx /\ DOMAIN found = DOMAIN seen /\ found = [f \in DOMAIN found |-> found[f]]
    BY <1>3 DEF Unalarmed, IsPump, NewSimulatedPump
  <2> HIDE DEF found
  <2> QED  BY <1>3, <2>1, SameContextUnalarmed DEF Unalarmed
<1> HIDE DEF found
<1>5. Unalarmed(idle, found)
  BY <1>4, EventUnalarmed DEF Unalarmed
<1> HIDE DEF idle
<1>6. Unalarmed(reset, idle)
  <2>1. reset.ctx = idle.ctx /\ DOMAIN reset = DOMAIN idle /\ reset = [f \in DOMAIN reset |-> reset[f]]
    BY <1>5 DEF Unalarmed, IsPump, NewSimulatedPump
  <2> HIDE DEF reset
  <2> QED  BY <1>5, <2>1, SameContextUnalarmed DEF Unalarmed
<1> HIDE DEF reset
<1>7. Unalarmed(ready, reset)
  BY <1>6, EventUnalarmed DEF Unalarmed
<1>8. pump' = ready /\ emitted' = StatusAndNozzle(ready)
  BY DEF ColdStart, Becomes, started, seen, found, idle, reset
<1> HIDE DEF ready
<1>9. Unalarmed(pump', pump)
  BY <1>2, <1>3, <1>4, <1>5, <1>6, <1>7, <1>8, UnalarmedTransitive
<1> QED  BY <1>8, <1>9, PumpReports DEF Quietly

LEMMA CustomerQuiet ==
  ASSUME IsPump(pump), Customer  PROVE Quietly
<1>1. ASSUME NEW n \in Nozzles, LiftNozzle(n)  PROVE Quietly
  <2> DEFINE taken == [pump EXCEPT !.selected_nozzle = n, !.nozzle_out = TRUE,
                                   !.price_verified = TRUE]
             lifted == [taken EXCEPT !.ctx = Synced(taken)]
             o == [NoObservation("NOZZLE_LIFTED") EXCEPT !.nozzle = n, !.price = TRUE]
             p == Applied(lifted, o)
  <2>1. pump' = p /\ emitted' = StatusAndNozzle(p)
    BY <1>1 DEF LiftNozzle, Becomes
  <2>2. Unalarmed(taken, pump)
    <3>1. taken.ctx = pump.ctx /\ DOMAIN taken = DOMAIN pump
          /\ taken = [f \in DOMAIN taken |-> taken[f]]
      BY DEF IsPump, NewSimulatedPump
    <3> HIDE DEF taken
    <3> QED  BY <3>1, SameContextUnalarmed
  <2>3. o.at = None /\ o.event = "NOZZLE_LIFTED"
    BY DEF NoObservation
  <2> HIDE DEF taken, o
  <2>4. Unalarmed(lifted, taken)
    BY <2>2, SyncedUnalarmed DEF Unalarmed
  <2> HIDE DEF lifted
  <2>5. Unalarmed(p, lifted)
    BY <2>3, <2>4, PumpApplied DEF Unalarmed
  <2> HIDE DEF p
  <2>6. Unalarmed(p, pump)
    BY <2>2, <2>4, <2>5, UnalarmedTransitive
  <2> QED  BY <2>1, <2>6, PumpReports DEF Quietly
<1>2. CASE ReturnNozzle
  <2> DEFINE back == [pump EXCEPT !.nozzle_out = FALSE]
             p == IF State(pump) \in {"NOZZLE_UP", "AUTHORIZED"}
                  THEN Event(back, "NOZZLE_RETURNED") ELSE back
  <2>1. pump' = p /\ emitted' = StatusAndNozzle(p)
    BY <1>2 DEF ReturnNozzle, Becomes
  <2>2. Unalarmed(back, pump)
    <3>1. back.ctx = pump.ctx /\ DOMAIN back = DOMAIN pump
          /\ back = [f \in DOMAIN back |-> back[f]]
      BY DEF IsPump, NewSimulatedPump
    <3> HIDE DEF back
    <3> QED  BY <3>1, SameContextUnalarmed
  <2> HIDE DEF back
  <2>3. Unalarmed(Event(back, "NOZZLE_RETURNED"), back)
    BY <2>2, EventUnalarmed DEF Unalarmed
  <2>4. Unalarmed(p, pump)
    BY <2>2, <2>3, UnalarmedTransitive
  <2> HIDE DEF p
  <2> QED  BY <2>1, <2>4, PumpReports DEF Quietly
<1> QED  BY <1>1, <1>2 DEF Customer

LEMMA RefuseQuiet ==
  ASSUME IsPump(pump), Refuse  PROVE Quietly
<1> DEFINE p == [pump EXCEPT !.ctx = Synced(pump)]
<1>1. pump' = p /\ emitted' = <<>>
  BY DEF Refuse, Becomes
<1> HIDE DEF p
<1>2. Unalarmed(p, pump)
  BY SyncedUnalarmed DEF p
<1> QED  BY <1>1, <1>2, FewReports DEF Quietly

LEMMA AnswerQuiet ==
  ASSUME IsPump(pump), Answer  PROVE Quietly
<1>1. Unalarmed(pump', pump)
  BY DEF Answer, Unalarmed, IsPump, Alarmed
<1> QED  BY <1>1, FewReports, PumpReports DEF Answer, Quietly

LEMMA PriceQuiet ==
  ASSUME IsPump(pump), NEW n, NEW price, SetPrice(n, price)  PROVE Quietly
<1> DEFINE priced == [pump EXCEPT !.prices[n] = price, !.price_verified = TRUE]
           p == [priced EXCEPT !.ctx = Synced(priced)]
<1>1. pump' = p /\ emitted' = StatusAndNozzle(p)
  BY DEF SetPrice, Becomes
<1>2. Unalarmed(priced, pump)
  <2>1. priced.ctx = pump.ctx /\ DOMAIN priced = DOMAIN pump
        /\ priced = [f \in DOMAIN priced |-> priced[f]]
    BY DEF IsPump, NewSimulatedPump
  <2> HIDE DEF priced
  <2> QED  BY <2>1, SameContextUnalarmed
<1> HIDE DEF priced
<1>3. Unalarmed(p, priced)
  BY <1>2, SyncedUnalarmed DEF Unalarmed
<1> HIDE DEF p
<1> QED  BY <1>1, <1>2, <1>3, UnalarmedTransitive, PumpReports DEF Quietly

LEMMA PresetQuiet ==
  ASSUME IsPump(pump), NEW v, PresetVolume(v) \/ PresetAmount(v)  PROVE Quietly
<1> DEFINE q == [pump EXCEPT !.ctx = Synced(pump)]
           p == [q EXCEPT !.preset_volume = v]
           r == [q EXCEPT !.preset_amount = v]
<1>1. pump' \in {p, r} /\ emitted' = <<>>
  BY DEF PresetVolume, PresetAmount, Becomes
<1>2. Unalarmed(q, pump)
  BY SyncedUnalarmed
<1> HIDE DEF q
<1>3. Unalarmed(p, q) /\ Unalarmed(r, q)
  <2>1. p.ctx = q.ctx /\ DOMAIN p = DOMAIN q /\ p = [f \in DOMAIN p |-> p[f]]
    BY <1>2 DEF Unalarmed, IsPump, NewSimulatedPump
  <2>2. r.ctx = q.ctx /\ DOMAIN r = DOMAIN q /\ r = [f \in DOMAIN r |-> r[f]]
    BY <1>2 DEF Unalarmed, IsPump, NewSimulatedPump
  <2> HIDE DEF p, r
  <2> QED  BY <1>2, <2>1, <2>2, SameContextUnalarmed DEF Unalarmed
<1> HIDE DEF p, r
<1> QED  BY <1>1, <1>2, <1>3, UnalarmedTransitive, FewReports DEF Quietly

LEMMA AuthorizeQuiet ==
  ASSUME IsPump(pump), Authorize  PROVE Quietly
<1> DEFINE tx == pump.sales + 1
           opened == [pump EXCEPT !.active_transaction_id = tx, !.sales = tx,
                                  !.volume = 0, !.amount = 0, !.wayne_status = Authorized]
           o == [NoObservation("AUTHORIZATION_CONFIRMED") EXCEPT !.tx = tx, !.raw = Authorized]
           authorized == Applied(opened, o)
           running == [authorized EXCEPT !.filling_active = TRUE, !.suspended = FALSE,
                                         !.wayne_status = Filling]
           started == RawEvent(running, "FILLING_STARTED")
<1>1. pump' = started /\ emitted' = StatusAndNozzle(started) \o FillReport(started)
  BY DEF Authorize, Becomes
<1>2. Unalarmed(opened, pump)
  <2>1. opened.ctx = pump.ctx /\ DOMAIN opened = DOMAIN pump
        /\ opened = [f \in DOMAIN opened |-> opened[f]]
    BY DEF IsPump, NewSimulatedPump
  <2> HIDE DEF opened
  <2> QED  BY <2>1, SameContextUnalarmed
<1>3. o.at = None /\ o.event = "AUTHORIZATION_CONFIRMED"
  BY DEF NoObservation
<1> HIDE DEF opened, o
<1>4. Unalarmed(authorized, opened)
  BY <1>2, <1>3, PumpApplied DEF Unalarmed
<1> HIDE DEF authorized
<1>5. Unalarmed(running, authorized)
  <2>1. running.ctx = authorized.ctx /\ DOMAIN running = DOMAIN authorized
        /\ running = [f \in DOMAIN running |-> running[f]]
    BY <1>4 DEF Unalarmed, IsPump, NewSimulatedPump
  <2> HIDE DEF running
  <2> QED  BY <1>4, <2>1, SameContextUnalarmed DEF Unalarmed
<1> HIDE DEF running
<1>6. Unalarmed(started, running)
  BY <1>5, EventUnalarmed DEF Unalarmed
<1> HIDE DEF started
<1> QED  BY <1>1, <1>2, <1>4, <1>5, <1>6, UnalarmedTransitive, PumpReports DEF Quietly

LEMMA StopQuiet ==
  ASSUME IsPump(pump), Stop  PROVE Quietly
<1>1. pump' = Completed(pump) /\ emitted' = CompletionReports(Completed(pump))
  BY DEF Stop, Becomes
<1> QED  BY <1>1, CompletedUnalarmed, PumpReports DEF Quietly

LEMMA PauseQuiet ==
  ASSUME IsPump(pump), Suspend \/ Resume  PROVE Quietly
<1> DEFINE s == [pump EXCEPT !.suspended = TRUE, !.wayne_status = Suspended]
           t == [pump EXCEPT !.suspended = FALSE, !.wayne_status = Filling]
<1>1. \E p : /\ p \in {RawEvent(s, "SUSPENDED_OBSERVED"), RawEvent(t, "RESUMED_OBSERVED")}
             /\ pump' = p /\ emitted' = StatusAndNozzle(p)
  BY DEF Suspend, Resume, Becomes
<1>2. Unalarmed(s, pump) /\ Unalarmed(t, pump)
  <2>1. s.ctx = pump.ctx /\ DOMAIN s = DOMAIN pump /\ s = [f \in DOMAIN s |-> s[f]]
    BY DEF IsPump, NewSimulatedPump
  <2>2. t.ctx = pump.ctx /\ DOMAIN t = DOMAIN pump /\ t = [f \in DOMAIN t |-> t[f]]
    BY DEF IsPump, NewSimulatedPump
  <2> HIDE DEF s, t
  <2> QED  BY <2>1, <2>2, SameContextUnalarmed
<1> HIDE DEF s, t
<1>3. /\ Unalarmed(RawEvent(s, "SUSPENDED_OBSERVED"), s)
      /\ Unalarmed(RawEvent(t, "RESUMED_OBSERVED"), t)
  BY <1>2, EventUnalarmed DEF Unalarmed
<1> QED  BY <1>1, <1>2, <1>3, UnalarmedTransitive, PumpReports DEF Quietly

LEMMA ResetQuiet ==
  ASSUME IsPump(pump), Reset  PROVE Quietly
<1> DEFINE cleared == Cleared(pump)
           reset == RawEvent(cleared, "RESET_OBSERVED")
           p == IF pump.nozzle_out THEN reset ELSE Event(reset, "READY_OBSERVED")
<1>1. pump' = p /\ emitted' = StatusAndNozzle(p)
  BY DEF Reset, Becomes
<1>2. Unalarmed(cleared, pump)
  <2>1. cleared.ctx = pump.ctx /\ DOMAIN cleared = DOMAIN pump
        /\ cleared = [f \in DOMAIN cleared |-> cleared[f]]
    BY DEF Cleared, Halted, IsPump, NewSimulatedPump
  <2> HIDE DEF cleared
  <2> QED  BY <2>1, SameContextUnalarmed
<1> HIDE DEF cleared
<1>3. Unalarmed(reset, cleared)
  BY <1>2, EventUnalarmed DEF Unalarmed
<1> HIDE DEF reset
<1>4. Unalarmed(Event(reset, "READY_OBSERVED"), reset)
  BY <1>3, EventUnalarmed DEF Unalarmed
<1>5. Unalarmed(p, pump)
  BY <1>2, <1>3, <1>4, UnalarmedTransitive
<1> HIDE DEF p
<1> QED  BY <1>1, <1>5, PumpReports DEF Quietly

LEMMA FillQuiet ==
  ASSUME IsPump(pump), FillOneInterval  PROVE Quietly
<1> DEFINE flowed == Flowed(pump)
           shown == LimitShown(flowed)
           done == Completed(shown)
<1>1. \/ pump' = flowed /\ emitted' = FillReport(flowed)
      \/ pump' = done /\ emitted' = FillReport(flowed) \o CompletionReports(done)
  BY DEF FillOneInterval, Becomes
<1>2. Unalarmed(flowed, pump)
  BY FlowedUnalarmed
<1> HIDE DEF flowed
<1>3. Unalarmed(shown, flowed)
  BY <1>2, LimitUnalarmed DEF Unalarmed
<1> HIDE DEF shown
<1>4. Unalarmed(done, shown)
  BY <1>3, CompletedUnalarmed DEF Unalarmed
<1> HIDE DEF done
<1>5. Unalarmed(pump', pump)
  BY <1>1, <1>2, <1>3, <1>4, UnalarmedTransitive
<1>6. IsReports(FillReport(flowed) \o CompletionReports(done))
  BY PumpReports, ReportsJoin
<1> QED  BY <1>1, <1>5, <1>6, PumpReports DEF Quietly

LEMMA ClearFaultQuiet ==
  ASSUME IsPump(pump), ClearFault  PROVE Quietly
<1> DEFINE mended == [pump EXCEPT !.fault_code = None]
           told == Event(mended, "FAULT_CLEARED")
           cleared == [told EXCEPT !.wayne_status = ResetStatus]
           reset == Event(cleared, "RESET_OBSERVED")
           ready == Event(reset, "READY_OBSERVED")
<1>1. pump' = ready /\ emitted' = <<>>
  BY DEF ClearFault, Becomes
<1>2. Unalarmed(mended, pump)
  <2>1. mended.ctx = pump.ctx /\ DOMAIN mended = DOMAIN pump
        /\ mended = [f \in DOMAIN mended |-> mended[f]]
    BY DEF IsPump, NewSimulatedPump
  <2> HIDE DEF mended
  <2> QED  BY <2>1, SameContextUnalarmed
<1> HIDE DEF mended
<1>3. Unalarmed(told, mended)
  BY <1>2, EventUnalarmed DEF Unalarmed
<1> HIDE DEF told
<1>4. Unalarmed(cleared, told)
  <2>1. cleared.ctx = told.ctx /\ DOMAIN cleared = DOMAIN told
        /\ cleared = [f \in DOMAIN cleared |-> cleared[f]]
    BY <1>3 DEF Unalarmed, IsPump, NewSimulatedPump
  <2> HIDE DEF cleared
  <2> QED  BY <1>3, <2>1, SameContextUnalarmed DEF Unalarmed
<1> HIDE DEF cleared
<1>5. Unalarmed(reset, cleared)
  BY <1>4, EventUnalarmed DEF Unalarmed
<1> HIDE DEF reset
<1>6. Unalarmed(ready, reset)
  BY <1>5, EventUnalarmed DEF Unalarmed
<1> HIDE DEF ready
<1>7. Unalarmed(pump', pump)
  BY <1>1, <1>2, <1>3, <1>4, <1>5, <1>6, UnalarmedTransitive
<1> QED  BY <1>1, <1>7, FewReports DEF Quietly

\* The alarm is queued with the fault.
LEMMA FaultReported ==
  ASSUME IsPump(pump), InjectFault  PROVE IsPump(pump') /\ emitted' = <<DC5(1)>>
<1> DEFINE s == [Halted(pump) EXCEPT !.fault_code = 1, !.wayne_status = ResetStatus]
           o == [NoObservation("FAULT_OBSERVED") EXCEPT !.fault = 1]
<1>1. pump' = Applied(s, o) /\ emitted' = <<DC5(1)>>
  BY DEF InjectFault, Becomes
<1>2. Unalarmed(s, pump)
  <2>1. s.ctx = pump.ctx /\ DOMAIN s = DOMAIN pump /\ s = [f \in DOMAIN s |-> s[f]]
    BY DEF Halted, IsPump, NewSimulatedPump
  <2> HIDE DEF s
  <2> QED  BY <2>1, SameContextUnalarmed
<1>3. o.at = None
  BY DEF NoObservation
<1> HIDE DEF s, o
<1> QED  BY <1>1, <1>2, <1>3, PumpApplied DEF Unalarmed

LEMMA StepReports ==
  ASSUME IsPump(pump), QueueingStep \/ ClearFault
  PROVE  Quietly \/ (IsPump(pump') /\ emitted' = <<DC5(1)>>)
BY ColdStartQuiet, CustomerQuiet, RefuseQuiet, AnswerQuiet, PriceQuiet, PresetQuiet,
   AuthorizeQuiet, StopQuiet, PauseQuiet, ResetQuiet, FillQuiet, ClearFaultQuiet,
   FaultReported DEF QueueingStep, Commands

LEMMA AlarmStays ==
  ASSUME NEW s \in PumpState, NEW e, NEW t, Leads(s, e, t),
         e \notin {"COMMUNICATION_LOST", "FAULT_CLEARED", "MAINTENANCE_ENTERED"}
  PROVE  (s = "FAULTED" => t = "FAULTED") /\ (e = "FAULT_OBSERVED" => t = "FAULTED")
BY DEF Leads, TransitionTable

\* A machine that is told of the alarm, unless its last frame was the same.
LEMMA AlarmApplied ==
  ASSUME NEW c, IsContext(c), c.current_state # "DISCONNECTED",
         NEW frame, c.last_source_frame_hex = frame => frame = None \/ c.current_state = "FAULTED"
  PROVE  Apply(c, Mapped(DC5(1), frame, c)).current_state = "FAULTED"
<1> DEFINE o == Mapped(DC5(1), frame, c)
<1>1. o.at = None /\ o.frame = frame /\ o.event = "FAULT_OBSERVED" /\ ~o.implicit
  BY MappedFields, ReportEventIs
<1> HIDE DEF o
<1>2. c.current_state \in PumpState
  BY DEF IsContext
<1>3. HasTransition(c.current_state, o.event)
  BY <1>1, <1>2 DEF HasTransition, Leads, OperationalStates, PumpState
<1>4. CASE Outcome(c, o) = "transition_applied"
  <2>1. Apply(c, o) = Move(c, o)
    BY <1>1, <1>4, AppliedFields
  <2>2. Move(c, o).current_state = Target(c.current_state, o.event)
    BY <1>1, <1>3, MoveFields
  <2>3. Leads(c.current_state, o.event, Target(c.current_state, o.event))
    BY <1>3 DEF HasTransition, Target
  <2> QED  BY <1>1, <1>2, <2>1, <2>2, <2>3, AlarmStays DEF o
<1>5. CASE Outcome(c, o) = "same_state_noop"
  <2>1. Apply(c, o) = Noop(c, o) /\ <<c.current_state, o.event>> \in SameStateNoopEvents
    BY <1>1, <1>5, AppliedFields
  <2>2. c.current_state = "FAULTED"
    BY <1>1, <2>1 DEF SameStateNoopEvents
  <2>3. Noop(c, o).current_state = c.current_state
    BY <1>1, NoopFields
  <2> QED  BY <2>1, <2>2, <2>3 DEF o
<1>6. CASE Outcome(c, o) \notin {"transition_applied", "same_state_noop"}
  <2>1. ~IsStale(c, o) /\ ~IsDuplicateCompletion(c, o) /\ ~IsUnconfirmedFilling(c, o)
        /\ o.event # "UNKNOWN_OBSERVATION"
    BY <1>1 DEF IsStale, IsDuplicateCompletion, IsUnconfirmedFilling
  <2>2. IsDuplicateFrame(c, o) /\ Outcome(c, o) = "duplicate_source_frame"
    BY <1>3, <1>6, <2>1 DEF Outcome
  <2>3. c.current_state = "FAULTED"
    BY <1>1, <2>2 DEF IsDuplicateFrame
  <2>4. Apply(c, o) = c
    BY <1>1, <2>2, AppliedFields
  <2> QED  BY <2>3, <2>4 DEF o
<1> QED  BY <1>4, <1>5, <1>6

\* The frame a machine remembers.
LEMMA FrameKept ==
  ASSUME NEW c, IsContext(c), NEW o, o.at = None
  PROVE  Apply(c, o).last_source_frame_hex \in {c.last_source_frame_hex, o.frame}
<1>1. Or(o.frame, c.last_source_frame_hex) \in {c.last_source_frame_hex, o.frame}
  BY DEF Or
<1>2. CASE Outcome(c, o) = "transition_applied"
  <2>1. Apply(c, o) = Move(c, o) /\ HasTransition(c.current_state, o.event)
    BY <1>2, AppliedFields
  <2>2. Move(c, o).last_source_frame_hex = Or(o.frame, c.last_source_frame_hex)
    BY <2>1, MoveFields
  <2> QED  BY <1>1, <2>1, <2>2
<1>3. CASE Outcome(c, o) = "same_state_noop"
  <2>1. Apply(c, o) = Noop(c, o)
    BY <1>3, AppliedFields
  <2> QED  BY <1>1, <2>1, NoopFields
<1>4. CASE Outcome(c, o) = "unknown_observation_preserved"
  <2>1. Apply(c, o) = KeepUnknown(c, o)
    BY <1>4, AppliedFields
  <2>2. KeepUnknown(c, o).last_source_frame_hex = Or(o.frame, c.last_source_frame_hex)
    BY DEF KeepUnknown, IsContext, ContextFields
  <2> QED  BY <1>1, <2>1, <2>2
<1>5. CASE Outcome(c, o) \notin {"transition_applied", "same_state_noop",
                                 "unknown_observation_preserved"}
  BY <1>5, AppliedFields
<1> QED  BY <1>2, <1>3, <1>4, <1>5

\* A machine remembers the frame of an alarm only while it is faulted.
AlarmKnown(c) ==
  \A x : c.last_source_frame_hex = <<x, <<DC5(1)>>>> /\ c.last_source_frame_hex # None
           => c.current_state = "FAULTED"

\* One report to a frame, after the answer itself.
LEMMA AlarmTaken ==
  ASSUME NEW s, IsSession(s), s.ctx.current_state # "DISCONNECTED", AlarmKnown(s.ctx),
         NEW r, NEW x, NEW t, t = TakeReport(s, r, <<x, <<r>>>>)
  PROVE  /\ IsSession(t) /\ AlarmKnown(t.ctx)
         /\ s.ctx.current_state = "FAULTED" \/ r = DC5(1) => t.ctx.current_state = "FAULTED"
<1> DEFINE c == s.ctx
<1>f. PICK frame : frame = <<x, <<r>>>>
  OBVIOUS
<1>o. PICK o : o = Mapped(r, frame, s.ctx)
  OBVIOUS
<1>1. /\ IsSession(t)
      /\ o.key # None /\ o.key \in s.keys => t.ctx = c
      /\ ~(o.key # None /\ o.key \in s.keys) => t.ctx = Apply(c, o)
  <2>1. t = TakeReport(s, r, frame)
    BY <1>f
  <2>2. /\ IsSession(t)
        /\ o.key # None /\ o.key \in s.keys => t.ctx = s.ctx /\ t.keys = s.keys
        /\ ~(o.key # None /\ o.key \in s.keys) =>
             /\ t.ctx = Apply(s.ctx, o)
             /\ t.keys = IF o.key # None /\ Outcome(s.ctx, o) = "transition_applied"
                         THEN s.keys \union {o.key} ELSE s.keys
    BY <1>o, <2>1, TakeReportFields
  <2> QED  BY <2>2
<1>2. /\ o.event = ReportEvent(r, c) /\ o.at = None /\ o.frame = frame
      /\ r = DC5(1) => o.key = None
  <2>1. DC5(1) # DC1(FillingCompleted)
    BY DEF DC5, DC1
  <2> QED  BY <1>o, <2>1, MappedFields, MappedEvidence
<1>3. IsContext(c) /\ c.current_state \in PumpState /\ AlarmKnown(c)
  BY DEF IsSession, IsContext
<1>4. \/ Apply(c, o).current_state = c.current_state
      \/ Leads(c.current_state, o.event, Apply(c, o).current_state)
  BY <1>2, <1>3, StateApplied
<1>5. c.current_state = "FAULTED" => t.ctx.current_state = "FAULTED"
  <2>1. o.event \notin {"COMMUNICATION_LOST", "FAULT_CLEARED", "MAINTENANCE_ENTERED"}
    BY <1>2, ReportEventIs
  <2> HIDE DEF c
  <2> QED  BY <1>1, <1>3, <1>4, <2>1, AlarmStays
<1>6. r = DC5(1) => t.ctx.current_state = "FAULTED"
  <2> SUFFICES ASSUME r = DC5(1)  PROVE t.ctx.current_state = "FAULTED"
    OBVIOUS
  <2>1. c.last_source_frame_hex = frame => frame = None \/ c.current_state = "FAULTED"
    BY <1>3, <1>f DEF AlarmKnown
  <2>2. t.ctx = Apply(c, o)
    BY <1>1, <1>2
  <2>3. Apply(c, Mapped(DC5(1), frame, c)).current_state = "FAULTED"
    BY <1>3, <2>1, AlarmApplied
  <2> QED  BY <1>o, <2>2, <2>3
<1>7. AlarmKnown(t.ctx)
  <2>1. t.ctx.last_source_frame_hex \in {c.last_source_frame_hex, frame}
    BY <1>1, <1>2, <1>3, FrameKept
  <2> SUFFICES ASSUME NEW y, t.ctx.last_source_frame_hex = <<y, <<DC5(1)>>>>,
                      t.ctx.last_source_frame_hex # None
               PROVE  t.ctx.current_state = "FAULTED"
    BY DEF AlarmKnown
  <2>2. CASE t.ctx.last_source_frame_hex = c.last_source_frame_hex
    BY <1>3, <1>5, <2>2 DEF AlarmKnown
  <2>3. CASE t.ctx.last_source_frame_hex = frame
    <3>1. <<r>> = <<DC5(1)>>
      BY <1>f, <2>3
    <3>2. r = DC5(1)
      BY <3>1
    <3> QED  BY <1>6, <3>2
  <2> QED  BY <2>1, <2>2, <2>3
<1> QED  BY <1>1, <1>5, <1>6, <1>7

LEMMA AnswerTaken ==
  ASSUME NEW s, IsSession(s), AlarmKnown(s.ctx), NEW t, t = Answered(s)
  PROVE  /\ IsSession(t) /\ AlarmKnown(t.ctx) /\ t.ctx.current_state # "DISCONNECTED"
         /\ s.ctx.current_state = "FAULTED" => t.ctx.current_state = "FAULTED"
<1>1. /\ IsSession(t)
      /\ t.ctx.current_state = IF s.ctx.current_state = "DISCONNECTED" THEN "DISCOVERING"
                               ELSE s.ctx.current_state
      /\ t.ctx.last_source_frame_hex = s.ctx.last_source_frame_hex
  BY AnsweredFields
<1> QED  BY <1>1 DEF AlarmKnown

\* A frame of one report.
LEMMA ReportTaken ==
  ASSUME NEW s, IsSession(s), AlarmKnown(s.ctx), NEW r, NEW x,
         NEW t, t = TakeFrame(s, <<x, <<r>>>>)
  PROVE  /\ IsSession(t) /\ AlarmKnown(t.ctx)
         /\ s.ctx.current_state = "FAULTED" \/ r = DC5(1) => t.ctx.current_state = "FAULTED"
<1>f. PICK frame : frame = <<x, <<r>>>>
  OBVIOUS
<1>1. Len(frame[2]) = 1 /\ frame[2][1] = r
  BY <1>f
<1>2. PICK g : IsRun(g, s, frame, 1) /\ t = g[1]
  <2>1. \E g : IsRun(g, s, frame, Len(frame[2])) /\ TakeFrame(s, frame) = g[Len(frame[2])]
    BY <1>1, TakeFrameRuns
  <2> QED  BY <1>f, <1>1, <2>1
<1>3. g[0] = Answered(s) /\ g[1] = TakeReport(g[0], r, frame)
  <2>1. \A i \in 0..1 : g[i] = IF i = 0 THEN Answered(s)
                               ELSE TakeReport(g[i - 1], frame[2][i], frame)
    <3>1. g = [i \in 0..1 |-> IF i = 0 THEN Answered(s)
                              ELSE TakeReport(g[i - 1], frame[2][i], frame)]
      BY <1>2 DEF IsRun
    <3> QED  BY <3>1, Zenon
  <2> QED  BY <1>1, <2>1
<1>4. /\ IsSession(g[0]) /\ AlarmKnown(g[0].ctx) /\ g[0].ctx.current_state # "DISCONNECTED"
      /\ s.ctx.current_state = "FAULTED" => g[0].ctx.current_state = "FAULTED"
  BY <1>3, AnswerTaken
<1>5. t = TakeReport(g[0], r, <<x, <<r>>>>)
  BY <1>f, <1>2, <1>3
<1>6. /\ IsSession(t) /\ AlarmKnown(t.ctx)
      /\ g[0].ctx.current_state = "FAULTED" \/ r = DC5(1) => t.ctx.current_state = "FAULTED"
  BY <1>4, <1>5, AlarmTaken
<1> QED  BY <1>4, <1>6

\* What the model keeps of a session.
LEMMA Learnt ==
  ASSUME NEW s, IsSession(s), AlarmKnown(s.ctx), Learns(s)
  PROVE  /\ IsSession(session') /\ AlarmKnown(session'.ctx)
         /\ Controller' = s.ctx.current_state
<1> DEFINE c == Unversioned(s.ctx)
<1>1. /\ IsContext(c) /\ c.current_state = s.ctx.current_state
      /\ c.last_source_frame_hex = s.ctx.last_source_frame_hex
  BY UnversionedFields DEF IsSession
<1>2. session' = [s EXCEPT !.ctx = c, !.events = <<>>]
  BY DEF Learns
<1> HIDE DEF c
<1>3. IsEvents(<<>>)
  <2>1. <<>> \in Seq({}) /\ Len(<<>>) = 0
    OBVIOUS
  <2> QED  BY <2>1 DEF IsEvents
<1>4. IsSession(session') /\ session'.ctx = c
  BY <1>1, <1>2, <1>3 DEF IsSession
<1> QED  BY <1>1, <1>4 DEF AlarmKnown, Controller

\* The inductive invariant: the alarm of a faulted pump is under way or was heard.
FaultInv ==
  observed =>
    /\ IsPump(pump) /\ IsSession(session) /\ IsReports(pending)
    /\ AlarmKnown(session.ctx)
    /\ Alarmed(pump) =>
         Controller = "FAULTED" \/ \E i \in 1..Len(pending) : pending[i] = DC5(1)

LEMMA FaultInvariant == Spec => []FaultInv
<1>1. Init => FaultInv
  <2> SUFFICES ASSUME Init  PROVE FaultInv
    OBVIOUS
  <2> DEFINE c == NewContext("DISCONNECTED", FALSE)
  <2>1. IsContext(c) /\ c.current_state = "DISCONNECTED" /\ c.last_source_frame_hex = None
    BY DEF NewContext, IsContext, ContextFields, PumpState
  <2>2. pump = NewSimulatedPump /\ session = NewSession /\ pending = <<>>
    BY DEF Init, PumpInit
  <2>3. pump.ctx = c /\ session.ctx = c /\ session.events = <<>>
    BY <2>2 DEF NewSimulatedPump, NewSession, SessionWith
  <2> HIDE DEF c
  <2>4. IsPump(pump)
    BY <2>1, <2>2, <2>3 DEF IsPump, NewSimulatedPump
  <2>5. IsEvents(<<>>)
    <3>1. <<>> \in Seq({}) /\ Len(<<>>) = 0
      OBVIOUS
    <3> QED  BY <3>1 DEF IsEvents
  <2>6. IsSession(session)
    BY <2>1, <2>2, <2>3, <2>5 DEF IsSession, NewSession, SessionWith
  <2> QED  BY <2>1, <2>2, <2>3, <2>4, <2>6, FewReports DEF FaultInv, AlarmKnown, Alarmed, State
<1>2. FaultInv /\ [Next]_vars => FaultInv'
  <2> SUFFICES ASSUME FaultInv, [Next]_vars, observed, observed'  PROVE FaultInv'
    BY DEF FaultInv, Next, vars
  <2>1. CASE PumpMoves
    <3>1. /\ IsPump(pump') /\ IsReports(emitted')
          /\ Alarmed(pump)' => Alarmed(pump) \/ emitted' = <<DC5(1)>>
      <4>1. Quietly \/ (IsPump(pump') /\ emitted' = <<DC5(1)>>)
        BY <2>1, StepReports DEF PumpMoves, FaultInv
      <4> QED  BY <4>1, FewReports DEF Quietly, Unalarmed, Alarmed, State
    <3>2. pending' = pending \o emitted' /\ session' = session
      BY <2>1 DEF PumpMoves
    <3>3. /\ IsReports(pending') /\ Len(pending) \in Nat /\ Len(emitted') \in Nat
          /\ Len(pending') = Len(pending) + Len(emitted')
          /\ \A i \in 1..Len(pending) : pending'[i] = pending[i]
          /\ \A i \in 1..Len(emitted') : pending'[Len(pending) + i] = emitted'[i]
      <4>1. IsReports(pending)
        BY DEF FaultInv
      <4>2. PICK e : e = emitted'
        OBVIOUS
      <4>3. IsReports(e)
        BY <3>1, <4>2
      <4>4. /\ IsReports(pending \o e) /\ Len(pending) \in Nat /\ Len(e) \in Nat
            /\ Len(pending \o e) = Len(pending) + Len(e)
            /\ \A i \in 1..Len(pending) : (pending \o e)[i] = pending[i]
            /\ \A i \in 1..Len(e) : (pending \o e)[Len(pending) + i] = e[i]
        <5> DEFINE Joined(d, q) ==
                     /\ IsReports(d \o q) /\ Len(d) \in Nat /\ Len(q) \in Nat
                     /\ Len(d \o q) = Len(d) + Len(q)
                     /\ \A i \in 1..Len(d) : (d \o q)[i] = d[i]
                     /\ \A i \in 1..Len(q) : (d \o q)[Len(d) + i] = q[i]
        <5>1. \A d, q : IsReports(d) /\ IsReports(q) => Joined(d, q)
          BY ReportsJoin
        <5> HIDE DEF Joined
        <5>2. Joined(pending, e)
          BY <4>1, <4>3, <5>1
        <5> QED  BY <5>2 DEF Joined
      <4>5. pending' = pending \o e
        BY <3>2, <4>2
      <4> QED  BY <4>2, <4>4, <4>5
    <3>4. (\E i \in 1..Len(pending) : pending[i] = DC5(1)) =>
            \E i \in 1..Len(pending') : pending'[i] = DC5(1)
      <4> SUFFICES ASSUME NEW i \in 1..Len(pending), pending[i] = DC5(1)
                   PROVE  \E j \in 1..Len(pending') : pending'[j] = DC5(1)
        OBVIOUS
      <4>1. i \in 1..Len(pending') /\ pending'[i] = DC5(1)
        BY <3>3
      <4> QED  BY <4>1
    <3>5. emitted' = <<DC5(1)>> => \E i \in 1..Len(pending') : pending'[i] = DC5(1)
      <4> SUFFICES ASSUME emitted' = <<DC5(1)>>
                   PROVE  \E j \in 1..Len(pending') : pending'[j] = DC5(1)
        OBVIOUS
      <4>1. Len(emitted') = 1 /\ emitted'[1] = DC5(1)
        OBVIOUS
      <4>2. Len(pending) + 1 \in 1..Len(pending') /\ pending'[Len(pending) + 1] = DC5(1)
        BY <3>3, <4>1
      <4> QED  BY <4>2
    <3>6. Controller' = Controller
      BY <3>2 DEF Controller
    <3> QED  BY <3>1, <3>2, <3>3, <3>4, <3>5, <3>6 DEF FaultInv
  <2>2. CASE DeliverReport
    <3> DEFINE t == TakeFrame(session, <<seq, <<Head(pending)>>>>)
    <3>1. /\ IsSession(t) /\ AlarmKnown(t.ctx)
          /\ Controller = "FAULTED" \/ Head(pending) = DC5(1) => t.ctx.current_state = "FAULTED"
      BY ReportTaken DEF FaultInv, Controller
    <3>2. Learns(t) /\ pending # <<>> /\ pending' = Tail(pending) /\ pump' = pump
      BY <2>2 DEF DeliverReport, pumpVars
    <3> HIDE DEF t
    <3>3. /\ IsSession(session') /\ AlarmKnown(session'.ctx)
          /\ Controller' = t.ctx.current_state
      BY <3>1, <3>2, Learnt
    <3>4. PICK S : pending \in Seq(S)
      BY DEF FaultInv, IsReports
    <3>5. /\ pending' \in Seq(S) /\ Len(pending) \in Nat /\ Len(pending') = Len(pending) - 1
          /\ Head(pending) = pending[1]
          /\ \A i \in 1..Len(pending') : pending'[i] = pending[i + 1]
      BY <3>2, <3>4
    <3>6. (\E i \in 1..Len(pending) : pending[i] = DC5(1)) =>
            Head(pending) = DC5(1) \/ \E i \in 1..Len(pending') : pending'[i] = DC5(1)
      <4> SUFFICES ASSUME NEW i \in 1..Len(pending), pending[i] = DC5(1), i # 1
                   PROVE  \E j \in 1..Len(pending') : pending'[j] = DC5(1)
        BY <3>5
      <4>1. i - 1 \in 1..Len(pending') /\ (i - 1) + 1 = i
        BY <3>5
      <4>2. pending'[i - 1] = DC5(1)
        BY <3>5, <4>1
      <4> QED  BY <4>1, <4>2
    <3>7. Alarmed(pump)' <=> Alarmed(pump)
      BY <3>2 DEF Alarmed, State
    <3> QED  BY <3>1, <3>2, <3>3, <3>5, <3>6, <3>7 DEF FaultInv, IsReports
  <2>3. CASE DeliverNothing
    <3> DEFINE t == Answered(session)
    <3>1. /\ IsSession(t) /\ AlarmKnown(t.ctx)
          /\ Controller = "FAULTED" => t.ctx.current_state = "FAULTED"
      BY AnswerTaken DEF FaultInv, Controller
    <3>2. Learns(t) /\ pending' = pending /\ pump' = pump
      BY <2>3 DEF DeliverNothing, pumpVars
    <3> HIDE DEF t
    <3>3. /\ IsSession(session') /\ AlarmKnown(session'.ctx)
          /\ Controller' = t.ctx.current_state
      BY <3>1, <3>2, Learnt
    <3>4. Alarmed(pump)' <=> Alarmed(pump)
      BY <3>2 DEF Alarmed, State
    <3> QED  BY <3>1, <3>2, <3>3, <3>4 DEF FaultInv
  <2>4. CASE UNCHANGED vars
    BY <2>4 DEF vars, pumpVars, FaultInv, IsPump, IsSession, AlarmKnown, Alarmed, State,
                Controller, IsReports
  <2> QED  BY <2>1, <2>2, <2>3, <2>4 DEF Next, Observed, Unobserved
<1> QED  BY <1>1, <1>2, PTL DEF Spec

-----------------------------------------------------------------------------
(* The theorems. *)

\* The flags of the filling engine and the pump's state machine, set by different
\* statements of every command and mishap (pump.py), never disagree.
THEOREM EngineIsItsState == Spec => []EngineFollowsState
<1>1. Invariant => EngineFollowsState
  BY DEF Invariant, PumpOK, EngineAgrees, EngineFollowsState, Flowing
<1> QED  BY <1>1, InvariantHolds, PTL

\* Fuel never flows for a sale that has been completed, nor for none
\* (_execute_guarded, _complete_filling, reset, restart).
THEOREM FuelIsSoldOnce == Spec => []FlowsForAnOpenSale
<1>1. Invariant => FlowsForAnOpenSale
  BY DEF Invariant, PumpOK, SalesAgree, FlowsForAnOpenSale
<1> QED  BY <1>1, InvariantHolds, PTL

\* For any nozzles, prices, presets and number of sales the totals are those of the sales
\* completed, each counted once: a completion reported again (_complete_filling) adds
\* nothing, an interrupted sale nothing either, and no sale has two receipts.
THEOREM TotalsAreReceipts == Spec => []TotalsMatchReceipts
<1>1. Invariant /\ Tally => TotalsMatchReceipts
  BY DEF Invariant, PumpOK, SalesAgree, Tally, TotalsMatchReceipts
<1> QED  BY <1>1, InvariantHolds, TallyInvariant, PTL

\* What the customer is asked to pay does not fall while the sale goes on, at the
\* price it was computed with (on_time_advance).
THEOREM AmountOnlyRises == Spec => AmountNeverDecreases
<1> DEFINE Kept == (/\ pump.filling_active
                    /\ pump'.active_transaction_id = pump.active_transaction_id
                    /\ pump.amount <= pump.volume * UnitPrice(pump))
                   => pump'.amount >= pump.amount
<1>1. Invariant /\ [Next]_vars => [Kept]_pumpVars
  BY NextKeeps DEF AmountKept
<1> QED  BY <1>1, InvariantHolds, PTL DEF Spec, AmountNeverDecreases

\* For any nozzles, prices and MaxSeq, and whatever else the pump does and reports: a
\* controller that has every report of a faulted pump knows the fault (pump.py's
\* inject_fault queues DC5; machine.py's last_source_frame_hex and its table hide none).
THEOREM FaultsAreObserved == Spec => []FaultIsObserved
<1>1. FaultInv => FaultIsObserved
  <2>1. pending = <<>> => Len(pending) = 0
    OBVIOUS
  <2> QED  BY <2>1 DEF FaultInv, FaultIsObserved, CaughtUp, Alarmed
<1> QED  BY <1>1, FaultInvariant, PTL

=============================================================================

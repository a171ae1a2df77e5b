----------------------------- MODULE SimulatedPump --------------------------
(***************************************************************************)
(* One simulated fuelling position (simulator/pump.py): what a customer    *)
(* and a technician do to it, the commands it obeys, and its filling       *)
(* engine.  Its own PumpStateMachine is driven by _apply_event, which      *)
(* first copies the pump's fields into the machine's context.              *)
(*                                                                         *)
(* Volumes count engine intervals, amounts are volume times price.  emitted*)
(* is what the last operation appended to pending_outbound; the versions   *)
(* and previous states of the context are left out.                        *)
(***************************************************************************)
EXTENDS WayneMapper, CommandEligibility, Sequences, FiniteSetsExt

CONSTANTS
  Prices,          \* the unit price of each nozzle: a sequence
  NewPrices,       \* the prices a SET_PRICE may bring
  Presets,         \* the values a preset command may bring
  NaturalVolume,   \* natural_complete_volume_raw
  MaxSales,        \* bound: AUTHORIZE commands obeyed
  MaxMishaps       \* bound: faults, restarts and communication outages

VARIABLES
  pump,            \* the fields of SimulatedPump
  emitted,         \* the reports queued by the last operation
  receipts,        \* history: <<transaction, volume, amount>> of every completion
  mishaps

pumpVars == <<pump, emitted, receipts, mishaps>>

Nozzles == DOMAIN Prices

ASSUME PumpAssumption ==
  /\ Prices \in Seq(Nat) /\ Prices # <<>> /\ None \notin Nat
  /\ NaturalVolume \in Nat \ {0}
  /\ Presets \subseteq Nat /\ NewPrices \subseteq Nat

-----------------------------------------------------------------------------
(* The pump's machine. *)

\* _sync_context_fields
Synced(p) ==
  [p.ctx EXCEPT !.selected_nozzle = p.selected_nozzle,
                !.price_verified = p.price_verified,
                !.communication_healthy = p.enabled,
                !.active_transaction_id = p.active_transaction_id,
                !.fault_code = p.fault_code,
                !.last_raw_wayne_status = p.wayne_status]

Unversioned(c) == [c EXCEPT !.state_version = 0, !.previous_state = None]

\* _apply_event
Applied(p, o) ==
  LET c == Unversioned(Apply(Synced(p), o)) IN
  [p EXCEPT !.ctx = c,
            !.price_verified = c.price_verified,
            !.enabled = IF o.event = "COMMUNICATION_LOST" THEN FALSE
                        ELSE IF o.event = "COMMUNICATION_STARTED" THEN TRUE ELSE @]

Event(p, e) == Applied(p, NoObservation(e))
RawEvent(p, e) == Applied(p, [NoObservation(e) EXCEPT !.raw = p.wayne_status])

State(p) == p.ctx.current_state

-----------------------------------------------------------------------------
(* Reports. *)

NozzleReport(p) == DC3(IF p.selected_nozzle = None THEN 1 ELSE p.selected_nozzle, p.nozzle_out)

\* queue_status_and_nozzle: two transactions, each in a DATA frame of its own.
StatusAndNozzle(p) == <<DC1(p.wayne_status), NozzleReport(p)>>

FillReport(p) == <<DC2(p.volume)>>

-----------------------------------------------------------------------------
(* The filling engine. *)

UnitPrice(p) == p.prices[IF p.selected_nozzle = None THEN 1 ELSE p.selected_nozzle]

LimitVolume(p) == IF p.preset_volume # None THEN p.preset_volume ELSE NaturalVolume

\* Mutant of Credited: the volume alone.
CreditedVolume(p) == [p EXCEPT !.total_volume = @ + p.volume]

Credited(p) == [p EXCEPT !.total_volume = @ + p.volume, !.total_amount = @ + p.amount]

\* Mutant of Halted: the engine is left running.
HaltedSuspension(p) == [p EXCEPT !.suspended = FALSE]

Halted(p) == [p EXCEPT !.filling_active = FALSE, !.suspended = FALSE]

\* _complete_filling
Completed(p) ==
  LET stopped == [Credited(Halted(p)) EXCEPT !.wayne_status = FillingCompleted]
  IN Applied(stopped, [NoObservation("FILLING_COMPLETED") EXCEPT
                         !.raw = FillingCompleted,
                         !.key = <<p.active_transaction_id, p.volume, p.amount>>])

CompletionReports(p) == StatusAndNozzle(p) \o FillReport(p)

Receipt(p) == <<p.active_transaction_id, p.volume, p.amount>>

HasPreset(p) == p.preset_volume # None \/ p.preset_amount # None

AmountReached(p, amount) == p.preset_amount # None /\ amount >= p.preset_amount

\* One update interval: the volume rises to the limit, the amount is computed
\* from it and cut at the preset amount.
Flowed(p) ==
  LET volume == IF p.volume + 1 >= LimitVolume(p) THEN LimitVolume(p) ELSE p.volume + 1
      amount == volume * UnitPrice(p)
      paid   == [p EXCEPT !.volume = volume,
                          !.amount = IF AmountReached(p, amount) THEN p.preset_amount
                                     ELSE amount]
  IN Applied(paid, [NoObservation("FILLING_UPDATED") EXCEPT !.raw = Filling])

\* Mutant of HitLimit: only a preset amount ends a sale.
HitPresetAmount(p) == AmountReached(p, (p.volume + 1) * UnitPrice(p))

HitLimit(p) ==
  \/ p.volume + 1 >= LimitVolume(p)
  \/ AmountReached(p, (p.volume + 1) * UnitPrice(p))

LimitShown(p) ==
  IF HasPreset(p) THEN RawEvent([p EXCEPT !.wayne_status = MaxReached], "LIMIT_REACHED") ELSE p

-----------------------------------------------------------------------------

NewSimulatedPump ==
  [ctx |-> NewContext("DISCONNECTED", FALSE), prices |-> Prices, volume |-> 0,
   amount |-> 0, total_volume |-> 0, total_amount |-> 0,
   selected_nozzle |-> None, nozzle_out |-> FALSE, price_verified |-> FALSE,
   wayne_status |-> ResetStatus, enabled |-> FALSE, fault_code |-> None,
   active_transaction_id |-> None, filling_active |-> FALSE, suspended |-> FALSE,
   preset_volume |-> None, preset_amount |-> None, sales |-> 0]

PumpInit ==
  /\ pump = NewSimulatedPump
  /\ emitted = <<>>
  /\ receipts = {} /\ mishaps = 0

Becomes(p, reports) ==
  /\ pump' = p
  /\ emitted' = reports

NothingSold == UNCHANGED receipts

\* cold_start_to_ready; it is also how a scenario brings a pump back.
ColdStart ==
  LET started == IF pump.enabled THEN pump ELSE Event(pump, "COMMUNICATION_STARTED")
      found   == [Event(started, "PUMP_DISCOVERED") EXCEPT !.wayne_status = ResetStatus]
      reset   == [RawEvent(found, "RESET_OBSERVED") EXCEPT !.nozzle_out = FALSE]
      ready   == Event(reset, "READY_OBSERVED")
  IN /\ Becomes(ready, StatusAndNozzle(ready))
     /\ NothingSold /\ UNCHANGED mishaps

-----------------------------------------------------------------------------
(* The customer. *)

LiftNozzle(n) ==
  LET lifted == [pump EXCEPT !.selected_nozzle = n, !.nozzle_out = TRUE,
                             !.price_verified = TRUE]
      p == Applied([lifted EXCEPT !.ctx = Synced(lifted)],
                   [NoObservation("NOZZLE_LIFTED") EXCEPT !.nozzle = n, !.price = TRUE])
  IN /\ Becomes(p, StatusAndNozzle(p))
     /\ NothingSold /\ UNCHANGED mishaps

ReturnNozzle ==
  LET back == [pump EXCEPT !.nozzle_out = FALSE]
      p == IF State(pump) \in {"NOZZLE_UP", "AUTHORIZED"}
           THEN Event(back, "NOZZLE_RETURNED") ELSE back
  IN /\ Becomes(p, StatusAndNozzle(p))
     /\ NothingSold /\ UNCHANGED mishaps

-----------------------------------------------------------------------------
(* Commands: _execute_guarded. *)

\* A refused command leaves the synchronized context behind, and no answer.
Executes(command, preset) ==
  /\ pump.enabled
  /\ Eligible(command, preset, Synced(pump))
  /\ UNCHANGED mishaps

Refuse ==
  /\ pump.enabled
  /\ \E command \in PumpCommand \ {"READ_STATUS", "READ_TOTALS"},
        preset \in Presets \union {None} :
       ~Eligible(command, preset, Synced(pump))
  /\ Becomes([pump EXCEPT !.ctx = Synced(pump)], <<>>)
  /\ NothingSold /\ UNCHANGED mishaps

\* RETURN_STATUS, RETURN_FILLING_INFORMATION, RETURN_PUMP_IDENTITY,
\* RETURN_PUMP_PARAMETERS and CD101 only answer.
Answer ==
  /\ pump.enabled
  /\ emitted' \in {StatusAndNozzle(pump), FillReport(pump), <<DC9>>,
                   <<DC1(pump.wayne_status)>>, <<DC101(pump.total_volume)>>}
  /\ NothingSold /\ UNCHANGED <<pump, mishaps>>

SetPrice(n, price) ==
  LET priced == [pump EXCEPT !.prices[n] = price, !.price_verified = TRUE]
      p == [priced EXCEPT !.ctx = Synced(priced)]
  IN /\ Executes("SET_PRICE", None)
     /\ Becomes(p, StatusAndNozzle(p))
     /\ NothingSold

PresetVolume(v) ==
  /\ Executes("PRESET_VOLUME", v)
  /\ Becomes([pump EXCEPT !.ctx = Synced(pump), !.preset_volume = v], <<>>)
  /\ NothingSold

PresetAmount(v) ==
  /\ Executes("PRESET_AMOUNT", v)
  /\ Becomes([pump EXCEPT !.ctx = Synced(pump), !.preset_amount = v], <<>>)
  /\ NothingSold

\* One command: the authorization and the start of the filling.
Authorize ==
  LET tx == pump.sales + 1
      opened == [pump EXCEPT !.active_transaction_id = tx, !.sales = tx,
                             !.volume = 0, !.amount = 0, !.wayne_status = Authorized]
      authorized == Applied(opened, [NoObservation("AUTHORIZATION_CONFIRMED") EXCEPT
                                       !.tx = tx, !.raw = Authorized])
      started == RawEvent([authorized EXCEPT !.filling_active = TRUE, !.suspended = FALSE,
                                             !.wayne_status = Filling], "FILLING_STARTED")
  IN /\ Executes("AUTHORIZE", None)
     /\ pump.sales < MaxSales
     /\ Becomes(started, StatusAndNozzle(started) \o FillReport(started))
     /\ NothingSold

Stop ==
  LET p == Completed(pump) IN
  /\ Executes("STOP", None)
  /\ Becomes(p, CompletionReports(p))
  /\ receipts' = receipts \union {Receipt(pump)}

Suspend ==
  LET p == RawEvent([pump EXCEPT !.suspended = TRUE, !.wayne_status = Suspended],
                    "SUSPENDED_OBSERVED")
  IN /\ Executes("SUSPEND", None)
     /\ Becomes(p, StatusAndNozzle(p))
     /\ NothingSold

Resume ==
  LET p == RawEvent([pump EXCEPT !.suspended = FALSE, !.wayne_status = Filling],
                    "RESUMED_OBSERVED")
  IN /\ Executes("RESUME", None)
     /\ Becomes(p, StatusAndNozzle(p))
     /\ NothingSold

\* Mutant of Cleared: the engine is not halted.
ClearedSale(p) ==
  [p EXCEPT !.volume = 0, !.amount = 0, !.preset_volume = None, !.preset_amount = None,
            !.active_transaction_id = None, !.wayne_status = ResetStatus]

Cleared(p) ==
  [Halted(p) EXCEPT !.volume = 0, !.amount = 0,
            !.preset_volume = None, !.preset_amount = None,
            !.active_transaction_id = None, !.wayne_status = ResetStatus]

Reset ==
  LET reset == RawEvent(Cleared(pump), "RESET_OBSERVED")
      p == IF pump.nozzle_out THEN reset ELSE Event(reset, "READY_OBSERVED")
  IN /\ Executes("RESET", None)
     /\ Becomes(p, StatusAndNozzle(p))
     /\ NothingSold

-----------------------------------------------------------------------------
(* Time. *)

\* on_time_advance does nothing otherwise.
FuelFlows ==
  /\ pump.filling_active /\ ~pump.suspended
  /\ State(pump) \in {"FILLING", "AUTHORIZED"}

FillOneInterval ==
  LET flowed == Flowed(pump)
      done   == Completed(LimitShown(flowed))
      full   == HitLimit(pump)
  IN /\ FuelFlows
     /\ \/ ~full /\ Becomes(flowed, FillReport(flowed)) /\ UNCHANGED receipts
        \/ /\ full
           /\ Becomes(done, FillReport(flowed) \o CompletionReports(done))
           /\ receipts' = receipts \union {Receipt(flowed)}
     /\ UNCHANGED mishaps

-----------------------------------------------------------------------------
(* Mishaps. *)

Mishap == mishaps < MaxMishaps /\ mishaps' = mishaps + 1 /\ NothingSold

InjectFault ==
  LET p == Applied([Halted(pump) EXCEPT !.fault_code = 1, !.wayne_status = ResetStatus],
                   [NoObservation("FAULT_OBSERVED") EXCEPT !.fault = 1])
  IN Mishap /\ Becomes(p, <<DC5(1)>>)

ClearFault ==
  LET cleared == [Event([pump EXCEPT !.fault_code = None], "FAULT_CLEARED")
                    EXCEPT !.wayne_status = ResetStatus]
      ready == Event(Event(cleared, "RESET_OBSERVED"), "READY_OBSERVED")
  IN /\ Becomes(ready, <<>>)
     /\ NothingSold /\ UNCHANGED mishaps

\* pending_outbound is emptied as well.
RestartPump ==
  LET cleared == [Cleared(pump) EXCEPT !.nozzle_out = FALSE, !.fault_code = None]
      live == [cleared EXCEPT !.ctx = NewContext("DISCOVERING", TRUE)]
      dead == [cleared EXCEPT !.ctx = NewContext("DISCONNECTED", FALSE),
                              !.wayne_status = pump.wayne_status]
  IN /\ Mishap
     /\ Becomes(IF pump.enabled
                THEN Event(Event(live, "RESET_OBSERVED"), "READY_OBSERVED")
                ELSE dead, <<>>)

DisableCommunication ==
  LET p == Event([pump EXCEPT !.enabled = FALSE, !.filling_active = FALSE],
                 "COMMUNICATION_LOST")
  IN Mishap /\ Becomes(p, <<>>)

EnableCommunication ==
  /\ Becomes(Event([pump EXCEPT !.enabled = TRUE], "COMMUNICATION_STARTED"), <<>>)
  /\ NothingSold /\ UNCHANGED mishaps

-----------------------------------------------------------------------------

Customer == ReturnNozzle \/ \E n \in Nozzles : LiftNozzle(n)

Commands ==
  \/ Refuse \/ Answer \/ Authorize \/ Stop \/ Suspend \/ Resume \/ Reset
  \/ \E n \in Nozzles, price \in NewPrices : SetPrice(n, price)
  \/ \E v \in Presets : PresetVolume(v) \/ PresetAmount(v)

QueueingStep == ColdStart \/ Customer \/ Commands \/ FillOneInterval \/ InjectFault

OtherStep == ClearFault \/ EnableCommunication

ForgettingStep == RestartPump \/ DisableCommunication

PumpNext == QueueingStep \/ OtherStep \/ ForgettingStep

\* The simulated clock is advanced again and again: WF_pumpVars(FillOneInterval),
\* with FuelFlows for ENABLED, which TLC takes too long to evaluate.
ClockAdvances == []<>~FuelFlows \/ []<><<FillOneInterval>>_pumpVars

-----------------------------------------------------------------------------
(* Properties *)

SumOf(field, S) == MapThenSumSet(LAMBDA r : r[field], S)

\* The engine's flags and the state machine, updated by different statements of
\* every command, agree: fuel flows exactly in FILLING, and a suspended engine
\* is a suspended pump.
EngineFollowsState ==
  /\ pump.filling_active <=> State(pump) \in {"FILLING", "SUSPENDED"}
  /\ pump.filling_active => (pump.suspended <=> State(pump) = "SUSPENDED")

\* The pump's running totals are the sum of the sales it has completed, every
\* sale counted once, whatever interrupts the sales in between.
TotalsMatchReceipts ==
  /\ pump.total_volume = SumOf(2, receipts)
  /\ pump.total_amount = SumOf(3, receipts)
  /\ \A r, s \in receipts : r[1] = s[1] => r = s

\* Fuel only flows for a transaction opened by an AUTHORIZE and not completed.
FlowsForAnOpenSale ==
  pump.filling_active =>
    /\ pump.active_transaction_id = pump.sales
    /\ \A r \in receipts : r[1] # pump.active_transaction_id

\* "never decreases": within one sale the amount only rises, unless a cheaper
\* nozzle was lifted since it was computed (lift_nozzle checks no state, and the
\* whole sale is then priced by the new nozzle).
AmountNeverDecreases ==
  [][ (/\ pump.filling_active
       /\ pump'.active_transaction_id = pump.active_transaction_id
       /\ pump.amount <= pump.volume * UnitPrice(pump))
      => pump'.amount >= pump.amount ]_pumpVars

\* An authorized pump does not fill for ever: the volume limit or a preset ends
\* every sale unless somebody suspends it for good.
FillingEnds == []<>(State(pump) # "FILLING")

=============================================================================

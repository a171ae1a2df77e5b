-------------------------- MODULE CommandEligibility ------------------------
(***************************************************************************)
(* state_machine/guards.py: when a command may be offered to a pump.  The  *)
(* guard is a pure function of the pump's context; the warnings and the    *)
(* physical-enable and active-commands flags only annotate its answer.     *)
(***************************************************************************)
EXTENDS PumpStates

PumpCommand ==
  {"READ_STATUS", "READ_TOTALS", "SET_PRICE", "RESET", "AUTHORIZE", "STOP",
   "SUSPEND", "RESUME", "PRESET_AMOUNT", "PRESET_VOLUME"}

SetPriceStates == {"READY", "RESET", "NOT_PROGRAMMED"}

ResetEligibleStates ==
  {"FILLING_COMPLETE", "LIMIT_REACHED", "READY", "RESET", "NOT_PROGRAMMED",
   "NOZZLE_UP", "AUTHORIZED", "FAULTED", "DISCOVERING"}

\* Mutant of PresetStates: a preset may still change while fuel flows.
PresetStatesMidSale == {"READY", "RESET", "NOZZLE_UP", "AUTHORIZED", "FILLING"}

PresetStates == {"READY", "RESET", "NOZZLE_UP", "AUTHORIZED"}

StopStates == {"AUTHORIZED", "FILLING", "SUSPENDED"}

\* The states in which the guard of a command does not block it.
EligibleStates(command) ==
  IF command = "SET_PRICE" THEN SetPriceStates
  ELSE IF command = "AUTHORIZE" THEN {"NOZZLE_UP"}
  ELSE IF command = "STOP" THEN StopStates
  ELSE IF command = "SUSPEND" THEN {"FILLING"}
  ELSE IF command = "RESUME" THEN {"SUSPENDED"}
  ELSE IF command = "RESET" THEN ResetEligibleStates
  ELSE IF command \in {"PRESET_AMOUNT", "PRESET_VOLUME"} THEN PresetStates
  ELSE PumpState

NeedsNoOpenSale == {"SET_PRICE", "AUTHORIZE"}
NeedsNozzleAndPrice == {"AUTHORIZE", "PRESET_AMOUNT", "PRESET_VOLUME"}
IsPositive(preset) == preset # None /\ preset > 0

\* evaluate_command_eligibility; only the presets look at the preset value.
Eligible(command, preset, c) ==
  \/ command = "READ_STATUS"
  \/ /\ command # "READ_STATUS"
     /\ c.communication_healthy
     /\ c.current_state \in EligibleStates(command)
     /\ command \in NeedsNoOpenSale => c.active_transaction_id = None
     /\ command \in NeedsNozzleAndPrice =>
          c.selected_nozzle # None /\ c.price_verified
     /\ command = "AUTHORIZE" => c.fault_code = None
     /\ command \in {"PRESET_AMOUNT", "PRESET_VOLUME"} => IsPositive(preset)

=============================================================================

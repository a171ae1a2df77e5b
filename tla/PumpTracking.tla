----------------------------- MODULE PumpTracking ---------------------------
(***************************************************************************)
(* A simulated pump and the controller's idea of it.  The pump's reports   *)
(* travel as DartLink shows they do while nothing interrupts the pump:     *)
(* each once, in order, one transaction to a DATA frame.  (What a restart  *)
(* or an outage does to the line is in DartLink.)                          *)
(*                                                                         *)
(* A pump that no controller observes may also be restarted or taken from  *)
(* the line, and its reports wait for nobody.                              *)
(***************************************************************************)
EXTENDS SimulatedPump, ControllerSession

CONSTANTS
  MaxSeq,          \* the largest TX#
  MaxPending,      \* bound: reports that may wait when others are queued
  Followed(_)      \* bound: the pumps looked at while they are observed

VARIABLES
  observed,        \* a controller polls the pump
  pending,         \* pending_outbound
  seq,             \* the TX# of the next DATA frame
  session          \* the controller's session for this pump

vars == <<pumpVars, observed, pending, seq, session>>

Init ==
  /\ PumpInit
  /\ observed \in BOOLEAN
  /\ pending = <<>> /\ seq = 0
  /\ session = NewSession

PumpMoves ==
  /\ QueueingStep \/ ClearFault
  /\ pending' = pending \o emitted'
  /\ Len(pending) <= MaxPending /\ Followed(pump')
  /\ UNCHANGED <<seq, session>>

\* The context's version and previous state are left out, as in the pump's, and
\* nobody takes the events.
Learns(s) == session' = [s EXCEPT !.ctx = Unversioned(@), !.events = <<>>]

\* A POLL answered with DATA.
DeliverReport ==
  /\ pump.enabled /\ pending # <<>>
  /\ Learns(TakeFrame(session, <<seq, <<Head(pending)>>>>))
  /\ pending' = Tail(pending)
  /\ seq' = IF seq = MaxSeq THEN 1 ELSE seq + 1
  /\ UNCHANGED pumpVars

\* A POLL answered with EOT.
DeliverNothing ==
  /\ pump.enabled /\ pending = <<>>
  /\ Learns(Answered(session))
  /\ UNCHANGED <<pumpVars, pending, seq>>

Observed == observed /\ (PumpMoves \/ DeliverReport \/ DeliverNothing)

Unobserved == ~observed /\ PumpNext /\ UNCHANGED <<pending, seq, session>>

Next == (Observed \/ Unobserved) /\ UNCHANGED observed

Spec == Init /\ [][Next]_vars /\ ClockAdvances

-----------------------------------------------------------------------------
(* Properties *)

Controller == session.ctx.current_state
CaughtUp == pending = <<>> /\ Controller # "DISCONNECTED"

\* Once every report of the pump is delivered, a faulted pump is known to be
\* faulted: no duplicate check and no table entry hides the alarm.
FaultIsObserved == observed /\ CaughtUp /\ State(pump) = "FAULTED" => Controller = "FAULTED"

=============================================================================

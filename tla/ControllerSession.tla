-------------------------- MODULE ControllerSession -------------------------
(***************************************************************************)
(* What PumpSession does with an accepted DATA frame once the line         *)
(* protocol (DartLink) is done with it: decode, map every transaction with *)
(* WayneMapper, apply it to the pump's state machine, and publish events   *)
(* for the persistence bridge.                                             *)
(*                                                                         *)
(* A frame is <<TX#, reports>>: on the wire of one pump, equal frames are  *)
(* equal bytes.  A session is its machine's context, its health, its       *)
(* _applied_completion_keys and the events published since they were last  *)
(* taken.                                                                  *)
(***************************************************************************)
EXTENDS WayneMapper, Sequences

\* A session whose machine starts in the context c.
SessionWith(c) == [ctx |-> c, health |-> "UNKNOWN", keys |-> {}, events |-> <<>>]
NewSession == SessionWith(NewContext("DISCONNECTED", FALSE))

\* An event on the bus, of those the bridge subscribes to.
Notice(type, before, after, key, volume) ==
  [type |-> type, from |-> before, ctx |-> after, key |-> key, volume |-> volume]

Publish(s, notice) == [s EXCEPT !.events = Append(@, notice)]

\* _set_communication
SetCommunication(s, health) ==
  LET changed == [s EXCEPT !.health = health] IN
  IF health = s.health \/ health = "DEGRADED" THEN changed
  ELSE Publish(changed,
               Notice(IF health = "HEALTHY" THEN "PUMP_CONNECTED" ELSE "PUMP_DISCONNECTED",
                      None, None, None, None))

\* The new context, and STATE_CHANGED if the state is another one.
Reaches(s, c, key) ==
  LET reached == [s EXCEPT !.ctx = c] IN
  IF c.current_state = s.ctx.current_state THEN reached
  ELSE Publish(reached, Notice("STATE_CHANGED", s.ctx.current_state, c, key, None))

\* _apply_sm
Told(s, e) == Reaches(s, Apply(s.ctx, NoObservation(e)), None)

\* _apply_mapped
TakeObservation(s, o) ==
  LET used == o.key # None /\ Outcome(s.ctx, o) = "transition_applied" IN
  IF o.key # None /\ o.key \in s.keys THEN s
  ELSE [Reaches(s, Apply(s.ctx, o), o.key) EXCEPT
          !.keys = IF used THEN @ \union {o.key} ELSE @]

\* _on_eot, and the first lines of an accepted DATA frame.
Answered(s) ==
  LET healthy == SetCommunication(s, "HEALTHY") IN
  IF s.ctx.current_state = "DISCONNECTED" THEN Told(healthy, "COMMUNICATION_STARTED")
  ELSE healthy

\* on_timeout: the second in a row, and the last one tolerated.
Degraded(s) == SetCommunication(s, "DEGRADED")
GivenUp(s) == Told(SetCommunication(s, "DISCONNECTED"), "COMMUNICATION_LOST")

Decoded(r) ==
  Notice("APPLICATION_TRANSACTION_DECODED", None, None, None,
         IF r.type = "DC2" THEN r.value ELSE None)

\* _decode_and_apply, for one transaction of the frame.
TakeReport(s, r, frame) ==
  TakeObservation(Publish(s, Decoded(r)), Mapped(r, frame, s.ctx))

\* _on_data: the session before the first transaction of a frame, and after each
\* of them in order.
AfterEach(s, frame) ==
  LET after[n \in 0..Len(frame[2])] ==
        IF n = 0 THEN Answered(s) ELSE TakeReport(after[n - 1], frame[2][n], frame)
  IN after

TakeFrame(s, frame) == AfterEach(s, frame)[Len(frame[2])]

=============================================================================

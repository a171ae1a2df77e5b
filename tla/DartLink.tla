------------------------------ MODULE DartLink ------------------------------
(***************************************************************************)
(* The DART line between the controller and one pump: the master's poll    *)
(* cycle (controller_loop.py), the master's half of the line protocol      *)
(* (PumpSession), the slave's half (SimulatorSession), and a half-duplex   *)
(* medium that loses frames, damages DATA, and delivers answers after the  *)
(* master has given up on them.                                            *)
(*                                                                         *)
(* The n-th payload a pump queues and the n-th command the controller      *)
(* sends are the number n; `body' in a frame stands for the payload, and   *)
(* in an ACK it is a history variable naming what is acknowledged.         *)
(***************************************************************************)
EXTENDS Naturals, Sequences

CONSTANTS
  None,
  MaxSeq,          \* the largest TX#: 0x0F
  WrapTo,          \* the TX# after MaxSeq: 1 (SPEC_F_TO_1) or 0 (OBSERVED_F_TO_0)
  MaxRetries,      \* max_retries
  MaxConsecutive,  \* max_consecutive_timeouts
  MaxPayloads,     \* bound: payloads the pump queues
  MaxCommands,     \* bound: commands the controller sends
  MaxTraffic,      \* bound: payloads, commands and interruptions together
  MaxWire,         \* bound: frames in flight in one direction
  MaxRestarts      \* bound: restarts and communication outages of the pump

VARIABLES
  pump,            \* the slave's line state
  queued,          \* payloads queued by the pump so far
  popped,          \* payloads taken from pending_outbound so far
  session,         \* the master's line state (PumpSessionState)
  phase,           \* where _poll_one is waiting
  retries,         \* re-POLLs of the current cycle
  applied,         \* history: payloads applied by the session
  issued,          \* commands put in the outbound queue so far
  sent,            \* commands taken from the outbound queue so far
  toPump,          \* frames in flight to the pump
  toController,    \* frames in flight to the controller
  restarts

pumpVars    == <<pump, queued, popped>>
sessionVars == <<session, phase, retries, applied>>
commandVars == <<issued, sent>>
wireVars    == <<toPump, toController>>
vars == <<pumpVars, sessionVars, commandVars, wireVars, restarts>>

ASSUME LinkAssumption ==
  /\ MaxSeq \in Nat /\ MaxSeq >= 2
  /\ WrapTo \in {0, 1}
  /\ {MaxRetries, MaxConsecutive, MaxPayloads, MaxCommands, MaxTraffic, MaxRestarts}
       \subseteq Nat
  /\ MaxWire \in Nat /\ MaxWire >= 1
  /\ None \notin Nat

\* config.next_sequence
NextSeq(s) == IF s = MaxSeq THEN WrapTo ELSE s + 1

ControlFrame(kind, s, n) == [kind |-> kind, seq |-> s, body |-> n, intact |-> TRUE]
Poll      == ControlFrame("POLL", 0, 0)
Data(s, n) == ControlFrame("DATA", s, n)
Ack(f)    == ControlFrame("ACK", f.seq, f.body)
Nak(f)    == ControlFrame("NAK", f.seq, f.body)

WithinTraffic == queued + issued + restarts < MaxTraffic

\* A full buffer loses its oldest frame.
Put(wire, f) == Append(IF Len(wire) < MaxWire THEN wire ELSE Tail(wire), f)

-----------------------------------------------------------------------------

NewPump ==
  [tx |-> 0, awaiting |-> None, expected |-> 0, accepted |-> None, enabled |-> TRUE]

Init ==
  /\ pump = NewPump
  /\ queued = 0 /\ popped = 0
  /\ session = [tx |-> 0, expected |-> 0, accepted |-> None, timeouts |-> 0,
                health |-> "UNKNOWN", connected |-> FALSE]
  /\ phase = "idle" /\ retries = 0 /\ applied = <<>>
  /\ issued = 0 /\ sent = 0
  /\ toPump = <<>> /\ toController = <<>>
  /\ restarts = 0

-----------------------------------------------------------------------------
(* The pump: SimulatorSession.receive on the next frame of the medium. *)

Receives(kind) ==
  /\ toPump # <<>>
  /\ Head(toPump).kind = kind
  /\ toPump' = Tail(toPump)
  /\ UNCHANGED <<queued, sessionVars, issued, sent, restarts>>

PumpAnswers(f) == toController' = Put(toController, f)
PumpIsSilent == UNCHANGED toController

\* _queue: a status change, a fill tick or a command's answer.
QueuePayload ==
  /\ queued < MaxPayloads /\ WithinTraffic
  /\ queued' = queued + 1
  /\ UNCHANGED <<pump, popped, sessionVars, commandVars, wireVars, restarts>>

\* A frame reaches a pump whose communication is disabled.
PumpIsDeaf ==
  /\ ~pump.enabled
  /\ \E kind \in {"POLL", "DATA", "ACK"} : Receives(kind)
  /\ PumpIsSilent
  /\ UNCHANGED <<pump, popped>>

PumpAnswersPoll ==
  /\ pump.enabled
  /\ Receives("POLL")
  /\ \/ /\ pump.awaiting # None
        /\ PumpAnswers(Data(pump.awaiting, popped))
        /\ UNCHANGED <<pump, popped>>
     \/ /\ pump.awaiting = None /\ popped < queued
        /\ popped' = popped + 1
        /\ pump' = [pump EXCEPT !.awaiting = pump.tx]
        /\ PumpAnswers(Data(pump.tx, popped + 1))
     \/ /\ pump.awaiting = None /\ popped = queued
        /\ PumpAnswers(ControlFrame("EOT", pump.tx, 0))
        /\ UNCHANGED <<pump, popped>>

PumpTakesCommand ==
  /\ pump.enabled
  /\ Receives("DATA")
  /\ LET f == Head(toPump) IN
     \/ /\ ~f.intact
        /\ PumpIsSilent
        /\ UNCHANGED pump
     \/ /\ f.intact /\ f.seq = pump.accepted
        /\ PumpAnswers(Ack(f))
        /\ UNCHANGED pump
     \/ /\ f.intact /\ f.seq # pump.accepted /\ f.seq # pump.expected
        /\ PumpAnswers(Nak(f))
        /\ UNCHANGED pump
     \/ /\ f.intact /\ f.seq # pump.accepted /\ f.seq = pump.expected
        /\ PumpAnswers(Ack(f))
        /\ pump' = [pump EXCEPT !.accepted = f.seq, !.expected = NextSeq(f.seq)]
  /\ UNCHANGED popped

IsAwaitedAck(f) == f.seq = pump.awaiting

\* An ACK that is not the one awaited is ignored.
PumpTakesAck ==
  /\ pump.enabled
  /\ Receives("ACK")
  /\ pump' = IF IsAwaitedAck(Head(toPump))
             THEN [pump EXCEPT !.tx = NextSeq(@), !.awaiting = None]
             ELSE pump
  /\ PumpIsSilent
  /\ UNCHANGED popped

-----------------------------------------------------------------------------
(* The controller: _poll_one. *)

Heard(s) == [s EXCEPT !.timeouts = 0, !.health = "HEALTHY", !.connected = TRUE]

\* PumpSession.on_timeout; timeouts saturates where no comparison sees it.
TimedOut(s) ==
  LET n == IF s.timeouts < MaxConsecutive THEN s.timeouts + 1 ELSE MaxConsecutive IN
  [s EXCEPT !.timeouts = n,
            !.health = IF n >= MaxConsecutive THEN "DISCONNECTED"
                       ELSE IF n >= 2 THEN "DEGRADED" ELSE @,
            !.connected = @ /\ n < MaxConsecutive]

Writes(f) == toPump' = Put(toPump, f)

\* _read_one_frame returns the first frame of what it reads and forgets the
\* frames that came in the same chunk.
Reads ==
  /\ toController # <<>>
  /\ \E n \in 1..Len(toController) :
       toController' = SubSeq(toController, n + 1, Len(toController))

EnqueueCommand ==
  /\ issued < MaxCommands /\ WithinTraffic
  /\ issued' = issued + 1
  /\ UNCHANGED <<pumpVars, sessionVars, sent, wireVars, restarts>>

\* pop_for_address found nothing, or only expired items.
StartCycle ==
  /\ phase = "idle"
  /\ sent' = issued
  /\ Writes(Poll)
  /\ phase' = "poll" /\ retries' = 0
  /\ UNCHANGED <<pumpVars, session, applied, issued, toController, restarts>>

\* pop_for_address skips the expired items before the one it selects.
SendCommand ==
  /\ phase = "idle"
  /\ \E n \in sent + 1 .. issued :
       /\ sent' = n
       /\ Writes(Data(session.tx, n))
  /\ phase' = "command" /\ retries' = 0
  /\ UNCHANGED <<pumpVars, session, applied, issued, toController, restarts>>

\* Mutant of ConfirmsCommand: does not compare the TX#.
IsAckOfAnything(f) == f.kind = "ACK"

ConfirmsCommand(f) == f.kind = "ACK" /\ f.seq = session.tx

\* Whatever _maybe_send_outbound reads, it drops; then the POLL is sent.
CommandAnswered ==
  /\ phase = "command"
  /\ Reads
  /\ LET f == Head(toController) IN
     session' = IF ConfirmsCommand(f)
                THEN [session EXCEPT !.tx = NextSeq(@)]
                ELSE session
  /\ Writes(Poll)
  /\ phase' = "poll"
  /\ UNCHANGED <<pumpVars, retries, applied, commandVars, restarts>>

CommandTimedOut ==
  /\ phase = "command"
  /\ Writes(Poll)
  /\ phase' = "poll"
  /\ UNCHANGED <<pumpVars, session, retries, applied, commandVars, toController, restarts>>

\* Mutant of IsFresh: applies every DATA frame that passes its CRC.
IsUndamaged(s, f) == f.intact

IsFresh(s, f) == f.intact /\ f.seq # s.accepted /\ f.seq = s.expected

\* Mutants of IsRepeat: compares TX#s as numbers; takes a repeat for a mismatch.
IsNotNewer(s, f) == f.intact /\ s.accepted # None /\ f.seq <= s.accepted
IsNeverRepeat(s, f) == FALSE

IsRepeat(s, f) == f.intact /\ f.seq = s.accepted

\* PumpSession._on_data
ReceiveData ==
  /\ phase = "poll"
  /\ Reads
  /\ LET f == Head(toController) IN
     /\ f.kind = "DATA"
     /\ \/ /\ IsFresh(session, f)
           /\ session' = [Heard(session) EXCEPT !.accepted = f.seq,
                                                !.expected = NextSeq(f.seq)]
           /\ applied' = Append(applied, f.body)
           /\ Writes(Ack(f))
        \/ /\ IsRepeat(session, f)
           /\ Writes(Ack(f))
           /\ UNCHANGED <<session, applied>>
        \/ /\ ~IsFresh(session, f) /\ ~IsRepeat(session, f)
           /\ UNCHANGED <<session, applied, toPump>>
  /\ phase' = "idle"
  /\ UNCHANGED <<pumpVars, retries, commandVars, restarts>>

\* _on_eot, _on_nak, and the control types handle_response_frame does not expect.
ReceiveControl ==
  /\ phase = "poll"
  /\ Reads
  /\ Head(toController).kind # "DATA"
  /\ session' = IF Head(toController).kind = "EOT" THEN Heard(session) ELSE session
  /\ phase' = "idle"
  /\ UNCHANGED <<pumpVars, retries, applied, commandVars, toPump, restarts>>

\* The first timeout of the cycle and the bounded re-POLLs.
ResponseTimedOut ==
  /\ phase = "poll"
  /\ session' = TimedOut(session)
  /\ \/ /\ retries < MaxRetries
        /\ retries' = retries + 1
        /\ Writes(Poll)
        /\ UNCHANGED phase
     \/ /\ retries = MaxRetries
        /\ phase' = "idle"
        /\ UNCHANGED <<retries, toPump>>
  /\ UNCHANGED <<pumpVars, applied, commandVars, toController, restarts>>

-----------------------------------------------------------------------------
(* The medium: the frame at the head is the next to arrive, if it arrives. *)

Damaged(wire) == [wire EXCEPT ![1].intact = FALSE]
CarriesData(wire) == wire # <<>> /\ Head(wire).kind = "DATA" /\ Head(wire).intact

LoseFrame ==
  /\ \/ toPump # <<>> /\ toPump' = Tail(toPump) /\ UNCHANGED toController
     \/ toController # <<>> /\ toController' = Tail(toController) /\ UNCHANGED toPump
  /\ UNCHANGED <<pumpVars, sessionVars, commandVars, restarts>>

DamageFrame ==
  /\ \/ CarriesData(toPump) /\ toPump' = Damaged(toPump) /\ UNCHANGED toController
     \/ CarriesData(toController) /\ toController' = Damaged(toController)
        /\ UNCHANGED toPump
  /\ UNCHANGED <<pumpVars, sessionVars, commandVars, restarts>>

-----------------------------------------------------------------------------
(* The pump's own interruptions. *)

Interrupts == WithinTraffic /\ restarts < MaxRestarts /\ restarts' = restarts + 1

\* restart_pump: the pending payloads and the TX#s are forgotten.
RestartPump ==
  /\ Interrupts
  /\ pump' = [NewPump EXCEPT !.enabled = pump.enabled]
  /\ popped' = queued
  /\ UNCHANGED <<queued, sessionVars, commandVars, wireVars>>

\* disable_communication: the payloads are forgotten, the TX#s are not.
DisableCommunication ==
  /\ Interrupts
  /\ pump.enabled
  /\ pump' = [pump EXCEPT !.enabled = FALSE, !.awaiting = None]
  /\ popped' = queued
  /\ UNCHANGED <<queued, sessionVars, commandVars, wireVars>>

EnableCommunication ==
  /\ ~pump.enabled
  /\ pump' = [pump EXCEPT !.enabled = TRUE]
  /\ UNCHANGED <<queued, popped, sessionVars, commandVars, wireVars, restarts>>

-----------------------------------------------------------------------------

PumpStep == QueuePayload \/ PumpAnswersPoll \/ PumpTakesCommand \/ PumpTakesAck

ControllerStep ==
  \/ EnqueueCommand \/ StartCycle \/ SendCommand
  \/ CommandAnswered \/ CommandTimedOut
  \/ ReceiveData \/ ReceiveControl \/ ResponseTimedOut

Interruption ==
  RestartPump \/ DisableCommunication \/ EnableCommunication \/ PumpIsDeaf

Next == PumpStep \/ ControllerStep \/ LoseFrame \/ DamageFrame \/ Interruption

\* The medium is usable: again and again a POLL is answered while the controller
\* waits for it and nothing late is on the wire, and neither every undamaged
\* DATA frame nor every ACK that reaches its reader's end is lost.
PumpAnswersInTime == PumpAnswersPoll /\ phase = "poll" /\ toController = <<>>
ReceiveIntactData == ReceiveData /\ Head(toController).intact

UsableMedium ==
  /\ []<><<PumpAnswersInTime>>_vars
  /\ SF_vars(ReceiveIntactData)
  /\ SF_vars(PumpTakesAck)

Spec == Init /\ [][Next]_vars /\ UsableMedium

-----------------------------------------------------------------------------
(* Properties *)

\* With loss, damage, late answers, re-POLLs and wrapping TX#s, the payloads a
\* pump queues reach the session in order, each at most once, and each of them
\* as long as the pump is not interrupted (SimulatorSession._on_poll and _on_ack
\* with PumpSession._on_data).
Delivery ==
  INSTANCE ReliableDelivery
    WITH queued <- queued, applied <- applied, interrupted <- restarts > 0
DeliveryIsReliable == Delivery!Spec

\* Every queued payload reaches the session in the end: no schedule of losses
\* and late answers leaves the two sides waiting for each other.
EventuallyApplied ==
  \A n \in 1..MaxPayloads : queued >= n ~> Len(applied) >= n \/ restarts > 0

\* As long as the pump is not interrupted the two sides never fall out of
\* step: no undamaged DATA is ever refused for its TX#, in either direction
\* (the mismatch branch of _on_data, the NAK branch of the simulator).
NeverOutOfStep ==
  restarts = 0 =>
    /\ \A i \in DOMAIN toController :
         LET f == toController[i] IN
         f.kind = "DATA" => f.seq \in {session.accepted, session.expected}
    /\ \A i \in DOMAIN toPump :
         LET f == toPump[i] IN
         f.kind = "DATA" => f.seq \in {pump.accepted, pump.expected}

Carried(seq) == {seq[i] : i \in DOMAIN seq}

\* What the session acknowledges as a duplicate it has applied before
\* (pump_session.py, "Duplicate DATA: ACK, do not re-apply").
DroppedDataWasApplied ==
  restarts = 0 /\ CarriesData(toController) /\ IsRepeat(session, Head(toController))
    => Head(toController).body \in Carried(applied)

=============================================================================

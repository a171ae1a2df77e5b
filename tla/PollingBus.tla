------------------------------ MODULE PollingBus ----------------------------
(***************************************************************************)
(* The polling loop (ControllerLoop.run, _poll_one) over several pumps on  *)
(* one half-duplex bus.  DartLink says what the frames of one pump do;     *)
(* here a frame is only the address it comes from, and the question is     *)
(* whose answer the loop takes for whose.                                  *)
(***************************************************************************)
EXTENDS Naturals, Sequences

CONSTANTS
  NAddresses,      \* the configured addresses are 1..NAddresses, polled in order
  Offline,         \* the addresses at which no pump answers
  MaxRetries,      \* max_retries
  MaxConsecutive,  \* max_consecutive_timeouts
  MaxLate          \* bound: answers that miss the response timeout

VARIABLES
  turn,            \* the address being polled
  phase,           \* "idle" between cycles, "poll" inside _read_one_frame
  retries,         \* re-POLLs of this turn
  asked,           \* POLLs a pump has not answered yet
  answers,         \* answers the loop has not read yet
  timeouts,        \* consecutive_timeouts of each session
  health,          \* communication of each session
  late             \* history: how many answers were late

vars == <<turn, phase, retries, asked, answers, timeouts, health, late>>

Addresses == 1..NAddresses

ASSUME BusAssumption ==
  /\ NAddresses \in Nat \ {0} /\ Offline \subseteq Addresses
  /\ {MaxRetries, MaxConsecutive, MaxLate} \subseteq Nat

Init ==
  /\ turn = 1 /\ phase = "idle" /\ retries = 0
  /\ asked = <<>> /\ answers = <<>>
  /\ timeouts = [a \in Addresses |-> 0]
  /\ health = [a \in Addresses |-> "UNKNOWN"]
  /\ late = 0

\* Mutant of NextTurn: the last address has no turn.
NextTurnSkipsLast == IF turn + 1 >= NAddresses THEN 1 ELSE turn + 1

\* The address after this one; after the last the cycle starts again.
NextTurn == IF turn = NAddresses THEN 1 ELSE turn + 1

EndTurn == turn' = NextTurn /\ phase' = "idle"

\* POLL, or POLL_RETRY; nobody answers at an offline address.
Polls == asked' = IF turn \in Offline THEN asked ELSE Append(asked, turn)

StartTurn ==
  /\ phase = "idle"
  /\ Polls
  /\ phase' = "poll" /\ retries' = 0
  /\ UNCHANGED <<turn, answers, timeouts, health, late>>

PumpAnswers ==
  /\ asked # <<>>
  /\ answers' = Append(answers, Head(asked))
  /\ asked' = Tail(asked)
  /\ UNCHANGED <<turn, phase, retries, timeouts, health, late>>

\* Mutant of HealthAfterTimeouts: the limit is never reached.
HealthNeverLost(n, old) == IF n >= 2 THEN "DEGRADED" ELSE old

HealthAfterTimeouts(n, old) ==
  IF n = MaxConsecutive THEN "DISCONNECTED" ELSE IF n >= 2 THEN "DEGRADED" ELSE old

\* Mutant of OneMore: the loop and the session both count.
OneMoreTwice(n) == IF n + 1 < MaxConsecutive THEN n + 2 ELSE MaxConsecutive

\* Counted no further than the limit.
OneMore(n) == IF n < MaxConsecutive THEN n + 1 ELSE MaxConsecutive

\* session.on_timeout, then the next re-POLL or the end of the turn.
GivesUpWaiting ==
  /\ LET n == OneMore(timeouts[turn]) IN
     /\ timeouts' = [timeouts EXCEPT ![turn] = n]
     /\ health' = [health EXCEPT ![turn] = HealthAfterTimeouts(n, @)]
  /\ \/ retries < MaxRetries /\ retries' = retries + 1 /\ Polls /\ UNCHANGED <<turn, phase>>
     \/ retries = MaxRetries /\ EndTurn /\ UNCHANGED <<retries, asked>>

\* _read_one_frame returns the first frame of what has arrived; the frames
\* that came in the same chunk are forgotten.
Reads ==
  /\ phase = "poll" /\ answers # <<>>
  /\ \E n \in 1..Len(answers) : answers' = SubSeq(answers, n + 1, Len(answers))

\* The polled pump's answer is read, whatever the session makes of it.
HearsTurn ==
  /\ Reads
  /\ Head(answers) = turn
  /\ EndTurn
  /\ UNCHANGED <<retries, asked, late>>

\* An EOT, or DATA the session accepts (_on_eot, the end of _on_data).
TakeAnswer ==
  /\ HearsTurn
  /\ timeouts' = [timeouts EXCEPT ![turn] = 0]
  /\ health' = [health EXCEPT ![turn] = "HEALTHY"]

\* A NAK, or DATA that is damaged, a duplicate or out of sequence: counted in
\* the statistics, and no sign of life (_on_nak, the early returns of _on_data).
\* Any answer may be such a one, and all of them may be.
RefuseAnswer ==
  /\ HearsTurn
  /\ UNCHANGED <<timeouts, health>>

\* The first answer of a turn is dropped when it is another pump's; among the
\* re-POLLs it counts as a timeout.
ReadOtherAnswer ==
  /\ Reads
  /\ Head(answers) # turn
  /\ \/ retries = 0 /\ EndTurn /\ UNCHANGED <<retries, asked, timeouts, health>>
     \/ retries > 0 /\ GivesUpWaiting
  /\ UNCHANGED late

\* Nothing arrived in time, from an offline address or from a late pump.
TimeOut ==
  /\ phase = "poll" /\ answers = <<>>
  /\ \/ asked = <<>> /\ UNCHANGED late
     \/ asked # <<>> /\ late < MaxLate /\ late' = late + 1
  /\ GivesUpWaiting
  /\ UNCHANGED answers

Next ==
  StartTurn \/ PumpAnswers \/ TakeAnswer \/ RefuseAnswer \/ ReadOtherAnswer \/ TimeOut

\* The event loop keeps running the poll task, and the pumps keep answering.
Spec == Init /\ [][Next]_vars /\ WF_vars(Next)

-----------------------------------------------------------------------------
(* Properties *)

\* "One pump's failures are isolated; other addresses continue": every pump
\* that answers its POLLs is heard again and again, whatever its neighbours do and
\* whatever the session makes of the answers.
AnsweringPumpsAreHeard ==
  \A a \in Addresses \ Offline : []<><<HearsTurn /\ turn = a>>_vars

\* A pump that is gone is declared DISCONNECTED and stays so: no late answer of
\* a neighbour is ever taken for a sign of life.
GonePumpsAreDisconnected ==
  \A a \in Offline : <>[](health[a] = "DISCONNECTED")

\* The timeouts late answers can cost a pump none of whose own answers resets
\* them: the first late answer costs one, every further one at most the attempts
\* of a turn.  It shifts later reads, of other turns too, to the wrong pump's
\* answer, and those count once a turn has begun with a timeout
\* (_handle_timeout_with_retries).
LateCost == IF late = 0 THEN 0 ELSE 1 + (late - 1) * (MaxRetries + 1)

\* Late answers that cost less than max_consecutive_timeouts never get a pump
\* that answers declared DISCONNECTED, even if every answer of it is refused.
FewLate == LateCost < MaxConsecutive

AnsweringPumpsStayConnected ==
  FewLate => \A a \in Addresses \ Offline : health[a] # "DISCONNECTED"

=============================================================================

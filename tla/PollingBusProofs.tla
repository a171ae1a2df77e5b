-------------------------- MODULE PollingBusProofs --------------------------
(***************************************************************************)
(* Late answers do not disconnect an answering pump: for any number of     *)
(* addresses, re-POLLs and consecutive timeouts.                           *)
(***************************************************************************)
EXTENDS PollingBus, SequenceTheorems, TLAPS

Online == Addresses \ Offline

BusTypes ==
  /\ turn \in Addresses /\ phase \in {"idle", "poll"} /\ retries \in 0..MaxRetries
  /\ asked \in Seq(Addresses) /\ answers \in Seq(Addresses)
  /\ timeouts \in [Addresses -> 0..MaxConsecutive]
  /\ health \in [Addresses -> {"UNKNOWN", "HEALTHY", "DEGRADED", "DISCONNECTED"}]
  /\ late \in Nat

-----------------------------------------------------------------------------
(* The inductive invariant. *)

\* What waits for an answering pump's turn to end.
AwaitsAnswer ==
  phase = "poll" /\ turn \in Online => asked # <<>> \/ answers # <<>>

\* Until an answer is late there is nothing on the bus but the turn's own.
NothingStale ==
  late = 0 =>
    \/ asked = <<>> /\ answers = <<>>
    \/ /\ phase = "poll" /\ turn \in Online /\ retries = 0
       /\ \/ asked = <<turn>> /\ answers = <<>>
          \/ asked = <<>> /\ answers = <<turn>>

\* LateCost of l late answers.
Cost(l) == IF l = 0 THEN 0 ELSE 1 + (l - 1) * (MaxRetries + 1)

AmongRetries(a) == phase = "poll" /\ turn = a /\ retries > 0

OnlyFrom(a, seq) == \A i \in DOMAIN seq : seq[i] = a

\* Among the re-POLLs of a turn: one that has seen nothing but its own answers,
\* or one that began when answers had been late and has counted a timeout for each of its
\* attempts.
Counting(a) ==
  \/ OnlyFrom(a, asked) /\ OnlyFrom(a, answers) /\ timeouts[a] <= Cost(late)
  \/ late > 1 /\ timeouts[a] <= Cost(late - 1) + retries

PumpCounted(a) ==
  /\ ~AmongRetries(a) => timeouts[a] <= Cost(late)
  /\ AmongRetries(a) => late > 0 /\ Counting(a)

LimitIsLost(a) == health[a] = "DISCONNECTED" => timeouts[a] = MaxConsecutive

TimeoutsCounted == \A a \in Online : PumpCounted(a) /\ LimitIsLost(a)

BusInv == BusTypes /\ AwaitsAnswer /\ NothingStale /\ TimeoutsCounted

-----------------------------------------------------------------------------
(* Arithmetic of the bound. *)

\* Another late answer: one timeout more, or, once one was late, as many as a turn
\* has attempts.
LEMMA CostSteps ==
  ASSUME NEW l \in Nat
  PROVE  /\ Cost(l) \in Nat /\ Cost(l) + 1 <= Cost(l + 1)
         /\ l > 0 => Cost(l + 1) = Cost(l) + MaxRetries + 1
<1> DEFINE m == l - 1
           r == MaxRetries + 1
<1>1. MaxRetries \in Nat /\ r \in Nat /\ r > 0 /\ (l + 1) - 1 = l
  BY BusAssumption
<1>2. CASE l = 0
  BY <1>1, <1>2 DEF Cost
<1>3. CASE l > 0
  <2>1. m \in Nat /\ l = m + 1
    BY <1>3
  <2>2. m * r \in Nat /\ (m + 1) * r = m * r + r
    BY <1>1, <2>1
  <2> HIDE DEF m, r
  <2>3. Cost(l) = 1 + m * r
    BY <1>3 DEF Cost, m, r
  <2>4. Cost(l + 1) = 1 + (m + 1) * r
    BY <1>1, <2>1 DEF Cost, r
  <2> QED  BY <1>1, <2>2, <2>3, <2>4 DEF r
<1> QED  BY <1>2, <1>3

-----------------------------------------------------------------------------
(* What an action does to the bus. *)

LEMMA NextTurnType ==
  ASSUME turn \in Addresses  PROVE NextTurn \in Addresses
BY BusAssumption DEF NextTurn, Addresses

\* A POLL reaches the pump of the turn, if there is one.
LEMMA PollsAsk ==
  ASSUME BusTypes, Polls
  PROVE  /\ asked' \in Seq(Addresses)
         /\ turn \in Offline => asked' = asked
         /\ turn \in Online => asked' # <<>>
         /\ turn \in Online /\ asked = <<>> => asked' = <<turn>>
         /\ turn \in Online /\ OnlyFrom(turn, asked) => OnlyFrom(turn, asked')
<1>1. turn \in Addresses /\ asked \in Seq(Addresses) /\ (turn \in Online <=> turn \notin Offline)
  BY DEF BusTypes, Online
<1>2. CASE turn \in Offline
  BY <1>1, <1>2 DEF Polls
<1>3. CASE turn \notin Offline
  <2>1. asked' = Append(asked, turn)
    BY <1>3 DEF Polls
  <2>2. /\ asked' \in Seq(Addresses) /\ Len(asked') = Len(asked) + 1 /\ asked' # <<>>
        /\ \A i \in 1..Len(asked) : asked'[i] = asked[i]
        /\ asked'[Len(asked) + 1] = turn
    BY <1>1, <2>1, AppendProperties
  <2>3. asked = <<>> => asked' = <<turn>>
    BY <2>1
  <2>4. OnlyFrom(turn, asked) => OnlyFrom(turn, asked')
    <3>1. DOMAIN asked = 1..Len(asked) /\ DOMAIN asked' = 1..(Len(asked) + 1) /\ Len(asked) \in Nat
      BY <1>1, <2>2, LenProperties
    <3> QED  BY <2>2, <3>1 DEF OnlyFrom
  <2> QED  BY <1>1, <1>3, <2>2, <2>3, <2>4
<1> QED  BY <1>2, <1>3

\* The first unread answer and those of its chunk go.
LEMMA ReadsAnswers ==
  ASSUME BusTypes, Reads
  PROVE  /\ phase = "poll" /\ answers # <<>> /\ answers' \in Seq(Addresses)
         /\ \A a \in Addresses : answers = <<a>> => answers' = <<>> /\ Head(answers) = a
         /\ OnlyFrom(turn, answers) => Head(answers) = turn
<1>1. answers \in Seq(Addresses) /\ answers # <<>> /\ phase = "poll"
  BY DEF BusTypes, Reads
<1>2. PICK n \in 1..Len(answers) : answers' = SubSeq(answers, n + 1, Len(answers))
  BY DEF Reads
<1>3. Len(answers) \in Nat /\ n \in Nat /\ DOMAIN answers = 1..Len(answers)
  BY <1>1, <1>2, LenProperties
<1>4. Head(answers) = answers[1] /\ 1 \in DOMAIN answers
  BY <1>1, <1>3, HeadTailProperties, EmptySeq
<1>5. answers' \in Seq(Addresses)
  BY <1>1, <1>2, <1>3, SubSeqProperties
<1>6. ASSUME NEW a \in Addresses, answers = <<a>>  PROVE answers' = <<>> /\ Head(answers) = a
  <2>1. Len(answers) = 1 /\ n = 1
    BY <1>2, <1>6
  <2>2. Len(answers') = 0
    BY <1>1, <1>2, <1>3, <2>1, SubSeqProperties
  <2> QED  BY <1>5, <1>6, <2>2, EmptySeq
<1> QED  BY <1>1, <1>4, <1>5, <1>6 DEF OnlyFrom

\* A session counts a timeout, unless it stands at the limit already; at the
\* limit and only there it is DISCONNECTED.
LEMMA GivesUpCounts ==
  ASSUME BusTypes, GivesUpWaiting
  PROVE  /\ timeouts' \in [Addresses -> 0..MaxConsecutive]
         /\ health' \in [Addresses -> {"UNKNOWN", "HEALTHY", "DEGRADED", "DISCONNECTED"}]
         /\ \A a \in Addresses \ {turn} : timeouts'[a] = timeouts[a] /\ health'[a] = health[a]
         /\ timeouts'[turn] <= timeouts[turn] + 1
         /\ (health[turn] = "DISCONNECTED" => timeouts[turn] = MaxConsecutive)
               => (health'[turn] = "DISCONNECTED" => timeouts'[turn] = MaxConsecutive)
<1> DEFINE n == IF timeouts[turn] < MaxConsecutive THEN timeouts[turn] + 1 ELSE MaxConsecutive
           h == HealthAfterTimeouts(n, health[turn])
<1>1. /\ timeouts' = [timeouts EXCEPT ![turn] = n]
      /\ health' = [health EXCEPT ![turn] = h]
  BY DEF GivesUpWaiting, OneMore
<1>2. /\ turn \in Addresses /\ timeouts \in [Addresses -> 0..MaxConsecutive]
      /\ health \in [Addresses -> {"UNKNOWN", "HEALTHY", "DEGRADED", "DISCONNECTED"}]
      /\ MaxConsecutive \in Nat
  BY BusAssumption DEF BusTypes
<1>3. timeouts[turn] \in 0..MaxConsecutive
  BY <1>2
<1>4. n \in 0..MaxConsecutive /\ n <= timeouts[turn] + 1
      /\ (timeouts[turn] = MaxConsecutive => n = MaxConsecutive)
  BY <1>2, <1>3
<1> HIDE DEF n
<1>5. h \in {"UNKNOWN", "HEALTHY", "DEGRADED", "DISCONNECTED"}
      /\ (h = "DISCONNECTED" => n = MaxConsecutive \/ health[turn] = "DISCONNECTED")
  BY <1>2 DEF HealthAfterTimeouts
<1> HIDE DEF h
<1>6. /\ timeouts'[turn] = n /\ health'[turn] = h
      /\ \A a \in Addresses \ {turn} : timeouts'[a] = timeouts[a] /\ health'[a] = health[a]
      /\ timeouts' \in [Addresses -> 0..MaxConsecutive]
      /\ health' \in [Addresses -> {"UNKNOWN", "HEALTHY", "DEGRADED", "DISCONNECTED"}]
  BY <1>1, <1>2, <1>4, <1>5
<1> QED  BY <1>4, <1>5, <1>6

\* After it the turn polls again, or it is over and nothing is asked.
LEMMA GivesUpGoesOn ==
  ASSUME BusTypes, GivesUpWaiting
  PROVE  \/ /\ retries < MaxRetries /\ retries' = retries + 1 /\ retries' \in 0..MaxRetries
            /\ Polls /\ turn' = turn /\ phase' = phase
         \/ /\ retries = MaxRetries /\ retries' = retries /\ turn' \in Addresses
            /\ phase' = "idle" /\ asked' = asked
<1>1. turn \in Addresses /\ retries \in 0..MaxRetries /\ MaxRetries \in Nat
  BY BusAssumption DEF BusTypes
<1> QED  BY <1>1, NextTurnType DEF GivesUpWaiting, EndTurn

-----------------------------------------------------------------------------
(* The parts of the invariant, each kept by every action. *)

LEMMA TypesKept ==
  ASSUME BusTypes, Next  PROVE BusTypes'
<1>1. /\ turn \in Addresses /\ retries \in 0..MaxRetries /\ phase \in {"idle", "poll"}
      /\ asked \in Seq(Addresses) /\ answers \in Seq(Addresses)
      /\ timeouts \in [Addresses -> 0..MaxConsecutive]
      /\ health \in [Addresses -> {"UNKNOWN", "HEALTHY", "DEGRADED", "DISCONNECTED"}]
      /\ late \in Nat /\ MaxRetries \in Nat /\ MaxConsecutive \in Nat
  BY BusAssumption DEF BusTypes
<1>2. CASE StartTurn
  <2>1. asked' \in Seq(Addresses)
    BY <1>2, PollsAsk DEF StartTurn
  <2> QED  BY <1>1, <1>2, <2>1 DEF StartTurn, BusTypes
<1>3. CASE PumpAnswers
  <2>1. Head(asked) \in Addresses /\ Tail(asked) \in Seq(Addresses)
    BY <1>1, <1>3, HeadTailProperties DEF PumpAnswers
  <2>2. answers' \in Seq(Addresses)
    BY <1>1, <1>3, <2>1, AppendProperties DEF PumpAnswers
  <2> QED  BY <1>1, <1>3, <2>1, <2>2 DEF PumpAnswers, BusTypes
<1>4. CASE TakeAnswer \/ RefuseAnswer
  <2>1. answers' \in Seq(Addresses)
    BY <1>4, ReadsAnswers DEF TakeAnswer, RefuseAnswer, HearsTurn
  <2>2. /\ turn' \in Addresses /\ phase' = "idle"
        /\ retries' = retries /\ asked' = asked /\ late' = late
    BY <1>1, <1>4, NextTurnType DEF TakeAnswer, RefuseAnswer, HearsTurn, EndTurn
  <2>3. /\ timeouts' \in [Addresses -> 0..MaxConsecutive]
        /\ health' \in [Addresses -> {"UNKNOWN", "HEALTHY", "DEGRADED", "DISCONNECTED"}]
    <3>1. 0 \in 0..MaxConsecutive
      BY <1>1
    <3>2. CASE TakeAnswer
      BY <1>1, <3>1, <3>2 DEF TakeAnswer
    <3>3. CASE RefuseAnswer
      BY <1>1, <3>3 DEF RefuseAnswer
    <3> QED  BY <1>4, <3>2, <3>3
  <2> QED  BY <1>1, <2>1, <2>2, <2>3 DEF BusTypes
<1>5. CASE ReadOtherAnswer
  <2>1. answers' \in Seq(Addresses) /\ late' = late
    BY <1>5, ReadsAnswers DEF ReadOtherAnswer
  <2>2. CASE EndTurn /\ UNCHANGED <<retries, asked, timeouts, health>>
    BY <1>1, <2>1, <2>2, NextTurnType DEF EndTurn, BusTypes
  <2>3. CASE GivesUpWaiting
    <3>1. asked' \in Seq(Addresses) /\ retries' \in 0..MaxRetries /\ turn' \in Addresses
          /\ phase' \in {"idle", "poll"}
      BY <1>1, <2>3, GivesUpGoesOn, PollsAsk
    <3> QED  BY <1>1, <2>1, <2>3, <3>1, GivesUpCounts DEF BusTypes
  <2> QED  BY <1>5, <2>2, <2>3 DEF ReadOtherAnswer
<1>6. CASE TimeOut
  <2>1. asked' \in Seq(Addresses) /\ retries' \in 0..MaxRetries /\ turn' \in Addresses
        /\ phase' \in {"idle", "poll"}
    BY <1>1, <1>6, GivesUpGoesOn, PollsAsk DEF TimeOut
  <2>2. answers' = answers /\ late' \in Nat /\ GivesUpWaiting
    BY <1>1, <1>6 DEF TimeOut
  <2> QED  BY <1>1, <2>1, <2>2, GivesUpCounts DEF BusTypes
<1> QED  BY <1>2, <1>3, <1>4, <1>5, <1>6 DEF Next

LEMMA AwaitsKept ==
  ASSUME BusTypes, AwaitsAnswer, Next  PROVE AwaitsAnswer'
<1>1. answers \in Seq(Addresses) /\ asked \in Seq(Addresses)
  BY DEF BusTypes
<1>2. CASE StartTurn
  BY <1>2, PollsAsk DEF StartTurn, AwaitsAnswer, Online
<1>3. CASE PumpAnswers
  <2>1. Head(asked) \in Addresses
    BY <1>1, <1>3, HeadTailProperties DEF PumpAnswers
  <2>2. answers' # <<>>
    BY <1>1, <1>3, <2>1, AppendProperties DEF PumpAnswers
  <2> QED  BY <2>2 DEF AwaitsAnswer
<1>4. CASE TakeAnswer \/ RefuseAnswer
  BY <1>4 DEF TakeAnswer, RefuseAnswer, HearsTurn, EndTurn, AwaitsAnswer
<1>5. ASSUME GivesUpWaiting  PROVE AwaitsAnswer'
  <2>1. CASE phase' = "idle"
    BY <2>1 DEF AwaitsAnswer
  <2>2. CASE Polls /\ turn' = turn
    BY <2>2, PollsAsk DEF AwaitsAnswer, Online
  <2> QED  BY <1>5, <2>1, <2>2, GivesUpGoesOn
<1>6. CASE ReadOtherAnswer
  <2>1. CASE EndTurn
    BY <2>1 DEF EndTurn, AwaitsAnswer
  <2> QED  BY <1>5, <1>6, <2>1 DEF ReadOtherAnswer
<1>7. CASE TimeOut
  BY <1>5, <1>7 DEF TimeOut
<1> QED  BY <1>2, <1>3, <1>4, <1>6, <1>7 DEF Next

LEMMA NothingStaleKept ==
  ASSUME BusTypes, AwaitsAnswer, NothingStale, Next  PROVE NothingStale'
<1> SUFFICES ASSUME late' = 0
             PROVE  \/ asked' = <<>> /\ answers' = <<>>
                    \/ /\ phase' = "poll" /\ turn' \in Online /\ retries' = 0
                       /\ \/ asked' = <<turn'>> /\ answers' = <<>>
                          \/ asked' = <<>> /\ answers' = <<turn'>>
  BY DEF NothingStale, Online
<1>1. answers \in Seq(Addresses) /\ asked \in Seq(Addresses) /\ turn \in Addresses /\ late \in Nat
  BY DEF BusTypes
<1>2. late = 0
  BY <1>1 DEF Next, StartTurn, PumpAnswers, TakeAnswer, RefuseAnswer, HearsTurn,
              ReadOtherAnswer, TimeOut
<1>3. CASE StartTurn
  <2>1. asked = <<>> /\ answers' = <<>> /\ turn' = turn /\ phase' = "poll" /\ retries' = 0
    BY <1>2, <1>3 DEF StartTurn, NothingStale
  <2>2. turn \in Online \/ turn \in Offline
    BY <1>1 DEF Online
  <2> QED  BY <1>3, <2>1, <2>2, PollsAsk DEF StartTurn
<1>4. CASE PumpAnswers
  <2>1. asked = <<turn>> /\ answers = <<>> /\ phase = "poll" /\ turn \in Online /\ retries = 0
    BY <1>2, <1>4 DEF PumpAnswers, NothingStale
  <2>2. asked' = <<>> /\ answers' = <<turn>>
    BY <1>4, <2>1 DEF PumpAnswers
  <2> QED  BY <1>4, <2>1, <2>2 DEF PumpAnswers
<1>5. ASSUME Reads  PROVE asked = <<>> /\ answers' = <<>> /\ Head(answers) = turn
  <2>1. asked = <<>> /\ answers = <<turn>>
    BY <1>2, <1>5, ReadsAnswers DEF NothingStale
  <2> QED  BY <1>1, <1>5, <2>1, ReadsAnswers
<1>6. CASE TakeAnswer \/ RefuseAnswer
  BY <1>5, <1>6 DEF TakeAnswer, RefuseAnswer, HearsTurn
<1>7. CASE ReadOtherAnswer
  BY <1>5, <1>7 DEF ReadOtherAnswer
<1>8. CASE TimeOut
  <2>1. asked = <<>> /\ answers = <<>> /\ phase = "poll"
    BY <1>1, <1>2, <1>8 DEF TimeOut
  <2>2. turn \in Offline
    BY <1>1, <2>1 DEF AwaitsAnswer, Online
  <2> QED  BY <1>8, <2>1, <2>2, GivesUpGoesOn, PollsAsk DEF TimeOut
<1> QED  BY <1>3, <1>4, <1>6, <1>7, <1>8 DEF Next

\* A pump whose turn it is not: only more answers can be late.
LEMMA OthersCounted ==
  ASSUME BusTypes, NEW a \in Online, a # turn, PumpCounted(a), LimitIsLost(a),
         late' \in {late, late + 1},
         timeouts'[a] = timeouts[a], health'[a] = health[a], ~AmongRetries(a)'
  PROVE  PumpCounted(a)' /\ LimitIsLost(a)'
<1>1. late \in Nat /\ timeouts[a] \in Nat
  BY BusAssumption DEF BusTypes, Online
<1>2. timeouts[a] <= Cost(late)
  BY DEF PumpCounted, AmongRetries
<1>3. Cost(late) \in Nat /\ Cost(late + 1) \in Nat /\ Cost(late) <= Cost(late + 1)
  BY <1>1, CostSteps
<1>4. timeouts'[a] <= Cost(late')
  BY <1>1, <1>2, <1>3
<1> QED  BY <1>4 DEF PumpCounted, LimitIsLost, AmongRetries, Cost

LEMMA StartTurnCounts ==
  ASSUME BusInv, BusTypes', StartTurn  PROVE TimeoutsCounted'
<1> SUFFICES ASSUME NEW a \in Online  PROVE PumpCounted(a)' /\ LimitIsLost(a)'
  BY DEF TimeoutsCounted, Online, Addresses
<1>1. PumpCounted(a) /\ LimitIsLost(a)
  BY DEF BusInv, TimeoutsCounted
<1>2. /\ timeouts' = timeouts /\ health' = health /\ late' = late /\ phase = "idle"
      /\ retries' = 0
  BY DEF StartTurn
<1>3. ~AmongRetries(a) /\ ~AmongRetries(a)'
  BY <1>2 DEF AmongRetries
<1> QED  BY <1>1, <1>2, <1>3 DEF PumpCounted, LimitIsLost, Cost

LEMMA PumpAnswersCounts ==
  ASSUME BusInv, BusTypes', PumpAnswers  PROVE TimeoutsCounted'
<1> SUFFICES ASSUME NEW a \in Online  PROVE PumpCounted(a)' /\ LimitIsLost(a)'
  BY DEF TimeoutsCounted, Online, Addresses
<1>1. PumpCounted(a) /\ LimitIsLost(a)
  BY DEF BusInv, TimeoutsCounted
<1>2. /\ UNCHANGED <<turn, phase, retries, timeouts, health, late>> /\ asked # <<>>
      /\ answers' = Append(answers, Head(asked)) /\ asked' = Tail(asked)
  BY DEF PumpAnswers
<1>3. AmongRetries(a)' <=> AmongRetries(a)
  BY <1>2 DEF AmongRetries
<1>4. OnlyFrom(a, asked) /\ OnlyFrom(a, answers) => OnlyFrom(a, asked') /\ OnlyFrom(a, answers')
  <2> SUFFICES ASSUME OnlyFrom(a, asked), OnlyFrom(a, answers)
               PROVE  OnlyFrom(a, asked') /\ OnlyFrom(a, answers')
    OBVIOUS
  <2>1. asked \in Seq(Addresses) /\ answers \in Seq(Addresses)
    BY DEF BusInv, BusTypes
  <2>2. Len(asked) \in Nat /\ Len(asked) # 0 /\ DOMAIN asked = 1..Len(asked)
    BY <1>2, <2>1, LenProperties, EmptySeq
  <2>3. /\ Head(asked) = asked[1] /\ Tail(asked) \in Seq(Addresses)
        /\ Len(Tail(asked)) = Len(asked) - 1
        /\ \A i \in 1..Len(Tail(asked)) : Tail(asked)[i] = asked[i + 1]
    BY <1>2, <2>1, HeadTailProperties
  <2>4. asked[1] = a
    BY <2>2 DEF OnlyFrom
  <2>5. OnlyFrom(a, asked')
    <3>1. DOMAIN asked' = 1..Len(Tail(asked))
      BY <1>2, <2>3, LenProperties
    <3>2. \A i \in 1..Len(Tail(asked)) : i + 1 \in DOMAIN asked
      BY <2>2, <2>3
    <3> QED  BY <1>2, <2>3, <3>1, <3>2 DEF OnlyFrom
  <2>6. OnlyFrom(a, answers')
    <3>1. /\ DOMAIN answers = 1..Len(answers) /\ Len(answers) \in Nat
          /\ answers' \in Seq(Addresses) /\ Len(answers') = Len(answers) + 1
          /\ \A i \in 1..Len(answers) : answers'[i] = answers[i]
          /\ answers'[Len(answers) + 1] = a
      BY <1>2, <2>1, <2>3, <2>4, AppendProperties, LenProperties DEF Online
    <3>2. DOMAIN answers' = 1..(Len(answers) + 1)
      BY <3>1, LenProperties
    <3> QED  BY <3>1, <3>2 DEF OnlyFrom
  <2> QED  BY <2>5, <2>6
<1>5. Counting(a) => Counting(a)'
  BY <1>2, <1>4 DEF Counting, Cost
<1> QED  BY <1>1, <1>2, <1>3, <1>5 DEF PumpCounted, LimitIsLost, Cost

\* However far a turn has come, it has cost its pump no more than LateCost.
LEMMA NoMoreThanCost ==
  ASSUME BusTypes, NEW a \in Online, PumpCounted(a)
  PROVE  timeouts[a] <= Cost(late)
<1>1. /\ late \in Nat /\ timeouts[a] \in Nat /\ MaxRetries \in Nat /\ retries \in 0..MaxRetries
  BY BusAssumption DEF BusTypes, Online
<1>2. CASE late > 1 /\ timeouts[a] <= Cost(late - 1) + retries
  <2>1. late - 1 \in Nat /\ (late - 1) + 1 = late /\ late - 1 > 0
    BY <1>1, <1>2
  <2>2. Cost(late - 1) \in Nat /\ Cost(late) = Cost(late - 1) + MaxRetries + 1
    BY <2>1, CostSteps
  <2> QED  BY <1>1, <1>2, <2>1, <2>2
<1> QED  BY <1>1, <1>2 DEF PumpCounted, Counting

\* Neither an answer that is taken nor one that is refused costs a pump anything.
LEMMA HearsTurnCounts ==
  ASSUME BusInv, BusTypes', TakeAnswer \/ RefuseAnswer  PROVE TimeoutsCounted'
<1> SUFFICES ASSUME NEW a \in Online  PROVE PumpCounted(a)' /\ LimitIsLost(a)'
  BY DEF TimeoutsCounted, Online, Addresses
<1>1. PumpCounted(a) /\ LimitIsLost(a) /\ BusTypes
  BY DEF BusInv, TimeoutsCounted
<1>2. /\ timeouts \in [Addresses -> 0..MaxConsecutive] /\ turn \in Addresses /\ late \in Nat
      /\ health \in [Addresses -> {"UNKNOWN", "HEALTHY", "DEGRADED", "DISCONNECTED"}]
      /\ a \in Addresses /\ MaxConsecutive \in Nat
  BY <1>1, BusAssumption DEF BusTypes, Online
<1>3. late' = late /\ phase' = "idle"
  BY DEF TakeAnswer, RefuseAnswer, HearsTurn, EndTurn
<1>4. ~AmongRetries(a)'
  BY <1>3 DEF AmongRetries
<1>5. \/ timeouts'[a] = timeouts[a] /\ health'[a] = health[a]
      \/ timeouts'[a] = 0 /\ health'[a] = "HEALTHY"
  BY <1>2 DEF TakeAnswer, RefuseAnswer
<1>6. timeouts[a] <= Cost(late) /\ Cost(late) \in Nat
  BY <1>1, <1>2, NoMoreThanCost, CostSteps
<1>7. timeouts'[a] <= Cost(late')
  BY <1>2, <1>3, <1>5, <1>6
<1> QED  BY <1>1, <1>4, <1>5, <1>7 DEF PumpCounted, LimitIsLost, AmongRetries, Cost

LEMMA ReadOtherAnswerCounts ==
  ASSUME BusInv, BusTypes', ReadOtherAnswer  PROVE TimeoutsCounted'
<1> SUFFICES ASSUME NEW a \in Online  PROVE PumpCounted(a)' /\ LimitIsLost(a)'
  BY DEF TimeoutsCounted, Online, Addresses
<1>1. /\ PumpCounted(a) /\ LimitIsLost(a) /\ BusTypes
      /\ late' = late /\ late \in Nat /\ a \in Addresses /\ phase = "poll"
      /\ timeouts[a] \in Nat /\ timeouts'[a] \in Nat
      /\ MaxRetries \in Nat /\ retries \in 0..MaxRetries /\ turn \in Addresses
  <2>1. PumpCounted(a) /\ LimitIsLost(a) /\ BusTypes
    BY DEF BusInv, TimeoutsCounted
  <2>2. late' = late /\ phase = "poll"
    BY DEF ReadOtherAnswer, Reads
  <2> QED  BY <2>1, <2>2, BusAssumption DEF BusTypes, Online
<1>2. CASE EndTurn /\ UNCHANGED <<retries, asked, timeouts, health>> /\ retries = 0
  <2>1. ~AmongRetries(a) /\ ~AmongRetries(a)' /\ timeouts' = timeouts /\ health' = health
    BY <1>2 DEF EndTurn, AmongRetries
  <2> QED  BY <1>1, <2>1 DEF PumpCounted, LimitIsLost, Cost
<1>3. CASE GivesUpWaiting /\ retries > 0 /\ a # turn
  <2>1. timeouts'[a] = timeouts[a] /\ health'[a] = health[a]
    BY <1>1, <1>3, GivesUpCounts
  <2>2. ~AmongRetries(a)'
    BY <1>1, <1>3, GivesUpGoesOn DEF AmongRetries
  <2> QED  BY <1>1, <1>3, <2>1, <2>2, OthersCounted
<1>4. CASE GivesUpWaiting /\ retries > 0 /\ a = turn
  <2>1. late > 0 /\ Counting(a)
    BY <1>1, <1>4 DEF PumpCounted, AmongRetries
  <2>2. ~OnlyFrom(a, answers)
    BY <1>1, <1>4, ReadsAnswers DEF ReadOtherAnswer
  <2>3. late > 1 /\ timeouts[a] <= Cost(late - 1) + retries
    BY <2>1, <2>2 DEF Counting
  <2>4. timeouts'[a] <= timeouts[a] + 1 /\ LimitIsLost(a)'
    BY <1>1, <1>4, GivesUpCounts DEF LimitIsLost
  <2>5. Cost(late - 1) \in Nat /\ Cost(late) = Cost(late - 1) + MaxRetries + 1
    <3>1. late - 1 \in Nat /\ late - 1 > 0 /\ (late - 1) + 1 = late
      BY <1>1, <2>3
    <3> QED  BY <3>1, CostSteps
  <2>6. CASE retries' = retries + 1 /\ turn' = turn /\ phase' = phase
    <3>1. AmongRetries(a)'
      BY <1>1, <1>4, <2>6 DEF AmongRetries
    <3>2. timeouts'[a] <= Cost(late - 1) + retries'
      BY <1>1, <2>3, <2>4, <2>5, <2>6
    <3>3. Counting(a)'
      BY <1>1, <2>3, <3>2 DEF Counting, Cost
    <3> QED  BY <1>1, <2>1, <2>4, <3>1, <3>3 DEF PumpCounted
  <2>7. CASE retries = MaxRetries /\ phase' = "idle"
    <3>1. ~AmongRetries(a)'
      BY <2>7 DEF AmongRetries
    <3>2. timeouts'[a] <= Cost(late)
      BY <1>1, <2>3, <2>4, <2>5, <2>7
    <3>3. Cost(late)' = Cost(late)
      BY <1>1 DEF Cost
    <3> QED  BY <1>1, <2>1, <2>4, <3>1, <3>2, <3>3 DEF PumpCounted
  <2> QED  BY <1>1, <1>4, <2>6, <2>7, GivesUpGoesOn
<1> QED  BY <1>1, <1>2, <1>3, <1>4 DEF ReadOtherAnswer

LEMMA TimeOutCounts ==
  ASSUME BusInv, BusTypes', TimeOut  PROVE TimeoutsCounted'
<1> SUFFICES ASSUME NEW a \in Online  PROVE PumpCounted(a)' /\ LimitIsLost(a)'
  BY DEF TimeoutsCounted, Online, Addresses
<1>1. /\ PumpCounted(a) /\ LimitIsLost(a) /\ BusTypes /\ AwaitsAnswer /\ NothingStale
      /\ late \in Nat /\ a \in Addresses /\ phase = "poll" /\ answers = <<>> /\ answers' = <<>>
      /\ timeouts[a] \in Nat /\ timeouts'[a] \in Nat /\ GivesUpWaiting
      /\ MaxRetries \in Nat /\ retries \in 0..MaxRetries /\ turn \in Addresses
      /\ \/ asked = <<>> /\ late' = late
         \/ asked # <<>> /\ late' = late + 1
  BY BusAssumption DEF BusInv, TimeoutsCounted, TimeOut, BusTypes, Online
<1>2. CASE a # turn
  <2>1. timeouts'[a] = timeouts[a] /\ health'[a] = health[a]
    BY <1>1, <1>2, GivesUpCounts
  <2>2. ~AmongRetries(a)'
    BY <1>1, <1>2, GivesUpGoesOn DEF AmongRetries
  <2> QED  BY <1>1, <1>2, <2>1, <2>2, OthersCounted
<1>3. CASE a = turn
  <2>1. asked # <<>> /\ late' = late + 1
    BY <1>1, <1>3 DEF AwaitsAnswer
  <2>2. timeouts'[a] <= timeouts[a] + 1 /\ LimitIsLost(a)'
    BY <1>1, <1>3, GivesUpCounts DEF LimitIsLost
  <2>3. timeouts[a] <= Cost(late) /\ Cost(late) \in Nat /\ Cost(late') \in Nat
        /\ Cost(late) + 1 <= Cost(late') /\ Cost(late' - 1) = Cost(late)
    <3>1. late + 1 \in Nat /\ (late + 1) - 1 = late
      BY <1>1
    <3>2. Cost(late' - 1) = Cost(late)
      BY <2>1, <3>1
    <3> QED  BY <1>1, <2>1, <3>1, <3>2, NoMoreThanCost, CostSteps
  <2>4. timeouts'[a] <= Cost(late')
    BY <1>1, <2>2, <2>3
  <2>5. CASE retries = MaxRetries /\ phase' = "idle"
    <3>1. ~AmongRetries(a)'
      BY <2>5 DEF AmongRetries
    <3> QED  BY <2>2, <2>4, <3>1 DEF PumpCounted, Cost
  <2>6. CASE retries' = retries + 1 /\ Polls /\ turn' = turn /\ phase' = phase
    <3>1. AmongRetries(a)' /\ late' > 0 /\ turn \in Online
      BY <1>1, <1>3, <2>1, <2>6 DEF AmongRetries
    <3>2. Counting(a)'
      <4>1. CASE OnlyFrom(a, asked) /\ OnlyFrom(a, answers)
        <5>1. OnlyFrom(a, asked') /\ OnlyFrom(a, answers')
          BY <1>1, <1>3, <2>6, <3>1, <4>1, PollsAsk
        <5> QED  BY <2>4, <5>1 DEF Counting, Cost
      <4>2. CASE late = 0
        <5>1. asked = <<a>> /\ answers = <<>>
          BY <1>1, <1>3, <2>1, <4>2 DEF NothingStale
        <5>2. OnlyFrom(a, asked) /\ OnlyFrom(a, answers)
          BY <5>1 DEF OnlyFrom
        <5> QED  BY <4>1, <5>2
      <4>3. CASE late > 0
        <5>1. timeouts'[a] <= Cost(late' - 1) + retries'
          BY <1>1, <2>2, <2>3, <2>6
        <5>2. late' > 1
          BY <1>1, <2>1, <4>3
        <5> QED  BY <5>1, <5>2 DEF Counting, Cost
      <4> QED  BY <1>1, <4>2, <4>3
    <3> QED  BY <2>2, <3>1, <3>2 DEF PumpCounted
  <2> QED  BY <1>1, <2>5, <2>6, GivesUpGoesOn
<1> QED  BY <1>2, <1>3

-----------------------------------------------------------------------------

LEMMA BusInvariant == Spec => []BusInv
<1>1. Init => BusInv
  <2> SUFFICES ASSUME Init  PROVE BusInv
    OBVIOUS
  <2>1. /\ turn = 1 /\ phase = "idle" /\ retries = 0 /\ asked = <<>> /\ answers = <<>> /\ late = 0
        /\ timeouts = [a \in Addresses |-> 0] /\ health = [a \in Addresses |-> "UNKNOWN"]
    BY DEF Init
  <2>2. BusTypes
    BY <2>1, BusAssumption DEF BusTypes, Addresses
  <2>3. TimeoutsCounted
    BY <2>1 DEF TimeoutsCounted, PumpCounted, LimitIsLost, AmongRetries, Online, Cost
  <2> QED  BY <2>1, <2>2, <2>3 DEF BusInv, AwaitsAnswer, NothingStale
<1>2. BusInv /\ [Next]_vars => BusInv'
  <2> SUFFICES ASSUME BusInv, [Next]_vars  PROVE BusInv'
    OBVIOUS
  <2>1. CASE Next
    <3>1. BusTypes' /\ AwaitsAnswer' /\ NothingStale'
      BY <2>1, TypesKept, AwaitsKept, NothingStaleKept DEF BusInv
    <3>2. TimeoutsCounted'
      BY <2>1, <3>1, StartTurnCounts, PumpAnswersCounts, HearsTurnCounts,
         ReadOtherAnswerCounts, TimeOutCounts DEF Next
    <3> QED  BY <3>1, <3>2 DEF BusInv
  <2>2. CASE UNCHANGED vars
    <3>1. BusTypes' /\ AwaitsAnswer' /\ NothingStale'
      BY <2>2 DEF vars, BusInv, BusTypes, AwaitsAnswer, NothingStale, Online
    <3>2. TimeoutsCounted'
      BY <2>2 DEF vars, BusInv, TimeoutsCounted, PumpCounted, LimitIsLost, AmongRetries,
                  Counting, OnlyFrom, Cost
    <3> QED  BY <3>1, <3>2 DEF BusInv
  <2> QED  BY <2>1, <2>2
<1> QED  BY <1>1, <1>2, PTL DEF Spec

\* While the late answers of the bus cost less than max_consecutive_timeouts, no
\* pump that answers is declared DISCONNECTED by on_timeout, however the poll loop
\* (_poll_one, _handle_timeout_with_retries) takes the answers of one turn for
\* another's, and even if the session refuses every answer of the pump, so that
\* nothing ever resets its timeouts: for any number of addresses, any of them
\* silent, and any limits.
THEOREM AnsweringPumpsSurvive == Spec => []AnsweringPumpsStayConnected
<1>1. BusInv => AnsweringPumpsStayConnected
  <2> SUFFICES ASSUME BusInv, FewLate, NEW a \in Online, health[a] = "DISCONNECTED"
               PROVE  FALSE
    BY DEF AnsweringPumpsStayConnected, Online
  <2>1. /\ timeouts[a] = MaxConsecutive /\ PumpCounted(a) /\ BusTypes
        /\ late \in Nat /\ MaxConsecutive \in Nat
    BY BusAssumption DEF BusInv, TimeoutsCounted, LimitIsLost, BusTypes
  <2>2. timeouts[a] <= Cost(late)
    BY <2>1, NoMoreThanCost
  <2>3. Cost(late) = LateCost /\ Cost(late) \in Nat
    BY <2>1, CostSteps DEF Cost, LateCost
  <2> QED  BY <2>1, <2>2, <2>3 DEF FewLate
<1> QED  BY <1>1, BusInvariant, PTL

=============================================================================

--------------------------- MODULE DispenserSales ---------------------------
(***************************************************************************)
(* A real dispenser selling fuel, and the controller session that follows  *)
(* the sales.  The dispenser is not part of the repository: it is taken to *)
(* report what the transition table is written for, each change of status  *)
(* or nozzle once and in its order, and both when asked.  DartLink shows   *)
(* that its DATA frames are then applied once and in order.  It may put    *)
(* several reports into a frame, as the captured dispensers do.            *)
(***************************************************************************)
EXTENDS ControllerSession

CONSTANTS
  MaxSeq,          \* the largest TX#: 0x0F
  MaxBlock,        \* the most transactions the dispenser puts into a DATA frame
  MaxSales,        \* bound: sales started
  MaxVolume,       \* bound: the volume of a sale
  MaxPending,      \* bound: reports not yet delivered
  MaxDetours,      \* bound: status requests, pauses and hang-ups
  MaxBlips,        \* bound: communication degraded and back
  MaxOutages       \* bound: communication lost and back

VARIABLES
  dispenser,       \* phase, sales started, sales finished, volume of the sale
  pending,         \* reports not yet delivered
  seq,             \* the TX# of the next DATA frame
  session,         \* the controller's session
  recurred,        \* history: a completion frame repeated an earlier one
  swallowed,       \* history: a report was dropped as a duplicate and was none
  detours, blips, outages

dispenserVars == <<dispenser, pending, seq, session, recurred, swallowed, detours, blips, outages>>

\* What the dispenser reports, and the DATA frames it sends it in.
Report == [type : {"DC1", "DC2", "DC3"}, value : Nat, out : BOOLEAN]
Frame == (0..MaxSeq) \X Seq(Report)

ASSUME DispenserAssumption ==
  /\ MaxSeq \in Nat /\ MaxSeq >= 2
  /\ MaxBlock \in Nat \ {0} /\ MaxPending \in Nat /\ MaxPending >= 2
  /\ {MaxSales, MaxVolume, MaxDetours, MaxBlips, MaxOutages} \subseteq Nat
  /\ None \notin Nat /\ None \notin Frame /\ None \notin {"complete"} \X Frame

Holstered == DC3(1, FALSE)
Lifted == DC3(1, TRUE)

\* <<phase, next phase, what the dispenser reports>>
Script ==
  {<<"ready",      "lifted",     <<Lifted>>>>,
   <<"lifted",     "ready",      <<Holstered>>>>,
   <<"lifted",     "authorized", <<DC1(Authorized)>>>>,
   <<"authorized", "filling",    <<DC1(Filling)>>>>,
   <<"filling",    "paused",     <<DC1(Suspended)>>>>,
   <<"paused",     "filling",    <<DC1(Filling)>>>>,
   <<"filling",    "limit",      <<DC1(MaxReached)>>>>,
   <<"filling",    "complete",   <<DC1(FillingCompleted)>>>>,
   <<"paused",     "complete",   <<DC1(FillingCompleted)>>>>,
   <<"limit",      "complete",   <<DC1(FillingCompleted)>>>>,
   <<"complete",   "ready",      <<DC1(ResetStatus), Holstered>>>>}

\* The reports that answer a status request.
Current(phase) ==
  CASE phase = "ready"      -> <<DC1(ResetStatus), Holstered>>
    [] phase = "lifted"     -> <<DC1(ResetStatus), Lifted>>
    [] phase = "authorized" -> <<DC1(Authorized), Lifted>>
    [] phase = "filling"    -> <<DC1(Filling), Lifted>>
    [] phase = "paused"     -> <<DC1(Suspended), Lifted>>
    [] phase = "limit"      -> <<DC1(MaxReached), Lifted>>
    [] phase = "complete"   -> <<DC1(FillingCompleted), Lifted>>

DispenserInit ==
  /\ dispenser = [phase |-> "ready", started |-> 0, finished |-> 0, volume |-> 0]
  /\ pending = Current("ready") /\ seq = 0
  /\ session = NewSession
  /\ recurred = FALSE /\ swallowed = FALSE
  /\ detours = 0 /\ blips = 0 /\ outages = 0

-----------------------------------------------------------------------------
(* The dispenser. *)

Reports(reports) ==
  /\ pending' = pending \o reports
  /\ Len(pending') <= MaxPending
  /\ UNCHANGED <<seq, session, recurred, swallowed, blips, outages>>

Starts(step) == step[1] = "authorized"
Finishes(step) == step[1] \in {"filling", "paused"} /\ step[2] \in {"limit", "complete"}

IsDetour(step) == step[2] = "paused" \/ <<step[1], step[2]>> = <<"lifted", "ready">>
TakesDetour == detours < MaxDetours /\ detours' = detours + 1

DispenserMoves ==
  \E step \in Script :
    /\ dispenser.phase = step[1]
    /\ dispenser' = [dispenser EXCEPT
                       !.phase = step[2],
                       !.started = IF Starts(step) THEN @ + 1 ELSE @,
                       !.volume = IF Starts(step) THEN 0 ELSE @,
                       !.finished = IF Finishes(step) THEN @ + 1 ELSE @]
    /\ dispenser'.started <= MaxSales
    /\ Reports(step[3])
    /\ IF IsDetour(step) THEN TakesDetour ELSE UNCHANGED detours

FuelFlows ==
  /\ dispenser.phase = "filling" /\ dispenser.volume < MaxVolume
  /\ dispenser' = [dispenser EXCEPT !.volume = @ + 1]
  /\ Reports(<<DC2(dispenser.volume + 1)>>)
  /\ UNCHANGED detours

ReportStatus ==
  /\ TakesDetour
  /\ Reports(Current(dispenser.phase))
  /\ UNCHANGED dispenser

-----------------------------------------------------------------------------
(* The controller. *)

\* config.next_sequence, SPEC_F_TO_1
NextTx(s) == IF s = MaxSeq THEN 1 ELSE s + 1

\* The events of the session are those of its last step.
Silenced(s) == [s EXCEPT !.events = <<>>]

ControllerStep == UNCHANGED <<dispenser, detours>>

Recurs(frame) ==
  /\ \E i \in DOMAIN frame[2] : frame[2][i] = DC1(FillingCompleted)
  /\ CompletionKey(frame) \in session.keys

\* What the report would make of the pump's state, had no frame been taken before.
ChangesState(r, c) ==
  Apply(c, [Mapped(r, None, c) EXCEPT !.key = None]).current_state # c.current_state

\* A report of a frame of several is taken for one the machine had already, the frame
\* being the one it keeps from the report before, and would have changed the state.
Swallows(s, frame) ==
  /\ Len(frame[2]) >= 2
  /\ \E k \in DOMAIN frame[2] :
       LET c == AfterEach(s, frame)[k - 1].ctx
           r == frame[2][k]
       IN IsDuplicateFrame(c, Mapped(r, frame, c)) /\ ChangesState(r, c)

\* A POLL answered with DATA.
DeliverFrame ==
  /\ \E n \in 1..MaxBlock :
       /\ n <= Len(pending)
       /\ LET frame == <<seq, SubSeq(pending, 1, n)>> IN
          /\ session' = TakeFrame(Silenced(session), frame)
          /\ recurred' = (recurred \/ Recurs(frame))
          /\ swallowed' = (swallowed \/ Swallows(Silenced(session), frame))
       /\ pending' = SubSeq(pending, n + 1, Len(pending))
  /\ seq' = NextTx(seq)
  /\ ControllerStep
  /\ UNCHANGED <<blips, outages>>

\* A POLL answered with EOT.
DeliverNothing ==
  /\ pending = <<>>
  /\ session' = Answered(Silenced(session))
  /\ ControllerStep
  /\ UNCHANGED <<pending, seq, recurred, swallowed, blips, outages>>

\* Two POLLs in a row are not answered.
Blip ==
  /\ blips < MaxBlips /\ blips' = blips + 1
  /\ session.health = "HEALTHY"
  /\ session' = Degraded(Silenced(session))
  /\ ControllerStep
  /\ UNCHANGED <<pending, seq, recurred, swallowed, outages>>

\* max_consecutive_timeouts POLLs in a row are not answered.
Outage ==
  /\ outages < MaxOutages /\ outages' = outages + 1
  /\ session.health # "DISCONNECTED"
  /\ session' = GivenUp(Degraded(Silenced(session)))
  /\ ControllerStep
  /\ UNCHANGED <<pending, seq, recurred, swallowed, blips>>

-----------------------------------------------------------------------------

DispenserSteps == DispenserMoves \/ FuelFlows \/ ReportStatus
ControllerSteps == DeliverFrame \/ DeliverNothing \/ Blip \/ Outage

DispenserNext == DispenserSteps \/ ControllerSteps

DispenserSpec == DispenserInit /\ [][DispenserNext]_dispenserVars

-----------------------------------------------------------------------------
(* Properties *)

Controller == session.ctx.current_state
CaughtUp == pending = <<>> /\ Controller # "DISCONNECTED"

\* The state the transition table has for a phase of the dispenser.
StateOf(phase) ==
  CASE phase = "ready"      -> "READY"
    [] phase = "lifted"     -> "NOZZLE_UP"
    [] phase = "authorized" -> "AUTHORIZED"
    [] phase = "filling"    -> "FILLING"
    [] phase = "paused"     -> "SUSPENDED"
    [] phase = "limit"      -> "LIMIT_REACHED"
    [] phase = "complete"   -> "FILLING_COMPLETE"

\* Through any number of sales, pauses, limits, status requests and short
\* silences the controller's state is the dispenser's, once every report is
\* delivered: no noop rule, no context-dependent reading of a report (WayneMapper)
\* and no wrap of the TX# loses a step, unless a completion frame recurs, a report
\* of a frame of several is taken for a duplicate (machine.py), or the pump was
\* given up meanwhile.
SalesAreTracked ==
  CaughtUp /\ ~swallowed /\ ~recurred /\ outages = 0 => Controller = StateOf(dispenser.phase)

\* A pump is only taken for idle, and so offered a SET_PRICE (guards.py), when no
\* sale is going on, also after completions were taken for repeated ones, as long
\* as no other report was and the pump was not given up.
IdleIsReal ==
  CaughtUp /\ ~swallowed /\ outages = 0 /\ Controller \in {"READY", "RESET"} =>
    dispenser.phase = "ready"

\* However a sale went on, through outages too, its end is seen: an idle dispenser
\* is never left in a state that waits for a completion, in which neither a
\* price nor an authorization would be offered (guards.py), unless that completion
\* was taken for another's or for a duplicate.
SaleEndIsSeen ==
  CaughtUp /\ ~swallowed /\ ~recurred /\ dispenser.phase = "ready" =>
    Controller \in {"READY", "DISCOVERING"}

\* What docs/protocol-notes/application-capture-analysis.md and splitter.py have of a
\* DATA frame, that its block carries several transactions, holds of the state too:
\* each of them counts, as if it had a frame of its own.
BlocksAreTracked ==
  CaughtUp /\ ~recurred /\ outages = 0 => Controller = StateOf(dispenser.phase)

=============================================================================

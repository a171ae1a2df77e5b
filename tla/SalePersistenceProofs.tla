------------------------ MODULE SalePersistenceProofs -----------------------
(***************************************************************************)
(* What holds of the controller's view of a sale, of the transactions table*)
(* and of the completions in the sync queue: for any number of sales,      *)
(* outages and power cuts, and however jobs are lost, rolled back, repeated*)
(* or cut off.                                                             *)
(*                                                                         *)
(* A dispenser is tracked to the end of each sale, however many reports it *)
(* puts into a DATA frame, unless one of them is lost in one of three ways:*)
(* a report of a frame of several is taken for a duplicate, a completion   *)
(* frame recurs, or the pump is given up.  The cloud hears of each         *)
(* completed transaction exactly once; no more sales are completed than    *)
(* were made; and the snapshot a restart recovers from is the machine's,   *)
(* up to one reconnection.                                                 *)
(***************************************************************************)
EXTENDS SalePersistence, ControllerSessionProofs, FiniteSetTheorems

-----------------------------------------------------------------------------
(* What a report of the dispenser makes of the machine. *)

\* The statuses and nozzles of the script, and the volumes.
StatusReport ==
  {DC1(ResetStatus), DC1(Authorized), DC1(Filling), DC1(Suspended), DC1(MaxReached),
   DC1(FillingCompleted), Lifted, Holstered}
VolumeReport == {DC2(v) : v \in Nat}
DispenserReport == StatusReport \union VolumeReport

\* Where an event that is no duplicate takes the machine.
Onward(s, e) ==
  IF \/ s = "NOZZLE_UP" /\ e = "FILLING_STARTED"
     \/ <<s, e>> \in SameStateNoopEvents
     \/ ~HasTransition(s, e)
  THEN s ELSE Target(s, e)

\* Where a report takes it.
After(s, r) ==
  IF r = DC1(ResetStatus) /\ s \in {"DISCOVERING", "READY", "LIMIT_REACHED", "FILLING_COMPLETE"}
  THEN "RESET"
  ELSE IF r = DC1(Authorized) /\ s = "NOZZLE_UP" THEN "AUTHORIZED"
  ELSE IF r = DC1(Filling) /\ s \in {"AUTHORIZED", "SUSPENDED"} THEN "FILLING"
  ELSE IF r = DC1(Suspended) /\ s = "FILLING" THEN "SUSPENDED"
  ELSE IF r = DC1(MaxReached) /\ s \in {"FILLING", "SUSPENDED"} THEN "LIMIT_REACHED"
  ELSE IF r = DC1(FillingCompleted) /\ s \in {"FILLING", "SUSPENDED", "LIMIT_REACHED"}
  THEN "FILLING_COMPLETE"
  ELSE IF r = Lifted /\ s = "READY" THEN "NOZZLE_UP"
  ELSE IF r = Holstered /\ s \in {"NOZZLE_UP", "AUTHORIZED", "DISCOVERING", "RESET"} THEN "READY"
  ELSE s

\* The states the session's machine is ever in.
Reached ==
  {"DISCONNECTED", "DISCOVERING", "RESET", "READY", "NOZZLE_UP", "AUTHORIZED", "FILLING",
   "SUSPENDED", "LIMIT_REACHED", "FILLING_COMPLETE"}

\* The events of the dispenser's reports: for these the table is all there is.
Scripted ==
  {"RESET_OBSERVED", "AUTHORIZATION_CONFIRMED", "FILLING_STARTED", "FILLING_UPDATED",
   "RESUMED_OBSERVED", "SUSPENDED_OBSERVED", "LIMIT_REACHED", "FILLING_COMPLETED",
   "NOZZLE_LIFTED", "NOZZLE_RETURNED", "READY_OBSERVED"}

LEMMA ScriptedLeads ==
  ASSUME NEW s, NEW e \in Scripted, NEW t
  PROVE  Leads(s, e, t) <=> <<s, e, t>> \in TransitionTable
BY DEF Leads, Scripted

\* An event that is refused or changes nothing.
LEMMA OnwardStays ==
  ASSUME NEW s, NEW e \in Scripted,
         \/ s = "NOZZLE_UP" /\ e = "FILLING_STARTED"
         \/ <<s, e>> \in SameStateNoopEvents
         \/ \A t : <<s, e, t>> \notin TransitionTable
  PROVE  Onward(s, e) = s
<1>1. (\A t : <<s, e, t>> \notin TransitionTable) => ~HasTransition(s, e)
  BY ScriptedLeads DEF HasTransition
<1> QED  BY <1>1 DEF Onward

LEMMA OnwardMoves ==
  ASSUME NEW s, NEW e \in Scripted, NEW t \in PumpState,
         <<s, e, t>> \in TransitionTable, \A u : <<s, e, u>> \in TransitionTable => u = t,
         <<s, e>> \notin SameStateNoopEvents, ~(s = "NOZZLE_UP" /\ e = "FILLING_STARTED")
  PROVE  Onward(s, e) = t
<1>1. Leads(s, e, t) /\ \A u : Leads(s, e, u) => u = t
  BY ScriptedLeads
<1>2. HasTransition(s, e) /\ Target(s, e) = t
  BY <1>1 DEF HasTransition, Target
<1> QED  BY <1>2 DEF Onward

LEMMA StatusEventIs ==
  ASSUME NEW c
  PROVE  /\ StatusEvent(ResetStatus, c) = "RESET_OBSERVED"
         /\ StatusEvent(Authorized, c) = "AUTHORIZATION_CONFIRMED"
         /\ StatusEvent(Filling, c) = FillingEvent(c)
         /\ StatusEvent(FillingCompleted, c) = "FILLING_COMPLETED"
         /\ StatusEvent(MaxReached, c) = "LIMIT_REACHED"
         /\ StatusEvent(Suspended, c) = "SUSPENDED_OBSERVED"
<1>1. \A status, e, d : <<status, e>> \in StatusEvents /\ <<status, d>> \in StatusEvents => d = e
  BY DEF StatusEvents, NotProgrammed, ResetStatus, Authorized, FillingCompleted, MaxReached,
         Suspended
<1>2. ASSUME NEW status, status # Filling, NEW e \in PumpEvent, <<status, e>> \in StatusEvents
      PROVE  StatusEvent(status, c) = e
  BY <1>1, <1>2 DEF StatusEvent
<1>3. /\ <<ResetStatus, "RESET_OBSERVED">> \in StatusEvents
      /\ <<Authorized, "AUTHORIZATION_CONFIRMED">> \in StatusEvents
      /\ <<FillingCompleted, "FILLING_COMPLETED">> \in StatusEvents
      /\ <<MaxReached, "LIMIT_REACHED">> \in StatusEvents
      /\ <<Suspended, "SUSPENDED_OBSERVED">> \in StatusEvents
  BY DEF StatusEvents
<1>4. /\ ResetStatus # Filling /\ Authorized # Filling /\ FillingCompleted # Filling
      /\ MaxReached # Filling /\ Suspended # Filling
  BY DEF ResetStatus, Authorized, FillingCompleted, MaxReached, Suspended, Filling
<1>5. {"RESET_OBSERVED", "AUTHORIZATION_CONFIRMED", "FILLING_COMPLETED", "LIMIT_REACHED",
       "SUSPENDED_OBSERVED"} \subseteq PumpEvent
  BY DEF PumpEvent
<1>6. StatusEvent(Filling, c) = FillingEvent(c)
  BY DEF StatusEvent
<1> QED  BY <1>2, <1>3, <1>4, <1>5, <1>6

LEMMA ReportKinds ==
  /\ \A status : DC1(status).type = "DC1" /\ DC1(status).value = status
  /\ \A v : DC2(v).type = "DC2"
  /\ Lifted.type = "DC3" /\ Lifted.out /\ Lifted.value = 1
  /\ Holstered.type = "DC3" /\ ~Holstered.out /\ Holstered.value = 1
BY DEF DC1, DC2, DC3, Lifted, Holstered

\* No two reports are alike.
LEMMA ReportsDiffer ==
  /\ \A a, b : DC1(a) = DC1(b) => a = b
  /\ \A a : DC1(a) \notin VolumeReport \union {Lifted, Holstered}
  /\ \A v : DC2(v) \notin StatusReport
  /\ Lifted # Holstered
<1>1. \A a, b : DC1(a) = DC1(b) => a = b
  BY ReportKinds
<1>2. ASSUME NEW a  PROVE DC1(a) \notin VolumeReport \union {Lifted, Holstered}
  BY ReportKinds DEF VolumeReport
<1>3. ASSUME NEW v  PROVE DC2(v) \notin StatusReport
  BY ReportKinds DEF StatusReport
<1> QED  BY <1>1, <1>2, <1>3, ReportKinds

LEMMA StatusesDiffer ==
  /\ ResetStatus \in Nat /\ Authorized \in Nat /\ Filling \in Nat /\ FillingCompleted \in Nat
  /\ MaxReached \in Nat /\ Suspended \in Nat
  /\ Authorized # ResetStatus /\ Filling # ResetStatus /\ FillingCompleted # ResetStatus
  /\ MaxReached # ResetStatus /\ Suspended # ResetStatus
  /\ Filling # Authorized /\ FillingCompleted # Authorized /\ MaxReached # Authorized
  /\ Suspended # Authorized /\ FillingCompleted # Filling /\ MaxReached # Filling
  /\ Suspended # Filling /\ MaxReached # FillingCompleted /\ Suspended # FillingCompleted
  /\ Suspended # MaxReached
BY DEF ResetStatus, Authorized, Filling, FillingCompleted, MaxReached, Suspended

\* The event moves the states in F to t, and no other.
OnlyMoves(e, F, t) ==
  /\ e \in Scripted /\ t \in PumpState
  /\ \A s \in F : /\ <<s, e, t>> \in TransitionTable
                  /\ \A u : <<s, e, u>> \in TransitionTable => u = t
                  /\ <<s, e>> \notin SameStateNoopEvents
                  /\ ~(s = "NOZZLE_UP" /\ e = "FILLING_STARTED")
  /\ \A s \in Reached \ F : \/ <<s, e>> \in SameStateNoopEvents
                            \/ \A u : <<s, e, u>> \notin TransitionTable

LEMMA OnwardIs ==
  ASSUME NEW s \in Reached, NEW e, NEW F, NEW t, OnlyMoves(e, F, t)
  PROVE  Onward(s, e) = IF s \in F THEN t ELSE s
<1>1. CASE s \in F
  BY <1>1, OnwardMoves DEF OnlyMoves
<1>2. CASE s \notin F
  BY <1>2, OnwardStays DEF OnlyMoves
<1> QED  BY <1>1, <1>2

LEMMA StatusOnward ==
  ASSUME NEW s \in Reached \ {"DISCONNECTED"}
  PROVE  /\ Onward(s, "RESET_OBSERVED") = After(s, DC1(ResetStatus))
         /\ Onward(s, "AUTHORIZATION_CONFIRMED") = After(s, DC1(Authorized))
         /\ Onward(s, "SUSPENDED_OBSERVED") = After(s, DC1(Suspended))
         /\ Onward(s, "LIMIT_REACHED") = After(s, DC1(MaxReached))
         /\ Onward(s, "FILLING_COMPLETED") = After(s, DC1(FillingCompleted))
<1>1. Onward(s, "RESET_OBSERVED") =
        IF s \in {"DISCOVERING", "READY", "LIMIT_REACHED", "FILLING_COMPLETE"} THEN "RESET" ELSE s
  <2>1. OnlyMoves("RESET_OBSERVED", {"DISCOVERING", "READY", "LIMIT_REACHED", "FILLING_COMPLETE"}, "RESET")
    BY DEF OnlyMoves, Scripted, PumpState, TransitionTable, SameStateNoopEvents, Reached
  <2> QED  BY <2>1, OnwardIs
<1>2. Onward(s, "AUTHORIZATION_CONFIRMED") = IF s \in {"NOZZLE_UP"} THEN "AUTHORIZED" ELSE s
  <2>1. OnlyMoves("AUTHORIZATION_CONFIRMED", {"NOZZLE_UP"}, "AUTHORIZED")
    BY DEF OnlyMoves, Scripted, PumpState, TransitionTable, SameStateNoopEvents, Reached
  <2> QED  BY <2>1, OnwardIs
<1>3. Onward(s, "SUSPENDED_OBSERVED") = IF s \in {"FILLING"} THEN "SUSPENDED" ELSE s
  <2>1. OnlyMoves("SUSPENDED_OBSERVED", {"FILLING"}, "SUSPENDED")
    BY DEF OnlyMoves, Scripted, PumpState, TransitionTable, SameStateNoopEvents, Reached
  <2> QED  BY <2>1, OnwardIs
<1>4. Onward(s, "LIMIT_REACHED") = IF s \in {"FILLING", "SUSPENDED"} THEN "LIMIT_REACHED" ELSE s
  <2>1. OnlyMoves("LIMIT_REACHED", {"FILLING", "SUSPENDED"}, "LIMIT_REACHED")
    BY DEF OnlyMoves, Scripted, PumpState, TransitionTable, SameStateNoopEvents, Reached
  <2> QED  BY <2>1, OnwardIs
<1>5. Onward(s, "FILLING_COMPLETED") =
        IF s \in {"FILLING", "SUSPENDED", "LIMIT_REACHED"} THEN "FILLING_COMPLETE" ELSE s
  <2>1. OnlyMoves("FILLING_COMPLETED", {"FILLING", "SUSPENDED", "LIMIT_REACHED"}, "FILLING_COMPLETE")
    BY DEF OnlyMoves, Scripted, PumpState, TransitionTable, SameStateNoopEvents, Reached
  <2> QED  BY <2>1, OnwardIs
<1> QED  BY <1>1, <1>2, <1>3, <1>4, <1>5, ReportsDiffer, StatusesDiffer DEF After

LEMMA FillingOnward ==
  ASSUME NEW s \in Reached \ {"DISCONNECTED"}
  PROVE  /\ s \notin {"AUTHORIZED", "SUSPENDED"} =>
              /\ Onward(s, "FILLING_STARTED") = s
              /\ Onward(s, "FILLING_UPDATED") = s
              /\ Onward(s, "RESUMED_OBSERVED") = s
         /\ Onward(s, "FILLING_UPDATED") = s
         /\ Onward("AUTHORIZED", "FILLING_STARTED") = "FILLING"
         /\ Onward("SUSPENDED", "RESUMED_OBSERVED") = "FILLING"
<1>1. Onward(s, "FILLING_UPDATED") = s
  BY OnwardStays DEF Scripted, TransitionTable, SameStateNoopEvents, Reached
<1>2. s \notin {"AUTHORIZED", "SUSPENDED"} => Onward(s, "FILLING_STARTED") = s
  BY OnwardStays DEF Scripted, TransitionTable, SameStateNoopEvents, Reached
<1>3. s \notin {"AUTHORIZED", "SUSPENDED"} => Onward(s, "RESUMED_OBSERVED") = s
  BY OnwardStays DEF Scripted, TransitionTable, SameStateNoopEvents, Reached
<1>4. Onward("AUTHORIZED", "FILLING_STARTED") = "FILLING"
  BY OnwardMoves DEF Scripted, PumpState, TransitionTable, SameStateNoopEvents
<1>5. Onward("SUSPENDED", "RESUMED_OBSERVED") = "FILLING"
  BY OnwardMoves DEF Scripted, PumpState, TransitionTable, SameStateNoopEvents
<1> QED  BY <1>1, <1>2, <1>3, <1>4, <1>5

LEMMA NozzleOnward ==
  ASSUME NEW s \in Reached \ {"DISCONNECTED"}
  PROVE  /\ Onward(s, "NOZZLE_LIFTED") = After(s, Lifted)
         /\ s \in {"NOZZLE_UP", "AUTHORIZED", "FILLING", "SUSPENDED"} =>
              Onward(s, "NOZZLE_RETURNED") = After(s, Holstered)
         /\ s \notin {"NOZZLE_UP", "AUTHORIZED", "FILLING", "SUSPENDED"} =>
              Onward(s, "READY_OBSERVED") = After(s, Holstered)
<1>1. Onward(s, "NOZZLE_LIFTED") = IF s \in {"READY"} THEN "NOZZLE_UP" ELSE s
  <2>1. OnlyMoves("NOZZLE_LIFTED", {"READY"}, "NOZZLE_UP")
    BY DEF OnlyMoves, Scripted, PumpState, TransitionTable, SameStateNoopEvents, Reached
  <2> QED  BY <2>1, OnwardIs
<1>2. Onward(s, "NOZZLE_RETURNED") = IF s \in {"NOZZLE_UP", "AUTHORIZED"} THEN "READY" ELSE s
  <2>1. OnlyMoves("NOZZLE_RETURNED", {"NOZZLE_UP", "AUTHORIZED"}, "READY")
    BY DEF OnlyMoves, Scripted, PumpState, TransitionTable, SameStateNoopEvents, Reached
  <2> QED  BY <2>1, OnwardIs
<1>3. Onward(s, "READY_OBSERVED") = IF s \in {"DISCOVERING", "RESET"} THEN "READY" ELSE s
  <2>1. OnlyMoves("READY_OBSERVED", {"DISCOVERING", "RESET"}, "READY")
    BY DEF OnlyMoves, Scripted, PumpState, TransitionTable, SameStateNoopEvents, Reached
  <2> QED  BY <2>1, OnwardIs
<1>4. /\ \A a : Lifted # DC1(a) /\ Holstered # DC1(a)
      /\ Lifted # Holstered
  BY ReportsDiffer
<1>5. After(s, Lifted) = IF s = "READY" THEN "NOZZLE_UP" ELSE s
  BY <1>4 DEF After
<1>6. After(s, Holstered) = IF s \in {"NOZZLE_UP", "AUTHORIZED", "DISCOVERING", "RESET"}
                            THEN "READY" ELSE s
  BY <1>4 DEF After
<1> QED  BY <1>1, <1>2, <1>3, <1>5, <1>6

\* What tells a resumed filling from a started one (_status_code_to_event): the last
\* status the machine took.
IsReadRight(c) ==
  /\ c.current_state = "AUTHORIZED" => c.last_raw_wayne_status = Authorized
  /\ c.current_state = "SUSPENDED" => c.last_raw_wayne_status = Suspended

LEMMA ReportOnward ==
  ASSUME NEW c, NEW s, s = c.current_state, s \in Reached \ {"DISCONNECTED"}, IsReadRight(c),
         NEW r \in DispenserReport
  PROVE  /\ Onward(s, ReportEvent(r, c)) = After(s, r)
         /\ ReportEvent(r, c) \in Scripted
         /\ ReportEvent(r, c) = "AUTHORIZATION_CONFIRMED" => r = DC1(Authorized)
         /\ ReportEvent(r, c) = "SUSPENDED_OBSERVED" => r = DC1(Suspended)
         /\ ReportEvent(r, c) = "FILLING_COMPLETED" <=> r = DC1(FillingCompleted)
<1> DEFINE e == ReportEvent(r, c)
<1>1. CASE r \in {DC1(ResetStatus), DC1(Authorized), DC1(Suspended), DC1(MaxReached),
                  DC1(FillingCompleted)}
  <2>1. \A status : ReportEvent(DC1(status), c) = StatusEvent(status, c)
    BY ReportKinds DEF ReportEvent
  <2>2. /\ DC1(Authorized) # DC1(FillingCompleted) /\ DC1(ResetStatus) # DC1(FillingCompleted)
        /\ DC1(Suspended) # DC1(FillingCompleted) /\ DC1(MaxReached) # DC1(FillingCompleted)
    BY ReportsDiffer, StatusesDiffer
  <2> QED  BY <1>1, <2>1, <2>2, StatusEventIs, StatusOnward DEF Scripted
<1>2. CASE r = DC1(Filling)
  <2>1. e = FillingEvent(c)
    BY <1>2, ReportKinds, StatusEventIs DEF ReportEvent
  <2>2. r # DC1(FillingCompleted)
    BY <1>2, ReportsDiffer, StatusesDiffer
  <2>3. After(s, r) = IF s \in {"AUTHORIZED", "SUSPENDED"} THEN "FILLING" ELSE s
    BY <1>2, ReportsDiffer, StatusesDiffer DEF After
  <2>4. s = "AUTHORIZED" => e = "FILLING_STARTED"
    BY <2>1, StatusesDiffer DEF FillingEvent, IsReadRight
  <2>5. s = "SUSPENDED" => e = "RESUMED_OBSERVED"
    BY <2>1 DEF FillingEvent, IsReadRight
  <2>6. e \in {"FILLING_STARTED", "FILLING_UPDATED", "RESUMED_OBSERVED"}
    BY <2>1 DEF FillingEvent
  <2> HIDE DEF e
  <2>7. Onward(s, e) = After(s, r)
    BY <2>3, <2>4, <2>5, <2>6, FillingOnward
  <2> QED  BY <2>2, <2>6, <2>7 DEF Scripted, e
<1>3. CASE r = Lifted
  <2>1. e = "NOZZLE_LIFTED"
    BY <1>3, ReportKinds DEF ReportEvent, NozzleEvent
  <2> QED  BY <1>3, <2>1, NozzleOnward, ReportsDiffer DEF Scripted
<1>4. CASE r = Holstered
  <2>1. e = IF s \in {"NOZZLE_UP", "AUTHORIZED", "FILLING", "SUSPENDED"}
            THEN "NOZZLE_RETURNED" ELSE "READY_OBSERVED"
    BY <1>4, ReportKinds DEF ReportEvent, NozzleEvent
  <2> QED  BY <1>4, <2>1, NozzleOnward, ReportsDiffer DEF Scripted
<1>5. CASE r \in VolumeReport
  <2>1. r.type = "DC2" /\ \A a : r # DC1(a)
    BY <1>5, ReportKinds, ReportsDiffer DEF VolumeReport
  <2>2. r # Lifted /\ r # Holstered
    BY <2>1, ReportKinds
  <2>3. e = "FILLING_UPDATED"
    BY <2>1 DEF ReportEvent
  <2>4. After(s, r) = s
    BY <2>1, <2>2 DEF After
  <2> QED  BY <2>1, <2>3, <2>4, FillingOnward DEF Scripted
<1> QED  BY <1>1, <1>2, <1>3, <1>4, <1>5 DEF DispenserReport, StatusReport

LEMMA AfterReached ==
  ASSUME NEW s \in Reached \ {"DISCONNECTED"}, NEW r
  PROVE  /\ After(s, r) \in Reached \ {"DISCONNECTED"}
         /\ After(s, r) = "DISCOVERING" => s = "DISCOVERING"
         /\ After(s, r) = "AUTHORIZED" /\ s # "AUTHORIZED" => r = DC1(Authorized)
         /\ After(s, r) = "SUSPENDED" /\ s # "SUSPENDED" => r = DC1(Suspended)
BY DEF After, Reached

\* A report taken twice is taken once.
LEMMA AfterTwice == ASSUME NEW s, NEW r  PROVE After(After(s, r), r) = After(s, r)
<1>1. \A a : DC1(a) # Lifted /\ DC1(a) # Holstered
  BY ReportsDiffer
<1>2. After("RESET", DC1(ResetStatus)) = "RESET" /\ After("AUTHORIZED", DC1(Authorized)) = "AUTHORIZED"
  BY <1>1, ReportsDiffer, StatusesDiffer DEF After
<1>3. After("FILLING", DC1(Filling)) = "FILLING" /\ After("SUSPENDED", DC1(Suspended)) = "SUSPENDED"
  BY <1>1, ReportsDiffer, StatusesDiffer DEF After
<1>4. /\ After("LIMIT_REACHED", DC1(MaxReached)) = "LIMIT_REACHED"
      /\ After("FILLING_COMPLETE", DC1(FillingCompleted)) = "FILLING_COMPLETE"
  BY <1>1, ReportsDiffer, StatusesDiffer DEF After
<1>5. After("NOZZLE_UP", Lifted) = "NOZZLE_UP" /\ After("READY", Holstered) = "READY"
  BY <1>1, ReportsDiffer DEF After
<1>6. \/ After(s, r) = s
      \/ <<After(s, r), r>> \in
           {<<"RESET", DC1(ResetStatus)>>, <<"AUTHORIZED", DC1(Authorized)>>,
            <<"FILLING", DC1(Filling)>>, <<"SUSPENDED", DC1(Suspended)>>,
            <<"LIMIT_REACHED", DC1(MaxReached)>>,
            <<"FILLING_COMPLETE", DC1(FillingCompleted)>>, <<"NOZZLE_UP", Lifted>>,
            <<"READY", Holstered>>}
  BY DEF After
<1>7. ASSUME NEW t, <<t, r>> \in
           {<<"RESET", DC1(ResetStatus)>>, <<"AUTHORIZED", DC1(Authorized)>>,
            <<"FILLING", DC1(Filling)>>, <<"SUSPENDED", DC1(Suspended)>>,
            <<"LIMIT_REACHED", DC1(MaxReached)>>,
            <<"FILLING_COMPLETE", DC1(FillingCompleted)>>, <<"NOZZLE_UP", Lifted>>,
            <<"READY", Holstered>>}
      PROVE  After(t, r) = t
  BY <1>2, <1>3, <1>4, <1>5, <1>7
<1> QED  BY <1>6, <1>7

\* The frame that moved or confirmed the machine's state is the last one it keeps.  If
\* it had one report, that report does so no more; so one taken for its repetition
\* (machine.py) loses nothing, once the pump is discovered.
IsSettled(c) ==
  \/ c.last_source_frame_hex = None
  \/ c.current_state \in {"DISCONNECTED", "DISCOVERING"}
  \/ \E q, b : /\ c.last_source_frame_hex = <<q, b>>
               /\ Len(b) = 1 => After(c.current_state, b[1]) = c.current_state

\* The invariant of the session's machine.
IsFollowing(c, keys) ==
  /\ c.current_state \in Reached
  /\ IsReadRight(c) /\ IsSettled(c)
  /\ c.completed_evidence_keys \subseteq keys

\* Where a report that is no duplicate takes the machine.
LEMMA ReportCounts ==
  ASSUME NEW c, IsContext(c), c.current_state \in Reached \ {"DISCONNECTED"}, IsReadRight(c),
         NEW r \in DispenserReport,
         NEW o, o.event = ReportEvent(r, c), o.at = None, ~o.implicit,
         ~IsDuplicateFrame(c, o), ~IsDuplicateCompletion(c, o)
  PROVE  Apply(c, o).current_state = After(c.current_state, r)
<1> DEFINE s == c.current_state
           e == ReportEvent(r, c)
           d == Apply(c, o)
<1>1. Onward(s, e) = After(s, r) /\ e \in Scripted
  BY ReportOnward
<1>2. e # "UNKNOWN_OBSERVATION"
  BY <1>1 DEF Scripted
<1> HIDE DEF e
<1>3. CASE Outcome(c, o) = "transition_applied"
  <2>1. d = Move(c, o) /\ HasTransition(s, e) /\ <<s, e>> \notin SameStateNoopEvents
        /\ ~IsUnconfirmedFilling(c, o)
    BY <1>3, AppliedFields DEF e
  <2>2. d.current_state = Target(s, e)
    BY <2>1, MoveFields DEF e
  <2>3. ~(s = "NOZZLE_UP" /\ e = "FILLING_STARTED")
    BY <2>1 DEF IsUnconfirmedFilling, e
  <2> HIDE DEF d
  <2> QED  BY <1>1, <2>1, <2>2, <2>3 DEF Onward, d
<1>4. CASE Outcome(c, o) = "same_state_noop"
  <2>1. d = Noop(c, o) /\ <<s, e>> \in SameStateNoopEvents
    BY <1>4, AppliedFields DEF e
  <2>2. d.current_state = s
    BY <2>1, NoopFields
  <2> HIDE DEF d
  <2> QED  BY <1>1, <2>1, <2>2 DEF Onward, d
<1>5. CASE Outcome(c, o) \notin {"transition_applied", "same_state_noop"}
  <2>1. d = c
    BY <1>2, <1>5, AppliedFields DEF e
  <2>2. IsUnconfirmedFilling(c, o) \/ ~HasTransition(s, e)
    BY <1>2, <1>5 DEF Outcome, IsStale, e
  <2>3. Onward(s, e) = s
    BY <2>2 DEF Onward, IsUnconfirmedFilling, e
  <2> QED  BY <1>1, <2>1, <2>3
<1> QED  BY <1>3, <1>4, <1>5

\* What a report would do in a frame of its own is what the table has for it.
LEMMA ChangesStateIs ==
  ASSUME NEW c, IsContext(c), c.current_state \in Reached \ {"DISCONNECTED"}, IsReadRight(c),
         NEW r \in DispenserReport
  PROVE  ChangesState(r, c) <=> After(c.current_state, r) # c.current_state
<1> DEFINE o == [Mapped(r, None, c) EXCEPT !.key = None]
<1>1. /\ o.event = ReportEvent(r, c) /\ o.at = None /\ ~o.implicit
      /\ o.frame = None /\ o.key = None
  BY DEF Mapped, NoObservation
<1> HIDE DEF o
<1>2. ~IsDuplicateFrame(c, o) /\ ~IsDuplicateCompletion(c, o)
  BY <1>1 DEF IsDuplicateFrame, IsDuplicateCompletion
<1>3. Apply(c, o).current_state = After(c.current_state, r)
  BY <1>1, <1>2, ReportCounts
<1>4. ChangesState(r, c) <=> Apply(c, o).current_state # c.current_state
  BY DEF ChangesState, o
<1> QED  BY <1>3, <1>4

LEMMA ReportApplied ==
  ASSUME NEW c, IsContext(c), NEW keys, IsFollowing(c, keys),
         c.current_state # "DISCONNECTED",
         NEW q, NEW b, NEW r \in DispenserReport, Len(b) = 1 => b[1] = r,
         NEW frame, frame = <<q, b>>, frame # None,
         NEW o, o = Mapped(r, frame, c),
         ~(o.key # None /\ o.key \in keys),
         NEW d, d = Apply(c, o),
         NEW k, k = IF o.key # None /\ Outcome(c, o) = "transition_applied"
                    THEN keys \union {o.key} ELSE keys
  PROVE  /\ IsFollowing(d, k)
         /\ \/ d.current_state = After(c.current_state, r)
            \/ c.current_state = "DISCOVERING" /\ d.current_state = "DISCOVERING"
                 /\ Len(b) = 1 /\ c.last_source_frame_hex # None
            \/ Len(b) # 1 /\ IsDuplicateFrame(c, o) /\ ChangesState(r, c)
         /\ d.current_state = "DISCOVERING" =>
              c.current_state = "DISCOVERING" /\ d.last_source_frame_hex = c.last_source_frame_hex
         /\ c.last_source_frame_hex = frame => d = c /\ k = keys
         /\ k # keys => /\ k = keys \union {o.key} /\ d.last_source_frame_hex = frame
                        /\ After(d.current_state, r) = d.current_state
<1> DEFINE s == c.current_state
           e == ReportEvent(r, c)
<1>1. /\ o.event = e /\ o.at = None /\ o.frame = frame /\ ~o.implicit
  BY MappedFields
<1>2. /\ o.raw = IF r.type \in {"DC1", "DC5"} THEN r.value ELSE None
      /\ o.key = IF r = DC1(FillingCompleted) THEN CompletionKey(frame) ELSE None
  BY MappedEvidence
<1>3. s \in Reached \ {"DISCONNECTED"} /\ IsReadRight(c) /\ IsSettled(c)
      /\ c.completed_evidence_keys \subseteq keys
  BY DEF IsFollowing
<1>4. /\ Onward(s, e) = After(s, r) /\ e \in Scripted
      /\ e = "AUTHORIZATION_CONFIRMED" => r = DC1(Authorized)
      /\ e = "SUSPENDED_OBSERVED" => r = DC1(Suspended)
  BY <1>3, ReportOnward
<1>5. keys \subseteq k
  OBVIOUS
<1>6. e # "UNKNOWN_OBSERVATION"
  BY <1>4 DEF Scripted
<1>7. /\ IsContext(d)
      /\ Outcome(c, o) = "transition_applied" => d = Move(c, o)
      /\ Outcome(c, o) = "same_state_noop" => d = Noop(c, o)
      /\ Outcome(c, o) \notin {"transition_applied", "same_state_noop"} => d = c
  BY <1>1, <1>6, AppliedFields
<1>a. \A x : DC1(x).type = "DC1" /\ DC1(x).value = x
  BY ReportKinds
<1>b. /\ r = DC1(Authorized) => o.raw = Authorized
      /\ r = DC1(Suspended) => o.raw = Suspended
  BY <1>2, <1>a
<1>c. Authorized # None /\ Suspended # None
  BY StatusesDiffer, DispenserAssumption
<1> HIDE DEF s, e
<1>d. /\ o.event = ReportEvent(r, c)
      /\ IsDuplicateFrame(c, o) <=> c.last_source_frame_hex = frame
  BY <1>1 DEF IsDuplicateFrame, e
<1>8. CASE IsDuplicateFrame(c, o)
  <2>1. Outcome(c, o) = "duplicate_source_frame"
    BY <1>1, <1>8 DEF Outcome, IsStale
  <2>2. d = c /\ k = keys
    BY <1>7, <2>1
  <2>3. c.last_source_frame_hex = frame /\ frame # None
    BY <1>d, <1>8
  <2>4. Len(b) = 1 => s = "DISCOVERING" \/ After(s, r) = s
    <3> SUFFICES ASSUME Len(b) = 1, s # "DISCOVERING"  PROVE After(s, r) = s
      OBVIOUS
    <3>1. PICK p, x : /\ c.last_source_frame_hex = <<p, x>>
                      /\ Len(x) = 1 => After(s, x[1]) = s
      BY <1>3, <2>3 DEF IsSettled, s
    <3>2. x = b
      BY <2>3, <3>1
    <3> QED  BY <3>1, <3>2
  <2>5. ChangesState(r, c) <=> After(s, r) # s
    BY <1>3, ChangesStateIs DEF s
  <2> QED  BY <1>3, <1>8, <2>2, <2>3, <2>4, <2>5 DEF s, IsFollowing
<1>9. CASE ~IsDuplicateFrame(c, o)
  <2>1. ~IsDuplicateCompletion(c, o)
    BY <1>3 DEF IsDuplicateCompletion
  <2>2. CASE Outcome(c, o) = "transition_applied"
    <3>1. /\ d = Move(c, o) /\ HasTransition(s, e) /\ <<s, e>> \notin SameStateNoopEvents
          /\ ~IsUnconfirmedFilling(c, o)
      BY <1>1, <2>2, AppliedFields DEF s
    <3>2. /\ d.current_state = Target(s, e)
          /\ d.last_raw_wayne_status = Or(o.raw, c.last_raw_wayne_status)
          /\ d.last_source_frame_hex = Or(o.frame, c.last_source_frame_hex)
          /\ d.completed_evidence_keys = EvidenceAfter(c, o)
      BY <1>1, <3>1, MoveFields DEF s
    <3>3. ~(s = "NOZZLE_UP" /\ e = "FILLING_STARTED")
      BY <1>1, <3>1 DEF IsUnconfirmedFilling, s
    <3>4. d.current_state = After(s, r)
      BY <1>4, <3>1, <3>2, <3>3 DEF Onward
    <3>5. EvidenceAfter(c, o) \subseteq k
      BY <1>3, <1>5, <2>2 DEF EvidenceAfter
    <3>6. s \in PumpState /\ d.current_state # "DISCOVERING"
      <4>1. <<s, e, Target(s, e)>> \in TransitionTable
        <5>1. Leads(s, e, Target(s, e))
          BY <3>1 DEF HasTransition, Target
        <5> QED  BY <1>4, <5>1, ScriptedLeads
      <4>2. \A t : <<s, e, t>> \in TransitionTable => t # "DISCOVERING"
        BY <1>4, <1>3 DEF TransitionTable, Scripted, Reached
      <4> QED  BY <3>2, <4>1, <4>2 DEF IsContext, s
    <3>7. d.last_source_frame_hex = frame
      BY <1>1, <3>2 DEF Or
    <3>8. After(d.current_state, r) = d.current_state
      BY <3>4, AfterTwice
    <3>9. IsSettled(d)
      BY <3>7, <3>8 DEF IsSettled
    <3>10. IsReadRight(d)
      <4>1. \A t : <<s, e, t>> \in TransitionTable /\ <<s, e>> \notin SameStateNoopEvents =>
                    /\ t = "AUTHORIZED" => e = "AUTHORIZATION_CONFIRMED"
                    /\ t = "SUSPENDED" => e = "SUSPENDED_OBSERVED"
        BY DEF TransitionTable
      <4>2. <<s, e, Target(s, e)>> \in TransitionTable
        <5>1. Leads(s, e, Target(s, e))
          BY <3>1 DEF HasTransition, Target
        <5> QED  BY <1>4, <5>1, ScriptedLeads
      <4>3. /\ d.current_state = "AUTHORIZED" => o.raw = Authorized
            /\ d.current_state = "SUSPENDED" => o.raw = Suspended
        BY <1>4, <1>b, <3>1, <3>2, <4>1, <4>2
      <4> QED  BY <1>c, <3>2, <4>3 DEF IsReadRight, Or
    <3> QED  BY <1>3, <1>9, <1>d, <3>2, <3>4, <3>5, <3>6, <3>7, <3>8, <3>9, <3>10, AfterReached
             DEF IsFollowing, s
  <2>3. CASE Outcome(c, o) = "same_state_noop"
    <3>1. d = Noop(c, o) /\ <<s, e>> \in SameStateNoopEvents
      BY <1>1, <2>3, AppliedFields DEF s
    <3>2. /\ d.current_state = s
          /\ d.last_raw_wayne_status = Or(o.raw, c.last_raw_wayne_status)
          /\ d.last_source_frame_hex = Or(o.frame, c.last_source_frame_hex)
          /\ d.completed_evidence_keys = c.completed_evidence_keys
      BY <1>1, <3>1, NoopFields DEF s
    <3>3. After(s, r) = s
      BY <1>4, <3>1 DEF Onward
    <3>4. s # "DISCOVERING"
      BY <1>4, <3>1 DEF SameStateNoopEvents, Scripted
    <3>5. /\ s = "AUTHORIZED" => e = "AUTHORIZATION_CONFIRMED"
          /\ s = "SUSPENDED" => e = "SUSPENDED_OBSERVED"
      BY <3>1 DEF SameStateNoopEvents
    <3>6. IsReadRight(d)
      BY <1>4, <1>b, <1>c, <3>2, <3>5 DEF IsReadRight, Or
    <3>7. IsSettled(d)
      <4>1. d.last_source_frame_hex = frame
        BY <1>1, <3>2 DEF Or
      <4> QED  BY <3>2, <3>3, <4>1 DEF IsSettled
    <3>8. k = keys
      BY <2>3
    <3> QED  BY <1>3, <1>9, <1>d, <3>2, <3>3, <3>4, <3>6, <3>7, <3>8 DEF IsFollowing, s
  <2>4. CASE Outcome(c, o) \notin {"transition_applied", "same_state_noop"}
    <3>1. d = c
      BY <1>7, <2>4
    <3>2. IsUnconfirmedFilling(c, o) \/ ~HasTransition(s, e)
      BY <1>1, <1>6, <1>9, <2>1, <2>4 DEF Outcome, IsStale, s
    <3>3. After(s, r) = s
      BY <1>1, <1>4, <3>2 DEF Onward, IsUnconfirmedFilling, s
    <3>4. k = keys
      BY <2>4
    <3> QED  BY <1>3, <3>1, <3>3, <3>4 DEF IsFollowing, s
  <2> QED  BY <2>2, <2>3, <2>4
<1> QED  BY <1>8, <1>9

-----------------------------------------------------------------------------
(* The reports under way. *)

LEMMA AfterIs ==
  ASSUME NEW s
  PROVE  /\ After(s, DC1(ResetStatus)) =
              IF s \in {"DISCOVERING", "READY", "LIMIT_REACHED", "FILLING_COMPLETE"}
              THEN "RESET" ELSE s
         /\ After(s, DC1(Authorized)) = IF s = "NOZZLE_UP" THEN "AUTHORIZED" ELSE s
         /\ After(s, DC1(Filling)) = IF s \in {"AUTHORIZED", "SUSPENDED"} THEN "FILLING" ELSE s
         /\ After(s, DC1(Suspended)) = IF s = "FILLING" THEN "SUSPENDED" ELSE s
         /\ After(s, DC1(MaxReached)) =
              IF s \in {"FILLING", "SUSPENDED"} THEN "LIMIT_REACHED" ELSE s
         /\ After(s, DC1(FillingCompleted)) =
              IF s \in {"FILLING", "SUSPENDED", "LIMIT_REACHED"} THEN "FILLING_COMPLETE" ELSE s
         /\ After(s, Lifted) = IF s = "READY" THEN "NOZZLE_UP" ELSE s
         /\ After(s, Holstered) =
              IF s \in {"NOZZLE_UP", "AUTHORIZED", "DISCOVERING", "RESET"} THEN "READY" ELSE s
         /\ \A v \in Nat : After(s, DC2(v)) = s
<1>1. After(s, DC1(ResetStatus)) =
        IF s \in {"DISCOVERING", "READY", "LIMIT_REACHED", "FILLING_COMPLETE"} THEN "RESET" ELSE s
  BY ReportsDiffer, StatusesDiffer DEF After
<1>2. After(s, DC1(Authorized)) = IF s = "NOZZLE_UP" THEN "AUTHORIZED" ELSE s
  BY ReportsDiffer, StatusesDiffer DEF After
<1>3. After(s, DC1(Filling)) = IF s \in {"AUTHORIZED", "SUSPENDED"} THEN "FILLING" ELSE s
  BY ReportsDiffer, StatusesDiffer DEF After
<1>4. After(s, DC1(Suspended)) = IF s = "FILLING" THEN "SUSPENDED" ELSE s
  BY ReportsDiffer, StatusesDiffer DEF After
<1>5. After(s, DC1(MaxReached)) = IF s \in {"FILLING", "SUSPENDED"} THEN "LIMIT_REACHED" ELSE s
  BY ReportsDiffer, StatusesDiffer DEF After
<1>6. After(s, DC1(FillingCompleted)) =
        IF s \in {"FILLING", "SUSPENDED", "LIMIT_REACHED"} THEN "FILLING_COMPLETE" ELSE s
  BY ReportsDiffer, StatusesDiffer DEF After
<1>7. After(s, Lifted) = IF s = "READY" THEN "NOZZLE_UP" ELSE s
  BY ReportsDiffer DEF After
<1>8. After(s, Holstered) =
        IF s \in {"NOZZLE_UP", "AUTHORIZED", "DISCOVERING", "RESET"} THEN "READY" ELSE s
  BY ReportsDiffer DEF After
<1>9. ASSUME NEW v \in Nat  PROVE After(s, DC2(v)) = s
  <2>1. DC2(v).type # "DC1" /\ DC2(v).type # "DC3"
    BY ReportKinds
  <2>2. (\A a : DC2(v) # DC1(a)) /\ DC2(v) # Lifted /\ DC2(v) # Holstered
    BY <2>1, ReportKinds
  <2> QED  BY <2>2 DEF After
<1> QED  BY <1>1, <1>2, <1>3, <1>4, <1>5, <1>6, <1>7, <1>8, <1>9

\* How a report may be lost: not at all, as a completion taken for a repeated one, or
\* in an outage.
Modes == {"clean", "lossy", "broken"}

May(m, s, r, t) ==
  \/ t = After(s, r)
  \/ m = "lossy" /\ r = DC1(FillingCompleted) /\ t = s
  \/ m = "broken" /\ t \in {After("DISCOVERING", r), "DISCOVERING"}

\* Where the reports under way may take the machine: a trace has a state before, between
\* and after them.
IsTrace(tr, m, p) == \A i \in 1..Len(p) : May(m, tr[i - 1], p[i], tr[i])

Ends(m, S, p, V) == \A tr : IsTrace(tr, m, p) /\ tr[0] \in S => tr[Len(p)] \in V

LEMMA NoReportsEnd ==
  ASSUME NEW m, NEW S, NEW V
  PROVE  Ends(m, S, <<>>, V) <=> S \subseteq V
<1>1. ASSUME Ends(m, S, <<>>, V), NEW s \in S  PROVE s \in V
  <2> DEFINE tr == [i \in {0} |-> s]
  <2>1. IsTrace(tr, m, <<>>) /\ tr[0] = s /\ Len(<<>>) = 0
    BY DEF IsTrace
  <2> HIDE DEF tr
  <2> QED  BY <1>1, <2>1 DEF Ends
<1>2. Len(<<>>) = 0
  OBVIOUS
<1> QED  BY <1>1, <1>2 DEF Ends

\* The first report is delivered.
LEMMA TailEnds ==
  ASSUME NEW m, NEW S, NEW V, NEW X, NEW p \in Seq(X), p # <<>>, Ends(m, S, p, V),
         NEW T, \A t \in T : \E s \in S : May(m, s, p[1], t)
  PROVE  Ends(m, T, Tail(p), V)
<1> SUFFICES ASSUME NEW tr, IsTrace(tr, m, Tail(p)), tr[0] \in T
             PROVE  tr[Len(Tail(p))] \in V
  BY DEF Ends
<1>1. PICK s \in S : May(m, s, p[1], tr[0])
  OBVIOUS
<1>2. /\ Len(p) \in Nat /\ Len(p) >= 1 /\ Len(Tail(p)) = Len(p) - 1
      /\ \A i \in 1..(Len(p) - 1) : Tail(p)[i] = p[i + 1]
  OBVIOUS
<1> DEFINE n == Len(p)
           tq == [i \in 0..n |-> IF i = 0 THEN s ELSE tr[i - 1]]
<1>3. /\ tq[0] = s
      /\ \A i \in 1..n : tq[i] = tr[i - 1]
      /\ tq[n] = tr[n - 1]
  BY <1>2
<1>4. ASSUME NEW i \in 1..n  PROVE May(m, tq[i - 1], p[i], tq[i])
  <2>1. CASE i = 1
    <3>1. tq[i - 1] = s /\ tq[i] = tr[0] /\ p[i] = p[1]
      BY <2>1, <1>3
    <3> QED  BY <1>1, <3>1
  <2>2. CASE i # 1
    <3>1. i - 1 \in 1..(n - 1) /\ i - 1 \in 1..n /\ (i - 1) + 1 = i
      BY <1>2, <2>2
    <3>2. tq[i - 1] = tr[(i - 1) - 1] /\ tq[i] = tr[i - 1] /\ p[i] = Tail(p)[i - 1]
      BY <1>2, <1>3, <3>1
    <3>3. May(m, tr[(i - 1) - 1], Tail(p)[i - 1], tr[i - 1])
      BY <1>2, <3>1 DEF IsTrace
    <3> QED  BY <3>2, <3>3
  <2> QED  BY <2>1, <2>2
<1> HIDE DEF tq
<1>5. IsTrace(tq, m, p)
  BY <1>4 DEF IsTrace
<1> QED  BY <1>2, <1>3, <1>5 DEF Ends

\* The dispenser reports once more.
LEMMA AppendEnds ==
  ASSUME NEW m, NEW S, NEW V, NEW X, NEW p \in Seq(X), Ends(m, S, p, V),
         NEW r \in X, NEW W, \A v \in V : \A t : May(m, v, r, t) => t \in W
  PROVE  Ends(m, S, Append(p, r), W)
<1> SUFFICES ASSUME NEW tr, IsTrace(tr, m, Append(p, r)), tr[0] \in S
             PROVE  tr[Len(Append(p, r))] \in W
  BY DEF Ends
<1>1. /\ Len(p) \in Nat /\ Len(Append(p, r)) = Len(p) + 1
      /\ \A i \in 1..Len(p) : Append(p, r)[i] = p[i]
      /\ Append(p, r)[Len(p) + 1] = r
  OBVIOUS
<1>2. IsTrace(tr, m, p)
  <2>1. ASSUME NEW i \in 1..Len(p)  PROVE May(m, tr[i - 1], p[i], tr[i])
    <3>1. i \in 1..Len(Append(p, r)) /\ Append(p, r)[i] = p[i]
      BY <1>1
    <3> QED  BY <3>1 DEF IsTrace
  <2> QED  BY <2>1 DEF IsTrace
<1>3. tr[Len(p)] \in V
  BY <1>2 DEF Ends
<1>4. May(m, tr[Len(p)], r, tr[Len(p) + 1])
  <2>1. Len(p) + 1 \in 1..Len(Append(p, r)) /\ (Len(p) + 1) - 1 = Len(p)
    BY <1>1
  <2> QED  BY <1>1, <2>1 DEF IsTrace
<1> QED  BY <1>1, <1>3, <1>4

LEMMA StartEnds ==
  ASSUME NEW m, NEW S, NEW T \in SUBSET S, NEW p, NEW V, Ends(m, S, p, V)
  PROVE  Ends(m, T, p, V)
BY DEF Ends

\* The states a pump in a phase is taken to be in when its reports have arrived.
Views(m, phase) ==
  IF m = "clean" THEN {StateOf(phase)}
  ELSE IF m = "lossy"
  THEN IF phase = "ready" THEN {"READY", "FILLING", "SUSPENDED"}
       ELSE IF phase = "lifted" THEN {"NOZZLE_UP", "FILLING", "SUSPENDED"}
       ELSE IF phase = "authorized" THEN {"AUTHORIZED", "FILLING", "SUSPENDED"}
       ELSE IF phase = "complete"
       THEN {"FILLING_COMPLETE", "FILLING", "SUSPENDED", "LIMIT_REACHED"}
       ELSE {StateOf(phase)}
  ELSE IF phase = "ready" THEN {"READY", "DISCOVERING"}
  ELSE {StateOf(phase), "DISCOVERING", "RESET"}

Phases == {"ready", "lifted", "authorized", "filling", "paused", "limit", "complete"}

\* One report takes every view in V to one in W.
Takes(m, V, r, W) == \A v \in V : \A t : May(m, v, r, t) => t \in W

LEMMA PhaseStates ==
  /\ StateOf("ready") = "READY" /\ StateOf("lifted") = "NOZZLE_UP"
  /\ StateOf("authorized") = "AUTHORIZED" /\ StateOf("filling") = "FILLING"
  /\ StateOf("paused") = "SUSPENDED" /\ StateOf("limit") = "LIMIT_REACHED"
  /\ StateOf("complete") = "FILLING_COMPLETE"
BY DEF StateOf

LEMMA CompletionDiffers ==
  /\ DC1(FillingCompleted) \notin {DC1(ResetStatus), DC1(Authorized), DC1(Filling),
                                   DC1(Suspended), DC1(MaxReached), Lifted, Holstered}
  /\ \A v : DC1(FillingCompleted) # DC2(v)
<1>1. \A v : DC2(v).type # DC1(FillingCompleted).type
  BY ReportKinds
<1>2. \A v : DC1(FillingCompleted) # DC2(v)
  BY <1>1
<1> QED  BY <1>2, ReportsDiffer, StatusesDiffer

\* The changes the script reports with one transaction.
LEMMA LiftTaken ==
  ASSUME NEW m \in Modes  PROVE Takes(m, Views(m, "ready"), Lifted, Views(m, "lifted"))
BY AfterIs, PhaseStates, CompletionDiffers DEF Takes, May, Views, Modes

LEMMA ReturnTaken ==
  ASSUME NEW m \in Modes  PROVE Takes(m, Views(m, "lifted"), Holstered, Views(m, "ready"))
BY AfterIs, PhaseStates, CompletionDiffers DEF Takes, May, Views, Modes

LEMMA AuthorizationTaken ==
  ASSUME NEW m \in Modes
  PROVE  Takes(m, Views(m, "lifted"), DC1(Authorized), Views(m, "authorized"))
BY AfterIs, PhaseStates, CompletionDiffers DEF Takes, May, Views, Modes

LEMMA FillingTaken ==
  ASSUME NEW m \in Modes, NEW from \in {"authorized", "paused"}
  PROVE  Takes(m, Views(m, from), DC1(Filling), Views(m, "filling"))
BY AfterIs, PhaseStates, CompletionDiffers DEF Takes, May, Views, Modes

LEMMA PauseTaken ==
  ASSUME NEW m \in Modes
  PROVE  Takes(m, Views(m, "filling"), DC1(Suspended), Views(m, "paused"))
BY AfterIs, PhaseStates, CompletionDiffers DEF Takes, May, Views, Modes

LEMMA LimitTaken ==
  ASSUME NEW m \in Modes
  PROVE  Takes(m, Views(m, "filling"), DC1(MaxReached), Views(m, "limit"))
BY AfterIs, PhaseStates, CompletionDiffers DEF Takes, May, Views, Modes

LEMMA CompletionTaken ==
  ASSUME NEW m \in Modes, NEW from \in {"filling", "paused", "limit"}
  PROVE  Takes(m, Views(m, from), DC1(FillingCompleted), Views(m, "complete"))
BY AfterIs, PhaseStates DEF Takes, May, Views, Modes

LEMMA VolumeTaken ==
  ASSUME NEW m \in Modes, NEW v \in Nat
  PROVE  Takes(m, Views(m, "filling"), DC2(v), Views(m, "filling"))
BY AfterIs, PhaseStates, CompletionDiffers DEF Takes, May, Views, Modes

LEMMA AppendTwoEnds ==
  ASSUME NEW m, NEW S, NEW V, NEW X, NEW p \in Seq(X), Ends(m, S, p, V),
         NEW a \in X, NEW b \in X, NEW W,
         \A v \in V : \A t, u : May(m, v, a, t) /\ May(m, t, b, u) => u \in W
  PROVE  Ends(m, S, Append(Append(p, a), b), W)
<1> DEFINE U == {t \in {After(v, a) : v \in V} \union V
                        \union {After("DISCOVERING", a), "DISCOVERING"} :
                   \E v \in V : May(m, v, a, t)}
<1>1. \A v \in V : \A t : May(m, v, a, t) => t \in U
  BY DEF May
<1>2. Ends(m, S, Append(p, a), U)
  <2> HIDE DEF U
  <2> QED  BY <1>1, AppendEnds
<1>3. \A t \in U : \A u : May(m, t, b, u) => u \in W
  OBVIOUS
<1>4. Append(p, a) \in Seq(X)
  OBVIOUS
<1> HIDE DEF U
<1> QED  BY <1>2, <1>3, <1>4, AppendEnds

\* The reports of a sale's end, and those that answer a status request.
TakesBoth(m, V, a, b, W) ==
  \A v \in V : \A t, u : May(m, v, a, t) /\ May(m, t, b, u) => u \in W

LEMMA EndTaken ==
  ASSUME NEW m \in Modes
  PROVE  TakesBoth(m, Views(m, "complete"), DC1(ResetStatus), Holstered, Views(m, "ready"))
BY AfterIs, PhaseStates, CompletionDiffers DEF TakesBoth, May, Views, Modes

LEMMA ReadyTaken ==
  ASSUME NEW m \in Modes
  PROVE  /\ TakesBoth(m, Views(m, "ready"), DC1(ResetStatus), Holstered, Views(m, "ready"))
         /\ TakesBoth(m, {"DISCOVERING"}, DC1(ResetStatus), Holstered, Views(m, "ready"))
BY AfterIs, PhaseStates, CompletionDiffers DEF TakesBoth, May, Views, Modes

LEMMA LiftedTaken ==
  ASSUME NEW m \in Modes
  PROVE  TakesBoth(m, Views(m, "lifted"), DC1(ResetStatus), Lifted, Views(m, "lifted"))
BY AfterIs, PhaseStates, CompletionDiffers DEF TakesBoth, May, Views, Modes

StatusOf(phase) ==
  IF phase = "authorized" THEN DC1(Authorized)
  ELSE IF phase = "filling" THEN DC1(Filling)
  ELSE IF phase = "paused" THEN DC1(Suspended)
  ELSE IF phase = "limit" THEN DC1(MaxReached)
  ELSE DC1(FillingCompleted)

LEMMA SaleTaken ==
  ASSUME NEW m \in Modes, NEW phase \in {"authorized", "filling", "paused", "limit", "complete"}
  PROVE  TakesBoth(m, Views(m, phase), StatusOf(phase), Lifted, Views(m, phase))
<1>1. CASE phase = "authorized"
  BY <1>1, AfterIs, PhaseStates, CompletionDiffers DEF TakesBoth, May, Views, Modes, StatusOf
<1>2. CASE phase = "filling"
  BY <1>2, AfterIs, PhaseStates, CompletionDiffers DEF TakesBoth, May, Views, Modes, StatusOf
<1>3. CASE phase = "paused"
  BY <1>3, AfterIs, PhaseStates, CompletionDiffers DEF TakesBoth, May, Views, Modes, StatusOf
<1>4. CASE phase = "limit"
  BY <1>4, AfterIs, PhaseStates, CompletionDiffers DEF TakesBoth, May, Views, Modes, StatusOf
<1>5. CASE phase = "complete"
  BY <1>5, AfterIs, PhaseStates, CompletionDiffers DEF TakesBoth, May, Views, Modes, StatusOf
<1> QED  BY <1>1, <1>2, <1>3, <1>4, <1>5

LEMMA CurrentTaken ==
  ASSUME NEW m \in Modes, NEW phase \in Phases
  PROVE  \E a, b \in StatusReport :
           /\ Current(phase) = <<a, b>>
           /\ TakesBoth(m, Views(m, phase), a, b, Views(m, phase))
<1>1. CASE phase = "ready"
  BY <1>1, ReadyTaken DEF Current, StatusReport
<1>2. CASE phase = "lifted"
  BY <1>2, LiftedTaken DEF Current, StatusReport
<1>3. CASE phase \in {"authorized", "filling", "paused", "limit", "complete"}
  <2>1. Current(phase) = <<StatusOf(phase), Lifted>> /\ StatusOf(phase) \in StatusReport
    BY <1>3 DEF Current, StatusOf, StatusReport
  <2> QED  BY <1>3, <2>1, SaleTaken DEF StatusReport
<1> QED  BY <1>1, <1>2, <1>3 DEF Phases

\* A step of the script, or a volume, goes from the views of a phase to those of the next.
LEMMA ScriptTaken ==
  ASSUME NEW m \in Modes, NEW step \in Script
  PROVE  /\ step[1] \in Phases /\ step[2] \in Phases
         /\ \/ \E r \in StatusReport :
                 step[3] = <<r>> /\ Takes(m, Views(m, step[1]), r, Views(m, step[2]))
            \/ \E a, b \in StatusReport :
                 /\ step[3] = <<a, b>>
                 /\ TakesBoth(m, Views(m, step[1]), a, b, Views(m, step[2]))
<1>1. \/ step \in {<<"ready", "lifted", <<Lifted>>>>, <<"lifted", "ready", <<Holstered>>>>,
                   <<"lifted", "authorized", <<DC1(Authorized)>>>>}
      \/ step \in {<<"authorized", "filling", <<DC1(Filling)>>>>,
                   <<"filling", "paused", <<DC1(Suspended)>>>>,
                   <<"paused", "filling", <<DC1(Filling)>>>>}
      \/ step = <<"filling", "limit", <<DC1(MaxReached)>>>>
      \/ step \in {<<"filling", "complete", <<DC1(FillingCompleted)>>>>,
                   <<"paused", "complete", <<DC1(FillingCompleted)>>>>,
                   <<"limit", "complete", <<DC1(FillingCompleted)>>>>}
      \/ step = <<"complete", "ready", <<DC1(ResetStatus), Holstered>>>>
  BY DEF Script
<1>2. CASE step \in {<<"ready", "lifted", <<Lifted>>>>, <<"lifted", "ready", <<Holstered>>>>,
                     <<"lifted", "authorized", <<DC1(Authorized)>>>>}
  BY <1>2, LiftTaken, ReturnTaken, AuthorizationTaken DEF Phases, StatusReport
<1>3. CASE step \in {<<"authorized", "filling", <<DC1(Filling)>>>>,
                     <<"filling", "paused", <<DC1(Suspended)>>>>,
                     <<"paused", "filling", <<DC1(Filling)>>>>}
  BY <1>3, FillingTaken, PauseTaken DEF Phases, StatusReport
<1>4. CASE step = <<"filling", "limit", <<DC1(MaxReached)>>>>
  BY <1>4, LimitTaken DEF Phases, StatusReport
<1>5. CASE step \in {<<"filling", "complete", <<DC1(FillingCompleted)>>>>,
                     <<"paused", "complete", <<DC1(FillingCompleted)>>>>,
                     <<"limit", "complete", <<DC1(FillingCompleted)>>>>}
  BY <1>5, CompletionTaken DEF Phases, StatusReport
<1>6. CASE step = <<"complete", "ready", <<DC1(ResetStatus), Holstered>>>>
  BY <1>6, EndTaken DEF Phases, StatusReport
<1> QED  BY <1>1, <1>2, <1>3, <1>4, <1>5, <1>6

-----------------------------------------------------------------------------
(* A frame of any number of reports. *)

EndReport == {DC1(FillingCompleted), DC1(MaxReached)}

LEMMA EndEvents ==
  ASSUME NEW c, NEW r \in DispenserReport,
         ReportEvent(r, c) \in {"FILLING_COMPLETED", "LIMIT_REACHED"}
  PROVE  r \in EndReport
<1>1. CASE r \in {DC1(ResetStatus), DC1(Authorized), DC1(Filling), DC1(Suspended)}
  <2>1. PICK status : r = DC1(status) /\ ReportEvent(r, c) = StatusEvent(status, c)
                        /\ status \in {ResetStatus, Authorized, Filling, Suspended}
    BY <1>1, ReportKinds DEF ReportEvent
  <2>2. StatusEvent(status, c) \in {"RESET_OBSERVED", "AUTHORIZATION_CONFIRMED",
                                    "SUSPENDED_OBSERVED", FillingEvent(c)}
    BY <2>1, StatusEventIs
  <2>3. FillingEvent(c) \in {"FILLING_STARTED", "FILLING_UPDATED", "RESUMED_OBSERVED"}
    BY DEF FillingEvent
  <2> QED  BY <2>1, <2>2, <2>3
<1>2. CASE r \in {Lifted, Holstered} \union VolumeReport
  <2>1. r.type = "DC2" \/ r.type = "DC3"
    BY <1>2, ReportKinds DEF VolumeReport
  <2> QED  BY <2>1 DEF ReportEvent, NozzleEvent
<1> QED  BY <1>1, <1>2 DEF DispenserReport, StatusReport, EndReport

LEMMA EndTargets ==
  ASSUME NEW s, NEW e, NEW t, Leads(s, e, t), t \in SaleEnds
  PROVE  e \in {"FILLING_COMPLETED", "LIMIT_REACHED"}
BY DEF Leads, TransitionTable, SaleEnds

\* Only a completion and a limit end a sale.
LEMMA ReportEnds ==
  ASSUME NEW c, IsContext(c), NEW r \in DispenserReport, NEW frame,
         NEW d, d = Apply(c, Mapped(r, frame, c)),
         d.current_state # c.current_state, d.current_state \in SaleEnds
  PROVE  r \in EndReport
<1> DEFINE o == Mapped(r, frame, c)
<1>1. o.at = None /\ o.event = ReportEvent(r, c)
  BY MappedFields
<1> HIDE DEF o
<1>2. d = Apply(c, o)
  BY DEF o
<1>3. Leads(c.current_state, o.event, d.current_state)
  BY <1>1, <1>2, StateApplied
<1> QED  BY <1>1, <1>3, EndTargets, EndEvents

LEMMA OneReportTaken ==
  ASSUME NEW s, IsSession(s), NEW r \in DispenserReport, NEW frame,
         NEW t, t = TakeReport(s, r, frame)
  PROVE  IsSession(t) /\ (TellOfEnd(t.events) => TellOfEnd(s.events) \/ r \in EndReport)
<1>1. /\ IsSession(t) /\ t.ctx \in {s.ctx, Apply(s.ctx, Mapped(r, frame, s.ctx))}
      /\ TellOfEnd(t.events) =>
           \/ TellOfEnd(s.events)
           \/ t.ctx.current_state # s.ctx.current_state /\ t.ctx.current_state \in SaleEnds
  BY TakeReportFields
<1>2. IsContext(s.ctx)
  BY DEF IsSession
<1> QED  BY <1>1, <1>2, ReportEnds

LEMMA FrameTaken ==
  ASSUME NEW s, IsSession(s), NEW frame, Len(frame[2]) \in Nat,
         \A i \in 1..Len(frame[2]) : frame[2][i] \in DispenserReport,
         NEW t, t = TakeFrame(s, frame)
  PROVE  /\ IsSession(t)
         /\ TellOfEnd(t.events) =>
              TellOfEnd(s.events) \/ \E i \in 1..Len(frame[2]) : frame[2][i] \in EndReport
<1> DEFINE n == Len(frame[2])
           Ended == TellOfEnd(s.events) \/ \E i \in 1..Len(frame[2]) : frame[2][i] \in EndReport
<1>1. PICK g : IsRun(g, s, frame, n) /\ t = g[n]
  BY TakeFrameRuns
<1>2. /\ g[0] = Answered(s)
      /\ \A i \in 1..n : g[i] = TakeReport(g[i - 1], frame[2][i], frame)
  <2> HIDE DEF n
  <2>1. n \in Nat
    BY DEF n
  <2>2. g = [i \in 0..n |-> IF i = 0 THEN Answered(s)
                            ELSE TakeReport(g[i - 1], frame[2][i], frame)]
    BY <1>1 DEF IsRun
  <2>3. \A i \in 0..n : g[i] = IF i = 0 THEN Answered(s)
                               ELSE TakeReport(g[i - 1], frame[2][i], frame)
    BY <2>2, Zenon
  <2> QED  BY <2>1, <2>3
<1> DEFINE T == {i \in 0..n : IsSession(g[i]) /\ (TellOfEnd(g[i].events) => Ended)}
<1>3. 0 \in T
  BY <1>2, AnsweredFields
<1>4. ASSUME NEW i \in Nat, i < n, i \in T  PROVE i + 1 \in T
  <2>1. i + 1 \in 1..n /\ (i + 1) - 1 = i
    BY <1>4
  <2>2. g[i + 1] = TakeReport(g[i], frame[2][i + 1], frame)
    BY <1>2, <2>1
  <2>3. /\ IsSession(g[i + 1])
        /\ TellOfEnd(g[i + 1].events) => TellOfEnd(g[i].events) \/ frame[2][i + 1] \in EndReport
    BY <1>4, <2>1, <2>2, OneReportTaken
  <2> QED  BY <1>4, <2>1, <2>3
<1>5. 0..n \subseteq T
  <2> HIDE DEF T
  <2> QED  BY <1>3, <1>4, UpTo
<1> QED  BY <1>1, <1>5

-----------------------------------------------------------------------------
(* The dispenser and its controller. *)

DispenserTypes ==
  /\ dispenser \in [phase : Phases, started : Nat, finished : Nat, volume : Nat]
  /\ pending \in Seq(DispenserReport)
  /\ seq \in 0..MaxSeq /\ outages \in Nat
  /\ IsSession(session)

LEMMA ReportTypes == DispenserReport \subseteq Report
<1>1. \A a \in Nat : DC1(a) \in Report /\ DC2(a) \in Report
  BY DEF DC1, DC2, Report
<1>2. Lifted \in Report /\ Holstered \in Report
  BY DEF Lifted, Holstered, DC3, Report
<1> QED  BY <1>1, <1>2, StatusesDiffer DEF DispenserReport, StatusReport, VolumeReport

LEMMA StatesReached ==
  ASSUME NEW phase \in Phases
  PROVE  StateOf(phase) \in Reached
BY PhaseStates DEF Phases, Reached

LEMMA NoEvents == IsEvents(<<>>) /\ ~TellOfEnd(<<>>)
<1>1. <<>> \in Seq({}) /\ Len(<<>>) = 0
  OBVIOUS
<1> QED  BY <1>1 DEF IsEvents, TellOfEnd

LEMMA NewSessionFields ==
  /\ IsSession(NewSession) /\ NewSession.keys = {} /\ NewSession.events = <<>>
  /\ NewSession.ctx.current_state = "DISCONNECTED"
  /\ NewSession.ctx.last_source_frame_hex = None
  /\ NewSession.ctx.completed_evidence_keys = {}
<1>1. /\ IsContext(NewContext("DISCONNECTED", FALSE))
      /\ NewContext("DISCONNECTED", FALSE).current_state = "DISCONNECTED"
      /\ NewContext("DISCONNECTED", FALSE).last_source_frame_hex = None
      /\ NewContext("DISCONNECTED", FALSE).completed_evidence_keys = {}
  BY DEF NewContext, IsContext, ContextFields, PumpState
<1>2. IsEvents(<<>>)
  BY NoEvents
<1>3. /\ DOMAIN NewSession = {"ctx", "health", "keys", "events"}
      /\ NewSession = [f \in DOMAIN NewSession |-> NewSession[f]]
      /\ NewSession.ctx = NewContext("DISCONNECTED", FALSE)
      /\ NewSession.keys = {} /\ NewSession.events = <<>>
  BY DEF NewSession, SessionWith
<1> QED  BY <1>1, <1>2, <1>3 DEF IsSession

LEMMA SilencedFields ==
  ASSUME NEW s, IsSession(s)
  PROVE  /\ IsSession(Silenced(s)) /\ Silenced(s).ctx = s.ctx /\ Silenced(s).keys = s.keys
         /\ Silenced(s).health = s.health
         /\ Silenced(s).events = <<>> /\ ~TellOfEnd(Silenced(s).events)
<1>1. IsEvents(<<>>) /\ ~TellOfEnd(<<>>)
  BY NoEvents
<1>2. Silenced(s) = [s EXCEPT !.events = <<>>]
  BY DEF Silenced
<1>3. /\ DOMAIN Silenced(s) = DOMAIN s /\ Silenced(s).ctx = s.ctx
      /\ Silenced(s).keys = s.keys /\ Silenced(s).health = s.health
      /\ Silenced(s).events = <<>>
      /\ Silenced(s) = [f \in DOMAIN Silenced(s) |-> Silenced(s)[f]]
  BY <1>2 DEF IsSession
<1> QED  BY <1>1, <1>3 DEF IsSession

LEMMA DegradedFields ==
  ASSUME NEW s, IsSession(s)
  PROVE  /\ IsSession(Degraded(s)) /\ Degraded(s).ctx = s.ctx /\ Degraded(s).keys = s.keys
         /\ Degraded(s).health = "DEGRADED"
         /\ TellOfEnd(Degraded(s).events) => TellOfEnd(s.events)
BY CommunicationFields DEF Degraded

\* The dispenser's side of the types.
LEMMA ScriptReports ==
  ASSUME NEW step \in Script
  PROVE  step[1] \in Phases /\ step[2] \in Phases /\ step[3] \in Seq(DispenserReport)
<1>1. "clean" \in Modes
  BY DEF Modes
<1>2. step[1] \in Phases /\ step[2] \in Phases
      /\ ((\E r \in StatusReport : step[3] = <<r>>)
          \/ (\E a, b \in StatusReport : step[3] = <<a, b>>))
  BY <1>1, ScriptTaken
<1>3. StatusReport \subseteq DispenserReport
  BY DEF DispenserReport
<1>4. (\E r \in StatusReport : step[3] = <<r>>) => step[3] \in Seq(DispenserReport)
  BY <1>3
<1>5. (\E a, b \in StatusReport : step[3] = <<a, b>>) => step[3] \in Seq(DispenserReport)
  BY <1>3
<1> QED  BY <1>2, <1>4, <1>5

LEMMA CurrentReports ==
  ASSUME NEW phase \in Phases
  PROVE  Current(phase) \in Seq(DispenserReport)
<1>1. "clean" \in Modes
  BY DEF Modes
<1>2. PICK a, b \in StatusReport : Current(phase) = <<a, b>>
  BY <1>1, CurrentTaken
<1> QED  BY <1>2 DEF DispenserReport

LEMMA DispenserStepTypes ==
  ASSUME DispenserTypes, DispenserSteps
  PROVE  DispenserTypes' /\ dispenser'.finished >= dispenser.finished
<1>1. CASE DispenserMoves
  <2>1. PICK step \in Script :
          /\ dispenser' = [dispenser EXCEPT
                             !.phase = step[2],
                             !.started = IF Starts(step) THEN @ + 1 ELSE @,
                             !.volume = IF Starts(step) THEN 0 ELSE @,
                             !.finished = IF Finishes(step) THEN @ + 1 ELSE @]
          /\ Reports(step[3])
    BY <1>1 DEF DispenserMoves
  <2>2. dispenser' \in [phase : Phases, started : Nat, finished : Nat, volume : Nat]
        /\ dispenser'.finished >= dispenser.finished
    <3> DEFINE a == IF Starts(step) THEN dispenser.started + 1 ELSE dispenser.started
               v == IF Starts(step) THEN 0 ELSE dispenser.volume
               f == IF Finishes(step) THEN dispenser.finished + 1 ELSE dispenser.finished
    <3>1. step[2] \in Phases
      BY ScriptReports
    <3>2. a \in Nat /\ v \in Nat /\ f \in Nat /\ f >= dispenser.finished
      BY DEF DispenserTypes
    <3>3. dispenser' = [dispenser EXCEPT !.phase = step[2], !.started = a, !.volume = v,
                                         !.finished = f]
      BY <2>1
    <3> HIDE DEF a, v, f
    <3> QED  BY <3>1, <3>2, <3>3 DEF DispenserTypes
  <2>3. pending' = pending \o step[3] /\ step[3] \in Seq(DispenserReport)
    BY <2>1, ScriptReports DEF Reports
  <2>4. pending' \in Seq(DispenserReport)
    BY <2>3 DEF DispenserTypes
  <2> QED  BY <2>1, <2>2, <2>4 DEF DispenserTypes, Reports
<1>2. CASE FuelFlows
  <2>1. dispenser.volume + 1 \in Nat
    BY DEF DispenserTypes
  <2>2. <<DC2(dispenser.volume + 1)>> \in Seq(DispenserReport)
    BY <2>1 DEF DispenserReport, VolumeReport
  <2>3. pending' \in Seq(DispenserReport)
    BY <1>2, <2>2 DEF FuelFlows, Reports, DispenserTypes
  <2>4. dispenser' = [dispenser EXCEPT !.volume = dispenser.volume + 1]
    BY <1>2 DEF FuelFlows
  <2>5. /\ dispenser' \in [phase : Phases, started : Nat, finished : Nat, volume : Nat]
        /\ dispenser'.finished = dispenser.finished
    BY <2>1, <2>4 DEF DispenserTypes
  <2> QED  BY <1>2, <2>3, <2>5 DEF FuelFlows, Reports, DispenserTypes
<1>3. CASE ReportStatus
  <2>1. Current(dispenser.phase) \in Seq(DispenserReport)
    BY CurrentReports DEF DispenserTypes
  <2>2. pending' \in Seq(DispenserReport)
    BY <1>3, <2>1 DEF ReportStatus, Reports, DispenserTypes
  <2> QED  BY <1>3, <2>2 DEF ReportStatus, Reports, DispenserTypes
<1> QED  BY <1>1, <1>2, <1>3 DEF DispenserSteps

\* What a block of the pending reports is.
LEMMA BlockFields ==
  ASSUME NEW X, NEW p \in Seq(X), NEW n \in Nat, n <= Len(p)
  PROVE  /\ SubSeq(p, 1, n) \in Seq(X) /\ Len(SubSeq(p, 1, n)) = n
         /\ \A i \in 1..n : SubSeq(p, 1, n)[i] = p[i] /\ p[i] \in X
         /\ SubSeq(p, n + 1, Len(p)) \in Seq(X)
         /\ Len(SubSeq(p, n + 1, Len(p))) = Len(p) - n
         /\ \A i \in 1..(Len(p) - n) : SubSeq(p, n + 1, Len(p))[i] = p[n + i]
OBVIOUS

LEMMA DeliverTypes ==
  ASSUME DispenserTypes, DeliverFrame
  PROVE  /\ DispenserTypes'
         /\ TellOfEnd(session'.events) =>
              \E i \in 1..Len(pending) : pending[i] \in EndReport
<1>1. PICK n \in 1..MaxBlock :
        /\ n <= Len(pending)
        /\ session' = TakeFrame(Silenced(session), <<seq, SubSeq(pending, 1, n)>>)
        /\ pending' = SubSeq(pending, n + 1, Len(pending))
  BY DEF DeliverFrame
<1>2. n \in Nat
  BY DispenserAssumption
<1>3. pending \in Seq(DispenserReport) /\ IsSession(session)
  BY DEF DispenserTypes
<1> DEFINE b == SubSeq(pending, 1, n)
<1>4. /\ b \in Seq(DispenserReport) /\ Len(b) = n
      /\ \A i \in 1..n : b[i] = pending[i] /\ pending[i] \in DispenserReport
      /\ pending' \in Seq(DispenserReport)
  BY <1>1, <1>2, <1>3, BlockFields
<1> HIDE DEF b
<1> DEFINE frame == <<seq, b>>
<1>5. frame[2] = b
  OBVIOUS
<1>6. session' = TakeFrame(Silenced(session), frame)
  BY <1>1 DEF b
<1> HIDE DEF frame
<1>7. IsSession(Silenced(session)) /\ ~TellOfEnd(Silenced(session).events)
  BY <1>3, SilencedFields
<1>8. PICK t : t = session'
  OBVIOUS
<1>9. /\ IsSession(t)
      /\ TellOfEnd(t.events) => \E i \in 1..n : b[i] \in EndReport
  <2>1. Len(frame[2]) \in Nat /\ \A i \in 1..Len(frame[2]) : frame[2][i] \in DispenserReport
    BY <1>2, <1>4, <1>5
  <2>2. t = TakeFrame(Silenced(session), frame)
    BY <1>6, <1>8
  <2>3. /\ IsSession(t)
        /\ TellOfEnd(t.events) =>
             TellOfEnd(Silenced(session).events)
             \/ \E i \in 1..Len(frame[2]) : frame[2][i] \in EndReport
    BY <1>7, <2>1, <2>2, FrameTaken
  <2> QED  BY <1>4, <1>5, <1>7, <2>3
<1>10. IsSession(session)'
  BY <1>8, <1>9 DEF IsSession, IsContext, IsEvents, IsNews
<1>11. seq' \in 0..MaxSeq
  BY DispenserAssumption DEF DeliverFrame, NextTx, DispenserTypes
<1>12. UNCHANGED <<dispenser, outages>>
  BY DEF DeliverFrame, ControllerStep
<1>13. TellOfEnd(session'.events) => \E i \in 1..Len(pending) : pending[i] \in EndReport
  <2>1. \A i \in 1..n : i \in 1..Len(pending)
    BY <1>1, <1>2, <1>3
  <2> QED  BY <1>4, <1>8, <1>9, <2>1
<1> QED  BY <1>4, <1>10, <1>11, <1>12, <1>13 DEF DispenserTypes

\* The other steps of the controller tell of no sale's end.
LEMMA SilenceTypes ==
  ASSUME DispenserTypes, DeliverNothing \/ Blip \/ Outage
  PROVE  DispenserTypes' /\ ~TellOfEnd(session'.events)
<1> DEFINE q == Silenced(session)
<1>1. IsSession(q) /\ ~TellOfEnd(q.events)
  BY SilencedFields DEF DispenserTypes
<1>2. PICK t : t = session'
  OBVIOUS
<1>3. t = Answered(q) \/ t = Degraded(q) \/ t = GivenUp(Degraded(q))
  BY <1>2 DEF DeliverNothing, Blip, Outage
<1> HIDE DEF q
<1>4. IsSession(t) /\ ~TellOfEnd(t.events)
  <2>1. CASE t = Answered(q)
    BY <1>1, <2>1, AnsweredFields
  <2>2. CASE t = Degraded(q)
    BY <1>1, <2>2, DegradedFields
  <2>3. CASE t = GivenUp(Degraded(q))
    <3>1. IsSession(Degraded(q)) /\ ~TellOfEnd(Degraded(q).events)
      BY <1>1, DegradedFields
    <3> QED  BY <2>3, <3>1, GivenUpFields
  <2> QED  BY <1>3, <2>1, <2>2, <2>3
<1>5. UNCHANGED <<dispenser, pending, seq>> /\ outages' \in Nat
  BY DEF DeliverNothing, Blip, Outage, ControllerStep, DispenserTypes
<1>6. IsSession(session)'
  BY <1>2, <1>4 DEF IsSession, IsContext, IsEvents, IsNews
<1> QED  BY <1>2, <1>4, <1>5, <1>6 DEF DispenserTypes

LEMMA DispenserInitTypes == DispenserInit => DispenserTypes
<1> SUFFICES ASSUME DispenserInit  PROVE DispenserTypes
  OBVIOUS
<1>1. "ready" \in Phases
  BY DEF Phases
<1>2. IsSession(session)
  BY NewSessionFields DEF DispenserInit
<1>3. pending \in Seq(DispenserReport)
  BY <1>1, CurrentReports DEF DispenserInit
<1>4. dispenser \in [phase : Phases, started : Nat, finished : Nat, volume : Nat]
  BY <1>1 DEF DispenserInit
<1> QED  BY <1>2, <1>3, <1>4, DispenserAssumption DEF DispenserInit, DispenserTypes

-----------------------------------------------------------------------------
(* The reports of a DATA frame. *)

\* The state in which the machine reads its next report.
Start(s) == IF s = "DISCONNECTED" THEN "DISCOVERING" ELSE s

LEMMA AnsweredFollows ==
  ASSUME NEW s, IsSession(s), IsFollowing(s.ctx, s.keys)
  PROVE  /\ IsFollowing(Answered(s).ctx, Answered(s).keys)
         /\ Answered(s).ctx.current_state = Start(s.ctx.current_state)
<1>1. /\ Answered(s).keys = s.keys
      /\ Answered(s).ctx.current_state = Start(s.ctx.current_state)
      /\ Answered(s).ctx.last_raw_wayne_status = s.ctx.last_raw_wayne_status
      /\ Answered(s).ctx.last_source_frame_hex = s.ctx.last_source_frame_hex
      /\ Answered(s).ctx.completed_evidence_keys = s.ctx.completed_evidence_keys
  BY AnsweredFields DEF Start
<1> QED  BY <1>1 DEF IsFollowing, IsReadRight, IsSettled, Start, Reached

\* The session t while it takes the reports of a frame in turn, having been s before.
IsTaking(s, frame, t) ==
  /\ IsSession(t) /\ IsFollowing(t.ctx, t.keys)
  /\ t.ctx.current_state # "DISCONNECTED"
  /\ t.ctx.current_state = "DISCOVERING" =>
       /\ s.ctx.current_state \in {"DISCONNECTED", "DISCOVERING"}
       /\ t.ctx.last_source_frame_hex = s.ctx.last_source_frame_hex
  /\ CompletionKey(frame) \in t.keys =>
       \/ CompletionKey(frame) \in s.keys
       \/ /\ t.ctx.last_source_frame_hex = frame
          /\ After(t.ctx.current_state, DC1(FillingCompleted)) = t.ctx.current_state

\* A report of the frame takes the machine of a to that of t: where it leads, unless it
\* is a completion taken for a repeated one, or it, or the frame, is taken for a duplicate.
Follows(s, a, r, frame, t) ==
  \/ t.ctx.current_state = After(a.ctx.current_state, r)
  \/ /\ r = DC1(FillingCompleted) /\ CompletionKey(frame) \in s.keys
     /\ t.ctx.current_state = a.ctx.current_state
  \/ /\ Len(frame[2]) # 1
     /\ IsDuplicateFrame(a.ctx, Mapped(r, frame, a.ctx)) /\ ChangesState(r, a.ctx)
  \/ /\ a.ctx.current_state = "DISCOVERING" /\ t.ctx.current_state = "DISCOVERING"
     /\ a.ctx.last_source_frame_hex # None

LEMMA OneDelivered ==
  ASSUME NEW s, NEW q, NEW b, NEW frame, frame = <<q, b>>, frame # None,
         None \notin {"complete"} \X {frame},
         NEW a, IsTaking(s, frame, a),
         NEW r \in DispenserReport, Len(b) = 1 => b[1] = r,
         NEW t, t = TakeReport(a, r, frame)
  PROVE  IsTaking(s, frame, t) /\ Follows(s, a, r, frame, t)
<1>1. /\ IsSession(a) /\ IsFollowing(a.ctx, a.keys) /\ IsContext(a.ctx)
      /\ a.ctx.current_state # "DISCONNECTED"
  BY DEF IsTaking, IsSession
<1>2. PICK o : o = Mapped(r, frame, a.ctx)
  OBVIOUS
<1>3. /\ IsSession(t)
      /\ o.key # None /\ o.key \in a.keys => t.ctx = a.ctx /\ t.keys = a.keys
      /\ ~(o.key # None /\ o.key \in a.keys) =>
           /\ t.ctx = Apply(a.ctx, o)
           /\ t.keys = IF o.key # None /\ Outcome(a.ctx, o) = "transition_applied"
                       THEN a.keys \union {o.key} ELSE a.keys
  BY <1>1, <1>2, TakeReportFields
<1>4. o.key = IF r = DC1(FillingCompleted) THEN CompletionKey(frame) ELSE None
  BY <1>2, MappedEvidence
<1>5. frame[2] = b
  OBVIOUS
<1>6. CASE o.key # None /\ o.key \in a.keys
  <2>1. t.ctx = a.ctx /\ t.keys = a.keys
    BY <1>3, <1>6
  <2>2. r = DC1(FillingCompleted) /\ CompletionKey(frame) \in a.keys
    BY <1>4, <1>6
  <2>3. \/ CompletionKey(frame) \in s.keys
        \/ After(a.ctx.current_state, r) = a.ctx.current_state
    BY <2>2 DEF IsTaking
  <2> QED  BY <1>3, <2>1, <2>2, <2>3 DEF IsTaking, Follows
<1>7. CASE ~(o.key # None /\ o.key \in a.keys)
  <2>1. PICK d : d = Apply(a.ctx, o)
    OBVIOUS
  <2>2. PICK k : k = IF o.key # None /\ Outcome(a.ctx, o) = "transition_applied"
                     THEN a.keys \union {o.key} ELSE a.keys
    OBVIOUS
  <2>3. t.ctx = d /\ t.keys = k
    BY <1>3, <1>7, <2>1, <2>2
  <2>4. PICK c : c = a.ctx
    OBVIOUS
  <2>5. /\ IsContext(c) /\ IsFollowing(c, a.keys) /\ c.current_state # "DISCONNECTED"
        /\ o = Mapped(r, frame, c) /\ d = Apply(c, o)
        /\ k = IF o.key # None /\ Outcome(c, o) = "transition_applied"
               THEN a.keys \union {o.key} ELSE a.keys
    BY <1>1, <1>2, <2>1, <2>2, <2>4
  <2>6. /\ IsFollowing(d, k)
        /\ \/ d.current_state = After(c.current_state, r)
           \/ c.current_state = "DISCOVERING" /\ d.current_state = "DISCOVERING"
                /\ Len(b) = 1 /\ c.last_source_frame_hex # None
           \/ Len(b) # 1 /\ IsDuplicateFrame(c, o) /\ ChangesState(r, c)
        /\ d.current_state = "DISCOVERING" =>
             c.current_state = "DISCOVERING" /\ d.last_source_frame_hex = c.last_source_frame_hex
        /\ c.last_source_frame_hex = frame => d = c /\ k = a.keys
        /\ k # a.keys => /\ k = a.keys \union {o.key} /\ d.last_source_frame_hex = frame
                         /\ After(d.current_state, r) = d.current_state
    BY <1>7, <2>5, ReportApplied
  <2>7. d.current_state # "DISCONNECTED"
    <3>1. c.current_state \in Reached \ {"DISCONNECTED"}
      BY <2>5 DEF IsFollowing
    <3>2. CASE c.last_source_frame_hex = frame
      BY <2>5, <2>6, <3>2
    <3>3. CASE c.last_source_frame_hex # frame
      <4>1. ~IsDuplicateFrame(c, o)
        BY <2>5, <3>3, MappedFields DEF IsDuplicateFrame
      <4> QED  BY <2>6, <3>1, <4>1, AfterReached
    <3> QED  BY <3>2, <3>3
  <2>8. Follows(s, a, r, frame, t)
    BY <1>2, <1>5, <2>3, <2>4, <2>6 DEF Follows
  <2>9. CompletionKey(frame) \in t.keys =>
          \/ CompletionKey(frame) \in s.keys
          \/ /\ t.ctx.last_source_frame_hex = frame
             /\ After(t.ctx.current_state, DC1(FillingCompleted)) = t.ctx.current_state
    <3>1. CASE k = a.keys /\ CompletionKey(frame) \in a.keys /\ CompletionKey(frame) \notin s.keys
      <4>1. c.last_source_frame_hex = frame
            /\ After(c.current_state, DC1(FillingCompleted)) = c.current_state
        BY <2>4, <3>1 DEF IsTaking
      <4>2. d = c
        BY <2>6, <4>1
      <4> QED  BY <2>3, <4>1, <4>2
    <3>2. CASE k # a.keys /\ CompletionKey(frame) \notin s.keys
      <4>1. o.key # None
        BY <2>2, <3>2
      <4>2. r = DC1(FillingCompleted)
        BY <1>4, <4>1
      <4> QED  BY <2>3, <2>6, <3>2, <4>2
    <3> QED  BY <2>3, <3>1, <3>2
  <2>10. t.ctx.current_state = "DISCOVERING" =>
           /\ s.ctx.current_state \in {"DISCONNECTED", "DISCOVERING"}
           /\ t.ctx.last_source_frame_hex = s.ctx.last_source_frame_hex
    BY <2>3, <2>4, <2>6 DEF IsTaking
  <2>11. IsTaking(s, frame, t)
    BY <1>3, <2>3, <2>6, <2>7, <2>9, <2>10 DEF IsTaking
  <2> QED  BY <2>8, <2>11
<1> QED  BY <1>6, <1>7

\* The machine through a whole frame.
LEMMA FrameFollows ==
  ASSUME NEW s, IsSession(s), IsFollowing(s.ctx, s.keys),
         NEW q, NEW b \in Seq(DispenserReport), NEW frame, frame = <<q, b>>, frame # None,
         None \notin {"complete"} \X {frame},
         NEW g, g = AfterEach(s, frame)
  PROVE  /\ TakeFrame(s, frame) = g[Len(b)]
         /\ g[0].ctx.current_state = Start(s.ctx.current_state)
         /\ \A i \in 0..Len(b) : IsTaking(s, frame, g[i])
         /\ \A i \in 1..Len(b) : Follows(s, g[i - 1], b[i], frame, g[i])
<1> DEFINE n == Len(b)
<1>1. frame[2] = b /\ n \in Nat
  OBVIOUS
<1>2. IsRun(g, s, frame, n) /\ TakeFrame(s, frame) = g[n]
  BY <1>1, TakeFrameRuns
<1>3. /\ g[0] = Answered(s)
      /\ \A i \in 1..n : g[i] = TakeReport(g[i - 1], b[i], frame)
  <2> HIDE DEF n
  <2>1. g = [i \in 0..n |-> IF i = 0 THEN Answered(s)
                            ELSE TakeReport(g[i - 1], frame[2][i], frame)]
    BY <1>2 DEF IsRun
  <2>2. \A i \in 0..n : g[i] = IF i = 0 THEN Answered(s)
                               ELSE TakeReport(g[i - 1], frame[2][i], frame)
    BY <2>1, Zenon
  <2>3. n \in Nat
    BY <1>1
  <2>4. g[0] = Answered(s)
    <3>1. 0 \in 0..n
      BY <2>3
    <3> QED  BY <2>2, <3>1, Zenon
  <2>5. ASSUME NEW i \in 1..n
        PROVE  g[i] = TakeReport(g[i - 1], b[i], frame)
    <3>1. i \in 0..n /\ i # 0
      BY <2>3
    <3>2. frame[2][i] = b[i]
      BY <1>1, Zenon
    <3> QED  BY <2>2, <3>1, <3>2, Zenon
  <2> QED  BY <2>4, <2>5, Zenon
<1>4. IsTaking(s, frame, g[0]) /\ g[0].ctx.current_state = Start(s.ctx.current_state)
  BY <1>3, AnsweredFields, AnsweredFollows DEF IsTaking, Start
<1>5. ASSUME NEW i \in 1..n, IsTaking(s, frame, g[i - 1])
      PROVE  IsTaking(s, frame, g[i]) /\ Follows(s, g[i - 1], b[i], frame, g[i])
  <2>1. b[i] \in DispenserReport /\ (n = 1 => b[1] = b[i])
    OBVIOUS
  <2>2. g[i] = TakeReport(g[i - 1], b[i], frame)
    BY <1>3
  <2> QED  BY <1>5, <2>1, <2>2, OneDelivered
<1> DEFINE T == {i \in 0..n : IsTaking(s, frame, g[i])}
<1>6. 0 \in T
  BY <1>1, <1>4
<1>7. ASSUME NEW i \in Nat, i < n, i \in T  PROVE i + 1 \in T
  <2>1. i + 1 \in 1..n /\ (i + 1) - 1 = i
    BY <1>1, <1>7
  <2>2. IsTaking(s, frame, g[i + 1])
    BY <1>5, <1>7, <2>1
  <2> QED  BY <2>1, <2>2
<1>8. 0..n \subseteq T
  <2> HIDE DEF T
  <2> QED  BY <1>1, <1>6, <1>7, UpTo
<1>9. \A i \in 0..n : IsTaking(s, frame, g[i])
  BY <1>8
<1>10. \A i \in 1..n : i - 1 \in 0..n
  BY <1>1
<1> QED  BY <1>2, <1>4, <1>5, <1>9, <1>10

-----------------------------------------------------------------------------
(* The invariant of the machine. *)

\* What must not have happened for a way of losing reports to be all there is.
Applies(m) ==
  /\ ~swallowed
  /\ m # "broken" => outages = 0
  /\ m # "lossy" => ~recurred

\* Another outage may come at any time.
StartStates(m) == {Start(Controller)} \union IF m = "broken" THEN {"DISCOVERING"} ELSE {}

\* The session's machine, and where the reports under way take it: to the view of the
\* dispenser's phase.
TrackingInv ==
  /\ DispenserTypes
  /\ IsFollowing(session.ctx, session.keys)
  /\ outages = 0 /\ Controller \in {"DISCONNECTED", "DISCOVERING"} =>
       session.ctx.last_source_frame_hex = None
  /\ \A m \in Modes : Applies(m) =>
       Ends(m, StartStates(m), pending, Views(m, dispenser.phase))

LEMMA InitTracked == DispenserInit => TrackingInv
<1> SUFFICES ASSUME DispenserInit  PROVE TrackingInv
  OBVIOUS
<1>1. session = NewSession /\ dispenser.phase = "ready" /\ pending = Current("ready")
      /\ outages = 0
  BY DEF DispenserInit
<1>2. IsFollowing(session.ctx, session.keys)
  BY <1>1, NewSessionFields DEF IsFollowing, IsReadRight, IsSettled, Reached
<1>3. ASSUME NEW m \in Modes
      PROVE  Ends(m, StartStates(m), pending, Views(m, dispenser.phase))
  <2>1. StartStates(m) = {"DISCOVERING"}
    BY <1>1, NewSessionFields DEF StartStates, Start, Controller
  <2>2. Ends(m, {"DISCOVERING"}, <<>>, {"DISCOVERING"})
    BY NoReportsEnd
  <2>3. pending = Append(Append(<<>>, DC1(ResetStatus)), Holstered)
    BY <1>1 DEF Current
  <2>4. DC1(ResetStatus) \in StatusReport /\ Holstered \in StatusReport /\ <<>> \in Seq(StatusReport)
    BY DEF StatusReport
  <2>5. TakesBoth(m, {"DISCOVERING"}, DC1(ResetStatus), Holstered, Views(m, "ready"))
    BY ReadyTaken
  <2>6. Ends(m, {"DISCOVERING"}, Append(Append(<<>>, DC1(ResetStatus)), Holstered),
             Views(m, "ready"))
    BY <2>2, <2>4, <2>5, AppendTwoEnds DEF TakesBoth
  <2> QED  BY <1>1, <2>1, <2>3, <2>6
<1> QED  BY <1>1, <1>2, <1>3, DispenserInitTypes, NewSessionFields DEF TrackingInv, Controller

\* One report, or two, at the end of those under way.
LEMMA OneReportQueued ==
  ASSUME NEW m, NEW S, NEW V, NEW W, NEW p \in Seq(DispenserReport), Ends(m, S, p, V),
         NEW r \in DispenserReport, Takes(m, V, r, W)
  PROVE  Ends(m, S, p \o <<r>>, W)
<1>1. p \o <<r>> = Append(p, r)
  OBVIOUS
<1>2. Ends(m, S, Append(p, r), W)
  BY AppendEnds DEF Takes
<1> QED  BY <1>1, <1>2

LEMMA TwoReportsQueued ==
  ASSUME NEW m, NEW S, NEW V, NEW W, NEW p \in Seq(DispenserReport), Ends(m, S, p, V),
         NEW a \in DispenserReport, NEW b \in DispenserReport, TakesBoth(m, V, a, b, W)
  PROVE  Ends(m, S, p \o <<a, b>>, W)
<1>1. p \o <<a, b>> = Append(Append(p, a), b)
  <2>1. <<a, b>> = Append(<<a>>, b) /\ <<a>> \in Seq(DispenserReport)
    OBVIOUS
  <2>2. p \o Append(<<a>>, b) = Append(p \o <<a>>, b)
    BY <2>1
  <2>3. p \o <<a>> = Append(p, a)
    OBVIOUS
  <2> QED  BY <2>1, <2>2, <2>3
<1>2. Ends(m, S, Append(Append(p, a), b), W)
  BY AppendTwoEnds DEF TakesBoth
<1> QED  BY <1>1, <1>2

\* The dispenser's steps.
LEMMA DispenserTracked == TrackingInv /\ DispenserSteps => TrackingInv'
<1> SUFFICES ASSUME TrackingInv, DispenserSteps  PROVE TrackingInv'
  OBVIOUS
<1>1. DispenserTypes'
  BY DispenserStepTypes DEF TrackingInv
<1>2. UNCHANGED <<session, recurred, swallowed, outages>>
  BY DEF DispenserSteps, DispenserMoves, FuelFlows, ReportStatus, Reports
<1>3. pending \in Seq(DispenserReport) /\ dispenser.phase \in Phases
      /\ StatusReport \subseteq DispenserReport
  BY DEF TrackingInv, DispenserTypes, DispenserReport
<1>4. ASSUME NEW m \in Modes, Applies(m)'
      PROVE  Ends(m, StartStates(m), pending', Views(m, dispenser'.phase))
  <2>1. Ends(m, StartStates(m), pending, Views(m, dispenser.phase))
    BY <1>2, <1>4 DEF TrackingInv, Applies
  <2>2. CASE DispenserMoves
    <3>1. PICK step \in Script :
            /\ dispenser.phase = step[1]
            /\ dispenser' = [dispenser EXCEPT
                               !.phase = step[2],
                               !.started = IF Starts(step) THEN @ + 1 ELSE @,
                               !.volume = IF Starts(step) THEN 0 ELSE @,
                               !.finished = IF Finishes(step) THEN @ + 1 ELSE @]
            /\ pending' = pending \o step[3]
      BY <2>2 DEF DispenserMoves, Reports
    <3>2. dispenser'.phase = step[2]
      BY <3>1 DEF TrackingInv, DispenserTypes
    <3>3. CASE \E r \in StatusReport :
                 step[3] = <<r>> /\ Takes(m, Views(m, step[1]), r, Views(m, step[2]))
      BY <1>3, <2>1, <3>1, <3>2, <3>3, OneReportQueued
    <3>4. CASE \E a, b \in StatusReport :
                 /\ step[3] = <<a, b>>
                 /\ TakesBoth(m, Views(m, step[1]), a, b, Views(m, step[2]))
      BY <1>3, <2>1, <3>1, <3>2, <3>4, TwoReportsQueued
    <3> QED  BY <3>3, <3>4, ScriptTaken
  <2>3. CASE FuelFlows
    <3>1. /\ dispenser.phase = "filling" /\ dispenser'.phase = "filling"
          /\ pending' = pending \o <<DC2(dispenser.volume + 1)>>
      BY <2>3 DEF FuelFlows, Reports, TrackingInv, DispenserTypes
    <3>2. dispenser.volume + 1 \in Nat
      BY DEF TrackingInv, DispenserTypes
    <3>3. /\ Takes(m, Views(m, "filling"), DC2(dispenser.volume + 1), Views(m, "filling"))
          /\ DC2(dispenser.volume + 1) \in DispenserReport
      BY <3>2, VolumeTaken DEF DispenserReport, VolumeReport
    <3> QED  BY <1>3, <2>1, <3>1, <3>3, OneReportQueued
  <2>4. CASE ReportStatus
    <3>1. dispenser' = dispenser /\ pending' = pending \o Current(dispenser.phase)
      BY <2>4 DEF ReportStatus, Reports
    <3>2. PICK a, b \in StatusReport :
            /\ Current(dispenser.phase) = <<a, b>>
            /\ TakesBoth(m, Views(m, dispenser.phase), a, b, Views(m, dispenser.phase))
      BY <1>3, CurrentTaken
    <3> QED  BY <1>3, <2>1, <3>1, <3>2, TwoReportsQueued
  <2> QED  BY <2>2, <2>3, <2>4 DEF DispenserSteps
<1> QED  BY <1>1, <1>2, <1>4
         DEF TrackingInv, StartStates, Controller, IsFollowing, IsReadRight, IsSettled

\* A silence, and its end.
LEMMA SilenceTracked == TrackingInv /\ (DeliverNothing \/ Blip \/ Outage) => TrackingInv'
<1> SUFFICES ASSUME TrackingInv, DeliverNothing \/ Blip \/ Outage  PROVE TrackingInv'
  OBVIOUS
<1>1. DispenserTypes' /\ IsSession(session)
  BY SilenceTypes DEF TrackingInv, DispenserTypes
<1>2. UNCHANGED <<dispenser, pending, recurred, swallowed>>
  BY DEF DeliverNothing, Blip, Outage, ControllerStep
<1> DEFINE q == Silenced(session)
<1>3. IsSession(q) /\ q.ctx = session.ctx /\ q.keys = session.keys
  BY <1>1, SilencedFields
<1>4. PICK t : t = session'
  OBVIOUS
<1>5. IsFollowing(q.ctx, q.keys)
  BY <1>3 DEF TrackingInv
<1>6. /\ outages' \in Nat /\ outages \in Nat /\ outages' >= outages
      /\ \/ t = Answered(q) \/ t = Degraded(q)
         \/ t = GivenUp(Degraded(q)) /\ outages' = outages + 1
  BY <1>4 DEF DeliverNothing, Blip, Outage, TrackingInv, DispenserTypes
<1> HIDE DEF q
<1>7. IsFollowing(t.ctx, t.keys)
      /\ t.ctx.last_source_frame_hex = session.ctx.last_source_frame_hex
      /\ (outages' = 0 => Start(t.ctx.current_state) = Start(Controller))
      /\ Start(t.ctx.current_state) \in {Start(Controller), "DISCOVERING"}
      /\ (outages' = 0 /\ t.ctx.current_state \in {"DISCONNECTED", "DISCOVERING"} =>
            Controller \in {"DISCONNECTED", "DISCOVERING"})
  <2>1. CASE t = Answered(q)
    <3>1. /\ IsFollowing(t.ctx, t.keys) /\ t.ctx.current_state = Start(q.ctx.current_state)
          /\ t.ctx.last_source_frame_hex = q.ctx.last_source_frame_hex
      BY <1>3, <1>5, <2>1, AnsweredFollows, AnsweredFields
    <3> QED  BY <1>3, <3>1 DEF Start, Controller
  <2>2. CASE t = Degraded(q)
    <3>1. t.ctx = q.ctx /\ t.keys = q.keys
      BY <1>3, <2>2, DegradedFields
    <3> QED  BY <1>3, <1>5, <3>1 DEF Controller
  <2>3. CASE t = GivenUp(Degraded(q)) /\ outages' = outages + 1
    <3>1. IsSession(Degraded(q)) /\ Degraded(q).ctx = q.ctx /\ Degraded(q).keys = q.keys
      BY <1>3, DegradedFields
    <3>2. /\ t.keys = q.keys /\ t.ctx.current_state = "DISCONNECTED"
          /\ t.ctx.last_source_frame_hex = q.ctx.last_source_frame_hex
          /\ t.ctx.completed_evidence_keys = q.ctx.completed_evidence_keys
      BY <2>3, <3>1, GivenUpFields
    <3>3. IsFollowing(t.ctx, t.keys)
      BY <1>5, <3>2 DEF IsFollowing, IsReadRight, IsSettled, Reached
    <3>4. outages' # 0
      BY <1>6, <2>3
    <3> QED  BY <1>3, <3>2, <3>3, <3>4 DEF Start
  <2> QED  BY <1>6, <2>1, <2>2, <2>3
<1>8. outages' = 0 => outages = 0
  BY <1>6
<1>9. ASSUME NEW m \in Modes, Applies(m)'
      PROVE  Ends(m, StartStates(m)', pending', Views(m, dispenser'.phase))
  <2>1. Applies(m)
    BY <1>2, <1>8, <1>9 DEF Applies
  <2>2. Ends(m, StartStates(m), pending, Views(m, dispenser.phase))
    BY <2>1 DEF TrackingInv
  <2>3. StartStates(m)' = {Start(t.ctx.current_state)}
                            \union IF m = "broken" THEN {"DISCOVERING"} ELSE {}
    BY <1>4 DEF StartStates, Controller
  <2>4. StartStates(m)' \subseteq StartStates(m)
    <3>1. m # "broken" => outages' = 0
      BY <1>9 DEF Applies
    <3> QED  BY <1>7, <2>3, <3>1 DEF StartStates
  <2> HIDE DEF StartStates
  <2>5. PICK T : T = StartStates(m)'
    OBVIOUS
  <2>6. Ends(m, T, pending, Views(m, dispenser.phase))
    BY <2>2, <2>4, <2>5, StartEnds
  <2> QED  BY <1>2, <2>5, <2>6
<1>10. /\ IsFollowing(session'.ctx, session'.keys)
       /\ outages' = 0 /\ session'.ctx.current_state \in {"DISCONNECTED", "DISCOVERING"} =>
            session'.ctx.last_source_frame_hex = None
  BY <1>4, <1>7, <1>8 DEF TrackingInv
<1> QED  BY <1>1, <1>9, <1>10
         DEF TrackingInv, Controller, IsFollowing, IsReadRight, IsSettled

LEMMA RestFields ==
  ASSUME NEW X, NEW p \in Seq(X), NEW i \in Nat, i < Len(p),
         NEW rest, rest = SubSeq(p, i + 1, Len(p))
  PROVE  /\ rest \in Seq(X) /\ rest # <<>> /\ rest[1] = p[i + 1]
         /\ Tail(rest) = SubSeq(p, (i + 1) + 1, Len(p))
<1>1. /\ rest \in Seq(X) /\ Len(rest) = Len(p) - i
      /\ \A k \in 1..(Len(p) - i) : rest[k] = p[i + k]
  BY BlockFields
<1>2. Len(p) - i >= 1 /\ Len(p) \in Nat /\ rest # <<>>
  BY <1>1
<1>3. /\ Tail(rest) \in Seq(X) /\ Len(Tail(rest)) = Len(p) - (i + 1)
      /\ \A k \in 1..(Len(p) - (i + 1)) : Tail(rest)[k] = p[(i + 1) + k]
  BY <1>1, <1>2
<1>4. /\ SubSeq(p, (i + 1) + 1, Len(p)) \in Seq(X)
      /\ Len(SubSeq(p, (i + 1) + 1, Len(p))) = Len(p) - (i + 1)
      /\ \A k \in 1..(Len(p) - (i + 1)) : SubSeq(p, (i + 1) + 1, Len(p))[k] = p[(i + 1) + k]
  <2>1. i + 1 \in Nat /\ i + 1 <= Len(p)
    BY <1>2
  <2> QED  BY <2>1, BlockFields
<1>5. Tail(rest) = SubSeq(p, (i + 1) + 1, Len(p))
  BY <1>3, <1>4
<1> QED  BY <1>1, <1>2, <1>5

\* Taking the reports of a frame in turn takes the machine on through them.
LEMMA RestEnds ==
  ASSUME NEW m, NEW V, NEW X, NEW p \in Seq(X), NEW n \in Nat, n <= Len(p),
         NEW S, Ends(m, S[0], p, V),
         \A i \in 1..n : \A u \in S[i] : \E v \in S[i - 1] : May(m, v, p[i], u)
  PROVE  Ends(m, S[n], SubSeq(p, n + 1, Len(p)), V)
<1> DEFINE T == {i \in 0..n : Ends(m, S[i], SubSeq(p, i + 1, Len(p)), V)}
<1>1. 0 \in T
  <2>1. SubSeq(p, 0 + 1, Len(p)) = p /\ 0 \in 0..n
    OBVIOUS
  <2>2. Ends(m, S[0], SubSeq(p, 0 + 1, Len(p)), V)
    BY <2>1, Zenon
  <2> QED  BY <2>1, <2>2, Zenon
<1>2. ASSUME NEW i \in Nat, i < n, i \in T  PROVE i + 1 \in T
  <2>1. i + 1 \in 1..n /\ (i + 1) - 1 = i /\ i < Len(p)
    BY <1>2
  <2>2. PICK rest : rest = SubSeq(p, i + 1, Len(p))
    OBVIOUS
  <2>3. /\ rest \in Seq(X) /\ rest # <<>> /\ rest[1] = p[i + 1]
        /\ Tail(rest) = SubSeq(p, (i + 1) + 1, Len(p))
    BY <2>1, <2>2, RestFields
  <2>4. \A u \in S[i + 1] : \E v \in S[i] : May(m, v, rest[1], u)
    BY <2>1, <2>3
  <2>5. Ends(m, S[i], rest, V)
    BY <1>2, <2>2
  <2>6. Ends(m, S[i + 1], Tail(rest), V)
    BY <2>3, <2>4, <2>5, TailEnds
  <2>7. i + 1 \in 0..n
    BY <2>1
  <2>8. Ends(m, S[i + 1], SubSeq(p, (i + 1) + 1, Len(p)), V)
    BY <2>3, <2>6, Zenon
  <2> QED  BY <2>7, <2>8, Zenon
<1>3. 0..n \subseteq T
  <2> HIDE DEF T
  <2> QED  BY <1>1, <1>2, UpTo
<1> QED  BY <1>3

\* A frame is delivered.
LEMMA DeliverTracked == TrackingInv /\ DeliverFrame => TrackingInv'
<1> SUFFICES ASSUME TrackingInv, DeliverFrame  PROVE TrackingInv'
  OBVIOUS
<1>1. DispenserTypes' /\ IsSession(session) /\ pending \in Seq(DispenserReport)
  BY DeliverTypes DEF TrackingInv, DispenserTypes
<1>2. UNCHANGED <<dispenser, outages>>
  BY DEF DeliverFrame, ControllerStep
<1> DEFINE q == Silenced(session)
<1>3. PICK n \in 1..MaxBlock :
        /\ n <= Len(pending)
        /\ session' = TakeFrame(q, <<seq, SubSeq(pending, 1, n)>>)
        /\ recurred' = (recurred \/ Recurs(<<seq, SubSeq(pending, 1, n)>>))
        /\ swallowed' = (swallowed \/ Swallows(q, <<seq, SubSeq(pending, 1, n)>>))
        /\ pending' = SubSeq(pending, n + 1, Len(pending))
  BY DEF DeliverFrame
<1>4. n \in Nat /\ n >= 1
  BY DispenserAssumption
<1>5. PICK b : b = SubSeq(pending, 1, n)
  OBVIOUS
<1>6. /\ b \in Seq(DispenserReport) /\ Len(b) = n
      /\ \A i \in 1..n : b[i] = pending[i] /\ pending[i] \in DispenserReport
  BY <1>1, <1>3, <1>4, <1>5, BlockFields
<1>7. PICK frame : frame = <<seq, b>>
  OBVIOUS
<1>8. frame \in Frame
  <2>1. b \in Seq(Report)
    BY <1>6, ReportTypes
  <2> QED  BY <1>7, <2>1 DEF Frame, TrackingInv, DispenserTypes
<1>9. frame # None /\ None \notin {"complete"} \X {frame} /\ frame[2] = b
  BY <1>7, <1>8, DispenserAssumption
<1>10. PICK t : t = session'
  OBVIOUS
<1>11. /\ IsSession(q) /\ q.ctx = session.ctx /\ q.keys = session.keys
       /\ IsFollowing(q.ctx, q.keys)
  BY <1>1, SilencedFields DEF TrackingInv
<1>12. /\ t = TakeFrame(q, frame)
       /\ recurred' = (recurred \/ Recurs(frame))
       /\ swallowed' = (swallowed \/ Swallows(q, frame))
  BY <1>3, <1>5, <1>7, <1>10
<1> HIDE DEF q
<1>13. PICK g : g = AfterEach(q, frame)
  OBVIOUS
<1>14. /\ t = g[n]
       /\ g[0].ctx.current_state = Start(q.ctx.current_state)
       /\ \A i \in 0..n : IsTaking(q, frame, g[i])
       /\ \A i \in 1..n : Follows(q, g[i - 1], b[i], frame, g[i])
  <2>1. /\ TakeFrame(q, frame) = g[Len(b)]
        /\ g[0].ctx.current_state = Start(q.ctx.current_state)
        /\ \A i \in 0..Len(b) : IsTaking(q, frame, g[i])
        /\ \A i \in 1..Len(b) : Follows(q, g[i - 1], b[i], frame, g[i])
    <3>1. IsSession(q) /\ IsFollowing(q.ctx, q.keys) /\ b \in Seq(DispenserReport)
      BY <1>6, <1>11
    <3>2. frame = <<seq, b>> /\ frame # None /\ None \notin {"complete"} \X {frame}
      BY <1>7, <1>9
    <3> QED  BY <1>13, <3>1, <3>2, FrameFollows
  <2>2. Len(b) = n
    BY <1>6
  <2> QED  BY <1>12, <2>1, <2>2
<1>15. IsTaking(q, frame, t)
  BY <1>4, <1>14
<1>16. outages = 0 /\ q.ctx.current_state \in {"DISCONNECTED", "DISCOVERING"} =>
         q.ctx.last_source_frame_hex = None
  BY <1>11 DEF TrackingInv, Controller
<1>17. ASSUME NEW m \in Modes, Applies(m)'
       PROVE  Ends(m, StartStates(m)', pending', Views(m, dispenser'.phase))
  <2>1. /\ Applies(m) /\ (m # "broken" => outages = 0) /\ (m # "lossy" => ~recurred')
        /\ ~swallowed'
    BY <1>2, <1>12, <1>17 DEF Applies
  <2> DEFINE E == IF m = "broken" THEN {"DISCOVERING"} ELSE {}
             S == [i \in 0..n |-> {g[i].ctx.current_state} \union E]
  <2>2. S[0] = StartStates(m)
    BY <1>4, <1>11, <1>14 DEF StartStates, Controller
  <2>3. S[n] = StartStates(m)'
    <3>1. S[n] = {t.ctx.current_state} \union E
      BY <1>4, <1>14
    <3>2. t.ctx.current_state # "DISCONNECTED"
      BY <1>15 DEF IsTaking
    <3> QED  BY <1>10, <3>1, <3>2 DEF StartStates, Controller, Start
  <2>4. ASSUME NEW i \in 1..n
        PROVE  May(m, g[i - 1].ctx.current_state, b[i], g[i].ctx.current_state)
    <3>1. PICK a : a = g[i - 1]
      OBVIOUS
    <3>2. IsTaking(q, frame, a) /\ Follows(q, a, b[i], frame, g[i])
      BY <1>4, <1>14, <3>1
    <3>3. CASE g[i].ctx.current_state = After(a.ctx.current_state, b[i])
      BY <3>1, <3>3 DEF May
    <3>4. CASE /\ b[i] = DC1(FillingCompleted) /\ CompletionKey(frame) \in q.keys
               /\ g[i].ctx.current_state = a.ctx.current_state
      <4>1. i \in DOMAIN frame[2] /\ frame[2][i] = b[i]
        BY <1>6, <1>9
      <4>2. Recurs(frame)
        BY <1>11, <3>4, <4>1 DEF Recurs
      <4>3. m = "lossy"
        BY <1>12, <2>1, <4>2
      <4> QED  BY <3>1, <3>4, <4>3 DEF May
    <3>5. CASE /\ Len(frame[2]) # 1
               /\ IsDuplicateFrame(a.ctx, Mapped(b[i], frame, a.ctx)) /\ ChangesState(b[i], a.ctx)
      <4>1. i \in DOMAIN frame[2] /\ frame[2][i] = b[i] /\ Len(frame[2]) >= 2
        BY <1>4, <1>6, <1>9, <3>5
      <4>2. Swallows(q, frame)
        BY <1>13, <3>1, <3>5, <4>1 DEF Swallows
      <4> QED  BY <1>12, <2>1, <4>2
    <3>6. CASE /\ a.ctx.current_state = "DISCOVERING" /\ g[i].ctx.current_state = "DISCOVERING"
               /\ a.ctx.last_source_frame_hex # None
      <4>1. /\ q.ctx.current_state \in {"DISCONNECTED", "DISCOVERING"}
            /\ q.ctx.last_source_frame_hex # None
        BY <3>2, <3>6 DEF IsTaking
      <4>2. m = "broken"
        BY <1>16, <2>1, <4>1
      <4> QED  BY <3>6, <4>2 DEF May
    <3> QED  BY <3>2, <3>3, <3>4, <3>5, <3>6 DEF Follows
  <2>5. \A i \in 1..n : \A u \in S[i] : \E v \in S[i - 1] : May(m, v, pending[i], u)
    <3> SUFFICES ASSUME NEW i \in 1..n, NEW u \in S[i]
                 PROVE  \E v \in S[i - 1] : May(m, v, pending[i], u)
      OBVIOUS
    <3>1. i \in 0..n /\ i - 1 \in 0..n
      BY <1>4
    <3>2. /\ u = g[i].ctx.current_state \/ (m = "broken" /\ u = "DISCOVERING")
          /\ g[i - 1].ctx.current_state \in S[i - 1]
      BY <3>1
    <3>3. May(m, g[i - 1].ctx.current_state, pending[i], u)
      <4>1. CASE u = g[i].ctx.current_state
        BY <1>6, <2>4, <4>1
      <4>2. CASE m = "broken" /\ u = "DISCOVERING"
        BY <4>2 DEF May
      <4> QED  BY <3>2, <4>1, <4>2
    <3> HIDE DEF S
    <3> QED  BY <3>2, <3>3
  <2> HIDE DEF S, E
  <2>6. Ends(m, S[0], pending, Views(m, dispenser.phase))
    <3>1. Ends(m, StartStates(m), pending, Views(m, dispenser.phase))
      BY <2>1 DEF TrackingInv
    <3>2. PICK U : U = StartStates(m)
      OBVIOUS
    <3> QED  BY <2>2, <3>1, <3>2
  <2>7. Ends(m, S[n], SubSeq(pending, n + 1, Len(pending)), Views(m, dispenser.phase))
    BY <1>1, <1>3, <1>4, <2>5, <2>6, RestEnds
  <2>8. PICK U : U = StartStates(m)'
    OBVIOUS
  <2>9. Ends(m, U, pending', Views(m, dispenser.phase))
    BY <1>3, <2>3, <2>7, <2>8
  <2> QED  BY <1>2, <2>8, <2>9
<1>18. /\ IsFollowing(session'.ctx, session'.keys)
       /\ outages' = 0 /\ session'.ctx.current_state \in {"DISCONNECTED", "DISCOVERING"} =>
            session'.ctx.last_source_frame_hex = None
  BY <1>2, <1>10, <1>15, <1>16 DEF IsTaking
<1> QED  BY <1>1, <1>17, <1>18
         DEF TrackingInv, Controller, IsFollowing, IsReadRight, IsSettled

LEMMA TrackingInvariant == DispenserSpec => []TrackingInv
<1>1. TrackingInv /\ UNCHANGED dispenserVars => TrackingInv'
  <2> SUFFICES ASSUME TrackingInv, UNCHANGED dispenserVars  PROVE TrackingInv'
    OBVIOUS
  <2>1. UNCHANGED <<dispenser, pending, seq, session, recurred, swallowed, outages>>
    BY DEF dispenserVars
  <2> QED  BY <2>1 DEF TrackingInv, DispenserTypes, Applies, StartStates, Controller,
                       IsFollowing, IsReadRight, IsSettled, IsSession, IsContext, IsEvents, IsNews
<1>2. TrackingInv /\ [DispenserNext]_dispenserVars => TrackingInv'
  BY <1>1, DispenserTracked, SilenceTracked, DeliverTracked DEF DispenserNext, ControllerSteps
<1> QED  BY <1>2, InitTracked, PTL DEF DispenserSpec

\* When every report is delivered the machine is in a view of the dispenser's phase.
LEMMA CaughtUpViews ==
  ASSUME TrackingInv, CaughtUp, NEW m \in Modes, Applies(m)
  PROVE  Controller \in Views(m, dispenser.phase) /\ dispenser.phase \in Phases
<1>1. Ends(m, StartStates(m), <<>>, Views(m, dispenser.phase))
  BY DEF TrackingInv, CaughtUp
<1>2. Controller \in StartStates(m)
  BY DEF CaughtUp, StartStates, Start
<1>3. StartStates(m) \subseteq Views(m, dispenser.phase)
  BY <1>1, NoReportsEnd
<1> QED  BY <1>2, <1>3 DEF TrackingInv, DispenserTypes

-----------------------------------------------------------------------------
(* The invariant of the tables. *)

\* A row of the transactions table; nothing is said of the values of its key.
IsRow(r) ==
  /\ r = [status |-> r.status, volume |-> r.volume, key |-> r.key]
  /\ r.status \in {"ACTIVE", "COMPLETED"}

IsTable(t) ==
  /\ t = [u \in DOMAIN t |-> t[u]]
  /\ \A u \in DOMAIN t : IsRow(t[u])

IsCompleted(t, u) == u \in DOMAIN t /\ t[u].status = "COMPLETED"

\* The commit that completes a row and the one that tells of it are the same: an
\* entry has the key of a completed row, and each completed row has an entry.
ToldAsCompleted(t, told) ==
  /\ \A e \in told :
       /\ e = [key |-> e.key, uuid |-> e.uuid]
       /\ IsCompleted(t, e.uuid) /\ t[e.uuid].key = e.key
  /\ \A u : IsCompleted(t, u) => \E e \in told : e.uuid = u

\* The key of a completion is looked for in all rows before it is written.
KeysAreUnique(t) ==
  \A u, v : IsCompleted(t, u) /\ IsCompleted(t, v) /\ t[u].key = t[v].key => u = v

StoreOK(t, told) == IsTable(t) /\ ToldAsCompleted(t, told) /\ KeysAreUnique(t)

StoreInv == StoreOK(rows, completions)

-----------------------------------------------------------------------------
(* The three ways to change the table. *)

LEMMA RowFields ==
  ASSUME NEW r, IsRow(r), NEW x
  PROVE  /\ [r EXCEPT !.status = x] = [status |-> x, volume |-> r.volume, key |-> r.key]
         /\ [r EXCEPT !.volume = x] = [status |-> r.status, volume |-> x, key |-> r.key]
         /\ [r EXCEPT !.key = x] = [status |-> r.status, volume |-> r.volume, key |-> x]
<1>1. PICK a, b, c : r = [status |-> a, volume |-> b, key |-> c]
  BY DEF IsRow
<1> QED  BY <1>1

\* A new row is active (TransactionService.begin).
LEMMA BeginKeeps ==
  ASSUME NEW t, NEW told, StoreOK(t, told), NEW u, NEW s,
         s = [v \in DOMAIN t \union {u} |->
                IF v \in DOMAIN t THEN t[v]
                ELSE [status |-> "ACTIVE", volume |-> 0, key |-> None]]
  PROVE  StoreOK(s, told)
<1> DEFINE new == [status |-> "ACTIVE", volume |-> 0, key |-> None]
<1>1. IsRow(new) /\ new.status # "COMPLETED"
  BY DEF IsRow
<1>2. /\ s = [v \in DOMAIN s |-> s[v]]
      /\ DOMAIN s = DOMAIN t \union {u}
      /\ \A v \in DOMAIN s : s[v] = IF v \in DOMAIN t THEN t[v] ELSE new
  OBVIOUS
<1> HIDE DEF new
<1>3. IsTable(s)
  BY <1>1, <1>2 DEF StoreOK, IsTable
<1>4. \A v : IsCompleted(s, v) <=> IsCompleted(t, v)
  BY <1>1, <1>2 DEF IsCompleted
<1>5. \A v : IsCompleted(t, v) => s[v] = t[v]
  BY <1>2 DEF IsCompleted
<1>6. ToldAsCompleted(s, told)
  BY <1>4, <1>5 DEF StoreOK, ToldAsCompleted
<1>7. KeysAreUnique(s)
  BY <1>4, <1>5 DEF StoreOK, KeysAreUnique
<1> QED  BY <1>3, <1>6, <1>7 DEF StoreOK

\* The row and the entry are written in one commit, and the key is new
\* (complete_once).
LEMMA CompletionKeeps ==
  ASSUME NEW t, NEW told, StoreOK(t, told),
         NEW u \in DOMAIN t, t[u].status = "ACTIVE",
         NEW key, \A v \in DOMAIN t : t[v].key # key,
         NEW s, s = [t EXCEPT ![u].status = "COMPLETED", ![u].key = key]
  PROVE  StoreOK(s, told \union {[key |-> key, uuid |-> u]})
<1> DEFINE e == [key |-> key, uuid |-> u]
           q == [status |-> "COMPLETED", volume |-> t[u].volume, key |-> t[u].key]
           r == [status |-> "COMPLETED", volume |-> t[u].volume, key |-> key]
<1>1. IsRow(t[u]) /\ IsTable(t)
  BY DEF StoreOK, IsTable
<1>2. [t[u] EXCEPT !.status = "COMPLETED"] = q /\ [q EXCEPT !.key = key] = r
  <2>1. [t[u] EXCEPT !.status = "COMPLETED"] = q
    BY <1>1, RowFields
  <2>2. [q EXCEPT !.key = key] = r
    OBVIOUS
  <2> QED  BY <2>1, <2>2
<1>3. IsRow(q) /\ IsRow(r) /\ r.status = "COMPLETED" /\ r.key = key
  BY DEF IsRow
<1>4. e.key = key /\ e.uuid = u /\ e = [key |-> e.key, uuid |-> e.uuid]
  OBVIOUS
<1> HIDE DEF e, q, r
<1>5. s = [t EXCEPT ![u] = r]
  <2> DEFINE m == [t EXCEPT ![u] = q]
  <2>1. m[u] = q
    OBVIOUS
  <2>2. s = [m EXCEPT ![u] = [m[u] EXCEPT !.key = key]]
    BY <1>2
  <2> QED  BY <1>2, <2>1, <2>2
<1>6. /\ IsTable(s)
      /\ DOMAIN s = DOMAIN t
      /\ s[u] = r
      /\ \A v \in DOMAIN t \ {u} : s[v] = t[v]
  <2>1. /\ DOMAIN s = DOMAIN t
        /\ s[u] = r
        /\ \A v \in DOMAIN t \ {u} : s[v] = t[v]
        /\ s = [v \in DOMAIN s |-> s[v]]
    BY <1>1, <1>5 DEF IsTable
  <2> QED  BY <1>1, <1>3, <2>1 DEF IsTable
<1>7. \A v : IsCompleted(s, v) <=> v = u \/ IsCompleted(t, v)
  BY <1>3, <1>6 DEF IsCompleted
<1>8. \A v : IsCompleted(t, v) => v # u /\ v \in DOMAIN t /\ s[v] = t[v]
  BY <1>6 DEF IsCompleted
<1>9. s[u].key = key
  BY <1>3, <1>6
<1>10. ToldAsCompleted(s, told \union {e})
  <2>1. ASSUME NEW d \in told \union {e}
        PROVE  /\ d = [key |-> d.key, uuid |-> d.uuid]
               /\ IsCompleted(s, d.uuid) /\ s[d.uuid].key = d.key
    <3>1. CASE d = e
      BY <3>1, <1>4, <1>7, <1>9
    <3>2. CASE d \in told
      BY <3>2, <1>7, <1>8 DEF StoreOK, ToldAsCompleted
    <3> QED  BY <3>1, <3>2
  <2>2. ASSUME NEW v, IsCompleted(s, v)  PROVE \E d \in told \union {e} : d.uuid = v
    BY <2>2, <1>4, <1>7 DEF StoreOK, ToldAsCompleted
  <2> HIDE DEF IsCompleted
  <2> QED  BY <2>1, <2>2 DEF ToldAsCompleted
<1>11. KeysAreUnique(s)
  <2> SUFFICES ASSUME NEW v, NEW w, IsCompleted(s, v), IsCompleted(s, w), s[v].key = s[w].key
               PROVE  v = w
    BY DEF KeysAreUnique
  <2>1. CASE v = u \/ w = u
    BY <2>1, <1>7, <1>8, <1>9
  <2>2. CASE v # u /\ w # u
    BY <2>2, <1>7, <1>8 DEF StoreOK, KeysAreUnique
  <2> QED  BY <2>1, <2>2
<1> QED  BY <1>6, <1>10, <1>11 DEF StoreOK, e

\* A row's volume decides nothing (update_volume).
LEMMA VolumeKeeps ==
  ASSUME NEW t, NEW told, StoreOK(t, told),
         NEW u \in DOMAIN t, NEW volume,
         NEW s, s = [t EXCEPT ![u].volume = volume]
  PROVE  StoreOK(s, told)
<1> DEFINE r == [status |-> t[u].status, volume |-> volume, key |-> t[u].key]
<1>1. IsRow(t[u]) /\ IsTable(t)
  BY DEF StoreOK, IsTable
<1>2. [t[u] EXCEPT !.volume = volume] = r
  BY <1>1, RowFields
<1>3. IsRow(r) /\ r.status = t[u].status /\ r.key = t[u].key
  BY <1>1 DEF IsRow
<1> HIDE DEF r
<1>4. /\ IsTable(s)
      /\ DOMAIN s = DOMAIN t
      /\ s[u] = r
      /\ \A v \in DOMAIN t \ {u} : s[v] = t[v]
  <2>1. /\ DOMAIN s = DOMAIN t
        /\ s[u] = r
        /\ \A v \in DOMAIN t \ {u} : s[v] = t[v]
        /\ s = [v \in DOMAIN s |-> s[v]]
    BY <1>1, <1>2 DEF IsTable
  <2> QED  BY <1>1, <1>3, <2>1 DEF IsTable
<1>5. \A v \in DOMAIN t : s[v].status = t[v].status /\ s[v].key = t[v].key
  BY <1>3, <1>4
<1>6. \A v : IsCompleted(s, v) <=> IsCompleted(t, v)
  BY <1>4, <1>5 DEF IsCompleted
<1>7. \A v : IsCompleted(t, v) => s[v].key = t[v].key
  BY <1>5 DEF IsCompleted
<1>8. ToldAsCompleted(s, told)
  BY <1>6, <1>7 DEF StoreOK, ToldAsCompleted
<1>9. KeysAreUnique(s)
  BY <1>6, <1>7 DEF StoreOK, KeysAreUnique
<1> QED  BY <1>4, <1>8, <1>9 DEF StoreOK

-----------------------------------------------------------------------------
(* The jobs. *)

LEMMA StateChangedKeeps ==
  ASSUME StoreInv, NEW job, HandleStateChanged(job)  PROVE StoreInv'
<1>1. CASE BeginsSale(job)
  <2> DEFINE uuid == IF txByAddress = None THEN uuids + 1 ELSE txByAddress
  <2>1. /\ rows' = [u \in DOMAIN rows \union {uuid} |->
                      IF u \in DOMAIN rows THEN rows[u]
                      ELSE [status |-> "ACTIVE", volume |-> 0, key |-> None]]
        /\ completions' = completions
    BY <1>1 DEF BeginsSale
  <2> HIDE DEF uuid
  <2> QED  BY <2>1, BeginKeeps DEF StoreInv
<1>2. CASE CompletesSale(job)
  <2> DEFINE key == IF job.key # None THEN job.key
                    ELSE <<"complete", txByAddress, job.ctx.current_state>>
             newly == ~KeyIsUsed(key) /\ IsUnfinished(txByAddress)
  <2>1. CASE newly
    <3>1. /\ rows' = [rows EXCEPT ![txByAddress].status = "COMPLETED",
                                  ![txByAddress].key = key]
          /\ completions' = completions \union {[key |-> key, uuid |-> txByAddress]}
      BY <1>2, <2>1 DEF CompletesSale
    <3>2. /\ txByAddress \in DOMAIN rows /\ rows[txByAddress].status = "ACTIVE"
          /\ \A v \in DOMAIN rows : rows[v].key # key
      BY <2>1 DEF IsUnfinished, KeyIsUsed
    <3> HIDE DEF key
    <3> QED  BY <3>1, <3>2, CompletionKeeps DEF StoreInv
  <2>2. CASE ~newly
    <3>1. rows' = rows /\ completions' = completions
      BY <1>2, <2>2 DEF CompletesSale
    <3> QED  BY <3>1 DEF StoreInv
  <2> QED  BY <2>1, <2>2
<1>3. CASE NoTransaction
  BY <1>3 DEF NoTransaction, StoreInv
<1> QED  BY <1>1, <1>2, <1>3 DEF HandleStateChanged

LEMMA DecodedKeeps ==
  ASSUME StoreInv, NEW job, HandleDecoded(job)  PROVE StoreInv'
<1>1. /\ completions' = completions
      /\ \/ rows' = rows
         \/ /\ txByAddress \in DOMAIN rows
            /\ \E volume : rows' = [rows EXCEPT ![txByAddress].volume = volume]
  BY DEF HandleDecoded
<1> QED  BY <1>1, VolumeKeeps DEF StoreInv

LEMMA StepKeepsStore == StoreInv /\ [Next]_vars => StoreInv'
<1> SUFFICES ASSUME StoreInv, [Next]_vars  PROVE StoreInv'
  OBVIOUS
<1>1. CASE RunJob
  <2>1. PICK job : HandleStateChanged(job) \/ HandleDecoded(job) \/ HandleComm(job)
    BY <1>1 DEF RunJob
  <2>2. CASE HandleComm(job)
    BY <2>2 DEF HandleComm, NoTransaction, StoreInv
  <2> QED  BY <2>1, <2>2, StateChangedKeeps, DecodedKeeps
<1>2. CASE UNCHANGED <<rows, completions>>
  BY <1>2 DEF StoreInv
<1> QED  BY <1>1, <1>2
         DEF Next, DispenserWorks, PollPump, JobFails, PowerCut, vars, storeVars

LEMMA StoreInvariant == Spec => []StoreInv
<1>1. Init => StoreInv
  BY DEF Init, StoreInv, StoreOK, IsTable, ToldAsCompleted, KeysAreUnique, IsCompleted
<1> QED  BY <1>1, StepKeepsStore, PTL DEF Spec

-----------------------------------------------------------------------------
(* The sales of the table and those of the dispenser. *)

\* The completed rows of a table.
Done(t) == {u \in DOMAIN t : t[u].status = "COMPLETED"}

\* The sale that the bridge's uuid may still be used to complete has ended at the
\* dispenser: an end is under way to the table, or it has arrived.
Ended ==
  \/ dispenser.phase \in {"limit", "complete"}
  \/ \E i \in 1..Len(pending) : pending[i] \in EndReport
  \/ TellOfEnd(queue)
  \/ txByAddress \in Done(rows)

\* The completed rows of earlier uuids, and the sale whose end is under way, were all
\* finished at the dispenser.
Counted ==
  Cardinality(Done(rows) \ {txByAddress}) + (IF Ended THEN 1 ELSE 0) <= dispenser.finished

SaleTypes ==
  /\ DispenserTypes /\ StoreInv
  /\ IsEvents(queue)
  /\ uuids \in Nat /\ txByAddress \in {None} \union 1..uuids
  /\ DOMAIN rows \subseteq 1..uuids
  /\ snapshot # None => snapshot.state \in PumpState

SaleInv == SaleTypes /\ Counted

\* The queue, when jobs are submitted and taken.
LEMMA QueueGrows ==
  ASSUME NEW a, IsEvents(a), NEW b, IsEvents(b), NEW k \in Int, k <= Len(b)
  PROVE  /\ IsEvents(a \o SubSeq(b, 1, k))
         /\ TellOfEnd(a \o SubSeq(b, 1, k)) => TellOfEnd(a) \/ TellOfEnd(b)
<1>0. PICK c : c = a \o SubSeq(b, 1, k)
  OBVIOUS
<1>1. PICK A, B : a \in Seq(A) /\ b \in Seq(B)
  BY DEF IsEvents
<1> DEFINE U == A \union B
           d == SubSeq(b, 1, k)
<1>2. a \in Seq(U) /\ b \in Seq(U)
  <2>1. Seq(A) \subseteq Seq(U) /\ Seq(B) \subseteq Seq(U)
    OBVIOUS
  <2> QED  BY <1>1, <2>1
<1> HIDE DEF U
<1>3. /\ d \in Seq(U) /\ Len(d) \in Nat
      /\ \A i \in 1..Len(d) : i \in 1..Len(b) /\ d[i] = b[i]
  BY <1>2
<1> HIDE DEF d
<1>4. /\ c \in Seq(U) /\ Len(c) = Len(a) + Len(d)
      /\ \A i \in 1..Len(a) : c[i] = a[i]
      /\ \A i \in 1..Len(d) : c[Len(a) + i] = d[i]
  BY <1>0, <1>2, <1>3 DEF d
<1>5. ASSUME NEW i \in 1..Len(c)
      PROVE  \/ \E j \in 1..Len(a) : c[i] = a[j]
             \/ \E j \in 1..Len(b) : c[i] = b[j]
  <2>1. Len(a) \in Nat
    BY <1>2
  <2>2. CASE i <= Len(a)
    BY <1>4, <2>1, <2>2
  <2>3. CASE i > Len(a)
    <3>1. i - Len(a) \in 1..Len(d) /\ Len(a) + (i - Len(a)) = i
      BY <1>3, <1>4, <2>1, <2>3
    <3> QED  BY <1>3, <1>4, <3>1
  <2> QED  BY <2>1, <2>2, <2>3
<1>6. \A i \in 1..Len(c) : IsNews(c[i])
  BY <1>5 DEF IsEvents
<1>7. TellOfEnd(c) => TellOfEnd(a) \/ TellOfEnd(b)
  <2> HIDE DEF TellsOfEnd
  <2> QED  BY <1>5 DEF TellOfEnd
<1>8. IsEvents(c)
  BY <1>4, <1>6 DEF IsEvents
<1> QED  BY <1>0, <1>7, <1>8

LEMMA QueueShrinks ==
  ASSUME NEW a, IsEvents(a), a # <<>>
  PROVE  /\ IsEvents(Tail(a)) /\ (TellOfEnd(Tail(a)) => TellOfEnd(a))
         /\ IsNews(Head(a)) /\ (TellsOfEnd(Head(a)) => TellOfEnd(a))
<1>1. PICK A : a \in Seq(A)
  BY DEF IsEvents
<1>2. /\ Tail(a) \in Seq(A) /\ Len(Tail(a)) = Len(a) - 1 /\ Len(a) \in Nat /\ Len(a) >= 1
      /\ \A i \in 1..(Len(a) - 1) : Tail(a)[i] = a[i + 1]
      /\ Head(a) = a[1]
  BY <1>1
<1>3. \A i \in 1..Len(Tail(a)) : i + 1 \in 1..Len(a) /\ Tail(a)[i] = a[i + 1]
  BY <1>2
<1>4. 1 \in 1..Len(a)
  BY <1>2
<1> HIDE DEF TellsOfEnd
<1> QED  BY <1>2, <1>3, <1>4 DEF IsEvents, TellOfEnd

\* What keeps the count.
LEMMA CountKept ==
  ASSUME SaleTypes, Counted, SaleTypes',
         Done(rows') \ {txByAddress'} \subseteq Done(rows) \ {txByAddress},
         dispenser'.finished >= dispenser.finished,
         Ended' => Ended \/ dispenser'.finished >= dispenser.finished + 1
  PROVE  Counted'
<1> DEFINE a == Done(rows) \ {txByAddress}
           b == Done(rows') \ {txByAddress'}
<1>1. IsFiniteSet(a) /\ Cardinality(a) \in Nat
  <2>1. a \subseteq 1..uuids
    BY DEF SaleTypes, Done
  <2>2. IsFiniteSet(1..uuids)
    BY FS_Interval DEF SaleTypes
  <2> HIDE DEF a
  <2> QED  BY <2>1, <2>2, FS_Subset, FS_CardinalityType
<1> HIDE DEF a, b
<1>2. IsFiniteSet(b) /\ Cardinality(b) <= Cardinality(a) /\ Cardinality(b) \in Nat
  <2>1. b \subseteq a
    BY DEF a, b
  <2> QED  BY <1>1, <2>1, FS_Subset, FS_CardinalityType
<1>3. dispenser.finished \in Nat /\ dispenser'.finished \in Nat
  BY DEF SaleTypes, DispenserTypes
<1>4. Cardinality(a) + (IF Ended THEN 1 ELSE 0) <= dispenser.finished
  BY DEF Counted, a
<1>5. Cardinality(b) + (IF Ended' THEN 1 ELSE 0) <= dispenser'.finished
  <2> HIDE DEF Ended
  <2>1. CASE Ended'
    BY <1>1, <1>2, <1>3, <1>4, <2>1
  <2>2. CASE ~Ended'
    BY <1>1, <1>2, <1>3, <1>4, <2>2
  <2> QED  BY <2>1, <2>2
<1> QED  BY <1>5 DEF Counted, b

\* A sale is finished when its end is reported, or the limit before it.
LEMMA ScriptEnds ==
  ASSUME NEW step \in Script, NEW i \in 1..Len(step[3]), step[3][i] \in EndReport
  PROVE  Finishes(step) \/ step[1] \in {"limit", "complete"}
<1>1. step \in {<<"ready", "lifted", <<Lifted>>>>, <<"lifted", "ready", <<Holstered>>>>,
                <<"lifted", "authorized", <<DC1(Authorized)>>>>,
                <<"authorized", "filling", <<DC1(Filling)>>>>,
                <<"filling", "paused", <<DC1(Suspended)>>>>,
                <<"paused", "filling", <<DC1(Filling)>>>>} =>
        \E r \in {Lifted, Holstered, DC1(Authorized), DC1(Filling), DC1(Suspended)} :
          step[3] = <<r>>
  OBVIOUS
<1>2. {Lifted, Holstered, DC1(Authorized), DC1(Filling), DC1(Suspended)} \intersect EndReport = {}
  BY ReportsDiffer, StatusesDiffer DEF EndReport
<1>3. \A r : i \in 1..Len(<<r>>) => <<r>>[i] = r
  OBVIOUS
<1>4. step \notin {<<"ready", "lifted", <<Lifted>>>>, <<"lifted", "ready", <<Holstered>>>>,
                   <<"lifted", "authorized", <<DC1(Authorized)>>>>,
                   <<"authorized", "filling", <<DC1(Filling)>>>>,
                   <<"filling", "paused", <<DC1(Suspended)>>>>,
                   <<"paused", "filling", <<DC1(Filling)>>>>}
  BY <1>1, <1>2, <1>3
<1>5. step \in {<<"filling",    "limit",      <<DC1(MaxReached)>>>>,
                <<"filling",    "complete",   <<DC1(FillingCompleted)>>>>,
                <<"paused",     "complete",   <<DC1(FillingCompleted)>>>>,
                <<"limit",      "complete",   <<DC1(FillingCompleted)>>>>,
                <<"complete",   "ready",      <<DC1(ResetStatus), Holstered>>>>}
  BY <1>4 DEF Script
<1> QED  BY <1>5 DEF Finishes

LEMMA CurrentEnds ==
  ASSUME NEW phase \in Phases, NEW i \in 1..Len(Current(phase)), Current(phase)[i] \in EndReport
  PROVE  phase \in {"limit", "complete"}
<1>1. {Lifted, Holstered, DC1(ResetStatus), DC1(Authorized), DC1(Filling), DC1(Suspended)}
        \intersect EndReport = {}
  BY ReportsDiffer, StatusesDiffer DEF EndReport
<1>2. phase \notin {"limit", "complete"} =>
        \E a, b \in {Lifted, Holstered, DC1(ResetStatus), DC1(Authorized), DC1(Filling),
                     DC1(Suspended)} : Current(phase) = <<a, b>>
  BY DEF Current, Phases
<1>3. \A a, b : i \in 1..Len(<<a, b>>) => <<a, b>>[i] \in {a, b}
  OBVIOUS
<1> QED  BY <1>1, <1>2, <1>3

\* The elements of a sequence with reports behind it.
LEMMA ReportsBehind ==
  ASSUME NEW X, NEW p \in Seq(X), NEW q \in Seq(X), NEW i \in 1..Len(p \o q)
  PROVE  (\E j \in 1..Len(p) : (p \o q)[i] = p[j]) \/ (\E j \in 1..Len(q) : (p \o q)[i] = q[j])
<1>1. /\ Len(p) \in Nat /\ Len(q) \in Nat /\ Len(p \o q) = Len(p) + Len(q)
      /\ \A j \in 1..Len(p) : (p \o q)[j] = p[j]
      /\ \A j \in 1..Len(q) : (p \o q)[Len(p) + j] = q[j]
  OBVIOUS
<1>2. CASE i <= Len(p)
  BY <1>1, <1>2
<1>3. CASE i > Len(p)
  <2>1. i - Len(p) \in 1..Len(q) /\ Len(p) + (i - Len(p)) = i
    BY <1>1, <1>3
  <2>2. (p \o q)[Len(p) + (i - Len(p))] = q[i - Len(p)]
    BY <1>1, <2>1
  <2> QED  BY <2>1, <2>2
<1> QED  BY <1>2, <1>3

LEMMA EndBehind ==
  ASSUME DispenserTypes, NEW q \in Seq(DispenserReport), pending' = pending \o q,
         NEW i \in 1..Len(pending'), pending'[i] \in EndReport
  PROVE  \/ \E j \in 1..Len(pending) : pending[j] \in EndReport
         \/ \E j \in 1..Len(q) : q[j] \in EndReport
BY ReportsBehind DEF DispenserTypes

LEMMA DispenserCounts == SaleInv /\ DispenserWorks => SaleInv'
<1> SUFFICES ASSUME SaleInv, DispenserWorks  PROVE SaleInv'
  OBVIOUS
<1>1. UNCHANGED <<queue, txByAddress, uuids, rows, completions, snapshot>>
  BY DEF DispenserWorks, storeVars
<1>2. DispenserTypes /\ DispenserSteps /\ dispenser.phase \in Phases
  BY DEF SaleInv, SaleTypes, DispenserWorks, DispenserTypes
<1>3. DispenserTypes' /\ dispenser'.finished >= dispenser.finished
  BY <1>2, DispenserStepTypes
<1>4. SaleTypes'
  BY <1>1, <1>3 DEF SaleInv, SaleTypes, StoreInv, IsEvents, IsNews
<1>5. Ended' => Ended \/ dispenser'.finished >= dispenser.finished + 1
  <2> SUFFICES ASSUME Ended', ~Ended  PROVE dispenser'.finished >= dispenser.finished + 1
    OBVIOUS
  <2>1. ~TellOfEnd(queue)' /\ ~(txByAddress \in Done(rows))'
    BY <1>1 DEF Ended, TellOfEnd
  <2>2. /\ dispenser.phase \notin {"limit", "complete"}
        /\ \A j \in 1..Len(pending) : pending[j] \notin EndReport
        /\ \/ dispenser'.phase \in {"limit", "complete"}
           \/ \E i \in 1..Len(pending') : pending'[i] \in EndReport
    BY <2>1 DEF Ended
  <2>3. CASE DispenserMoves
    <3>1. PICK step \in Script :
            /\ dispenser.phase = step[1]
            /\ dispenser' = [dispenser EXCEPT
                               !.phase = step[2],
                               !.started = IF Starts(step) THEN @ + 1 ELSE @,
                               !.volume = IF Starts(step) THEN 0 ELSE @,
                               !.finished = IF Finishes(step) THEN @ + 1 ELSE @]
            /\ pending' = pending \o step[3]
      BY <2>3 DEF DispenserMoves, Reports
    <3>2. /\ dispenser'.phase = step[2]
          /\ Finishes(step) => dispenser'.finished = dispenser.finished + 1
      BY <1>2, <3>1 DEF DispenserTypes
    <3>3. step[2] \in {"limit", "complete"} /\ step[1] \notin {"limit", "complete"} =>
            Finishes(step)
      BY DEF Script, Finishes
    <3>4. (\E i \in 1..Len(pending') : pending'[i] \in EndReport) =>
            \E j \in 1..Len(step[3]) : step[3][j] \in EndReport
      BY <1>2, <2>2, <3>1, EndBehind, ScriptReports
    <3>5. Finishes(step)
      BY <2>2, <3>1, <3>2, <3>3, <3>4, ScriptEnds
    <3> QED  BY <1>2, <3>2, <3>5 DEF DispenserTypes
  <2>4. CASE FuelFlows
    <3>1. /\ dispenser.phase = "filling" /\ dispenser'.phase = "filling"
          /\ pending' = pending \o <<DC2(dispenser.volume + 1)>>
      BY <1>2, <2>4 DEF FuelFlows, Reports, DispenserTypes
    <3>2. <<DC2(dispenser.volume + 1)>> \in Seq(DispenserReport)
      <4>1. dispenser.volume + 1 \in Nat
        BY <1>2 DEF DispenserTypes
      <4> QED  BY <4>1 DEF DispenserReport, VolumeReport
    <3>3. DC2(dispenser.volume + 1) \notin EndReport
      BY ReportKinds DEF EndReport
    <3>4. \A j \in 1..Len(<<DC2(dispenser.volume + 1)>>) :
            <<DC2(dispenser.volume + 1)>>[j] \notin EndReport
      BY <3>3
    <3> QED  BY <1>2, <2>2, <3>1, <3>2, <3>4, EndBehind
  <2>5. CASE ReportStatus
    <3>1. dispenser' = dispenser /\ pending' = pending \o Current(dispenser.phase)
      BY <2>5 DEF ReportStatus, Reports
    <3>2. Current(dispenser.phase) \in Seq(DispenserReport)
      BY <1>2, CurrentReports
    <3>3. \A j \in 1..Len(Current(dispenser.phase)) :
            Current(dispenser.phase)[j] \notin EndReport
      BY <1>2, <2>2, CurrentEnds
    <3> QED  BY <1>2, <2>2, <3>1, <3>2, <3>3, EndBehind
  <2> QED  BY <1>2, <2>3, <2>4, <2>5 DEF DispenserSteps
<1>6. Counted'
  BY <1>1, <1>3, <1>4, <1>5, CountKept DEF SaleInv
<1> QED  BY <1>4, <1>6 DEF SaleInv

\* What the session tells of a sale's end was reported.
LEMMA PollCounts == SaleInv /\ PollPump => SaleInv'
<1> SUFFICES ASSUME SaleInv, PollPump  PROVE SaleInv'
  OBVIOUS
<1>1. UNCHANGED <<txByAddress, uuids, rows, completions, snapshot>>
  BY DEF PollPump, storeVars
<1>2. DispenserTypes /\ ControllerSteps
  BY DEF SaleInv, SaleTypes, PollPump
<1>3. /\ DispenserTypes' /\ dispenser' = dispenser
      /\ TellOfEnd(session'.events) => \E i \in 1..Len(pending) : pending[i] \in EndReport
      /\ \A i \in 1..Len(pending') : pending'[i] \in EndReport =>
           \E j \in 1..Len(pending) : pending[j] \in EndReport
  <2>1. CASE DeliverFrame
    <3>1. PICK n \in 1..MaxBlock :
            n <= Len(pending) /\ pending' = SubSeq(pending, n + 1, Len(pending))
      BY <2>1 DEF DeliverFrame
    <3>2. n \in Nat /\ pending \in Seq(DispenserReport)
      BY <1>2, DispenserAssumption DEF DispenserTypes
    <3>3. /\ Len(pending) \in Nat /\ Len(pending') = Len(pending) - n
          /\ \A i \in 1..(Len(pending) - n) : pending'[i] = pending[n + i]
      BY <3>1, <3>2, BlockFields
    <3>4. \A i \in 1..Len(pending') : n + i \in 1..Len(pending) /\ pending'[i] = pending[n + i]
      BY <3>1, <3>2, <3>3
    <3>5. dispenser' = dispenser
      BY <2>1 DEF DeliverFrame, ControllerStep
    <3> QED  BY <1>2, <2>1, <3>4, <3>5, DeliverTypes
  <2>2. CASE DeliverNothing \/ Blip \/ Outage
    <3>1. UNCHANGED <<dispenser, pending>>
      BY <2>2 DEF DeliverNothing, Blip, Outage, ControllerStep
    <3> QED  BY <1>2, <2>2, <3>1, SilenceTypes
  <2> QED  BY <1>2, <2>1, <2>2 DEF ControllerSteps
<1>4. IsEvents(queue') /\ (TellOfEnd(queue') => TellOfEnd(queue) \/ TellOfEnd(session'.events))
  <2>1. IsEvents(queue) /\ IsEvents(session'.events)
    BY <1>3 DEF SaleInv, SaleTypes, DispenserTypes, IsSession, IsEvents, IsNews
  <2>2. PICK notices : notices = session'.events
    OBVIOUS
  <2> DEFINE room == MaxQueue - Len(queue)
             kept == IF room < Len(notices) THEN room ELSE Len(notices)
  <2>3. queue' = queue \o SubSeq(notices, 1, kept)
    BY <2>2 DEF PollPump, Submits
  <2>4. kept \in Int /\ kept <= Len(notices)
    <3>1. Len(queue) \in Nat /\ Len(notices) \in Nat
      BY <2>1, <2>2 DEF IsEvents
    <3> QED  BY <3>1, PersistenceAssumption
  <2> HIDE DEF kept
  <2>5. PICK c : c = queue'
    OBVIOUS
  <2>6. IsEvents(queue) /\ IsEvents(notices) /\ c = queue \o SubSeq(notices, 1, kept)
    BY <2>1, <2>2, <2>3, <2>5 DEF IsEvents
  <2>7. IsEvents(c) /\ (TellOfEnd(c) => TellOfEnd(queue) \/ TellOfEnd(notices))
    BY <2>4, <2>6, QueueGrows
  <2> QED  BY <2>2, <2>5, <2>7 DEF IsEvents, TellOfEnd
<1>5. SaleTypes'
  BY <1>1, <1>3, <1>4 DEF SaleInv, SaleTypes, StoreInv, IsEvents, IsNews
<1>6. Ended' => Ended
  <2>1. Ended' =>
          \/ dispenser'.phase \in {"limit", "complete"}
          \/ \E i \in 1..Len(pending') : pending'[i] \in EndReport
          \/ TellOfEnd(queue')
          \/ txByAddress' \in Done(rows')
    BY DEF Ended, TellOfEnd
  <2> QED  BY <1>1, <1>3, <1>4, <2>1 DEF Ended
<1>7. Counted'
  <2>1. dispenser'.finished >= dispenser.finished
    BY <1>3 DEF SaleInv, SaleTypes, DispenserTypes
  <2> QED  BY <1>1, <1>5, <1>6, <2>1, CountKept DEF SaleInv
<1> QED  BY <1>5, <1>7 DEF SaleInv

\* What a job does to the uuid, the table and the snapshot.
JobOK(job) ==
  /\ uuids' \in Nat /\ txByAddress' \in {None} \union 1..uuids'
  /\ DOMAIN rows' \subseteq 1..uuids'
  /\ snapshot' # None => snapshot'.state \in PumpState
  /\ Done(rows') \ {txByAddress'} \subseteq Done(rows) \ {txByAddress}
  /\ txByAddress' \in Done(rows') => txByAddress \in Done(rows) \/ TellsOfEnd(job)

\* A new uuid has no row yet, and a new row is active.
LEMMA BeginCounts ==
  ASSUME SaleTypes, NEW job, BeginsSale(job), snapshot' # None => snapshot'.state \in PumpState
  PROVE  JobOK(job)
<1> DEFINE uuid == IF txByAddress = None THEN uuids + 1 ELSE txByAddress
<1>1. /\ txByAddress' = uuid
      /\ uuids' = IF txByAddress = None THEN uuid ELSE uuids
      /\ rows' = [u \in DOMAIN rows \union {uuid} |->
                    IF u \in DOMAIN rows THEN rows[u]
                    ELSE [status |-> "ACTIVE", volume |-> 0, key |-> None]]
  BY DEF BeginsSale
<1>2. uuids \in Nat /\ txByAddress \in {None} \union 1..uuids /\ DOMAIN rows \subseteq 1..uuids
      /\ None \notin 1..uuids
  BY DispenserAssumption DEF SaleTypes
<1>3. /\ uuids' \in Nat /\ uuid \in 1..uuids' /\ 1..uuids \subseteq 1..uuids'
      /\ txByAddress = None => uuid \notin 1..uuids
      /\ txByAddress # None => uuid = txByAddress
  BY <1>1, <1>2
<1> HIDE DEF uuid
<1>4. DOMAIN rows' = DOMAIN rows \union {uuid}
  BY <1>1
<1>5. Done(rows') \subseteq Done(rows)
  <2>1. ASSUME NEW u \in DOMAIN rows', u \notin DOMAIN rows  PROVE rows'[u].status = "ACTIVE"
    BY <1>1, <2>1
  <2>2. ASSUME NEW u \in DOMAIN rows  PROVE rows'[u] = rows[u]
    BY <1>1
  <2> QED  BY <2>1, <2>2 DEF Done
<1>6. Done(rows) \subseteq DOMAIN rows
  BY DEF Done
<1>7. DOMAIN rows' \subseteq 1..uuids' /\ txByAddress' \in 1..uuids'
  BY <1>1, <1>2, <1>3, <1>4
<1>8. CASE txByAddress = None
  BY <1>1, <1>2, <1>3, <1>5, <1>6, <1>7, <1>8 DEF JobOK
<1>9. CASE txByAddress # None
  BY <1>1, <1>2, <1>3, <1>5, <1>6, <1>7, <1>9 DEF JobOK
<1> QED  BY <1>8, <1>9

\* Only the row of the bridge's uuid is completed.
LEMMA CompletionCounts ==
  ASSUME SaleTypes, NEW job, CompletesSale(job), TellsOfEnd(job),
         snapshot' # None => snapshot'.state \in PumpState
  PROVE  JobOK(job)
<1>1. UNCHANGED <<txByAddress, uuids>>
  BY DEF CompletesSale
<1>2. /\ DOMAIN rows' = DOMAIN rows
      /\ \A u \in DOMAIN rows \ {txByAddress} : rows'[u] = rows[u]
  <2>1. \/ rows' = rows
        \/ \E key : rows' = [rows EXCEPT ![txByAddress].status = "COMPLETED",
                                         ![txByAddress].key = key]
    BY DEF CompletesSale
  <2> QED  BY <2>1
<1>3. Done(rows') \subseteq Done(rows) \union {txByAddress}
  BY <1>2 DEF Done
<1> QED  BY <1>1, <1>2, <1>3 DEF JobOK, SaleTypes

LEMMA DecodedCounts ==
  ASSUME SaleTypes, NEW job, HandleDecoded(job)
  PROVE  JobOK(job)
<1>1. UNCHANGED <<txByAddress, uuids, snapshot>>
  BY DEF HandleDecoded
<1>2. \/ rows' = rows
      \/ /\ txByAddress \in DOMAIN rows
         /\ \E volume : rows' = [rows EXCEPT ![txByAddress].volume = volume]
  BY DEF HandleDecoded
<1>3. CASE rows' = rows
  BY <1>1, <1>3 DEF JobOK, SaleTypes
<1>4. ASSUME txByAddress \in DOMAIN rows,
             NEW volume, rows' = [rows EXCEPT ![txByAddress].volume = volume]
      PROVE  JobOK(job)
  <2> DEFINE r == [rows[txByAddress] EXCEPT !.volume = volume]
  <2>1. IsRow(rows[txByAddress])
    BY <1>4 DEF SaleTypes, StoreInv, StoreOK, IsTable
  <2>2. r.status = rows[txByAddress].status
    <3>1. r = [status |-> rows[txByAddress].status, volume |-> volume,
               key |-> rows[txByAddress].key]
      BY <2>1, RowFields
    <3> QED  BY <3>1
  <2>3. rows' = [rows EXCEPT ![txByAddress] = r]
    BY <1>4
  <2> HIDE DEF r
  <2>4. /\ DOMAIN rows' = DOMAIN rows
        /\ \A u \in DOMAIN rows : rows'[u].status = rows[u].status
    BY <2>2, <2>3
  <2>5. Done(rows') = Done(rows)
    BY <2>4 DEF Done
  <2> QED  BY <1>1, <2>4, <2>5 DEF JobOK, SaleTypes
<1> QED  BY <1>2, <1>3, <1>4

LEMMA QuietCounts ==
  ASSUME SaleTypes, NEW job, NoTransaction, snapshot' # None => snapshot'.state \in PumpState
  PROVE  JobOK(job)
BY DEF JobOK, SaleTypes, NoTransaction

LEMMA SnapshotTyped ==
  ASSUME SaleTypes, NEW s, s.state \in PumpState, PersistsSnapshot(s)
  PROVE  snapshot' # None => snapshot'.state \in PumpState
BY DEF SaleTypes, PersistsSnapshot

LEMMA JobCounts ==
  ASSUME SaleTypes, NEW job, IsNews(job),
         HandleStateChanged(job) \/ HandleDecoded(job) \/ HandleComm(job)
  PROVE  JobOK(job)
<1>1. \A state, version, healthy, nozzle, raw, frame, previous :
        Snapshot(state, version, healthy, nozzle, raw, frame, previous).state = state
  BY DEF Snapshot
<1>2. CASE HandleStateChanged(job)
  <2>1. PICK s : s.state = job.ctx.current_state /\ PersistsSnapshot(s)
    BY <1>1, <1>2 DEF HandleStateChanged
  <2>2. job.type = "STATE_CHANGED" /\ job.ctx.current_state \in PumpState
    BY <1>2 DEF HandleStateChanged, IsNews
  <2>3. snapshot' # None => snapshot'.state \in PumpState
    BY <2>1, <2>2, SnapshotTyped
  <2>4. \/ BeginsSale(job)
        \/ EndsSale(job.ctx.current_state) /\ CompletesSale(job)
        \/ NoTransaction
    BY <1>2 DEF HandleStateChanged
  <2> QED  BY <2>2, <2>3, <2>4, BeginCounts, CompletionCounts, QuietCounts
          DEF TellsOfEnd, EndsSale, SaleEnds
<1>3. CASE HandleComm(job)
  <2>1. PICK s : /\ s.state = IF snapshot = None THEN "DISCONNECTED" ELSE snapshot.state
                 /\ PersistsSnapshot(s)
    BY <1>1, <1>3 DEF HandleComm
  <2>2. s.state \in PumpState
    BY <2>1 DEF SaleTypes, PumpState
  <2>3. NoTransaction /\ (snapshot' # None => snapshot'.state \in PumpState)
    BY <1>3, <2>1, <2>2, SnapshotTyped DEF HandleComm
  <2> QED  BY <2>3, QuietCounts
<1> QED  BY <1>2, <1>3, DecodedCounts

\* A job, whether it runs or fails.
LEMMA TakenJobCounts ==
  ASSUME SaleInv, TakesJob, StoreInv', NEW job, job = Head(queue), JobOK(job)
  PROVE  SaleInv'
<1>1. UNCHANGED <<dispenser, pending, seq, session, outages>>
      /\ queue # <<>> /\ queue' = Tail(queue)
  BY DEF TakesJob, dispenserVars
<1>2. IsEvents(queue)
  BY DEF SaleInv, SaleTypes
<1>3. /\ IsEvents(Tail(queue)) /\ (TellOfEnd(Tail(queue)) => TellOfEnd(queue))
      /\ TellsOfEnd(job) => TellOfEnd(queue)
  BY <1>1, <1>2, QueueShrinks
<1>4. DispenserTypes'
  BY <1>1 DEF SaleInv, SaleTypes, DispenserTypes, IsSession, IsContext, IsEvents, IsNews
<1>5. SaleTypes'
  <2>1. IsEvents(queue)'
    BY <1>1, <1>3 DEF IsEvents, IsNews
  <2> QED  BY <1>4, <2>1 DEF JobOK, SaleTypes
<1>6. Ended' => Ended
  <2>1. Ended' =>
          \/ dispenser'.phase \in {"limit", "complete"}
          \/ \E i \in 1..Len(pending') : pending'[i] \in EndReport
          \/ TellOfEnd(queue')
          \/ txByAddress' \in Done(rows')
    BY DEF Ended, TellOfEnd
  <2> QED  BY <1>1, <1>3, <2>1 DEF Ended, JobOK
<1>7. Counted'
  <2>1. dispenser'.finished >= dispenser.finished
    BY <1>1 DEF SaleInv, SaleTypes, DispenserTypes
  <2> QED  BY <1>5, <1>6, <2>1, CountKept DEF SaleInv, JobOK
<1> QED  BY <1>5, <1>7 DEF SaleInv

LEMMA WorkerCounts == SaleInv /\ (RunJob \/ JobFails) /\ StoreInv' => SaleInv'
<1> SUFFICES ASSUME SaleInv, RunJob \/ JobFails, StoreInv'  PROVE SaleInv'
  OBVIOUS
<1>1. SaleTypes /\ TakesJob /\ IsEvents(queue) /\ queue # <<>>
  BY DEF SaleInv, SaleTypes, RunJob, JobFails, TakesJob
<1>2. PICK job : job = Head(queue)
  OBVIOUS
<1>3. IsNews(job)
  BY <1>1, <1>2, QueueShrinks
<1>4. CASE RunJob
  <2>1. HandleStateChanged(job) \/ HandleDecoded(job) \/ HandleComm(job)
    BY <1>2, <1>4 DEF RunJob
  <2>2. JobOK(job)
    BY <1>1, <1>3, <2>1, JobCounts
  <2> QED  BY <1>1, <1>2, <2>2, TakenJobCounts
<1>5. CASE JobFails
  <2>1. /\ rows' = rows /\ snapshot' = snapshot
        /\ \/ txByAddress' = txByAddress /\ uuids' = uuids
           \/ txByAddress = None /\ txByAddress' = uuids + 1 /\ uuids' = uuids + 1
    BY <1>5 DEF JobFails
  <2>2. uuids \in Nat /\ txByAddress \in {None} \union 1..uuids /\ DOMAIN rows \subseteq 1..uuids
        /\ None \notin 1..uuids /\ (snapshot # None => snapshot.state \in PumpState)
    BY <1>1, DispenserAssumption DEF SaleTypes
  <2>3. Done(rows) \subseteq 1..uuids
    BY <2>2 DEF Done
  <2>4. JobOK(job)
    <3>1. CASE txByAddress' = txByAddress /\ uuids' = uuids
      BY <2>1, <2>2, <3>1 DEF JobOK
    <3>2. CASE txByAddress = None /\ txByAddress' = uuids + 1 /\ uuids' = uuids + 1
      <4>1. uuids + 1 \notin 1..uuids /\ 1..uuids \subseteq 1..(uuids + 1)
            /\ uuids + 1 \in 1..(uuids + 1) /\ uuids + 1 \in Nat
        BY <2>2
      <4>2. None \notin Done(rows) /\ uuids + 1 \notin Done(rows)
        BY <2>2, <2>3, <4>1
      <4> QED  BY <2>1, <2>2, <3>2, <4>1, <4>2 DEF JobOK
    <3> QED  BY <2>1, <3>1, <3>2
  <2> QED  BY <1>1, <1>2, <2>4, TakenJobCounts
<1> QED  BY <1>4, <1>5

\* The machine starts in the snapshot's state.
LEMMA RecoveredFields ==
  ASSUME SaleTypes
  PROVE  IsContext(Recovered)
<1>1. ASSUME NEW state \in PumpState
      PROVE  IsContext(NewContext(state, FALSE))
  BY DEF NewContext, IsContext, ContextFields
<1>2. CASE snapshot = None
  <2>1. Recovered = NewContext("DISCONNECTED", FALSE)
    BY <1>2 DEF Recovered
  <2>2. "DISCONNECTED" \in PumpState
    BY DEF PumpState
  <2> QED  BY <1>1, <2>1, <2>2
<1>3. CASE snapshot # None
  <2>1. PICK c : c = NewContext(snapshot.state, FALSE)
    OBVIOUS
  <2>2. IsContext(c)
    BY <1>1, <1>3, <2>1 DEF SaleTypes
  <2>3. Recovered = [c EXCEPT !.previous_state = snapshot.previous,
                              !.selected_nozzle = snapshot.nozzle,
                              !.last_raw_wayne_status = snapshot.raw,
                              !.state_version = snapshot.version,
                              !.last_source_frame_hex = snapshot.frame]
    BY <1>3, <2>1 DEF Recovered
  <2> QED  BY <2>2, <2>3 DEF IsContext, ContextFields
<1> QED  BY <1>2, <1>3

LEMMA PowerCutCounts == SaleInv /\ PowerCut => SaleInv'
<1> SUFFICES ASSUME SaleInv, PowerCut  PROVE SaleInv'
  OBVIOUS
<1>1. /\ UNCHANGED <<outages, uuids, rows, completions, snapshot>>
      /\ session' = SessionWith(Recovered)
      /\ dispenser' = [dispenser EXCEPT !.phase = "ready"]
      /\ pending' = Current("ready") /\ seq' = 0
      /\ queue' = <<>> /\ txByAddress' = None
  BY DEF PowerCut
<1>2. SaleTypes /\ "ready" \in Phases
  BY DEF SaleInv, Phases
<1>3. IsSession(session')
  <2>1. PICK c : c = Recovered
    OBVIOUS
  <2>2. IsContext(c) /\ session' = SessionWith(c)
    BY <1>1, <1>2, <2>1, RecoveredFields
  <2>3. PICK s : s = SessionWith(c)
    OBVIOUS
  <2>4. /\ DOMAIN s = {"ctx", "health", "keys", "events"} /\ s = [f \in DOMAIN s |-> s[f]]
        /\ s.ctx = c /\ s.events = <<>>
    BY <2>3 DEF SessionWith
  <2>5. IsSession(s)
    BY <2>2, <2>4, NoEvents DEF IsSession
  <2> QED  BY <2>2, <2>3, <2>5
<1>4. pending' \in Seq(DispenserReport)
  BY <1>1, <1>2, CurrentReports
<1>5. /\ dispenser' \in [phase : Phases, started : Nat, finished : Nat, volume : Nat]
      /\ dispenser'.phase = "ready" /\ dispenser'.finished = dispenser.finished
  BY <1>1, <1>2 DEF SaleTypes, DispenserTypes
<1>6. DispenserTypes'
  <2>1. seq' \in 0..MaxSeq /\ outages' \in Nat
    BY <1>1, <1>2, DispenserAssumption DEF SaleTypes, DispenserTypes
  <2>2. IsSession(session)'
    BY <1>3 DEF IsSession, IsContext, IsEvents, IsNews
  <2> QED  BY <1>4, <1>5, <2>1, <2>2 DEF DispenserTypes
<1>7. SaleTypes'
  <2>1. IsEvents(queue)'
    BY <1>1, NoEvents DEF IsEvents, IsNews
  <2> QED  BY <1>1, <1>2, <1>6, <2>1 DEF SaleTypes, StoreInv
<1>8. None \notin Done(rows)
  BY <1>2, DispenserAssumption DEF SaleTypes, Done
<1>9. ~Ended'
  <2>1. ~TellOfEnd(queue)'
    BY <1>1, NoEvents DEF TellOfEnd
  <2>2. \A i \in 1..Len(pending') : pending'[i] \notin EndReport
    BY <1>1, <1>2, CurrentEnds
  <2>3. (txByAddress \in Done(rows))' <=> None \in Done(rows)
    BY <1>1
  <2> QED  BY <1>5, <1>8, <2>1, <2>2, <2>3 DEF Ended
<1>10. Counted'
  <2> DEFINE a == Done(rows) \ {txByAddress}
  <2>1. IsFiniteSet(a) /\ Cardinality(a) \in Nat
    <3>1. a \subseteq 1..uuids /\ IsFiniteSet(1..uuids)
      BY <1>2, FS_Interval DEF SaleTypes, Done
    <3> HIDE DEF a
    <3> QED  BY <3>1, FS_Subset, FS_CardinalityType
  <2>2. Cardinality(a) + (IF Ended THEN 1 ELSE 0) <= dispenser.finished
    BY DEF SaleInv, Counted
  <2>3. txByAddress \in Done(rows) => Ended
    BY DEF Ended
  <2>4. Done(rows) \ {None} = IF txByAddress \in Done(rows) THEN a \union {txByAddress} ELSE a
    BY <1>8
  <2>5. txByAddress \notin a
    OBVIOUS
  <2> HIDE DEF a, Ended
  <2>6. Cardinality(a \union {txByAddress}) = Cardinality(a) + 1
    BY <2>1, <2>5, FS_AddElement
  <2>7. Cardinality(Done(rows) \ {None}) <= Cardinality(a) + (IF Ended THEN 1 ELSE 0)
    BY <2>1, <2>3, <2>4, <2>6
  <2>8. dispenser.finished \in Nat
    BY <1>2 DEF SaleTypes, DispenserTypes
  <2>9. Cardinality(Done(rows) \ {None}) \in Nat
    BY <2>1, <2>4, <2>6
  <2>10. Cardinality(Done(rows) \ {None}) + 0 <= dispenser.finished
    BY <2>1, <2>2, <2>7, <2>8, <2>9
  <2> QED  BY <1>1, <1>5, <1>9, <2>10 DEF Counted
<1> QED  BY <1>7, <1>10 DEF SaleInv

LEMMA SaleInvariant == Spec => []SaleInv
<1>1. Init => SaleInv
  <2> SUFFICES ASSUME Init  PROVE SaleInv
    OBVIOUS
  <2>1. DispenserTypes /\ dispenser.finished = 0 /\ dispenser.phase = "ready"
        /\ pending = Current("ready") /\ "ready" \in Phases
    BY DispenserInitTypes DEF Init, DispenserInit, Phases
  <2>2. queue = <<>> /\ txByAddress = None /\ uuids = 0 /\ rows = <<>> /\ snapshot = None
    BY DEF Init
  <2>3. StoreInv /\ Done(rows) = {}
    BY DEF Init, StoreInv, StoreOK, IsTable, ToldAsCompleted, KeysAreUnique, IsCompleted, Done
  <2>4. SaleTypes
    <3>1. DOMAIN rows \subseteq 1..uuids
      BY <2>2
    <3> QED  BY <2>1, <2>2, <2>3, <3>1, NoEvents DEF SaleTypes
  <2>5. ~Ended
    <3>1. \A i \in 1..Len(pending) : pending[i] \notin EndReport
      BY <2>1, CurrentEnds
    <3> QED  BY <2>1, <2>2, <2>3, <3>1, NoEvents DEF Ended
  <2>6. Counted
    <3>1. Cardinality(Done(rows) \ {txByAddress}) = 0
      BY <2>3, FS_EmptySet
    <3> QED  BY <2>1, <2>5, <3>1 DEF Counted
  <2> QED  BY <2>4, <2>6 DEF SaleInv
<1>2. SaleInv /\ [Next]_vars => SaleInv'
  <2> SUFFICES ASSUME SaleInv, [Next]_vars  PROVE SaleInv'
    OBVIOUS
  <2>1. StoreInv'
    BY StepKeepsStore DEF SaleInv, SaleTypes
  <2>2. CASE Next
    BY <2>1, <2>2, DispenserCounts, PollCounts, WorkerCounts, PowerCutCounts DEF Next
  <2>3. CASE UNCHANGED vars
    <3>1. UNCHANGED <<dispenser, pending, seq, session, outages, queue, txByAddress, uuids,
                      rows, completions, snapshot>>
      BY <2>3 DEF vars, dispenserVars, storeVars
    <3>2. SaleTypes'
      BY <2>1, <3>1 DEF SaleInv, SaleTypes, DispenserTypes, IsSession, IsContext, IsEvents,
                        IsNews
    <3>3. Counted'
      <4>1. Ended' <=> Ended
        BY <3>1 DEF Ended, TellOfEnd
      <4> QED  BY <3>1, <4>1 DEF SaleInv, Counted
    <3> QED  BY <3>2, <3>3 DEF SaleInv
  <2> QED  BY <2>2, <2>3
<1> QED  BY <1>1, <1>2, PTL DEF Spec

-----------------------------------------------------------------------------
(* Where the jobs of a queue lead the snapshot. *)

\* What is compared of a snapshot; a pump without one starts as one that is disconnected.
IsView(p) == p = [state |-> p.state, version |-> p.version] /\ p.version \in Nat

Stored ==
  IF snapshot = None THEN [state |-> "DISCONNECTED", version |-> 0]
  ELSE [state |-> snapshot.state, version |-> snapshot.version]

\* What a job makes of it: insert_if_meaningful, and the version of _handle_comm.
Persisted(p, job) ==
  IF job.type = "STATE_CHANGED"
  THEN IF job.ctx.state_version >= p.version
       THEN [state |-> job.ctx.current_state, version |-> job.ctx.state_version] ELSE p
  ELSE IF job.type \in {"PUMP_CONNECTED", "PUMP_DISCONNECTED"}
  THEN [state |-> p.state, version |-> p.version + 1] ELSE p

\* The views after each job.
AreViews(f, p, q) ==
  f[0] = p /\ \A i \in 1..Len(q) : f[i] = Persisted(f[i - 1], q[i])

Yields(p, q, r) == \E f : AreViews(f, p, q) /\ f[Len(q)] = r

IsNumbered(job) == job.type = "STATE_CHANGED" => job.ctx.state_version \in Nat

AreNumbered(q) == \A i \in 1..Len(q) : IsNumbered(q[i])

LEMMA NothingYields ==
  ASSUME NEW p
  PROVE  Yields(p, <<>>, p) /\ AreNumbered(<<>>)
<1> DEFINE f == [i \in {0} |-> p]
<1>1. Len(<<>>) = 0 /\ f[0] = p
  OBVIOUS
<1> HIDE DEF f
<1> QED  BY <1>1 DEF Yields, AreViews, AreNumbered

LEMMA AppendYields ==
  ASSUME NEW p, NEW q, IsEvents(q), NEW r, Yields(p, q, r), NEW job
  PROVE  Yields(p, Append(q, job), Persisted(r, job))
<1>1. PICK f : AreViews(f, p, q) /\ f[Len(q)] = r
  BY DEF Yields
<1>2. PICK S : q \in Seq(S)
  BY DEF IsEvents
<1> DEFINE U == S \union {job}
           n == Len(q)
           b == Append(q, job)
           g == [i \in 0..(n + 1) |-> IF i = n + 1 THEN Persisted(r, job) ELSE f[i]]
<1>3. q \in Seq(U) /\ job \in U
  <2>1. Seq(S) \subseteq Seq(U)
    OBVIOUS
  <2> QED  BY <1>2, <2>1
<1> HIDE DEF U
<1>4. /\ n \in Nat /\ Len(b) = n + 1 /\ b[n + 1] = job
      /\ \A i \in 1..n : b[i] = q[i]
  BY <1>3
<1> HIDE DEF n, b
<1>5. /\ g[n + 1] = Persisted(r, job)
      /\ \A i \in 0..n : g[i] = f[i]
  BY <1>4
<1>6. g[0] = p /\ g[n] = r
  BY <1>1, <1>4, <1>5 DEF AreViews, n
<1> HIDE DEF g
<1>7. ASSUME NEW i \in 1..(n + 1)
      PROVE  g[i] = Persisted(g[i - 1], b[i])
  <2>1. CASE i = n + 1
    <3>1. i - 1 = n
      BY <1>4, <2>1
    <3> QED  BY <1>4, <1>5, <1>6, <2>1, <3>1
  <2>2. CASE i # n + 1
    <3>1. i \in 1..n /\ i \in 0..n /\ i - 1 \in 0..n
      BY <1>4, <2>2
    <3>2. f[i] = Persisted(f[i - 1], q[i])
      BY <1>1, <3>1 DEF AreViews, n
    <3> QED  BY <1>4, <1>5, <3>1, <3>2
  <2> QED  BY <2>1, <2>2
<1>8. AreViews(g, p, b) /\ g[Len(b)] = Persisted(r, job)
  BY <1>4, <1>5, <1>6, <1>7 DEF AreViews
<1> QED  BY <1>8 DEF Yields, b

\* The worker takes the first job.
LEMMA TailYields ==
  ASSUME NEW p, NEW q, IsEvents(q), q # <<>>, NEW r, Yields(p, q, r)
  PROVE  Yields(Persisted(p, Head(q)), Tail(q), r)
<1>1. PICK f : AreViews(f, p, q) /\ f[Len(q)] = r
  BY DEF Yields
<1>2. PICK S : q \in Seq(S)
  BY DEF IsEvents
<1> DEFINE n == Len(q) - 1
           b == Tail(q)
           g == [i \in 0..n |-> f[i + 1]]
<1>3. /\ n \in Nat /\ Len(b) = n /\ Len(q) = n + 1 /\ Head(q) = q[1]
      /\ \A i \in 1..n : b[i] = q[i + 1]
  BY <1>2
<1> HIDE DEF n, b
<1>4. \A i \in 0..n : g[i] = f[i + 1]
  OBVIOUS
<1> HIDE DEF g
<1>5. \A i \in 1..(n + 1) : f[i] = Persisted(f[i - 1], q[i])
  BY <1>1, <1>3 DEF AreViews
<1>6. g[0] = Persisted(p, Head(q))
  <2>1. 1 \in 1..(n + 1) /\ 1 - 1 = 0 /\ 0 + 1 = 1 /\ 0 \in 0..n /\ f[0] = p
    BY <1>1, <1>3 DEF AreViews
  <2>2. f[1] = Persisted(f[1 - 1], q[1])
    BY <1>5, <2>1
  <2> QED  BY <1>3, <1>4, <2>1, <2>2
<1>7. ASSUME NEW i \in 1..n
      PROVE  g[i] = Persisted(g[i - 1], b[i])
  <2>1. i \in 0..n /\ i - 1 \in 0..n /\ i + 1 \in 1..(n + 1) /\ (i + 1) - 1 = i /\ (i - 1) + 1 = i
    BY <1>3
  <2>2. f[i + 1] = Persisted(f[(i + 1) - 1], q[i + 1])
    BY <1>5, <2>1
  <2>3. g[i] = f[i + 1] /\ g[i - 1] = f[i]
    BY <1>4, <2>1
  <2> QED  BY <1>3, <2>1, <2>2, <2>3
<1>8. g[n] = r
  BY <1>1, <1>3, <1>4
<1>9. AreViews(g, Persisted(p, Head(q)), b) /\ g[Len(b)] = r
  BY <1>3, <1>6, <1>7, <1>8 DEF AreViews
<1> QED  BY <1>9 DEF Yields, b

\* The session's events are put behind the queue.
LEMMA BothYield ==
  ASSUME NEW p, NEW a, IsEvents(a), NEW r, Yields(p, a, r),
         NEW b, IsEvents(b), NEW t, Yields(r, b, t)
  PROVE  Yields(p, a \o b, t) /\ (AreNumbered(a) /\ AreNumbered(b) => AreNumbered(a \o b))
<1>1. PICK f : AreViews(f, p, a) /\ f[Len(a)] = r
  BY DEF Yields
<1>2. PICK g : AreViews(g, r, b) /\ g[Len(b)] = t
  BY DEF Yields
<1>3. PICK A, B : a \in Seq(A) /\ b \in Seq(B)
  BY DEF IsEvents
<1> DEFINE U == A \union B
           m == Len(a)
           n == Len(b)
           c == a \o b
           h == [i \in 0..(m + n) |-> IF i <= m THEN f[i] ELSE g[i - m]]
<1>4. a \in Seq(U) /\ b \in Seq(U)
  <2>1. Seq(A) \subseteq Seq(U) /\ Seq(B) \subseteq Seq(U)
    OBVIOUS
  <2> QED  BY <1>3, <2>1
<1> HIDE DEF U
<1>5. /\ m \in Nat /\ n \in Nat /\ Len(c) = m + n
      /\ \A i \in 1..(m + n) : c[i] = IF i <= m THEN a[i] ELSE b[i - m]
  BY <1>4
<1> HIDE DEF m, n, c
<1>6. \A i \in 0..(m + n) : h[i] = IF i <= m THEN f[i] ELSE g[i - m]
  OBVIOUS
<1> HIDE DEF h
<1>7. f[0] = p /\ f[m] = r /\ g[0] = r /\ g[n] = t
  BY <1>1, <1>2 DEF AreViews, m, n
<1>8. h[0] = p /\ h[m + n] = t
  <2>1. 0 \in 0..(m + n) /\ m + n \in 0..(m + n) /\ 0 <= m
    BY <1>5
  <2>2. n = 0 => m + n = m
    BY <1>5
  <2>3. n # 0 => ~(m + n <= m) /\ (m + n) - m = n
    BY <1>5
  <2> QED  BY <1>6, <1>7, <2>1, <2>2, <2>3
<1>9. ASSUME NEW i \in 1..(m + n)
      PROVE  h[i] = Persisted(h[i - 1], c[i])
  <2>1. i \in Int /\ i \in 0..(m + n) /\ i - 1 \in 0..(m + n)
    BY <1>5
  <2>2. CASE i <= m
    <3>1. i \in 1..m /\ i - 1 <= m
      BY <1>5, <2>2
    <3>2. f[i] = Persisted(f[i - 1], a[i])
      BY <1>1, <3>1 DEF AreViews, m
    <3>3. h[i] = f[i] /\ h[i - 1] = f[i - 1] /\ c[i] = a[i]
      BY <1>5, <1>6, <2>1, <2>2, <3>1
    <3> QED  BY <3>2, <3>3
  <2>3. CASE ~(i <= m)
    <3>1. i - m \in 1..n /\ (i - 1) - m = (i - m) - 1
      BY <1>5, <2>1, <2>3
    <3>2. g[i - m] = Persisted(g[(i - m) - 1], b[i - m])
      BY <1>2, <3>1 DEF AreViews, n
    <3>3. h[i] = g[i - m] /\ c[i] = b[i - m]
      BY <1>5, <1>6, <2>1, <2>3
    <3>4. h[i - 1] = g[(i - m) - 1]
      <4>1. CASE i - 1 <= m
        <5>1. i - 1 = m /\ (i - m) - 1 = 0
          BY <1>5, <2>1, <2>3, <4>1
        <5> QED  BY <1>6, <1>7, <2>1, <5>1, <4>1
      <4>2. CASE ~(i - 1 <= m)
        BY <1>6, <2>1, <3>1, <4>2
      <4> QED  BY <4>1, <4>2
    <3> QED  BY <3>2, <3>3, <3>4
  <2> QED  BY <2>2, <2>3
<1>10. AreViews(h, p, c) /\ h[Len(c)] = t
  BY <1>5, <1>8, <1>9 DEF AreViews
<1>11. AreNumbered(a) /\ AreNumbered(b) => AreNumbered(c)
  <2> SUFFICES ASSUME AreNumbered(a), AreNumbered(b), NEW i \in 1..(m + n)
               PROVE  IsNumbered(c[i])
    BY <1>5 DEF AreNumbered
  <2>1. CASE i <= m
    <3>1. i \in 1..m /\ c[i] = a[i]
      BY <1>5, <2>1
    <3> QED  BY <3>1 DEF AreNumbered, m
  <2>2. CASE ~(i <= m)
    <3>1. i - m \in 1..n /\ c[i] = b[i - m]
      BY <1>5, <2>2
    <3> QED  BY <3>1 DEF AreNumbered, n
  <2> QED  BY <2>1, <2>2
<1> QED  BY <1>10, <1>11 DEF Yields, c

LEMMA NothingMore == ASSUME NEW p, NEW r, Yields(p, <<>>, r)  PROVE r = p
<1>1. Len(<<>>) = 0
  OBVIOUS
<1> QED  BY <1>1 DEF Yields, AreViews

-----------------------------------------------------------------------------
(* The versions of the session's events. *)

\* Every change of state has a version of its own (_apply_transition).
LEMMA VersionApplied ==
  ASSUME NEW c, IsContext(c), c.state_version \in Nat, NEW o, o.at = None,
         NEW d, d = Apply(c, o)
  PROVE  /\ d.state_version \in Nat /\ d.state_version >= c.state_version
         /\ d.current_state # c.current_state => d.state_version = c.state_version + 1
<1>1. CASE Outcome(c, o) = "transition_applied"
  <2>1. d = Move(c, o) /\ HasTransition(c.current_state, o.event)
    BY <1>1, AppliedFields
  <2> QED  BY <2>1, MoveFields
<1>2. CASE Outcome(c, o) = "same_state_noop"
  <2>1. d = Noop(c, o)
    BY <1>2, AppliedFields
  <2> QED  BY <2>1, NoopFields
<1>3. CASE Outcome(c, o) = "unknown_observation_preserved"
  <2>1. d = KeepUnknown(c, o)
    BY <1>3, AppliedFields
  <2> QED  BY <2>1, UnknownFields
<1>4. CASE Outcome(c, o) \notin {"transition_applied", "same_state_noop",
                                 "unknown_observation_preserved"}
  <2>1. d = c
    BY <1>4, AppliedFields
  <2> QED  BY <2>1
<1> QED  BY <1>1, <1>2, <1>3, <1>4

\* A session whose versions are numbers.
IsVersioned(s) == IsSession(s) /\ s.ctx.state_version \in Nat /\ AreNumbered(s.events)

\* The events lead the view p to the machine's state, with a version that is at most k
\* ahead of the machine's.
Shows(s, p, k) ==
  \E r : /\ Yields(p, s.events, r) /\ IsView(r)
         /\ r.state = s.ctx.current_state /\ r.version <= s.ctx.state_version + k

\* They lead it to any state, from which the machine's next one will be taken over.
Nears(s, p) ==
  \E r : Yields(p, s.events, r) /\ IsView(r) /\ r.version <= s.ctx.state_version + 1

LEMMA PublishYields ==
  ASSUME NEW s, IsVersioned(s), NEW n, IsNews(n), IsNumbered(n), NEW t, t = Publish(s, n)
  PROVE  /\ IsVersioned(t) /\ t.ctx = s.ctx /\ t.health = s.health
         /\ \A p, r : Yields(p, s.events, r) => Yields(p, t.events, Persisted(r, n))
<1>1. IsSession(s) /\ s.ctx.state_version \in Nat /\ AreNumbered(s.events) /\ IsEvents(s.events)
  BY DEF IsVersioned, IsSession
<1>2. IsSession(t) /\ t.ctx = s.ctx /\ t.health = s.health
  BY <1>1, PublishFields
<1>3. t.events = Append(s.events, n)
  BY <1>1 DEF Publish, IsSession
<1>4. AreNumbered(t.events)
  <2>1. PICK S : s.events \in Seq(S)
    BY <1>1 DEF IsEvents
  <2> DEFINE U == S \union {n}
             e == s.events
  <2>2. e \in Seq(U) /\ n \in U
    <3>1. Seq(S) \subseteq Seq(U)
      OBVIOUS
    <3> QED  BY <2>1, <3>1
  <2> HIDE DEF U, e
  <2>3. /\ Len(Append(e, n)) = Len(e) + 1 /\ Len(e) \in Nat
        /\ \A i \in 1..Len(e) : Append(e, n)[i] = e[i]
        /\ Append(e, n)[Len(e) + 1] = n
    BY <2>2
  <2>4. AreNumbered(e)
    BY <1>1 DEF e
  <2>5. AreNumbered(Append(e, n))
    BY <2>3, <2>4 DEF AreNumbered
  <2> QED  BY <1>3, <2>5 DEF e
<1>5. \A p, r : Yields(p, s.events, r) => Yields(p, t.events, Persisted(r, n))
  BY <1>1, <1>3, AppendYields
<1> QED  BY <1>1, <1>2, <1>4, <1>5 DEF IsVersioned

LEMMA ReachesShows ==
  ASSUME NEW s, IsVersioned(s), NEW c, IsContext(c), NEW key, NEW t, t = Reaches(s, c, key),
         c.state_version \in Nat, c.state_version >= s.ctx.state_version,
         c.current_state # s.ctx.current_state => c.state_version = s.ctx.state_version + 1
  PROVE  /\ IsVersioned(t) /\ t.ctx = c /\ t.health = s.health
         /\ \A p : \A k \in {0, 1} : Shows(s, p, k) => Shows(t, p, k)
         /\ c.current_state # s.ctx.current_state =>
              \A p : Nears(s, p) => Shows(t, p, 0)
         /\ c.current_state = s.ctx.current_state => \A p : Nears(s, p) => Nears(t, p)
<1>1. IsSession(s) /\ s.ctx.state_version \in Nat /\ AreNumbered(s.events)
  BY DEF IsVersioned
<1> DEFINE q == [s EXCEPT !.ctx = c]
           n == Notice("STATE_CHANGED", s.ctx.current_state, c, key, None)
<1>2. /\ IsSession(q) /\ q.ctx = c /\ q.health = s.health /\ q.events = s.events
  BY <1>1 DEF IsSession
<1>3. IsVersioned(q)
  BY <1>1, <1>2 DEF IsVersioned
<1>4. n.type = "STATE_CHANGED" /\ n.ctx = c /\ IsNews(n) /\ IsNumbered(n)
  BY DEF Notice, IsNews, IsContext, IsNumbered
<1>5. t = IF c.current_state = s.ctx.current_state THEN q ELSE Publish(q, n)
  BY DEF Reaches
<1> HIDE DEF q, n
<1>6. CASE c.current_state = s.ctx.current_state
  <2>1. t = q
    BY <1>5, <1>6
  <2>2. ASSUME NEW p, NEW k \in {0, 1}, Shows(s, p, k)  PROVE Shows(t, p, k)
    <3>1. PICK r : /\ Yields(p, s.events, r) /\ IsView(r)
                   /\ r.state = s.ctx.current_state /\ r.version <= s.ctx.state_version + k
      BY <2>2 DEF Shows
    <3>2. r.version <= c.state_version + k
      BY <1>1, <3>1 DEF IsView
    <3> QED  BY <1>2, <1>6, <2>1, <3>1, <3>2 DEF Shows
  <2>3. ASSUME NEW p, Nears(s, p)  PROVE Nears(t, p)
    <3>1. PICK r : Yields(p, s.events, r) /\ IsView(r) /\ r.version <= s.ctx.state_version + 1
      BY <2>3 DEF Nears
    <3>2. r.version <= c.state_version + 1
      BY <1>1, <3>1 DEF IsView
    <3> QED  BY <1>2, <2>1, <3>1, <3>2 DEF Nears
  <2> QED  BY <1>2, <1>3, <1>6, <2>1, <2>2, <2>3
<1>7. CASE c.current_state # s.ctx.current_state
  <2>1. t = Publish(q, n)
    BY <1>5, <1>7
  <2>2. /\ IsVersioned(t) /\ t.ctx = c /\ t.health = s.health
        /\ \A p, r : Yields(p, s.events, r) => Yields(p, t.events, Persisted(r, n))
    BY <1>2, <1>3, <1>4, <2>1, PublishYields
  <2>3. ASSUME NEW p, Nears(s, p)  PROVE Shows(t, p, 0)
    <3>1. PICK r : Yields(p, s.events, r) /\ IsView(r) /\ r.version <= s.ctx.state_version + 1
      BY <2>3 DEF Nears
    <3>2. c.state_version >= r.version
      BY <1>1, <1>7, <3>1 DEF IsView
    <3>3. Persisted(r, n) = [state |-> c.current_state, version |-> c.state_version]
      BY <1>4, <3>2 DEF Persisted
    <3>4. Yields(p, t.events, [state |-> c.current_state, version |-> c.state_version])
      BY <2>2, <3>1, <3>3
    <3>5. IsView([state |-> c.current_state, version |-> c.state_version])
      BY DEF IsView
    <3> QED  BY <2>2, <3>4, <3>5 DEF Shows
  <2>4. ASSUME NEW p, NEW k \in {0, 1}, Shows(s, p, k)  PROVE Shows(t, p, k)
    <3>1. Nears(s, p)
      BY <1>1, <2>4 DEF Shows, Nears, IsView
    <3>2. Shows(t, p, 0)
      BY <2>3, <3>1
    <3>3. ASSUME NEW r, IsView(r), r.version <= t.ctx.state_version + 0
          PROVE  r.version <= t.ctx.state_version + k
      BY <2>2, <3>3 DEF IsView
    <3> QED  BY <3>2, <3>3 DEF Shows
  <2> QED  BY <1>7, <2>2, <2>3, <2>4
<1> QED  BY <1>6, <1>7

\* _apply_mapped: the machine's next state is taken over, whatever the last one was.
LEMMA ReportShows ==
  ASSUME NEW s, IsVersioned(s), s.ctx.current_state # "DISCONNECTED", NEW r, NEW frame,
         NEW t, t = TakeReport(s, r, frame)
  PROVE  /\ IsVersioned(t) /\ t.health = s.health /\ t.ctx.current_state # "DISCONNECTED"
         /\ \A p : \A k \in {0, 1} : Shows(s, p, k) => Shows(t, p, k)
         /\ t.ctx.current_state # s.ctx.current_state => \A p : Nears(s, p) => Shows(t, p, 0)
<1>1. IsSession(s) /\ s.ctx.state_version \in Nat /\ IsContext(s.ctx)
  BY DEF IsVersioned, IsSession
<1>2. PICK o : o = Mapped(r, frame, s.ctx)
  OBVIOUS
<1>3. o.at = None /\ o.event # "COMMUNICATION_LOST"
  BY <1>2, MappedFields, ReportEventIs
<1>4. PICK d : d = Apply(s.ctx, o)
  OBVIOUS
<1>5. /\ IsContext(d) /\ d.state_version \in Nat /\ d.state_version >= s.ctx.state_version
      /\ d.current_state # s.ctx.current_state => d.state_version = s.ctx.state_version + 1
  BY <1>1, <1>3, <1>4, AppliedFields, VersionApplied
<1>6. d.current_state # "DISCONNECTED"
  <2>1. d.current_state = s.ctx.current_state \/ Leads(s.ctx.current_state, o.event, d.current_state)
    BY <1>1, <1>3, <1>4, StateApplied
  <2>2. \A a, e : Leads(a, e, "DISCONNECTED") => e = "COMMUNICATION_LOST"
    BY DEF Leads, TransitionTable
  <2> QED  BY <1>3, <2>1, <2>2
<1> DEFINE n == Decoded(r)
           a == Publish(s, n)
           b == Reaches(a, d, o.key)
<1>7. IsNews(n) /\ IsNumbered(n) /\ \A v : Persisted(v, n) = v
  BY DEF Decoded, Notice, IsNews, IsNumbered, Persisted
<1> HIDE DEF n
<1>8. /\ IsVersioned(a) /\ a.ctx = s.ctx /\ a.health = s.health
      /\ \A p, v : Yields(p, s.events, v) => Yields(p, a.events, v)
  BY <1>7, PublishYields
<1>9. /\ \A p : \A k \in {0, 1} : Shows(s, p, k) => Shows(a, p, k)
      /\ \A p : Nears(s, p) => Nears(a, p)
  BY <1>8 DEF Shows, Nears
<1> HIDE DEF a
<1>10. /\ IsVersioned(b) /\ b.ctx = d /\ b.health = s.health
       /\ \A p : \A k \in {0, 1} : Shows(a, p, k) => Shows(b, p, k)
       /\ d.current_state # s.ctx.current_state => \A p : Nears(a, p) => Shows(b, p, 0)
  BY <1>5, <1>8, ReachesShows
<1>11. t = a \/ \E k : t = [b EXCEPT !.keys = k]
  BY <1>2, <1>4, <1>8 DEF TakeReport, TakeObservation, a, n
<1> HIDE DEF b
<1>12. CASE t = a
  BY <1>8, <1>9, <1>12
<1>13. CASE \E k : t = [b EXCEPT !.keys = k]
  <2>1. PICK k : t = [b EXCEPT !.keys = k]
    BY <1>13
  <2>2. IsSession(t) /\ t.ctx = b.ctx /\ t.health = b.health /\ t.events = b.events
    BY <1>10, <2>1 DEF IsVersioned, IsSession
  <2>3. IsVersioned(t)
    BY <1>10, <2>2 DEF IsVersioned
  <2>4. /\ \A p : \A j \in {0, 1} : Shows(b, p, j) => Shows(t, p, j)
        /\ \A p : Shows(b, p, 0) => Shows(t, p, 0)
    BY <2>2 DEF Shows
  <2> QED  BY <1>6, <1>9, <1>10, <2>2, <2>3, <2>4
<1> QED  BY <1>11, <1>12, <1>13

\* A change of health may count the view's version up.
LEMMA CommunicationShows ==
  ASSUME NEW s, IsVersioned(s), NEW health, NEW t, t = SetCommunication(s, health)
  PROVE  /\ IsVersioned(t) /\ t.ctx = s.ctx /\ t.health = health
         /\ health = s.health \/ health = "DEGRADED" => t.events = s.events
         /\ \A p : Shows(s, p, 0) => Shows(t, p, 1)
         /\ \A p, r : Yields(p, s.events, r) /\ IsView(r) =>
              \E q : Yields(p, t.events, q) /\ IsView(q) /\ q.version <= r.version + 1
<1>1. IsSession(s) /\ s.ctx.state_version \in Nat /\ AreNumbered(s.events)
  BY DEF IsVersioned
<1> DEFINE a == [s EXCEPT !.health = health]
           n == Notice(IF health = "HEALTHY" THEN "PUMP_CONNECTED" ELSE "PUMP_DISCONNECTED",
                       None, None, None, None)
<1>2. /\ IsSession(a) /\ a.ctx = s.ctx /\ a.health = health /\ a.events = s.events
  BY <1>1 DEF IsSession
<1>3. IsVersioned(a)
  BY <1>1, <1>2 DEF IsVersioned
<1>4. /\ n.type \in {"PUMP_CONNECTED", "PUMP_DISCONNECTED"}
      /\ IsNews(n) /\ IsNumbered(n)
  BY DEF Notice, IsNews, IsNumbered
<1>5. t = IF health = s.health \/ health = "DEGRADED" THEN a ELSE Publish(a, n)
  BY DEF SetCommunication
<1> HIDE DEF a, n
<1>6. CASE t = a
  <2>1. ASSUME NEW p, Shows(s, p, 0)  PROVE Shows(t, p, 1)
    <3>1. PICK r : /\ Yields(p, s.events, r) /\ IsView(r)
                   /\ r.state = s.ctx.current_state /\ r.version <= s.ctx.state_version + 0
      BY <2>1 DEF Shows
    <3>2. r.version <= s.ctx.state_version + 1
      BY <1>1, <3>1 DEF IsView
    <3> QED  BY <1>2, <1>6, <3>1, <3>2 DEF Shows
  <2>2. ASSUME NEW p, NEW r, Yields(p, s.events, r), IsView(r)
        PROVE  \E q : Yields(p, t.events, q) /\ IsView(q) /\ q.version <= r.version + 1
    <3>1. Yields(p, t.events, r) /\ r.version <= r.version + 1
      BY <1>2, <1>6, <2>2 DEF IsView
    <3> QED  BY <2>2, <3>1
  <2> QED  BY <1>2, <1>3, <1>6, <2>1, <2>2
<1>7. CASE ~(health = s.health \/ health = "DEGRADED")
  <2>1. t = Publish(a, n)
    BY <1>5, <1>7
  <2>2. /\ IsVersioned(t) /\ t.ctx = s.ctx /\ t.health = health
        /\ \A p, r : Yields(p, s.events, r) => Yields(p, t.events, Persisted(r, n))
    BY <1>2, <1>3, <1>4, <2>1, PublishYields
  <2>3. ASSUME NEW r, IsView(r)
        PROVE  /\ IsView(Persisted(r, n)) /\ Persisted(r, n).state = r.state
               /\ Persisted(r, n).version = r.version + 1
    <3>1. Persisted(r, n) = [state |-> r.state, version |-> r.version + 1]
      BY <1>4 DEF Persisted
    <3>2. r.version + 1 \in Nat
      BY <2>3 DEF IsView
    <3> QED  BY <3>1, <3>2 DEF IsView
  <2>4. ASSUME NEW p, Shows(s, p, 0)  PROVE Shows(t, p, 1)
    <3>1. PICK r : /\ Yields(p, s.events, r) /\ IsView(r)
                   /\ r.state = s.ctx.current_state /\ r.version <= s.ctx.state_version + 0
      BY <2>4 DEF Shows
    <3>2. PICK q : q = Persisted(r, n)
      OBVIOUS
    <3>3. /\ Yields(p, t.events, q) /\ IsView(q) /\ q.state = t.ctx.current_state
          /\ q.version = r.version + 1
      BY <2>2, <2>3, <3>1, <3>2
    <3>4. q.version <= t.ctx.state_version + 1
      BY <1>1, <2>2, <3>1, <3>3 DEF IsView
    <3> QED  BY <3>3, <3>4 DEF Shows
  <2>5. ASSUME NEW p, NEW r, Yields(p, s.events, r), IsView(r)
        PROVE  \E q : Yields(p, t.events, q) /\ IsView(q) /\ q.version <= r.version + 1
    <3>1. PICK q : q = Persisted(r, n)
      OBVIOUS
    <3>2. /\ Yields(p, t.events, q) /\ IsView(q) /\ q.version = r.version + 1
      BY <2>2, <2>3, <2>5, <3>1
    <3>3. q.version <= r.version + 1
      BY <3>2 DEF IsView
    <3> QED  BY <3>2, <3>3
  <2> QED  BY <1>7, <2>2, <2>4, <2>5
<1> QED  BY <1>5, <1>6, <1>7

\* What an event of the line makes of the machine.
LEMMA ToldShows ==
  ASSUME NEW s, IsVersioned(s), NEW e, NEW t, t = Told(s, e)
  PROVE  /\ IsVersioned(t) /\ t.health = s.health
         /\ t.ctx = Apply(s.ctx, NoObservation(e))
         /\ \A p : \A k \in {0, 1} : Shows(s, p, k) => Shows(t, p, k)
         /\ t.ctx.current_state # s.ctx.current_state => \A p : Nears(s, p) => Shows(t, p, 0)
<1> DEFINE c == Apply(s.ctx, NoObservation(e))
<1>1. IsContext(s.ctx) /\ s.ctx.state_version \in Nat
  BY DEF IsVersioned, IsSession
<1>2. NoObservation(e).at = None
  BY DEF NoObservation
<1>3. /\ IsContext(c) /\ c.state_version \in Nat /\ c.state_version >= s.ctx.state_version
      /\ c.current_state # s.ctx.current_state => c.state_version = s.ctx.state_version + 1
  BY <1>1, <1>2, AppliedFields, VersionApplied
<1>4. t = Reaches(s, c, None)
  BY DEF Told
<1> HIDE DEF c
<1>5. /\ IsVersioned(t) /\ t.ctx = c /\ t.health = s.health
      /\ \A p : \A k \in {0, 1} : Shows(s, p, k) => Shows(t, p, k)
      /\ c.current_state # s.ctx.current_state => \A p : Nears(s, p) => Shows(t, p, 0)
  BY <1>3, <1>4, ReachesShows
<1> QED  BY <1>5 DEF c

\* A pump that answers: a first answer is told twice, as a change of health and of state.
LEMMA AnswerShows ==
  ASSUME NEW s, IsVersioned(s), NEW t, t = Answered(s)
  PROVE  /\ IsVersioned(t) /\ t.health = "HEALTHY" /\ t.ctx.current_state # "DISCONNECTED"
         /\ s.ctx.current_state = "DISCONNECTED" =>
              \A p : Shows(s, p, 0) => Shows(t, p, 0)
         /\ s.ctx.current_state # "DISCONNECTED" =>
              \A p : Shows(s, p, 0) => Shows(t, p, 1)
         /\ s.ctx.current_state # "DISCONNECTED" /\ s.health = "HEALTHY" =>
              \A p : \A k \in {0, 1} : Shows(s, p, k) => Shows(t, p, k)
         /\ s.ctx.current_state = "DISCONNECTED" =>
              \A p : Shows(s, p, 1) => Nears(t, p)
<1>1. IsSession(s) /\ IsContext(s.ctx) /\ s.ctx.state_version \in Nat
  BY DEF IsVersioned, IsSession
<1>2. PICK h : h = SetCommunication(s, "HEALTHY")
  OBVIOUS
<1>3. /\ IsVersioned(h) /\ h.ctx = s.ctx /\ h.health = "HEALTHY"
      /\ s.health = "HEALTHY" => h.events = s.events
      /\ \A p : Shows(s, p, 0) => Shows(h, p, 1)
      /\ \A p, r : Yields(p, s.events, r) /\ IsView(r) =>
           \E q : Yields(p, h.events, q) /\ IsView(q) /\ q.version <= r.version + 1
  BY <1>2, CommunicationShows
<1>4. t = IF s.ctx.current_state = "DISCONNECTED" THEN Told(h, "COMMUNICATION_STARTED") ELSE h
  BY <1>2 DEF Answered
<1>5. \A p : Shows(h, p, 1) => Nears(h, p)
  BY DEF Shows, Nears
<1>6. CASE s.ctx.current_state = "DISCONNECTED"
  <2>1. PICK c : c = Apply(s.ctx, NoObservation("COMMUNICATION_STARTED"))
    OBVIOUS
  <2>2. c.current_state = "DISCOVERING"
    BY <1>1, <1>6, <2>1, CommunicationApplied
  <2>3. /\ IsVersioned(t) /\ t.health = "HEALTHY" /\ t.ctx = c
        /\ t.ctx.current_state # h.ctx.current_state => \A p : Nears(h, p) => Shows(t, p, 0)
    BY <1>3, <1>4, <1>6, <2>1, ToldShows
  <2>4. c.state_version = s.ctx.state_version + 1
    <3>1. NoObservation("COMMUNICATION_STARTED").at = None
      BY DEF NoObservation
    <3> QED  BY <1>1, <1>6, <2>1, <2>2, <3>1, VersionApplied
  <2>5. \A p : Shows(s, p, 0) => Shows(t, p, 0)
    BY <1>3, <1>5, <1>6, <2>2, <2>3
  <2>6. ASSUME NEW p, Shows(s, p, 1)  PROVE Nears(t, p)
    <3>1. PICK r : /\ Yields(p, s.events, r) /\ IsView(r)
                   /\ r.version <= s.ctx.state_version + 1
      BY <2>6 DEF Shows
    <3>2. PICK q : Yields(p, h.events, q) /\ IsView(q) /\ q.version <= r.version + 1
      BY <1>3, <3>1
    <3> DEFINE n == Notice("STATE_CHANGED", h.ctx.current_state, c, None, None)
               g == [h EXCEPT !.ctx = c]
    <3>3. t = Publish(g, n)
      BY <1>3, <1>4, <1>6, <2>1, <2>2 DEF Told, Reaches
    <3>4. IsVersioned(g) /\ g.events = h.events /\ IsContext(c)
      <4>1. IsContext(c)
        BY <1>1, <1>6, <2>1, CommunicationApplied
      <4>2. IsSession(h) /\ AreNumbered(h.events)
        BY <1>3 DEF IsVersioned
      <4>3. IsSession(g) /\ g.events = h.events /\ g.ctx = c
        BY <4>1, <4>2 DEF IsSession
      <4> QED  BY <1>1, <2>4, <4>1, <4>2, <4>3 DEF IsVersioned
    <3>5. n.type = "STATE_CHANGED" /\ n.ctx = c /\ IsNews(n) /\ IsNumbered(n)
      BY <1>1, <2>4, <3>4 DEF Notice, IsNews, IsContext, IsNumbered
    <3> HIDE DEF n, g
    <3>6. Yields(p, t.events, Persisted(q, n))
      BY <3>2, <3>3, <3>4, <3>5, PublishYields
    <3>7. \/ Persisted(q, n) = q
          \/ Persisted(q, n) = [state |-> c.current_state, version |-> c.state_version]
      BY <3>5 DEF Persisted
    <3>8. IsView(Persisted(q, n)) /\ Persisted(q, n).version <= c.state_version + 1
      <4>1. c.state_version \in Nat /\ q.version <= c.state_version + 1
        BY <1>1, <2>4, <3>1, <3>2 DEF IsView
      <4>2. c.state_version <= c.state_version + 1
        BY <4>1
      <4> QED  BY <3>2, <3>7, <4>1, <4>2 DEF IsView
    <3> QED  BY <2>3, <3>6, <3>8 DEF Nears
  <2> QED  BY <1>6, <2>2, <2>3, <2>5, <2>6
<1>7. CASE s.ctx.current_state # "DISCONNECTED"
  <2>1. t = h
    BY <1>4, <1>7
  <2>2. s.health = "HEALTHY" => \A p : \A k \in {0, 1} : Shows(s, p, k) => Shows(t, p, k)
    BY <1>3, <2>1 DEF Shows
  <2> QED  BY <1>3, <1>7, <2>1, <2>2
<1> QED  BY <1>6, <1>7

\* A pump that is given up.
LEMMA LossShows ==
  ASSUME NEW s, IsVersioned(s), NEW t, t = GivenUp(s)
  PROVE  /\ IsVersioned(t) /\ t.health = "DISCONNECTED"
         /\ t.ctx.current_state = "DISCONNECTED"
         /\ t.ctx.last_source_frame_hex = s.ctx.last_source_frame_hex
         /\ \A p : Shows(s, p, 0) => Shows(t, p, 1)
         /\ s.ctx.current_state # "DISCONNECTED" => \A p : Shows(s, p, 0) => Shows(t, p, 0)
<1>1. IsSession(s)
  BY DEF IsVersioned
<1>2. /\ t.health = "DISCONNECTED" /\ t.ctx.current_state = "DISCONNECTED"
      /\ t.ctx.last_source_frame_hex = s.ctx.last_source_frame_hex
  BY <1>1, GivenUpFields
<1>3. PICK h : h = SetCommunication(s, "DISCONNECTED")
  OBVIOUS
<1>4. /\ IsVersioned(h) /\ h.ctx = s.ctx
      /\ \A p : Shows(s, p, 0) => Shows(h, p, 1)
  BY <1>3, CommunicationShows
<1>5. /\ IsVersioned(t)
      /\ \A p : \A k \in {0, 1} : Shows(h, p, k) => Shows(t, p, k)
      /\ t.ctx.current_state # h.ctx.current_state => \A p : Nears(h, p) => Shows(t, p, 0)
  <2>1. t = Told(h, "COMMUNICATION_LOST")
    BY <1>3 DEF GivenUp
  <2> QED  BY <1>4, <2>1, ToldShows
<1>6. \A p : Shows(h, p, 1) => Nears(h, p)
  BY DEF Shows, Nears
<1>7. \A p : Shows(s, p, 0) => Shows(t, p, 1)
  <2>1. 1 \in {0, 1}
    OBVIOUS
  <2> QED  BY <1>4, <1>5, <2>1
<1>8. s.ctx.current_state # "DISCONNECTED" => \A p : Shows(s, p, 0) => Shows(t, p, 0)
  BY <1>2, <1>4, <1>5, <1>6
<1> QED  BY <1>2, <1>5, <1>7, <1>8

\* The first status of a pump that has just been discovered.
LEMMA ResetTaken ==
  ASSUME NEW s, IsSession(s), s.ctx.current_state = "DISCOVERING",
         s.ctx.last_source_frame_hex = None, NEW frame,
         NEW t, t = TakeReport(s, DC1(ResetStatus), frame)
  PROVE  t.ctx.current_state = "RESET"
<1> DEFINE r == DC1(ResetStatus)
<1>1. PICK o : o = Mapped(r, frame, s.ctx)
  OBVIOUS
<1>2. PICK c : c = s.ctx /\ IsContext(c) /\ c.current_state = "DISCOVERING"
               /\ c.last_source_frame_hex = None
  BY DEF IsSession
<1>3. /\ o.event = "RESET_OBSERVED" /\ o.at = None /\ ~o.implicit /\ o.key = None
  <2>1. ReportEvent(r, s.ctx) = "RESET_OBSERVED"
    BY StatusEventIs, ReportKinds DEF ReportEvent
  <2>2. r # DC1(FillingCompleted)
    BY ReportsDiffer, StatusesDiffer
  <2> QED  BY <1>1, <2>1, <2>2, MappedFields, MappedEvidence
<1>4. \A u : Leads("DISCOVERING", "RESET_OBSERVED", u) <=> u = "RESET"
  BY DEF Leads, TransitionTable
<1>5. HasTransition(c.current_state, o.event) /\ Target(c.current_state, o.event) = "RESET"
  <2>1. "RESET" \in PumpState
    BY DEF PumpState
  <2> QED  BY <1>2, <1>3, <1>4, <2>1 DEF HasTransition, Target
<1>6. Outcome(c, o) = "transition_applied"
  <2>1. ~IsStale(c, o) /\ ~IsDuplicateFrame(c, o) /\ ~IsDuplicateCompletion(c, o)
        /\ ~IsUnconfirmedFilling(c, o)
    BY <1>2, <1>3 DEF IsStale, IsDuplicateFrame, IsDuplicateCompletion, IsUnconfirmedFilling
  <2>2. <<c.current_state, o.event>> \notin SameStateNoopEvents
    BY <1>2, <1>3 DEF SameStateNoopEvents
  <2> QED  BY <1>3, <1>5, <2>1, <2>2 DEF Outcome
<1>7. Apply(c, o).current_state = "RESET"
  <2>1. Apply(c, o) = Move(c, o)
    BY <1>2, <1>3, <1>6, AppliedFields
  <2> QED  BY <1>2, <1>3, <1>5, <2>1, MoveFields
<1>8. t.ctx = Apply(c, o)
  <2>1. ~(o.key # None /\ o.key \in s.keys) =>
          /\ t.ctx = Apply(s.ctx, o)
          /\ t.keys = IF o.key # None /\ Outcome(s.ctx, o) = "transition_applied"
                      THEN s.keys \union {o.key} ELSE s.keys
    BY <1>1, TakeReportFields
  <2> QED  BY <1>2, <1>3, <2>1
<1> QED  BY <1>7, <1>8

LEMMA FrameShows ==
  ASSUME NEW s, IsVersioned(s), NEW frame, Len(frame[2]) \in Nat, Len(frame[2]) >= 1,
         NEW t, t = TakeFrame(s, frame)
  PROVE  /\ IsVersioned(t) /\ t.health = "HEALTHY" /\ t.ctx.current_state # "DISCONNECTED"
         /\ \A p : \A k \in {0, 1} : Shows(Answered(s), p, k) => Shows(t, p, k)
         /\ /\ s.ctx.current_state = "DISCONNECTED" /\ s.ctx.last_source_frame_hex = None
            /\ frame[2][1] = DC1(ResetStatus)
            => \A p : Nears(Answered(s), p) => Shows(t, p, 0)
<1> DEFINE n == Len(frame[2])
<1>1. PICK g : IsRun(g, s, frame, n) /\ t = g[n]
  BY TakeFrameRuns
<1>2. /\ g[0] = Answered(s) /\ n \in Nat /\ n >= 1
      /\ \A i \in 1..n : g[i] = TakeReport(g[i - 1], frame[2][i], frame)
  <2>1. n \in Nat /\ n >= 1
    OBVIOUS
  <2> HIDE DEF n
  <2>2. g = [i \in 0..n |-> IF i = 0 THEN Answered(s)
                            ELSE TakeReport(g[i - 1], frame[2][i], frame)]
    BY <1>1 DEF IsRun
  <2>3. \A i \in 0..n : g[i] = IF i = 0 THEN Answered(s)
                               ELSE TakeReport(g[i - 1], frame[2][i], frame)
    BY <2>2, Zenon
  <2> QED  BY <2>1, <2>3
<1> HIDE DEF n
<1> DEFINE Good(v) == IsVersioned(v) /\ v.health = "HEALTHY"
                      /\ v.ctx.current_state # "DISCONNECTED"
<1>3. Good(g[0])
  BY <1>2, AnswerShows
<1>4. ASSUME NEW i \in Nat, i < n, Good(g[i])
      PROVE  /\ Good(g[i + 1])
             /\ \A p : \A k \in {0, 1} : Shows(g[i], p, k) => Shows(g[i + 1], p, k)
             /\ g[i + 1].ctx.current_state # g[i].ctx.current_state =>
                  \A p : Nears(g[i], p) => Shows(g[i + 1], p, 0)
  <2>1. i + 1 \in 1..n /\ (i + 1) - 1 = i
    BY <1>2, <1>4
  <2>2. g[i + 1] = TakeReport(g[i], frame[2][i + 1], frame)
    BY <1>2, <2>1
  <2> QED  BY <1>4, <2>2, ReportShows
<1> HIDE DEF Good
<1>5. ASSUME NEW m \in {0, 1}, Good(g[m])
      PROVE  /\ Good(g[n])
             /\ \A p : \A k \in {0, 1} : Shows(g[m], p, k) => Shows(g[n], p, k)
  <2> DEFINE Kept(i) == /\ Good(g[i])
                        /\ \A p : \A k \in {0, 1} : Shows(g[m], p, k) => Shows(g[i], p, k)
             T == {i \in 0..n : i >= m => Kept(i)}
  <2>1. Kept(m)
    BY <1>5
  <2>2. ASSUME NEW i \in Nat, i < n, Kept(i)  PROVE Kept(i + 1)
    <3>1. Good(g[i + 1])
      BY <1>4, <2>2
    <3>2. \A p : \A k \in {0, 1} : Shows(g[i], p, k) => Shows(g[i + 1], p, k)
      BY <1>4, <2>2
    <3> QED  BY <2>2, <3>1, <3>2
  <2> HIDE DEF Kept
  <2>3. 0 \in T
    <3>1. 0 \in 0..n /\ (0 >= m => m = 0)
      BY <1>2
    <3> QED  BY <2>1, <3>1
  <2>4. ASSUME NEW i \in Nat, i < n, i \in T  PROVE i + 1 \in T
    <3>1. i + 1 \in 0..n
      BY <1>2, <2>4
    <3>2. CASE i >= m
      BY <2>2, <2>4, <3>1, <3>2
    <3>3. CASE ~(i >= m)
      <4>1. i + 1 = m
        BY <3>3
      <4> QED  BY <2>1, <3>1, <4>1
    <3> QED  BY <3>2, <3>3
  <2>5. 0..n \subseteq T
    <3> HIDE DEF T
    <3> QED  BY <1>2, <2>3, <2>4, UpTo
  <2>6. Kept(n)
    BY <1>2, <2>5
  <2> QED  BY <2>6 DEF Kept
<1>6. IsVersioned(t) /\ t.health = "HEALTHY" /\ t.ctx.current_state # "DISCONNECTED"
      /\ \A p : \A k \in {0, 1} : Shows(Answered(s), p, k) => Shows(t, p, k)
  <2>1. /\ Good(g[n])
        /\ \A p : \A k \in {0, 1} : Shows(g[0], p, k) => Shows(g[n], p, k)
    BY <1>3, <1>5
  <2> QED  BY <1>1, <1>2, <2>1 DEF Good
<1>7. ASSUME s.ctx.current_state = "DISCONNECTED", s.ctx.last_source_frame_hex = None,
             frame[2][1] = DC1(ResetStatus), NEW p, Nears(Answered(s), p)
      PROVE  Shows(t, p, 0)
  <2>1. IsSession(s)
    BY DEF IsVersioned
  <2>2. /\ IsSession(g[0]) /\ g[0].ctx.current_state = "DISCOVERING"
        /\ g[0].ctx.last_source_frame_hex = None
    BY <1>2, <1>7, <2>1, AnsweredFields
  <2>3. 1 \in 1..n /\ 1 - 1 = 0 /\ 0 < n /\ 0 + 1 = 1
    BY <1>2
  <2>4. g[1] = TakeReport(g[0], DC1(ResetStatus), frame)
    BY <1>2, <1>7, <2>3
  <2>5. g[1].ctx.current_state = "RESET"
    BY <2>2, <2>4, ResetTaken
  <2>6. /\ Good(g[0 + 1])
        /\ g[0 + 1].ctx.current_state # g[0].ctx.current_state =>
             \A q : Nears(g[0], q) => Shows(g[0 + 1], q, 0)
    BY <1>3, <1>4, <2>3
  <2>7. Good(g[1]) /\ Shows(g[1], p, 0)
    BY <1>2, <1>7, <2>2, <2>3, <2>5, <2>6
  <2>8. \A q : \A k \in {0, 1} : Shows(g[1], q, k) => Shows(g[n], q, k)
    BY <1>5, <2>7
  <2> QED  BY <1>1, <2>7, <2>8
<1> QED  BY <1>6, <1>7

-----------------------------------------------------------------------------
(* The latest snapshot. *)

\* The jobs of the queue lead the stored view to the machine's state.
Shown(k) ==
  \E r : /\ Yields(Stored, queue, r) /\ IsView(r)
         /\ r.state = Controller /\ r.version <= session.ctx.state_version + k

\* The pump has not answered yet, and will report its status first.
Fresh ==
  /\ Controller = "DISCONNECTED" /\ session.ctx.last_source_frame_hex = None
  /\ pending # <<>> /\ pending[1] = DC1(ResetStatus)

Calm == dropped = 0 /\ errors = 0 /\ Reconnections <= 1

\* The snapshot is a version ahead of the machine only after the one reconnection, as
\* long as no other may follow, or until the machine is told of the first answer.
InStep ==
  /\ Reconnections = 0 /\ session.health # "HEALTHY" => Fresh
  /\ \/ Shown(0)
     \/ Shown(1) /\ Reconnections = 1 /\ session.health = "HEALTHY"
     \/ Shown(1) /\ Reconnections = 1 /\ session.health = "DISCONNECTED" /\ Fresh

Counters == {blips, crashes, dropped, errors} \subseteq Nat

SnapshotTypes ==
  /\ Counters
  /\ session.ctx.state_version \in Nat
  /\ AreNumbered(queue)
  /\ snapshot # None => snapshot.version \in Nat

\* No job finds a uuid without a row, unless the job that made it has failed.
HasRow == errors = 0 => txByAddress \in {None} \union DOMAIN rows

SnapshotInv ==
  /\ SnapshotTypes
  /\ session.health = "HEALTHY" => Controller # "DISCONNECTED"
  /\ HasRow
  /\ Calm => InStep

LEMMA StoredView ==
  ASSUME SnapshotTypes
  PROVE  IsView(Stored)
BY DEF SnapshotTypes, Stored, IsView

LEMMA SnapshotStart == Init => SnapshotInv
<1> SUFFICES ASSUME Init  PROVE SnapshotInv
  OBVIOUS
<1>1. /\ session = NewSession /\ pending = Current("ready") /\ queue = <<>> /\ snapshot = None
      /\ blips = 0 /\ outages = 0 /\ crashes = 0 /\ dropped = 0 /\ errors = 0
      /\ txByAddress = None
  BY DEF Init, DispenserInit
<1>2. /\ session.ctx.current_state = "DISCONNECTED" /\ session.ctx.state_version = 0
      /\ session.ctx.last_source_frame_hex = None /\ session.health = "UNKNOWN"
  BY <1>1 DEF NewSession, SessionWith, NewContext
<1>3. SnapshotTypes
  BY <1>1, <1>2, NothingYields DEF SnapshotTypes, Counters
<1>4. Fresh
  <2>1. Current("ready") = <<DC1(ResetStatus), Holstered>>
    BY DEF Current
  <2> QED  BY <1>1, <1>2, <2>1 DEF Fresh, Controller
<1>5. Shown(0)
  <2>1. Stored = [state |-> "DISCONNECTED", version |-> 0]
    BY <1>1 DEF Stored
  <2>2. Yields(Stored, queue, Stored) /\ IsView(Stored)
    BY <1>1, <1>3, NothingYields, StoredView
  <2> QED  BY <1>2, <2>1, <2>2 DEF Shown, Controller
<1> QED  BY <1>1, <1>2, <1>3, <1>4, <1>5 DEF SnapshotInv, HasRow, InStep

\* The dispenser's steps.
LEMMA DispenserShown ==
  ASSUME SaleInv, SnapshotInv, DispenserWorks
  PROVE  SnapshotInv'
<1>1. /\ UNCHANGED <<session, queue, txByAddress, uuids, rows, completions, snapshot,
                     dropped, errors, crashes, blips, outages>>
      /\ \E reports : pending' = pending \o reports
  BY DEF DispenserWorks, DispenserSteps, DispenserMoves, FuelFlows, ReportStatus, Reports,
         storeVars
<1>2. Fresh => Fresh'
  <2> SUFFICES ASSUME Fresh  PROVE pending' # <<>> /\ pending'[1] = DC1(ResetStatus)
    BY <1>1 DEF Fresh, Controller
  <2>1. pending \in Seq(DispenserReport) /\ pending' \in Seq(DispenserReport)
    <3>1. DispenserTypes /\ DispenserSteps
      BY DEF SaleInv, SaleTypes, DispenserWorks
    <3> QED  BY <3>1, DispenserStepTypes DEF DispenserTypes
  <2>2. PICK reports : pending' = pending \o reports
    BY <1>1
  <2> QED  BY <2>1, <2>2 DEF Fresh
<1>3. (Shown(0) => Shown(0)') /\ (Shown(1) => Shown(1)')
  BY <1>1 DEF Shown, Stored, Controller
<1>4. SnapshotTypes'
  BY <1>1 DEF SnapshotInv, SnapshotTypes, Counters, AreNumbered, IsNumbered
<1>5. Calm' => Calm /\ Reconnections' = Reconnections
  BY <1>1 DEF Calm, Reconnections
<1>6. Calm' => InStep'
  BY <1>1, <1>2, <1>3, <1>5 DEF SnapshotInv, InStep
<1> QED  BY <1>1, <1>4, <1>6 DEF SnapshotInv, HasRow, Controller

\* What is submitted, when nothing is dropped.
LEMMA SubmitsAll ==
  ASSUME SaleInv, SnapshotInv, DispenserTypes', Submits(session'.events),
         AreNumbered(session'.events)
  PROVE  /\ dropped' \in Nat /\ AreNumbered(queue')
         /\ dropped' = 0 => dropped = 0 /\ queue' = queue \o session'.events
<1>1. PICK notices : notices = session'.events
  OBVIOUS
<1>2. IsEvents(queue) /\ IsEvents(notices) /\ AreNumbered(queue) /\ AreNumbered(notices)
  BY <1>1 DEF SaleInv, SaleTypes, SnapshotInv, SnapshotTypes, DispenserTypes, IsSession,
              IsEvents, IsNews
<1> DEFINE room == MaxQueue - Len(queue)
           kept == IF room < Len(notices) THEN room ELSE Len(notices)
<1>3. queue' = queue \o SubSeq(notices, 1, kept) /\ dropped' = dropped + Len(notices) - kept
  BY <1>1 DEF Submits
<1>4. /\ Len(queue) \in Nat /\ Len(notices) \in Nat /\ dropped \in Nat
  BY <1>2 DEF IsEvents, SnapshotInv, SnapshotTypes, Counters
<1>5. kept \in Int /\ kept <= Len(notices)
  BY <1>4, PersistenceAssumption
<1> HIDE DEF kept
<1>6. dropped' \in Nat /\ (dropped' = 0 => dropped = 0 /\ kept = Len(notices))
  BY <1>3, <1>4, <1>5
<1>7. PICK S : notices \in Seq(S)
  BY <1>2 DEF IsEvents
<1>8. kept = Len(notices) => SubSeq(notices, 1, kept) = notices
  BY <1>7
<1>9. AreNumbered(queue')
  <2> DEFINE d == SubSeq(notices, 1, kept)
  <2>1. d \in Seq(S) /\ Len(d) \in Nat /\ \A i \in 1..Len(d) : i \in 1..Len(notices) /\ d[i] = notices[i]
    BY <1>5, <1>7
  <2> HIDE DEF d
  <2>2. IsEvents(d) /\ AreNumbered(d)
    BY <1>2, <2>1 DEF IsEvents, AreNumbered
  <2>3. PICK A : queue \in Seq(A)
    BY <1>2 DEF IsEvents
  <2> DEFINE U == A \union S
  <2>4. queue \in Seq(U) /\ d \in Seq(U)
    <3>1. Seq(A) \subseteq Seq(U) /\ Seq(S) \subseteq Seq(U)
      OBVIOUS
    <3> QED  BY <2>1, <2>3, <3>1
  <2> HIDE DEF U
  <2>5. PICK c : c = queue \o d
    OBVIOUS
  <2>6. /\ Len(c) = Len(queue) + Len(d) /\ Len(queue) \in Nat /\ Len(d) \in Nat
        /\ \A i \in 1..Len(c) : c[i] = IF i <= Len(queue) THEN queue[i] ELSE d[i - Len(queue)]
    BY <2>4, <2>5
  <2>7. ASSUME NEW i \in 1..Len(c)  PROVE IsNumbered(c[i])
    <3>1. CASE i <= Len(queue)
      BY <1>2, <2>6, <3>1 DEF AreNumbered
    <3>2. CASE ~(i <= Len(queue))
      <4>1. i - Len(queue) \in 1..Len(d)
        BY <2>6, <3>2
      <4> QED  BY <2>2, <2>6, <3>2, <4>1 DEF AreNumbered
    <3> QED  BY <3>1, <3>2
  <2> QED  BY <1>3, <2>5, <2>7 DEF AreNumbered, d
<1> QED  BY <1>1, <1>3, <1>6, <1>8, <1>9

\* The controller goes on from a view the jobs of the queue lead to, at most j ahead of the
\* machine, to one that is at most k ahead, and may be.
Carries(t, j, k) ==
  /\ Shown(j)
  /\ \A p : Shows(Silenced(session), p, j) => Shows(t, p, k)
  /\ Reconnections' = 0 /\ t.health # "HEALTHY" => Fresh'
  /\ k = 1 => /\ Reconnections' = 1
              /\ t.health = "HEALTHY" \/ (t.health = "DISCONNECTED" /\ Fresh')

\* The controller's steps, from what its session's events show.
LEMMA PollShown ==
  ASSUME SaleInv, SnapshotInv, PollPump, DispenserTypes',
         NEW t, t = session', IsVersioned(t),
         t.health = "HEALTHY" => t.ctx.current_state # "DISCONNECTED",
         {blips', outages'} \subseteq Nat,
         dropped = 0 /\ errors = 0 /\ Reconnections' <= 1 =>
           \E j, k \in {0, 1} : Carries(t, j, k)
  PROVE  SnapshotInv'
<1>1. UNCHANGED <<txByAddress, uuids, rows, completions, snapshot, errors, crashes>>
      /\ Submits(session'.events)
  BY DEF PollPump, storeVars
<1>2. AreNumbered(session'.events)
  BY DEF IsVersioned
<1>3. /\ dropped' \in Nat /\ AreNumbered(queue')
      /\ dropped' = 0 => dropped = 0 /\ queue' = queue \o t.events
  BY <1>1, <1>2, SubmitsAll
<1>4. SnapshotTypes'
  <2>1. t.ctx.state_version \in Nat
    BY DEF IsVersioned
  <2>2. AreNumbered(queue)'
    BY <1>3 DEF AreNumbered, IsNumbered
  <2> QED  BY <1>1, <1>3, <2>1, <2>2 DEF SnapshotInv, SnapshotTypes, Counters
<1>5. HasRow'
  BY <1>1 DEF SnapshotInv, HasRow
<1>6. ASSUME Calm'  PROVE InStep'
  <2>1. dropped = 0 /\ errors = 0 /\ Reconnections' <= 1 /\ queue' = queue \o t.events
    BY <1>1, <1>3, <1>6 DEF Calm
  <2>2. PICK j \in {0, 1}, k \in {0, 1} : Carries(t, j, k)
    BY <2>1
  <2>3. PICK r : /\ Yields(Stored, queue, r) /\ IsView(r)
                 /\ r.state = Controller /\ r.version <= session.ctx.state_version + j
    BY <2>2 DEF Shown, Carries
  <2>4. PICK v : v = Silenced(session)
    OBVIOUS
  <2>5. v.ctx = session.ctx /\ v.events = <<>>
    BY <2>4, SilencedFields DEF SaleInv, SaleTypes, DispenserTypes
  <2>6. Shows(v, r, j)
    <3>1. Yields(r, v.events, r)
      BY <2>5, NothingYields
    <3> QED  BY <2>3, <2>5, <3>1 DEF Shows, Controller
  <2>7. Shows(t, r, k)
    BY <2>2, <2>4, <2>6 DEF Carries
  <2>8. PICK q : /\ Yields(r, t.events, q) /\ IsView(q)
                 /\ q.state = t.ctx.current_state /\ q.version <= t.ctx.state_version + k
    BY <2>7 DEF Shows
  <2>9. IsEvents(queue) /\ IsEvents(t.events)
    BY DEF SaleInv, SaleTypes, IsVersioned, IsSession
  <2>10. PICK e : e = queue \o t.events
    OBVIOUS
  <2>11. Yields(Stored, e, q)
    BY <2>3, <2>8, <2>9, <2>10, BothYield
  <2>12. queue' = e /\ Stored' = Stored
    BY <1>1, <2>1, <2>10 DEF Stored
  <2>13. Yields(Stored, queue, q)'
    BY <2>11, <2>12 DEF Yields, AreViews, Persisted
  <2>14. Shown(k)'
    BY <2>8, <2>13 DEF Shown, Controller, IsView
  <2> QED  BY <2>2, <2>14 DEF InStep, Carries
<1> QED  BY <1>4, <1>5, <1>6 DEF SnapshotInv, Controller

\* The ways a session's health and its view allow it to go on.
LEMMA InStepCases ==
  ASSUME SnapshotInv, Calm
  PROVE  /\ Reconnections = 0 => Shown(0) /\ (session.health # "HEALTHY" => Fresh)
         /\ \/ Shown(0)
            \/ Shown(1) /\ Reconnections = 1 /\ session.health = "HEALTHY"
            \/ Shown(1) /\ Reconnections = 1 /\ session.health = "DISCONNECTED" /\ Fresh
<1>1. /\ Reconnections = 0 /\ session.health # "HEALTHY" => Fresh
      /\ \/ Shown(0)
         \/ Shown(1) /\ Reconnections = 1 /\ session.health = "HEALTHY"
         \/ Shown(1) /\ Reconnections = 1 /\ session.health = "DISCONNECTED" /\ Fresh
  BY DEF SnapshotInv, InStep
<1>2. Reconnections = 0 => Reconnections # 1
  OBVIOUS
<1> QED  BY <1>1, <1>2, Zenon

LEMMA SilencedVersioned ==
  ASSUME SaleInv, SnapshotInv, NEW s, s = Silenced(session)
  PROVE  /\ IsVersioned(s) /\ s.ctx = session.ctx /\ s.health = session.health
         /\ DispenserTypes /\ {blips, outages, crashes} \subseteq Nat
<1>1. DispenserTypes
  BY DEF SaleInv, SaleTypes
<1>2. IsSession(s) /\ s.ctx = session.ctx /\ s.events = <<>> /\ s.health = session.health
  BY <1>1, SilencedFields DEF DispenserTypes
<1> QED  BY <1>1, <1>2, NothingYields
         DEF IsVersioned, SnapshotInv, SnapshotTypes, Counters, DispenserTypes

LEMMA SilenceShown ==
  ASSUME SaleInv, SnapshotInv, PollPump, DeliverNothing
  PROVE  SnapshotInv'
<1>1. PICK s : s = Silenced(session)
  OBVIOUS
<1>2. /\ IsVersioned(s) /\ s.ctx = session.ctx /\ s.health = session.health
      /\ DispenserTypes /\ {blips, outages, crashes} \subseteq Nat
  BY <1>1, SilencedVersioned
<1>3. PICK t : t = session'
  OBVIOUS
<1>4. t = Answered(s) /\ UNCHANGED <<pending, blips, outages, crashes>> /\ pending = <<>>
  BY <1>1, <1>3 DEF DeliverNothing, PollPump
<1>5. DispenserTypes'
  BY <1>2, SilenceTypes
<1>6. /\ IsVersioned(t) /\ t.health = "HEALTHY" /\ t.ctx.current_state # "DISCONNECTED"
      /\ s.ctx.current_state = "DISCONNECTED" => \A p : Shows(s, p, 0) => Shows(t, p, 0)
      /\ s.ctx.current_state # "DISCONNECTED" => \A p : Shows(s, p, 0) => Shows(t, p, 1)
      /\ s.ctx.current_state # "DISCONNECTED" /\ s.health = "HEALTHY" =>
              \A p : \A k \in {0, 1} : Shows(s, p, k) => Shows(t, p, k)
  BY <1>2, <1>4, AnswerShows
<1>7. ~Fresh /\ Reconnections' = Reconnections
  BY <1>4 DEF Fresh, Reconnections
<1>8. session.health = "HEALTHY" => s.ctx.current_state # "DISCONNECTED"
  BY <1>2 DEF SnapshotInv, Controller
<1>9. Reconnections \in Nat
  BY <1>2 DEF Reconnections
<1>10. ASSUME dropped = 0, errors = 0, Reconnections' <= 1
       PROVE  \E j, k \in {0, 1} : Carries(t, j, k)
  <2>1. Calm
    BY <1>7, <1>10 DEF Calm
  <2>2. CASE session.health = "HEALTHY" /\ Shown(0)
    <3>1. \A p : Shows(s, p, 0) => Shows(t, p, 0)
      BY <1>2, <1>6, <1>8, <2>2
    <3>2. Carries(t, 0, 0)
      BY <1>1, <1>6, <2>2, <3>1 DEF Carries
    <3> QED  BY <3>2
  <2>3. CASE Shown(1) /\ Reconnections = 1 /\ session.health = "HEALTHY"
    <3>1. \A p : Shows(s, p, 1) => Shows(t, p, 1)
      BY <1>2, <1>6, <1>8, <2>3
    <3>2. Carries(t, 1, 1)
      BY <1>1, <1>6, <1>7, <2>3, <3>1 DEF Carries
    <3> QED  BY <3>2
  <2>4. CASE session.health # "HEALTHY"
    <3>1. Reconnections # 0 /\ Shown(0)
      BY <1>7, <2>1, <2>4, InStepCases, Zenon
    <3>2. Reconnections' = 1
      BY <1>7, <1>9, <1>10, <3>1
    <3>3. CASE s.ctx.current_state = "DISCONNECTED"
      <4>1. Carries(t, 0, 0)
        BY <1>1, <1>6, <3>1, <3>3 DEF Carries
      <4> QED  BY <4>1
    <3>4. CASE s.ctx.current_state # "DISCONNECTED"
      <4>1. Carries(t, 0, 1)
        BY <1>1, <1>6, <3>1, <3>2, <3>4 DEF Carries
      <4> QED  BY <4>1
    <3> QED  BY <3>3, <3>4
  <2> QED  BY <1>7, <2>1, <2>2, <2>3, <2>4, InStepCases
<1> QED  BY <1>2, <1>3, <1>4, <1>5, <1>6, <1>10, PollShown

LEMMA BlipShown ==
  ASSUME SaleInv, SnapshotInv, PollPump, Blip
  PROVE  SnapshotInv'
<1>1. PICK s : s = Silenced(session)
  OBVIOUS
<1>2. /\ IsVersioned(s) /\ s.ctx = session.ctx /\ s.health = session.health
      /\ DispenserTypes /\ {blips, outages, crashes} \subseteq Nat
  BY <1>1, SilencedVersioned
<1>3. PICK t : t = session'
  OBVIOUS
<1>4. /\ t = Degraded(s) /\ UNCHANGED <<outages, crashes>> /\ blips' = blips + 1
      /\ session.health = "HEALTHY"
  BY <1>1, <1>3 DEF Blip, PollPump
<1>5. DispenserTypes'
  BY <1>2, SilenceTypes
<1>6. t = SetCommunication(s, "DEGRADED")
  BY <1>2, <1>4 DEF Degraded
<1>7. IsVersioned(t) /\ t.ctx = s.ctx /\ t.health = "DEGRADED" /\ t.events = s.events
  BY <1>2, <1>6, CommunicationShows
<1>8. Reconnections' = Reconnections + 1 /\ Reconnections \in Nat
  BY <1>2, <1>4 DEF Reconnections
<1>9. ASSUME dropped = 0, errors = 0, Reconnections' <= 1
      PROVE  Carries(t, 0, 0)
  <2>1. Reconnections = 0 /\ Calm
    BY <1>8, <1>9 DEF Calm
  <2>2. Shown(0)
    BY <2>1, InStepCases
  <2>3. \A p : Shows(s, p, 0) => Shows(t, p, 0)
    BY <1>7 DEF Shows
  <2>4. Reconnections' # 0
    BY <1>8
  <2> QED  BY <1>1, <2>2, <2>3, <2>4 DEF Carries
<1> QED  BY <1>2, <1>3, <1>4, <1>5, <1>7, <1>9, PollShown

LEMMA OutageShown ==
  ASSUME SaleInv, SnapshotInv, PollPump, Outage
  PROVE  SnapshotInv'
<1>1. PICK s : s = Silenced(session)
  OBVIOUS
<1>2. /\ IsVersioned(s) /\ s.ctx = session.ctx /\ s.health = session.health
      /\ DispenserTypes /\ {blips, outages, crashes} \subseteq Nat
  BY <1>1, SilencedVersioned
<1>3. PICK t : t = session'
  OBVIOUS
<1>4. PICK d : d = Degraded(s)
  OBVIOUS
<1>5. /\ t = GivenUp(d) /\ UNCHANGED <<pending, blips, crashes>> /\ outages' = outages + 1
  BY <1>1, <1>3, <1>4 DEF Outage, PollPump
<1>6. DispenserTypes'
  BY <1>2, SilenceTypes
<1>7. IsVersioned(d) /\ d.ctx = s.ctx /\ d.events = s.events
  BY <1>2, <1>4, CommunicationShows DEF Degraded
<1>8. /\ IsVersioned(t) /\ t.health = "DISCONNECTED"
      /\ t.ctx.current_state = "DISCONNECTED"
      /\ t.ctx.last_source_frame_hex = s.ctx.last_source_frame_hex
      /\ \A p : Shows(d, p, 0) => Shows(t, p, 1)
      /\ s.ctx.current_state # "DISCONNECTED" => \A p : Shows(d, p, 0) => Shows(t, p, 0)
  BY <1>5, <1>7, LossShows
<1>9. \A p : Shows(s, p, 0) => Shows(d, p, 0)
  BY <1>7 DEF Shows
<1>10. Reconnections' = Reconnections + 1 /\ Reconnections \in Nat
  BY <1>2, <1>5 DEF Reconnections
<1>11. ASSUME dropped = 0, errors = 0, Reconnections' <= 1
       PROVE  \E j, k \in {0, 1} : Carries(t, j, k)
  <2>1. Reconnections = 0 /\ Calm /\ Reconnections' = 1
    BY <1>10, <1>11 DEF Calm
  <2>2. Shown(0) /\ (session.health # "HEALTHY" => Fresh)
    BY <2>1, InStepCases
  <2>3. CASE Controller # "DISCONNECTED"
    <3>1. \A p : Shows(s, p, 0) => Shows(t, p, 0)
      BY <1>2, <1>8, <1>9, <2>3 DEF Controller
    <3>2. Carries(t, 0, 0)
      BY <1>1, <2>1, <2>2, <3>1 DEF Carries
    <3> QED  BY <3>2
  <2>4. CASE Controller = "DISCONNECTED"
    <3>1. Fresh
      BY <2>2, <2>4 DEF SnapshotInv
    <3>2. Fresh'
      BY <1>2, <1>3, <1>5, <1>8, <3>1 DEF Fresh, Controller
    <3>3. \A p : Shows(s, p, 0) => Shows(t, p, 1)
      BY <1>8, <1>9
    <3>4. Carries(t, 0, 1)
      BY <1>1, <1>8, <2>1, <2>2, <3>2, <3>3 DEF Carries
    <3> QED  BY <3>4
  <2> QED  BY <2>3, <2>4
<1> QED  BY <1>2, <1>3, <1>5, <1>6, <1>8, <1>11, PollShown

LEMMA DeliverShown ==
  ASSUME SaleInv, SnapshotInv, PollPump, DeliverFrame
  PROVE  SnapshotInv'
<1>1. PICK s : s = Silenced(session)
  OBVIOUS
<1>2. /\ IsVersioned(s) /\ s.ctx = session.ctx /\ s.health = session.health
      /\ DispenserTypes /\ {blips, outages, crashes} \subseteq Nat
  BY <1>1, SilencedVersioned
<1>3. PICK t : t = session'
  OBVIOUS
<1>4. PICK n \in 1..MaxBlock :
        /\ n <= Len(pending)
        /\ t = TakeFrame(s, <<seq, SubSeq(pending, 1, n)>>)
  BY <1>1, <1>3 DEF DeliverFrame
<1>5. PICK frame : frame = <<seq, SubSeq(pending, 1, n)>>
  OBVIOUS
<1>6. Len(frame[2]) = n /\ n \in Nat /\ n >= 1 /\ frame[2][1] = pending[1]
  <2>1. n \in Nat /\ n >= 1 /\ 1 \in 1..n
    BY DispenserAssumption
  <2>2. pending \in Seq(DispenserReport)
    BY <1>2 DEF DispenserTypes
  <2>3. Len(SubSeq(pending, 1, n)) = n /\ SubSeq(pending, 1, n)[1] = pending[1]
    BY <1>4, <2>1, <2>2, BlockFields
  <2> QED  BY <1>5, <2>1, <2>3
<1>7. UNCHANGED <<blips, outages, crashes>>
  BY DEF DeliverFrame, PollPump
<1>8. DispenserTypes'
  BY <1>2, DeliverTypes
<1>9. PICK a : a = Answered(s)
  OBVIOUS
<1>10. /\ s.ctx.current_state = "DISCONNECTED" => \A p : Shows(s, p, 0) => Shows(a, p, 0)
       /\ s.ctx.current_state # "DISCONNECTED" => \A p : Shows(s, p, 0) => Shows(a, p, 1)
       /\ s.ctx.current_state # "DISCONNECTED" /\ s.health = "HEALTHY" =>
            \A p : \A k \in {0, 1} : Shows(s, p, k) => Shows(a, p, k)
       /\ s.ctx.current_state = "DISCONNECTED" => \A p : Shows(s, p, 1) => Nears(a, p)
  BY <1>2, <1>9, AnswerShows
<1>11. /\ IsVersioned(t) /\ t.health = "HEALTHY" /\ t.ctx.current_state # "DISCONNECTED"
       /\ \A p : \A k \in {0, 1} : Shows(a, p, k) => Shows(t, p, k)
       /\ /\ s.ctx.current_state = "DISCONNECTED" /\ s.ctx.last_source_frame_hex = None
          /\ frame[2][1] = DC1(ResetStatus)
          => \A p : Nears(a, p) => Shows(t, p, 0)
  BY <1>2, <1>4, <1>5, <1>6, <1>9, FrameShows
<1>12. Reconnections' = Reconnections /\ Reconnections \in Nat
  BY <1>2, <1>7 DEF Reconnections
<1>13. ASSUME dropped = 0, errors = 0, Reconnections' <= 1
       PROVE  \E j, k \in {0, 1} : Carries(t, j, k)
  <2>1. Calm
    BY <1>12, <1>13 DEF Calm
  <2>2. CASE session.health = "HEALTHY"
    <3>1. s.ctx.current_state # "DISCONNECTED"
      BY <1>2, <2>2 DEF SnapshotInv, Controller
    <3>2. \A p : \A k \in {0, 1} : Shows(s, p, k) => Shows(t, p, k)
      BY <1>2, <1>10, <1>11, <2>2, <3>1
    <3>3. CASE Shown(0)
      <4>1. Carries(t, 0, 0)
        BY <1>1, <1>11, <3>2, <3>3 DEF Carries
      <4> QED  BY <4>1
    <3>4. CASE Shown(1) /\ Reconnections = 1
      <4>1. Carries(t, 1, 1)
        BY <1>1, <1>11, <1>12, <3>2, <3>4 DEF Carries
      <4> QED  BY <4>1
    <3> QED  BY <2>1, <3>3, <3>4, InStepCases
  <2>3. CASE session.health # "HEALTHY" /\ Shown(0)
    <3>1. CASE s.ctx.current_state = "DISCONNECTED"
      <4>1. \A p : Shows(s, p, 0) => Shows(t, p, 0)
        BY <1>10, <1>11, <3>1
      <4>2. Carries(t, 0, 0)
        BY <1>1, <1>11, <2>3, <4>1 DEF Carries
      <4> QED  BY <4>2
    <3>2. CASE s.ctx.current_state # "DISCONNECTED"
      <4>1. \A p : Shows(s, p, 0) => Shows(t, p, 1)
        BY <1>10, <1>11, <3>2
      <4>2. ~Fresh
        BY <1>2, <3>2 DEF Fresh, Controller
      <4>3. Reconnections # 0
        BY <2>1, <2>3, <4>2, InStepCases, Zenon
      <4>4. Reconnections' = 1
        BY <1>12, <1>13, <4>3
      <4>5. Carries(t, 0, 1)
        BY <1>1, <1>11, <2>3, <4>1, <4>4 DEF Carries
      <4> QED  BY <4>5
    <3> QED  BY <3>1, <3>2
  <2>4. CASE Shown(1) /\ Fresh
    <3>1. /\ s.ctx.current_state = "DISCONNECTED" /\ s.ctx.last_source_frame_hex = None
          /\ frame[2][1] = DC1(ResetStatus)
      BY <1>2, <1>6, <2>4 DEF Fresh, Controller
    <3>2. \A p : Shows(s, p, 1) => Shows(t, p, 0)
      BY <1>10, <1>11, <3>1
    <3>3. Carries(t, 1, 0)
      BY <1>1, <1>11, <2>4, <3>2 DEF Carries
    <3> QED  BY <3>3
  <2> QED  BY <2>1, <2>2, <2>3, <2>4, InStepCases
<1> QED  BY <1>2, <1>3, <1>7, <1>8, <1>11, <1>13, PollShown

-----------------------------------------------------------------------------
(* The worker, and a restart. *)

\* A snapshot that is stored can be told from none.
SnapshotsAreSome ==
  \A state, version, healthy, nozzle, raw, frame, previous :
    Snapshot(state, version, healthy, nozzle, raw, frame, previous) # None

LEMMA SnapshotFields ==
  ASSUME NEW state, NEW version, NEW healthy, NEW nozzle, NEW raw, NEW frame, NEW previous,
         NEW s, s = Snapshot(state, version, healthy, nozzle, raw, frame, previous)
  PROVE  s.state = state /\ s.version = version
BY DEF Snapshot

LEMMA SnapshotStored ==
  ASSUME SnapshotTypes, NEW s, s # None, s.version \in Nat, PersistsSnapshot(s)
  PROVE  /\ Stored' = IF s.version >= Stored.version
                      THEN [state |-> s.state, version |-> s.version] ELSE Stored
         /\ snapshot' # None => snapshot'.version \in Nat
<1>1. CASE snapshot = None
  <2>1. snapshot' = s
    BY <1>1 DEF PersistsSnapshot, IsMeaningful
  <2>2. Stored = [state |-> "DISCONNECTED", version |-> 0]
    BY <1>1 DEF Stored
  <2> QED  BY <2>1, <2>2 DEF Stored
<1>2. CASE snapshot # None
  <2>1. /\ Stored = [state |-> snapshot.state, version |-> snapshot.version]
        /\ Stored.version = snapshot.version /\ snapshot.version \in Nat
    BY <1>2 DEF Stored, SnapshotTypes
  <2>2. CASE s.version > snapshot.version
    BY <1>2, <2>1, <2>2 DEF PersistsSnapshot, IsMeaningful, Stored
  <2>3. CASE s.version = snapshot.version
    <3>1. snapshot' = s \/ (snapshot' = snapshot /\ SameView(s, snapshot))
      BY <1>2, <2>3 DEF PersistsSnapshot, IsMeaningful
    <3>2. SameView(s, snapshot) => s.state = snapshot.state
      BY DEF SameView
    <3> QED  BY <1>2, <2>1, <2>3, <3>1, <3>2 DEF Stored
  <2>4. CASE s.version < snapshot.version
    <3>1. snapshot' = snapshot
      BY <1>2, <2>1, <2>4 DEF PersistsSnapshot, IsMeaningful
    <3>2. Stored' = Stored
      BY <3>1 DEF Stored
    <3> QED  BY <1>2, <2>1, <2>4, <3>1, <3>2
  <2> QED  BY <2>1, <2>2, <2>3, <2>4
<1> QED  BY <1>1, <1>2

\* What a job makes of the snapshot is what is expected of it.
LEMMA JobPersists ==
  ASSUME SnapshotsAreSome, SnapshotTypes, NEW job, IsNumbered(job),
         HandleStateChanged(job) \/ HandleDecoded(job) \/ HandleComm(job)
  PROVE  /\ Stored' = Persisted(Stored, job)
         /\ snapshot' # None => snapshot'.version \in Nat
<1>1. IsView(Stored)
  BY StoredView
<1>2. CASE HandleStateChanged(job)
  <2>1. PICK c : c = job.ctx
    OBVIOUS
  <2>2. PICK s : s = Snapshot(c.current_state, c.state_version, c.communication_healthy,
                              c.selected_nozzle, c.last_raw_wayne_status,
                              c.last_source_frame_hex, job.from)
    OBVIOUS
  <2>3. /\ s # None /\ s.state = c.current_state /\ s.version = c.state_version
        /\ PersistsSnapshot(s) /\ job.type = "STATE_CHANGED"
    BY <1>2, <2>1, <2>2, SnapshotFields DEF HandleStateChanged, SnapshotsAreSome
  <2>4. s.version \in Nat
    BY <2>1, <2>3 DEF IsNumbered
  <2>5. /\ Stored' = IF s.version >= Stored.version
                     THEN [state |-> s.state, version |-> s.version] ELSE Stored
        /\ snapshot' # None => snapshot'.version \in Nat
    BY <2>3, <2>4, SnapshotStored
  <2> QED  BY <2>1, <2>3, <2>5 DEF Persisted
<1>3. CASE HandleDecoded(job)
  BY <1>3 DEF HandleDecoded, Persisted, Stored, SnapshotTypes
<1>4. CASE HandleComm(job)
  <2>1. PICK s :
          s = Snapshot(IF snapshot = None THEN "DISCONNECTED" ELSE snapshot.state,
                       IF snapshot = None THEN 1 ELSE snapshot.version + 1,
                       job.type = "PUMP_CONNECTED", None, None, None, None)
    OBVIOUS
  <2>2. PersistsSnapshot(s) /\ job.type \in {"PUMP_CONNECTED", "PUMP_DISCONNECTED"}
    BY <1>4, <2>1 DEF HandleComm
  <2>3. s # None
    BY <2>1 DEF SnapshotsAreSome
  <2>4. s.state = Stored.state /\ s.version = Stored.version + 1
    <3>1. /\ s.state = IF snapshot = None THEN "DISCONNECTED" ELSE snapshot.state
          /\ s.version = IF snapshot = None THEN 1 ELSE snapshot.version + 1
      BY <2>1, SnapshotFields
    <3> QED  BY <3>1 DEF Stored
  <2>5. s.version \in Nat /\ s.version >= Stored.version
    BY <1>1, <2>4 DEF IsView
  <2>6. /\ Stored' = [state |-> s.state, version |-> s.version]
        /\ snapshot' # None => snapshot'.version \in Nat
    BY <2>2, <2>3, <2>5, SnapshotStored
  <2> QED  BY <2>2, <2>4, <2>6 DEF Persisted
<1> QED  BY <1>2, <1>3, <1>4

\* A job finds its uuid's row, or makes it.
LEMMA JobHasRow ==
  ASSUME txByAddress \in {None} \union DOMAIN rows, NEW job,
         HandleStateChanged(job) \/ HandleDecoded(job) \/ HandleComm(job)
  PROVE  txByAddress' \in {None} \union DOMAIN rows'
<1>1. CASE BeginsSale(job)
  BY <1>1 DEF BeginsSale
<1>2. CASE CompletesSale(job)
  BY <1>2 DEF CompletesSale
<1>3. CASE NoTransaction
  BY <1>3 DEF NoTransaction
<1>4. CASE HandleDecoded(job)
  BY <1>4 DEF HandleDecoded
<1> QED  BY <1>1, <1>2, <1>3, <1>4 DEF HandleStateChanged, HandleComm

\* What a job that is taken leaves as it was.
LEMMA TakenShown ==
  ASSUME SaleInv, SnapshotInv, TakesJob
  PROVE  /\ Controller' = Controller /\ session' = session /\ (Fresh' <=> Fresh)
         /\ Reconnections' = Reconnections /\ dropped' = dropped
         /\ blips' \in Nat /\ crashes' \in Nat /\ dropped' \in Nat
         /\ AreNumbered(queue') /\ IsNumbered(Head(queue)) /\ IsEvents(queue)
         /\ queue # <<>> /\ queue' = Tail(queue)
<1>1. UNCHANGED <<session, pending, blips, outages, crashes, dropped>>
      /\ queue # <<>> /\ queue' = Tail(queue)
  BY DEF TakesJob, dispenserVars
<1>2. IsEvents(queue) /\ AreNumbered(queue)
  BY DEF SaleInv, SaleTypes, SnapshotInv, SnapshotTypes
<1>3. AreNumbered(Tail(queue)) /\ IsNumbered(Head(queue))
  <2>1. PICK S : queue \in Seq(S)
    BY <1>2 DEF IsEvents
  <2>2. /\ Len(Tail(queue)) = Len(queue) - 1 /\ Len(queue) \in Nat /\ Len(queue) >= 1
        /\ \A i \in 1..(Len(queue) - 1) : Tail(queue)[i] = queue[i + 1]
        /\ Head(queue) = queue[1]
    BY <1>1, <2>1
  <2>3. \A i \in 1..Len(Tail(queue)) : i + 1 \in 1..Len(queue) /\ Tail(queue)[i] = queue[i + 1]
    BY <2>2
  <2> QED  BY <1>2, <2>2, <2>3 DEF AreNumbered
<1> QED  BY <1>1, <1>2, <1>3
         DEF Controller, Fresh, Reconnections, SnapshotInv, SnapshotTypes, Counters

LEMMA JobShown ==
  ASSUME SnapshotsAreSome, SaleInv, SnapshotInv, RunJob
  PROVE  SnapshotInv'
<1>1. /\ Controller' = Controller /\ session' = session /\ (Fresh' <=> Fresh)
      /\ Reconnections' = Reconnections /\ dropped' = dropped /\ errors' = errors
      /\ blips' \in Nat /\ crashes' \in Nat /\ dropped' \in Nat
      /\ AreNumbered(queue') /\ IsNumbered(Head(queue)) /\ IsEvents(queue)
      /\ queue # <<>> /\ queue' = Tail(queue)
  BY TakenShown DEF RunJob
<1>2. PICK job : job = Head(queue)
  OBVIOUS
<1>3. HandleStateChanged(job) \/ HandleDecoded(job) \/ HandleComm(job)
  BY <1>2 DEF RunJob
<1>4. /\ Stored' = Persisted(Stored, job)
      /\ snapshot' # None => snapshot'.version \in Nat
  BY <1>1, <1>2, <1>3, JobPersists DEF SnapshotInv
<1>5. SnapshotTypes'
  <2>1. AreNumbered(queue)'
    BY <1>1 DEF AreNumbered, IsNumbered
  <2> QED  BY <1>1, <1>4, <2>1 DEF SnapshotInv, SnapshotTypes, Counters
<1>6. HasRow'
  BY <1>1, <1>3, JobHasRow DEF SnapshotInv, HasRow
<1>7. ASSUME NEW k \in {0, 1}, Shown(k)
      PROVE  Shown(k)'
  <2>1. PICK r : /\ Yields(Stored, queue, r) /\ IsView(r)
                 /\ r.state = Controller /\ r.version <= session.ctx.state_version + k
    BY <1>7 DEF Shown
  <2>2. PICK p : p = Stored
    OBVIOUS
  <2>3. Yields(Persisted(p, job), Tail(queue), r)
    BY <1>1, <1>2, <2>1, <2>2, TailYields
  <2>4. Yields(Stored', queue', r)
    BY <1>1, <1>4, <2>2, <2>3
  <2>5. Yields(Stored, queue, r)'
    BY <2>4 DEF Yields, AreViews, Persisted
  <2> QED  BY <1>1, <2>1, <2>5 DEF Shown, IsView
<1>8. Calm' => Calm
  BY <1>1 DEF Calm
<1>9. Shown(0) => Shown(0)'
  BY <1>7
<1>10. Shown(1) => Shown(1)'
  BY <1>7
<1>11. Calm' => InStep'
  BY <1>1, <1>8, <1>9, <1>10 DEF SnapshotInv, InStep
<1> QED  BY <1>1, <1>5, <1>6, <1>11 DEF SnapshotInv

\* A job without a row is one whose begin failed.
LEMMA FailureShown ==
  ASSUME SaleInv, SnapshotInv, JobFails
  PROVE  SnapshotInv'
<1>1. /\ Controller' = Controller /\ session' = session
      /\ dropped' = dropped /\ snapshot' = snapshot
      /\ blips' \in Nat /\ crashes' \in Nat /\ dropped' \in Nat
      /\ AreNumbered(queue')
  BY TakenShown DEF JobFails
<1>2. errors \in Nat
  BY DEF SnapshotInv, SnapshotTypes, Counters
<1>3. errors' \in Nat /\ errors' # 0
  <2>1. CASE FindsNoRow(Head(queue)) /\ UNCHANGED errors
    <3>1. txByAddress \notin {None} \union DOMAIN rows
      BY <2>1 DEF FindsNoRow
    <3> QED  BY <1>2, <2>1, <3>1 DEF SnapshotInv, HasRow
  <2>2. CASE errors' = errors + 1
    BY <1>2, <2>2
  <2> QED  BY <2>1, <2>2 DEF JobFails
<1>4. SnapshotTypes'
  <2>1. AreNumbered(queue)'
    BY <1>1 DEF AreNumbered, IsNumbered
  <2> QED  BY <1>1, <1>3, <2>1 DEF SnapshotInv, SnapshotTypes, Counters
<1> QED  BY <1>1, <1>3, <1>4 DEF SnapshotInv, HasRow, Calm

\* The machine starts in the state of the snapshot, and with its version.
LEMMA RestartShown ==
  ASSUME SaleInv, SnapshotInv, PowerCut
  PROVE  SnapshotInv'
<1>1. /\ session' = SessionWith(Recovered) /\ queue' = <<>> /\ txByAddress' = None
      /\ crashes' = crashes + 1 /\ UNCHANGED <<blips, outages, snapshot, dropped, errors>>
  BY DEF PowerCut
<1>2. {blips, outages, crashes, dropped, errors} \subseteq Nat /\ IsView(Stored)
  BY StoredView DEF SnapshotInv, SnapshotTypes, Counters, SaleInv, SaleTypes, DispenserTypes
<1>3. PICK c : c = Recovered
  OBVIOUS
<1>4. c.current_state = Stored.state /\ c.state_version = Stored.version
  <2>1. \A state : /\ NewContext(state, FALSE).current_state = state
                   /\ NewContext(state, FALSE).state_version = 0
                   /\ DOMAIN NewContext(state, FALSE) = ContextFields
    BY DEF NewContext, ContextFields
  <2>2. CASE snapshot = None
    BY <1>3, <2>1, <2>2 DEF Recovered, Stored
  <2>3. CASE snapshot # None
    <3>1. PICK d : d = NewContext(snapshot.state, FALSE)
      OBVIOUS
    <3>2. /\ d.current_state = snapshot.state
          /\ {"current_state", "state_version"} \subseteq DOMAIN d
      BY <2>1, <3>1 DEF ContextFields
    <3>3. c = [d EXCEPT !.previous_state = snapshot.previous,
                        !.selected_nozzle = snapshot.nozzle,
                        !.last_raw_wayne_status = snapshot.raw,
                        !.state_version = snapshot.version,
                        !.last_source_frame_hex = snapshot.frame]
      BY <1>3, <2>3, <3>1 DEF Recovered
    <3> QED  BY <2>3, <3>2, <3>3 DEF Stored
  <2> QED  BY <2>2, <2>3
<1>5. session'.ctx = c /\ session'.health = "UNKNOWN"
  BY <1>1, <1>3 DEF SessionWith
<1>6. SnapshotTypes'
  <2>1. AreNumbered(queue)'
    BY <1>1, NothingYields DEF AreNumbered, IsNumbered
  <2> QED  BY <1>1, <1>2, <1>4, <1>5, <2>1 DEF SnapshotInv, SnapshotTypes, Counters, IsView
<1>7. Shown(0)'
  <2>1. PICK r : r = Stored
    OBVIOUS
  <2>2. Stored' = r
    BY <1>1, <2>1 DEF Stored
  <2>3. Yields(Stored', queue', r)
    BY <1>1, <2>2, NothingYields
  <2>4. Yields(Stored, queue, r)'
    BY <2>3 DEF Yields, AreViews, Persisted
  <2>5. r.state = session'.ctx.current_state
        /\ r.version <= session'.ctx.state_version + 0
    BY <1>2, <1>4, <1>5, <2>1 DEF IsView
  <2> QED  BY <1>2, <2>1, <2>4, <2>5 DEF Shown, Controller, IsView
<1>8. Reconnections' # 0
  BY <1>1, <1>2 DEF Reconnections
<1> QED  BY <1>1, <1>5, <1>6, <1>7, <1>8 DEF SnapshotInv, HasRow, InStep

LEMMA SnapshotInvariant ==
  ASSUME SnapshotsAreSome
  PROVE  Spec => []SnapshotInv
<1>1. SaleInv /\ SnapshotInv /\ SaleInv' /\ [Next]_vars => SnapshotInv'
  <2> SUFFICES ASSUME SaleInv, SnapshotInv, SaleInv', [Next]_vars  PROVE SnapshotInv'
    OBVIOUS
  <2>1. CASE DispenserWorks
    BY <2>1, DispenserShown
  <2>2. CASE PollPump
    BY <2>2, SilenceShown, BlipShown, OutageShown, DeliverShown
       DEF PollPump, ControllerSteps
  <2>3. CASE RunJob
    BY <2>3, JobShown
  <2>4. CASE JobFails
    BY <2>4, FailureShown
  <2>5. CASE PowerCut
    BY <2>5, RestartShown
  <2>6. CASE UNCHANGED vars
    <3>1. UNCHANGED <<session, pending, blips, outages, crashes, queue, txByAddress, rows,
                      snapshot, dropped, errors>>
      BY <2>6 DEF vars, dispenserVars, storeVars
    <3>2. SnapshotTypes'
      BY <3>1 DEF SnapshotInv, SnapshotTypes, Counters, AreNumbered, IsNumbered
    <3>3. (Shown(0) => Shown(0)') /\ (Shown(1) => Shown(1)')
      BY <3>1 DEF Shown, Stored, Controller
    <3>4. (Fresh' <=> Fresh) /\ (Calm' <=> Calm) /\ Reconnections' = Reconnections
      BY <3>1 DEF Fresh, Calm, Reconnections, Controller
    <3>5. Calm' => InStep'
      BY <3>1, <3>3, <3>4 DEF SnapshotInv, InStep
    <3> QED  BY <3>1, <3>2, <3>5 DEF SnapshotInv, HasRow, Controller
  <2> QED  BY <2>1, <2>2, <2>3, <2>4, <2>5, <2>6 DEF Next
<1> QED  BY <1>1, SnapshotStart, SaleInvariant, PTL DEF Spec

-----------------------------------------------------------------------------
(* The theorems. *)

\* For any number of sales, pauses, limits and status requests, any length of the
\* dispenser's backlog and any number of reports in its DATA frames: the controller's
\* state is the dispenser's when every report is delivered, unless a report of a frame
\* of several was taken for a duplicate (machine.py's duplicate_source_frame), a
\* completion frame recurred (_apply_mapped's _applied_completion_keys) or the pump was
\* given up (on_timeout).  A frame of one report is never lost by the first of these,
\* however often the TX# wraps.
THEOREM SalesAreAlwaysTracked == DispenserSpec => []SalesAreTracked
<1>1. TrackingInv => SalesAreTracked
  <2> SUFFICES ASSUME TrackingInv, CaughtUp, ~swallowed, ~recurred, outages = 0
               PROVE  Controller = StateOf(dispenser.phase)
    BY DEF SalesAreTracked
  <2>1. "clean" \in Modes /\ Applies("clean")
    BY DEF Modes, Applies
  <2> QED  BY <2>1, CaughtUpViews DEF Views
<1> QED  BY <1>1, TrackingInvariant, PTL

\* As long as no report of a block is taken for a duplicate and the pump is not given up,
\* the machine is in READY or RESET, where the guards
\* let a price be set (guards.py), only when the dispenser is idle; also when completions
\* were taken for repeated ones (pump_session.py's _applied_completion_keys).
THEOREM IdleIsAlwaysReal == DispenserSpec => []IdleIsReal
<1>1. TrackingInv => IdleIsReal
  <2> SUFFICES ASSUME TrackingInv, CaughtUp, ~swallowed, outages = 0, Controller \in {"READY", "RESET"}
               PROVE  dispenser.phase = "ready"
    BY DEF IdleIsReal
  <2>1. "lossy" \in Modes /\ Applies("lossy")
    BY DEF Modes, Applies
  <2>2. Controller \in Views("lossy", dispenser.phase) /\ dispenser.phase \in Phases
    BY <2>1, CaughtUpViews
  <2> QED  BY <2>2, PhaseStates DEF Views, Phases
<1> QED  BY <1>1, TrackingInvariant, PTL

\* Through any number of outages, at any point of a sale, the machine is not left in a
\* state of a sale when the dispenser is idle and nothing is under way: COMMUNICATION_LOST
\* and what is reported afterwards take it out (transitions.py), unless it was taken for
\* a duplicate or for another sale's.
THEOREM SaleEndIsAlwaysSeen == DispenserSpec => []SaleEndIsSeen
<1>1. TrackingInv => SaleEndIsSeen
  <2> SUFFICES ASSUME TrackingInv, CaughtUp, ~swallowed, ~recurred, dispenser.phase = "ready"
               PROVE  Controller \in {"READY", "DISCOVERING"}
    BY DEF SaleEndIsSeen
  <2>1. "broken" \in Modes /\ Applies("broken")
    BY DEF Modes, Applies
  <2>2. Controller \in Views("broken", "ready")
    BY <2>1, CaughtUpViews
  <2> QED  BY <2>2 DEF Views
<1> QED  BY <1>1, TrackingInvariant, PTL

\* For any queue, any sales and any number of drops, errors and power cuts, the
\* cloud is told of a completed transaction exactly once, with a key of its own
\* (complete_once, "share one commit").
THEOREM CompletionsAreToldOnce == Spec => []CloudHearsOnce
<1>1. StoreInv => CloudHearsOnce
  <2> SUFFICES ASSUME StoreInv  PROVE CloudHearsOnce
    OBVIOUS
  <2>1. \A u : u \in CompletedRows <=> IsCompleted(rows, u)
    BY DEF CompletedRows, IsCompleted
  <2>2. CompletedRows = {e.uuid : e \in completions}
    BY <2>1 DEF StoreInv, StoreOK, ToldAsCompleted
  <2>3. ASSUME NEW d \in completions, NEW e \in completions,
               d.uuid = e.uuid \/ d.key = e.key
        PROVE  d = e
    BY <2>3 DEF StoreInv, StoreOK, ToldAsCompleted, KeysAreUnique
  <2> QED  BY <2>2, <2>3 DEF CloudHearsOnce
<1> QED  BY <1>1, StoreInvariant, PTL

\* Whatever jobs the full queue drops, handlers raise, and however often and whenever the
\* power is cut, the table never counts more completed sales than the dispenser finished,
\* for any number of transactions to a DATA frame: the bridge's uuid completes one row
\* only, and an end is reported only of a sale that ended
\* (persistence_bridge.py's _tx_by_address, complete_once).
THEOREM NoSaleIsInvented == Spec => []NoInventedSale
<1>1. SaleInv => NoInventedSale
  <2> SUFFICES ASSUME SaleInv  PROVE Cardinality(CompletedRows) <= dispenser.finished
    BY DEF NoInventedSale
  <2> DEFINE a == Done(rows) \ {txByAddress}
  <2>1. CompletedRows = Done(rows)
    BY DEF CompletedRows, Done
  <2>2. IsFiniteSet(a) /\ Cardinality(a) \in Nat
    <3>1. a \subseteq 1..uuids /\ IsFiniteSet(1..uuids)
      BY FS_Interval DEF SaleInv, SaleTypes, Done
    <3> HIDE DEF a
    <3> QED  BY <3>1, FS_Subset, FS_CardinalityType
  <2>3. Cardinality(a) + (IF Ended THEN 1 ELSE 0) <= dispenser.finished
        /\ dispenser.finished \in Nat
    BY DEF SaleInv, SaleTypes, DispenserTypes, Counted
  <2>4. txByAddress \in Done(rows) => Ended
    BY DEF Ended
  <2>5. Done(rows) = IF txByAddress \in Done(rows) THEN a \union {txByAddress} ELSE a
    OBVIOUS
  <2>6. txByAddress \notin a
    OBVIOUS
  <2> HIDE DEF a, Ended
  <2>7. Cardinality(a \union {txByAddress}) = Cardinality(a) + 1
    BY <2>2, <2>6, FS_AddElement
  <2>8. CASE txByAddress \in Done(rows)
    BY <2>1, <2>2, <2>3, <2>4, <2>5, <2>7, <2>8
  <2>9. CASE txByAddress \notin Done(rows)
    BY <2>1, <2>2, <2>3, <2>5, <2>9
  <2> QED  BY <2>8, <2>9
<1> QED  BY <1>1, SaleInvariant, PTL

\* For any queue, any number of sales and of transactions to a DATA frame: when every job
\* has run, none was dropped and none failed, the latest snapshot holds the state of the
\* machine, if the pump has reconnected at most once (insert_if_meaningful, _handle_comm).
\* The one version the reconnection's own snapshot is ahead is made up for by the next
\* change of state, also when the reconnection is the first answer.
THEOREM SnapshotStaysCurrent ==
  ASSUME SnapshotsAreSome
  PROVE  Spec => []SnapshotIsCurrent
<1>1. SnapshotInv => SnapshotIsCurrent
  <2> SUFFICES ASSUME SnapshotInv, AllJobsDone, snapshot # None, Reconnections <= 1
               PROVE  snapshot.state = Controller
    BY DEF SnapshotIsCurrent
  <2>1. Calm /\ queue = <<>>
    BY DEF AllJobsDone, Calm
  <2>2. PICK r : Yields(Stored, queue, r) /\ r.state = Controller
    BY <2>1, InStepCases DEF Shown
  <2>3. r = Stored
    BY <2>1, <2>2, NothingMore
  <2> QED  BY <2>2, <2>3 DEF Stored
<1> QED  BY <1>1, SnapshotInvariant, PTL

=============================================================================

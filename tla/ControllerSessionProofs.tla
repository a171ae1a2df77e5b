----------------------- MODULE ControllerSessionProofs -----------------------
(***************************************************************************)
(* What PumpSession makes of its machine, its keys and its events: for any *)
(* context a machine can be in, any frame and any number of reports in it. *)
(* The proofs about the systems a session is part of rest on these facts.  *)
(***************************************************************************)
EXTENDS ControllerSession, WellFoundedInduction, TLAPS

SaleEnds == {"FILLING_COMPLETE", "LIMIT_REACHED"}

-----------------------------------------------------------------------------
(* The reports of a frame are taken in order. *)

\* The library's induction theorem has an operator for a parameter; this one has
\* the set of the numbers the statement holds of.
LEMMA UpTo ==
  ASSUME NEW N \in Nat, NEW T, 0 \in T, \A i \in Nat : i < N /\ i \in T => i + 1 \in T
  PROVE  0..N \subseteq T
<1> DEFINE Out == {i \in 0..N : i \notin T}
<1> SUFFICES ASSUME Out # {}  PROVE FALSE
  OBVIOUS
<1>1. Out \subseteq Nat
  OBVIOUS
<1> DEFINE R == {ss \in Nat \X Nat : ss[1] < ss[2]}
<1>2. PICK m \in Out : \A y \in Out : ~(<<y, m>> \in R)
  <2>1. IsWellFoundedOn(R, Nat)
    BY NatLessThanWellFounded DEF OpToRel
  <2> HIDE DEF Out, R
  <2> QED BY <1>1, <2>1, WFMin
<1>3. m \in Nat /\ m # 0 /\ m <= N /\ m \notin T
  OBVIOUS
<1>4. m - 1 \in Nat /\ m - 1 < m /\ m - 1 < N /\ (m - 1) + 1 = m
  BY <1>3
<1>5. m - 1 \notin T
  BY <1>3, <1>4
<1>6. m - 1 \in Out
  BY <1>4, <1>5
<1>7. <<m - 1, m>> \in R
  BY <1>3, <1>4
<1> QED  BY <1>2, <1>6, <1>7

\* What TakeFrame makes of the reports, one by one.
IsRun(g, s, frame, n) ==
  g = [i \in 0..n |-> IF i = 0 THEN Answered(s)
                      ELSE TakeReport(g[i - 1], frame[2][i], frame)]

LEMMA RunExists ==
  ASSUME NEW s, NEW frame, NEW N \in Nat
  PROVE  \E g : IsRun(g, s, frame, N)
<1> DEFINE T == {n \in 0..N : \E g : IsRun(g, s, frame, n)}
<1>1. 0 \in T
  <2> DEFINE g == [i \in 0..0 |-> IF i = 0 THEN Answered(s) ELSE TakeReport(s, frame[2][i], frame)]
  <2>1. IsRun(g, s, frame, 0)
    BY DEF IsRun
  <2> QED  BY <2>1
<1>2. ASSUME NEW n \in Nat, n < N, n \in T  PROVE n + 1 \in T
  <2>1. PICK f : IsRun(f, s, frame, n)
    BY <1>2
  <2> DEFINE g == [i \in 0..(n + 1) |-> IF i = n + 1 THEN TakeReport(f[n], frame[2][n + 1], frame)
                                        ELSE f[i]]
  <2>2. g = [i \in 0..(n + 1) |-> IF i = 0 THEN Answered(s)
                                  ELSE TakeReport(g[i - 1], frame[2][i], frame)]
    <3>1. ASSUME NEW i \in 0..(n + 1)
          PROVE  g[i] = IF i = 0 THEN Answered(s)
                        ELSE TakeReport(g[i - 1], frame[2][i], frame)
      <4>1. CASE i = n + 1
        <5>1. i # 0 /\ i - 1 = n /\ n \in 0..(n + 1) /\ n # n + 1
          BY <4>1
        <5>2. g[i - 1] = f[n]
          BY <5>1
        <5>3. g[i] = TakeReport(f[n], frame[2][n + 1], frame)
          BY <4>1
        <5> QED  BY <5>1, <5>2, <5>3, <4>1
      <4>2. CASE i # n + 1
        <5>1. i \in 0..n
          BY <4>2
        <5>2. g[i] = f[i]
          BY <4>2
        <5>3. f[i] = IF i = 0 THEN Answered(s) ELSE TakeReport(f[i - 1], frame[2][i], frame)
          BY <2>1, <5>1 DEF IsRun
        <5>4. i # 0 => g[i - 1] = f[i - 1]
          BY <5>1
        <5> HIDE DEF g
        <5> QED  BY <5>2, <5>3, <5>4
      <4> QED  BY <4>1, <4>2
    <3> QED  BY <3>1
  <2>3. IsRun(g, s, frame, n + 1)
    BY <2>2 DEF IsRun
  <2>4. n + 1 \in 0..N
    BY <1>2
  <2> HIDE DEF g, IsRun
  <2> QED  BY <2>3, <2>4
<1>3. 0..N \subseteq T
  <2> HIDE DEF T
  <2> QED BY <1>1, <1>2, UpTo
<1> QED  BY <1>3, N \in 0..N

LEMMA TakeFrameRuns ==
  ASSUME NEW s, NEW frame, Len(frame[2]) \in Nat
  PROVE  /\ IsRun(AfterEach(s, frame), s, frame, Len(frame[2]))
         /\ TakeFrame(s, frame) = AfterEach(s, frame)[Len(frame[2])]
<1> DEFINE after == CHOOSE g : IsRun(g, s, frame, Len(frame[2]))
<1>1. IsRun(after, s, frame, Len(frame[2]))
  BY RunExists
<1>2. AfterEach(s, frame) = after
  BY DEF AfterEach, IsRun
<1> QED  BY <1>1, <1>2 DEF TakeFrame

-----------------------------------------------------------------------------
(* The session's machine. *)

ContextFields ==
  {"current_state", "previous_state", "selected_nozzle", "active_transaction_id",
   "last_observation_at", "last_raw_wayne_status", "communication_healthy",
   "price_verified", "fault_code", "state_version", "completed_evidence_keys",
   "last_source_frame_hex"}

\* The session passes no times to its machine.
IsContext(c) ==
  /\ DOMAIN c = ContextFields /\ c = [f \in DOMAIN c |-> c[f]]
  /\ c.current_state \in PumpState /\ c.last_observation_at = None

LEMMA MoveFields ==
  ASSUME NEW c, IsContext(c), NEW o, o.at = None, HasTransition(c.current_state, o.event)
  PROVE  /\ IsContext(Move(c, o))
         /\ Move(c, o).current_state = Target(c.current_state, o.event)
         /\ Move(c, o).last_raw_wayne_status = Or(o.raw, c.last_raw_wayne_status)
         /\ Move(c, o).last_source_frame_hex = Or(o.frame, c.last_source_frame_hex)
         /\ Move(c, o).completed_evidence_keys = EvidenceAfter(c, o)
         /\ Move(c, o).state_version = c.state_version + 1
<1> DEFINE t == Target(c.current_state, o.event)
           v == c.state_version + 1
           at == Or(o.at, c.last_observation_at)
           h == HealthAfter(c, o.event)
           n == Or(o.nozzle, c.selected_nozzle)
           x == TransactionAfter(c, o, t)
           w == Or(o.raw, c.last_raw_wayne_status)
           p == Or(o.price, c.price_verified)
           f == FaultAfter(c, o)
           k == EvidenceAfter(c, o)
           l == Or(o.frame, c.last_source_frame_hex)
<1>1. t \in PumpState /\ at = None
  BY DEF HasTransition, Target, IsContext, Or
<1>2. Move(c, o) = [c EXCEPT !.previous_state = c.current_state, !.current_state = t,
                             !.state_version = v, !.last_observation_at = at,
                             !.communication_healthy = h, !.selected_nozzle = n,
                             !.active_transaction_id = x, !.last_raw_wayne_status = w,
                             !.price_verified = p, !.fault_code = f,
                             !.completed_evidence_keys = k, !.last_source_frame_hex = l]
  BY DEF Move
<1> HIDE DEF t, v, at, h, n, x, w, p, f, k, l
<1> DEFINE d == [c EXCEPT !.previous_state = c.current_state, !.current_state = t,
                          !.state_version = v, !.last_observation_at = at,
                          !.communication_healthy = h, !.selected_nozzle = n]
<1>3. IsContext(d) /\ d.current_state = t /\ d.state_version = v
  BY <1>1 DEF IsContext, ContextFields
<1>4. Move(c, o) = [d EXCEPT !.active_transaction_id = x, !.last_raw_wayne_status = w,
                             !.price_verified = p, !.fault_code = f,
                             !.completed_evidence_keys = k, !.last_source_frame_hex = l]
  BY <1>2
<1> HIDE DEF d
<1>5. /\ IsContext(Move(c, o)) /\ Move(c, o).current_state = t
      /\ Move(c, o).last_raw_wayne_status = w
      /\ Move(c, o).completed_evidence_keys = k /\ Move(c, o).last_source_frame_hex = l
      /\ Move(c, o).state_version = v
  BY <1>3, <1>4 DEF IsContext, ContextFields
<1> QED  BY <1>5 DEF t, v, w, k, l

LEMMA NoopFields ==
  ASSUME NEW c, IsContext(c), NEW o, o.at = None
  PROVE  /\ IsContext(Noop(c, o))
         /\ Noop(c, o).current_state = c.current_state
         /\ Noop(c, o).last_raw_wayne_status = Or(o.raw, c.last_raw_wayne_status)
         /\ Noop(c, o).last_source_frame_hex = Or(o.frame, c.last_source_frame_hex)
         /\ Noop(c, o).completed_evidence_keys = c.completed_evidence_keys
         /\ Noop(c, o).state_version \in {c.state_version, c.state_version + 1}
<1> DEFINE r == Refreshed(c, o)
           v == BumpIf(r # c, r.state_version)
           at == Or(o.at, r.last_observation_at)
           h == HealthAfter(c, o.event)
           l == Or(o.frame, r.last_source_frame_hex)
<1>1. /\ IsContext(r) /\ r.current_state = c.current_state
      /\ r.last_raw_wayne_status = Or(o.raw, c.last_raw_wayne_status)
      /\ r.completed_evidence_keys = c.completed_evidence_keys
      /\ r.last_source_frame_hex = c.last_source_frame_hex
      /\ r.state_version = c.state_version
  BY DEF Refreshed, IsContext, ContextFields
<1>2. at = None
  BY <1>1 DEF Or, IsContext
<1>3. Noop(c, o) = [r EXCEPT !.last_observation_at = at, !.last_source_frame_hex = l,
                             !.communication_healthy = h, !.state_version = v]
  BY <1>1 DEF Noop, IsContext, ContextFields
<1>4. l = Or(o.frame, c.last_source_frame_hex) /\ v \in {c.state_version, c.state_version + 1}
  BY <1>1 DEF BumpIf
<1> HIDE DEF r, v, at, h, l
<1> DEFINE d == [r EXCEPT !.last_observation_at = at, !.last_source_frame_hex = l]
<1>5. /\ IsContext(d) /\ d.current_state = r.current_state
      /\ d.last_raw_wayne_status = r.last_raw_wayne_status
      /\ d.completed_evidence_keys = r.completed_evidence_keys
      /\ d.last_source_frame_hex = l
  BY <1>1, <1>2 DEF IsContext, ContextFields
<1>6. Noop(c, o) = [d EXCEPT !.communication_healthy = h, !.state_version = v]
  BY <1>3
<1> HIDE DEF d
<1> QED  BY <1>1, <1>4, <1>5, <1>6 DEF IsContext, ContextFields

LEMMA UnknownFields ==
  ASSUME NEW c, IsContext(c), NEW o, o.at = None
  PROVE  /\ IsContext(KeepUnknown(c, o))
         /\ KeepUnknown(c, o).current_state = c.current_state
         /\ KeepUnknown(c, o).state_version \in {c.state_version, c.state_version + 1}
<1> DEFINE at == Or(o.at, c.last_observation_at)
           w == Or(o.raw, c.last_raw_wayne_status)
           l == Or(o.frame, c.last_source_frame_hex)
           v == BumpIf(o.raw # None /\ o.raw # c.last_raw_wayne_status, c.state_version)
<1>1. at = None
  BY DEF Or, IsContext
<1>2. KeepUnknown(c, o) = [c EXCEPT !.last_observation_at = at, !.last_raw_wayne_status = w,
                                    !.last_source_frame_hex = l, !.state_version = v]
  BY DEF KeepUnknown, IsContext, ContextFields
<1>3. v \in {c.state_version, c.state_version + 1}
  BY DEF BumpIf
<1> HIDE DEF at, w, l, v
<1> QED  BY <1>1, <1>2, <1>3 DEF IsContext, ContextFields

LEMMA SeenIsSame ==
  ASSUME NEW c, IsContext(c), NEW o, o.at = None
  PROVE  Seen(c, o) = c
BY DEF Seen, Or, IsContext, ContextFields

\* What an observation without a time makes of a context.
LEMMA AppliedFields ==
  ASSUME NEW c, IsContext(c), NEW o, o.at = None
  PROVE  /\ IsContext(Apply(c, o))
         /\ Outcome(c, o) = "transition_applied" =>
              /\ Apply(c, o) = Move(c, o)
              /\ HasTransition(c.current_state, o.event)
              /\ <<c.current_state, o.event>> \notin SameStateNoopEvents
              /\ ~IsDuplicateFrame(c, o) /\ ~IsUnconfirmedFilling(c, o)
         /\ Outcome(c, o) = "same_state_noop" =>
              /\ Apply(c, o) = Noop(c, o)
              /\ <<c.current_state, o.event>> \in SameStateNoopEvents
         /\ Outcome(c, o) = "unknown_observation_preserved" =>
              /\ Apply(c, o) = KeepUnknown(c, o)
              /\ o.event = "UNKNOWN_OBSERVATION"
         /\ Outcome(c, o) \notin {"transition_applied", "same_state_noop",
                                  "unknown_observation_preserved"} => Apply(c, o) = c
<1>1. CASE Outcome(c, o) = "transition_applied"
  <2>1. /\ Apply(c, o) = Move(c, o) /\ HasTransition(c.current_state, o.event)
        /\ <<c.current_state, o.event>> \notin SameStateNoopEvents
        /\ ~IsDuplicateFrame(c, o) /\ ~IsUnconfirmedFilling(c, o)
    BY <1>1 DEF Apply, Outcome
  <2> QED  BY <1>1, <2>1, MoveFields
<1>2. CASE Outcome(c, o) = "same_state_noop"
  <2>1. Apply(c, o) = Noop(c, o) /\ <<c.current_state, o.event>> \in SameStateNoopEvents
    BY <1>2 DEF Apply, Outcome
  <2> QED  BY <1>2, <2>1, NoopFields
<1>3. CASE Outcome(c, o) = "unknown_observation_preserved"
  <2>1. Apply(c, o) = KeepUnknown(c, o) /\ o.event = "UNKNOWN_OBSERVATION"
    BY <1>3 DEF Apply, Outcome
  <2> QED  BY <1>3, <2>1, UnknownFields
<1>4. CASE Outcome(c, o) \notin {"transition_applied", "same_state_noop",
                                 "unknown_observation_preserved"}
  <2>1. Apply(c, o) = c
    BY <1>4, SeenIsSame DEF Apply
  <2> QED  BY <1>4, <2>1
<1> QED  BY <1>1, <1>2, <1>3, <1>4

\* Where an observation without a time takes a machine.
LEMMA StateApplied ==
  ASSUME NEW c, IsContext(c), NEW o, o.at = None
  PROVE  \/ Apply(c, o).current_state = c.current_state
         \/ Leads(c.current_state, o.event, Apply(c, o).current_state)
<1>1. CASE Outcome(c, o) = "transition_applied"
  <2>1. Apply(c, o) = Move(c, o) /\ HasTransition(c.current_state, o.event)
    BY <1>1, AppliedFields
  <2>2. Move(c, o).current_state = Target(c.current_state, o.event)
    BY <2>1, MoveFields
  <2> QED  BY <2>1, <2>2 DEF HasTransition, Target
<1>2. CASE Outcome(c, o) = "same_state_noop"
  <2>1. Apply(c, o) = Noop(c, o)
    BY <1>2, AppliedFields
  <2> QED  BY <2>1, NoopFields
<1>3. CASE Outcome(c, o) = "unknown_observation_preserved"
  <2>1. Apply(c, o) = KeepUnknown(c, o)
    BY <1>3, AppliedFields
  <2> QED  BY <2>1, UnknownFields
<1>4. CASE Outcome(c, o) \notin {"transition_applied", "same_state_noop",
                                 "unknown_observation_preserved"}
  BY <1>4, AppliedFields
<1> QED  BY <1>1, <1>2, <1>3, <1>4

-----------------------------------------------------------------------------
(* The session. *)

\* Nothing more is said of what an event holds.
IsNews(notice) == notice.type = "STATE_CHANGED" => notice.ctx.current_state \in PumpState

IsEvents(e) == (\E S : e \in Seq(S)) /\ \A i \in 1..Len(e) : IsNews(e[i])

IsSession(s) ==
  /\ DOMAIN s = {"ctx", "health", "keys", "events"} /\ s = [f \in DOMAIN s |-> s[f]]
  /\ IsContext(s.ctx) /\ IsEvents(s.events)

TellsOfEnd(notice) == notice.type = "STATE_CHANGED" /\ notice.ctx.current_state \in SaleEnds

TellOfEnd(e) == \E i \in 1..Len(e) : TellsOfEnd(e[i])

LEMMA AppendEvent ==
  ASSUME NEW e, IsEvents(e), NEW n, IsNews(n)
  PROVE  /\ IsEvents(Append(e, n))
         /\ TellOfEnd(Append(e, n)) => TellOfEnd(e) \/ TellsOfEnd(n)
<1>1. PICK S : e \in Seq(S)
  BY DEF IsEvents
<1> DEFINE U == S \union {n}
<1>2. e \in Seq(U) /\ n \in U
  <2>1. Seq(S) \subseteq Seq(U)
    OBVIOUS
  <2> QED  BY <1>1, <2>1
<1> HIDE DEF U
<1>3. Append(e, n) \in Seq(U)
  BY <1>2
<1>4. /\ Len(Append(e, n)) = Len(e) + 1 /\ Len(e) \in Nat
      /\ \A i \in 1..Len(e) : Append(e, n)[i] = e[i]
      /\ Append(e, n)[Len(e) + 1] = n
  BY <1>2
<1> HIDE DEF TellsOfEnd
<1>6. \A i \in 1..Len(Append(e, n)) : IsNews(Append(e, n)[i])
  BY <1>4 DEF IsEvents
<1>5. TellOfEnd(Append(e, n)) => TellOfEnd(e) \/ TellsOfEnd(n)
  BY <1>4 DEF TellOfEnd
<1> QED  BY <1>3, <1>5, <1>6 DEF IsEvents

LEMMA PublishFields ==
  ASSUME NEW s, IsSession(s), NEW n, IsNews(n)
  PROVE  /\ IsSession(Publish(s, n))
         /\ Publish(s, n).ctx = s.ctx /\ Publish(s, n).keys = s.keys
         /\ Publish(s, n).health = s.health
         /\ TellOfEnd(Publish(s, n).events) => TellOfEnd(s.events) \/ TellsOfEnd(n)
<1> DEFINE e == Append(s.events, n)
<1>1. IsEvents(e) /\ (TellOfEnd(e) => TellOfEnd(s.events) \/ TellsOfEnd(n))
  BY AppendEvent DEF IsSession
<1>2. Publish(s, n) = [s EXCEPT !.events = e]
  BY DEF Publish
<1> HIDE DEF e
<1> QED  BY <1>1, <1>2 DEF IsSession

LEMMA ReachesFields ==
  ASSUME NEW s, IsSession(s), NEW c, IsContext(c), NEW key
  PROVE  /\ IsSession(Reaches(s, c, key))
         /\ Reaches(s, c, key).ctx = c /\ Reaches(s, c, key).keys = s.keys
         /\ Reaches(s, c, key).health = s.health
         /\ TellOfEnd(Reaches(s, c, key).events) =>
              \/ TellOfEnd(s.events)
              \/ c.current_state # s.ctx.current_state /\ c.current_state \in SaleEnds
<1> DEFINE q == [s EXCEPT !.ctx = c]
           n == Notice("STATE_CHANGED", s.ctx.current_state, c, key, None)
<1>1. /\ IsSession(q) /\ q.ctx = c /\ q.keys = s.keys /\ q.health = s.health
      /\ q.events = s.events
  BY DEF IsSession
<1>2. (TellsOfEnd(n) => c.current_state \in SaleEnds) /\ IsNews(n)
  BY DEF TellsOfEnd, Notice, IsNews, IsContext
<1>3. Reaches(s, c, key) = IF c.current_state = s.ctx.current_state THEN q ELSE Publish(q, n)
  BY DEF Reaches
<1> HIDE DEF q, n
<1> QED  BY <1>1, <1>2, <1>3, PublishFields

\* What the controller may learn of a report: nothing that ends an alarm.
LEMMA ReportEventIs ==
  ASSUME NEW r, NEW c
  PROVE  /\ ReportEvent(r, c) \notin {"COMMUNICATION_LOST", "FAULT_CLEARED",
                                      "MAINTENANCE_ENTERED"}
         /\ r = DC5(1) => ReportEvent(r, c) = "FAULT_OBSERVED"
<1> DEFINE ends == {"COMMUNICATION_LOST", "FAULT_CLEARED", "MAINTENANCE_ENTERED"}
<1>1. \A status : StatusEvent(status, c) \notin ends
  <2> SUFFICES ASSUME NEW status  PROVE StatusEvent(status, c) \notin ends
    OBVIOUS
  <2>1. CASE status = Filling
    BY <2>1 DEF StatusEvent, FillingEvent
  <2>2. CASE status # Filling /\ \E e \in PumpEvent : <<status, e>> \in StatusEvents
    <3>1. <<status, StatusEvent(status, c)>> \in StatusEvents
      BY <2>2 DEF StatusEvent
    <3> QED  BY <3>1 DEF StatusEvents
  <2>3. CASE status # Filling /\ ~\E e \in PumpEvent : <<status, e>> \in StatusEvents
    BY <2>3 DEF StatusEvent
  <2> QED  BY <2>1, <2>2, <2>3
<1>2. NozzleEvent(r.out, c) \notin ends
  BY DEF NozzleEvent
<1>3. r = DC5(1) => r.type = "DC5"
  BY DEF DC5
<1> QED  BY <1>1, <1>2, <1>3 DEF ReportEvent

\* A report is read in the state the frame's earlier ones lead to.
LEMMA MappedFields ==
  ASSUME NEW r, NEW frame, NEW c
  PROVE  /\ Mapped(r, frame, c).event = ReportEvent(r, c)
         /\ Mapped(r, frame, c).at = None /\ Mapped(r, frame, c).frame = frame
         /\ ~Mapped(r, frame, c).implicit
BY DEF Mapped, NoObservation

LEMMA MappedEvidence ==
  ASSUME NEW r, NEW frame, NEW c
  PROVE  /\ Mapped(r, frame, c).raw = IF r.type \in {"DC1", "DC5"} THEN r.value ELSE None
         /\ Mapped(r, frame, c).key = IF r = DC1(FillingCompleted) THEN CompletionKey(frame)
                                      ELSE None
BY DEF Mapped, NoObservation

\* A completion of a frame that was used up changes nothing; any other report is
\* applied, and its key is kept when it moves the machine (_apply_mapped).
LEMMA TakeReportFields ==
  ASSUME NEW s, IsSession(s), NEW r, NEW frame
  PROVE  LET o == Mapped(r, frame, s.ctx)
             t == TakeReport(s, r, frame)
         IN  /\ IsSession(t) /\ t.health = s.health
             /\ t.ctx \in {s.ctx, Apply(s.ctx, o)}
             /\ o.key # None /\ o.key \in s.keys => t.ctx = s.ctx /\ t.keys = s.keys
             /\ ~(o.key # None /\ o.key \in s.keys) =>
                  /\ t.ctx = Apply(s.ctx, o)
                  /\ t.keys = IF o.key # None /\ Outcome(s.ctx, o) = "transition_applied"
                              THEN s.keys \union {o.key} ELSE s.keys
             /\ TellOfEnd(t.events) =>
                  \/ TellOfEnd(s.events)
                  \/ t.ctx.current_state # s.ctx.current_state /\ t.ctx.current_state \in SaleEnds
<1> DEFINE o == Mapped(r, frame, s.ctx)
           t == TakeReport(s, r, frame)
<1> SUFFICES /\ IsSession(t) /\ t.health = s.health
             /\ t.ctx \in {s.ctx, Apply(s.ctx, o)}
             /\ o.key # None /\ o.key \in s.keys => t.ctx = s.ctx /\ t.keys = s.keys
             /\ ~(o.key # None /\ o.key \in s.keys) =>
                  /\ t.ctx = Apply(s.ctx, o)
                  /\ t.keys = IF o.key # None /\ Outcome(s.ctx, o) = "transition_applied"
                              THEN s.keys \union {o.key} ELSE s.keys
             /\ TellOfEnd(t.events) =>
                  \/ TellOfEnd(s.events)
                  \/ t.ctx.current_state # s.ctx.current_state /\ t.ctx.current_state \in SaleEnds
  OBVIOUS
<1> DEFINE p == Publish(s, Decoded(r))
           q == Reaches(p, Apply(s.ctx, o), o.key)
           k == IF o.key # None /\ Outcome(s.ctx, o) = "transition_applied"
                THEN p.keys \union {o.key} ELSE p.keys
<1>1. /\ IsSession(p) /\ p.ctx = s.ctx /\ p.keys = s.keys /\ p.health = s.health
      /\ TellOfEnd(p.events) => TellOfEnd(s.events)
  BY PublishFields DEF TellsOfEnd, Decoded, Notice, IsNews
<1>2. IsContext(Apply(s.ctx, o))
  <2>1. o.at = None
    BY MappedFields
  <2>2. IsContext(s.ctx)
    BY DEF IsSession
  <2> QED  BY <2>1, <2>2, AppliedFields
<1>3. /\ IsSession(q) /\ q.ctx = Apply(s.ctx, o) /\ q.keys = s.keys /\ q.health = s.health
      /\ TellOfEnd(q.events) =>
           \/ TellOfEnd(s.events)
           \/ q.ctx.current_state # s.ctx.current_state /\ q.ctx.current_state \in SaleEnds
  BY <1>1, <1>2, ReachesFields
<1>4. t = IF o.key # None /\ o.key \in p.keys THEN p ELSE [q EXCEPT !.keys = k]
  BY <1>1, <1>3 DEF TakeReport, TakeObservation
<1>5. k = IF o.key # None /\ Outcome(s.ctx, o) = "transition_applied"
          THEN s.keys \union {o.key} ELSE s.keys
  BY <1>1
<1> HIDE DEF p, q, k, t, o
<1>6. ASSUME NEW u, u = [q EXCEPT !.keys = k]
      PROVE  /\ IsSession(u) /\ u.ctx = q.ctx /\ u.keys = k /\ u.health = q.health
             /\ u.events = q.events
  BY <1>3, <1>6 DEF IsSession
<1>7. CASE o.key # None /\ o.key \in s.keys
  BY <1>1, <1>4, <1>7
<1>8. CASE ~(o.key # None /\ o.key \in s.keys)
  <2>1. t = [q EXCEPT !.keys = k]
    BY <1>1, <1>4, <1>8
  <2>2. /\ IsSession(t) /\ t.ctx = q.ctx /\ t.keys = k /\ t.health = q.health
        /\ t.events = q.events
    BY <1>6, <2>1
  <2> QED  BY <1>3, <1>5, <1>8, <2>2
<1> QED  BY <1>7, <1>8

\* The answer of a pump that was given up starts its communication.
LEMMA ToldSession ==
  ASSUME NEW s, IsSession(s), NEW e
  PROVE  /\ IsSession(Told(s, e)) /\ Told(s, e).keys = s.keys
         /\ Told(s, e).health = s.health
         /\ Told(s, e).ctx = Apply(s.ctx, NoObservation(e))
         /\ TellOfEnd(Told(s, e).events) =>
              \/ TellOfEnd(s.events)
              \/ /\ Told(s, e).ctx.current_state # s.ctx.current_state
                 /\ Told(s, e).ctx.current_state \in SaleEnds
<1>1. NoObservation(e).at = None
  BY DEF NoObservation
<1>2. IsContext(Apply(s.ctx, NoObservation(e)))
  BY <1>1, AppliedFields DEF IsSession
<1> QED  BY <1>2, ReachesFields DEF Told

LEMMA CommunicationFields ==
  ASSUME NEW s, IsSession(s), NEW health
  PROVE  /\ IsSession(SetCommunication(s, health))
         /\ SetCommunication(s, health).ctx = s.ctx
         /\ SetCommunication(s, health).keys = s.keys
         /\ SetCommunication(s, health).health = health
         /\ TellOfEnd(SetCommunication(s, health).events) => TellOfEnd(s.events)
<1> DEFINE q == [s EXCEPT !.health = health]
           n == Notice(IF health = "HEALTHY" THEN "PUMP_CONNECTED" ELSE "PUMP_DISCONNECTED",
                       None, None, None, None)
<1>1. /\ IsSession(q) /\ q.ctx = s.ctx /\ q.keys = s.keys /\ q.health = health
      /\ q.events = s.events
  BY DEF IsSession
<1>2. ~TellsOfEnd(n) /\ IsNews(n)
  BY DEF TellsOfEnd, Notice, IsNews
<1>3. SetCommunication(s, health) = q \/ SetCommunication(s, health) = Publish(q, n)
  BY DEF SetCommunication
<1> HIDE DEF q, n
<1> QED  BY <1>1, <1>2, <1>3, PublishFields

LEMMA CommunicationTarget ==
  /\ \A t : Leads("DISCONNECTED", "COMMUNICATION_STARTED", t) => t = "DISCOVERING"
  /\ \A s, t : Leads(s, "COMMUNICATION_LOST", t) => t = "DISCONNECTED"
BY DEF Leads, TransitionTable

\* What COMMUNICATION_STARTED and COMMUNICATION_LOST make of the machine.
LEMMA CommunicationApplied ==
  ASSUME NEW c, IsContext(c), NEW e \in {"COMMUNICATION_STARTED", "COMMUNICATION_LOST"},
         e = "COMMUNICATION_STARTED" => c.current_state = "DISCONNECTED",
         NEW d, d = Apply(c, NoObservation(e))
  PROVE  /\ IsContext(d)
         /\ d.current_state = IF e = "COMMUNICATION_STARTED" THEN "DISCOVERING"
                              ELSE "DISCONNECTED"
         /\ d.last_raw_wayne_status = c.last_raw_wayne_status
         /\ d.last_source_frame_hex = c.last_source_frame_hex
         /\ d.completed_evidence_keys = c.completed_evidence_keys
<1> DEFINE o == NoObservation(e)
<1>1. /\ o.at = None /\ o.event = e /\ o.frame = None /\ o.raw = None /\ o.key = None
  BY DEF NoObservation
<1> HIDE DEF o
<1>2. HasTransition(c.current_state, e)
  BY DEF HasTransition, Leads, TransitionTable, PumpState, IsContext
<1>3. Outcome(c, o) \in {"transition_applied", "same_state_noop"}
  BY <1>1, <1>2 DEF Outcome, IsStale, IsDuplicateFrame, IsDuplicateCompletion,
                    IsUnconfirmedFilling
<1>4. CASE Outcome(c, o) = "transition_applied"
  <2>1. d = Move(c, o)
    BY <1>1, <1>4, AppliedFields DEF o
  <2>2. Leads(c.current_state, e, Target(c.current_state, e))
    BY <1>2 DEF HasTransition, Target
  <2>3. EvidenceAfter(c, o) = c.completed_evidence_keys
    BY <1>1 DEF EvidenceAfter
  <2> QED  BY <1>1, <1>2, <2>1, <2>2, <2>3, CommunicationTarget, MoveFields DEF Or
<1>5. CASE Outcome(c, o) = "same_state_noop"
  <2>1. d = Noop(c, o) /\ <<c.current_state, e>> \in SameStateNoopEvents
    BY <1>1, <1>5, AppliedFields DEF o
  <2>2. e = "COMMUNICATION_LOST" /\ c.current_state = "DISCONNECTED"
    BY <2>1 DEF SameStateNoopEvents
  <2> QED  BY <1>1, <2>1, <2>2, NoopFields DEF Or
<1> QED  BY <1>3, <1>4, <1>5

LEMMA AnsweredFields ==
  ASSUME NEW s, IsSession(s), NEW t, t = Answered(s)
  PROVE  /\ IsSession(t) /\ t.keys = s.keys /\ t.health = "HEALTHY"
         /\ t.ctx.current_state = IF s.ctx.current_state = "DISCONNECTED" THEN "DISCOVERING"
                                  ELSE s.ctx.current_state
         /\ t.ctx.last_raw_wayne_status = s.ctx.last_raw_wayne_status
         /\ t.ctx.last_source_frame_hex = s.ctx.last_source_frame_hex
         /\ t.ctx.completed_evidence_keys = s.ctx.completed_evidence_keys
         /\ TellOfEnd(t.events) => TellOfEnd(s.events)
<1> DEFINE h == SetCommunication(s, "HEALTHY")
<1>1. /\ IsSession(h) /\ h.ctx = s.ctx /\ h.keys = s.keys /\ h.health = "HEALTHY"
      /\ TellOfEnd(h.events) => TellOfEnd(s.events)
  BY CommunicationFields
<1>2. t = IF s.ctx.current_state = "DISCONNECTED" THEN Told(h, "COMMUNICATION_STARTED") ELSE h
  BY DEF Answered
<1> HIDE DEF h
<1>3. CASE s.ctx.current_state = "DISCONNECTED"
  <2>1. /\ IsSession(t) /\ t.keys = h.keys /\ t.health = h.health
        /\ t.ctx = Apply(h.ctx, NoObservation("COMMUNICATION_STARTED"))
        /\ TellOfEnd(t.events) => TellOfEnd(h.events) \/ t.ctx.current_state \in SaleEnds
    BY <1>1, <1>2, <1>3, ToldSession
  <2>2. /\ t.ctx.current_state = "DISCOVERING"
        /\ t.ctx.last_raw_wayne_status = h.ctx.last_raw_wayne_status
        /\ t.ctx.last_source_frame_hex = h.ctx.last_source_frame_hex
        /\ t.ctx.completed_evidence_keys = h.ctx.completed_evidence_keys
    BY <1>1, <1>3, <2>1, CommunicationApplied DEF IsSession
  <2> QED  BY <1>1, <1>3, <2>1, <2>2 DEF SaleEnds
<1>4. CASE s.ctx.current_state # "DISCONNECTED"
  BY <1>1, <1>2, <1>4
<1> QED  BY <1>3, <1>4

LEMMA GivenUpFields ==
  ASSUME NEW s, IsSession(s), NEW t, t = GivenUp(s)
  PROVE  /\ IsSession(t) /\ t.keys = s.keys /\ t.health = "DISCONNECTED"
         /\ t.ctx.current_state = "DISCONNECTED"
         /\ t.ctx.last_raw_wayne_status = s.ctx.last_raw_wayne_status
         /\ t.ctx.last_source_frame_hex = s.ctx.last_source_frame_hex
         /\ t.ctx.completed_evidence_keys = s.ctx.completed_evidence_keys
         /\ TellOfEnd(t.events) => TellOfEnd(s.events)
<1> DEFINE h == SetCommunication(s, "DISCONNECTED")
<1>1. /\ IsSession(h) /\ h.ctx = s.ctx /\ h.keys = s.keys /\ h.health = "DISCONNECTED"
      /\ TellOfEnd(h.events) => TellOfEnd(s.events)
  BY CommunicationFields
<1>2. t = Told(h, "COMMUNICATION_LOST")
  BY DEF GivenUp
<1> HIDE DEF h
<1>3. /\ IsSession(t) /\ t.keys = h.keys /\ t.health = h.health
      /\ t.ctx = Apply(h.ctx, NoObservation("COMMUNICATION_LOST"))
      /\ TellOfEnd(t.events) => TellOfEnd(h.events) \/ t.ctx.current_state \in SaleEnds
  BY <1>1, <1>2, ToldSession
<1>4. /\ t.ctx.current_state = "DISCONNECTED"
      /\ t.ctx.last_raw_wayne_status = h.ctx.last_raw_wayne_status
      /\ t.ctx.last_source_frame_hex = h.ctx.last_source_frame_hex
      /\ t.ctx.completed_evidence_keys = h.ctx.completed_evidence_keys
  BY <1>1, <1>3, CommunicationApplied DEF IsSession
<1> QED  BY <1>1, <1>3, <1>4 DEF SaleEnds

=============================================================================

-------------------------- MODULE SyncDeliveryProofs ------------------------
(***************************************************************************)
(* At-least-once delivery of the sync queue, for any number of entries,    *)
(* batches, attempts, outages, errors and restarts, whatever the rest of   *)
(* the process does meanwhile.                                             *)
(***************************************************************************)
EXTENDS StationServices, SequenceTheorems, FiniteSetTheorems, TLAPS

-----------------------------------------------------------------------------
(* Rows. *)

Row == [qos: {0, 1}, status: {"PENDING", "CLAIMED", "DELIVERED", "FAILED"},
        attempts: 0..MaxAttempts, due: BOOLEAN, stale: BOOLEAN]

Entry == [subject: 1..MaxRows, taken: BOOLEAN, awaited: BOOLEAN]

\* A row that is not settled has an attempt left.
IsLive(row) == row.status \in {"PENDING", "CLAIMED"}
Lives(row) == row \in Row /\ (IsLive(row) => row.attempts < MaxAttempts)

LEMMA NewRowLives == ASSUME NEW q \in {0, 1}
  PROVE Lives(NewRow(q)) /\ NewRow(q).qos = q /\ NewRow(q).status = "PENDING"
BY SyncAssumption DEF SyncAssumption, Lives, NewRow, Row, IsLive

LEMMA UnlockedRow ==
  ASSUME NEW row \in Row, NEW s \in {"PENDING", "CLAIMED", "DELIVERED", "FAILED"}
  PROVE  /\ Unlocked(row, s) \in Row /\ Unlocked(row, s).status = s
         /\ Unlocked(row, s).qos = row.qos /\ Unlocked(row, s).attempts = row.attempts
         /\ Unlocked(row, s).due = row.due /\ Unlocked(row, s).stale = FALSE
BY DEF Unlocked, Row

LEMMA DeliveredLives == ASSUME NEW row \in Row
  PROVE Lives(Delivered(row)) /\ Delivered(row).qos = row.qos /\ Delivered(row).status = "DELIVERED"
BY UnlockedRow DEF Delivered, Lives, IsLive

LEMMA FailedLives == ASSUME NEW row, Lives(row), row.status = "CLAIMED"
  PROVE Lives(Failed(row)) /\ Failed(row).qos = row.qos /\ Failed(row).status \in {"PENDING", "FAILED"}
<1> DEFINE u == Unlocked(row, "FAILED")
<1> DEFINE w == Unlocked(row, "PENDING")
<1>1. row \in Row /\ row.attempts \in Nat /\ row.attempts < MaxAttempts /\ row.attempts + 1 \in 0..MaxAttempts
  BY SyncAssumption DEF SyncAssumption, Lives, Row, IsLive
<1>2. /\ u \in Row /\ u.status = "FAILED" /\ u.qos = row.qos /\ u.attempts = row.attempts
      /\ w \in Row /\ w.status = "PENDING" /\ w.qos = row.qos /\ w.attempts = row.attempts
  BY <1>1, UnlockedRow
<1>3. Failed(row) = IF row.attempts + 1 >= MaxAttempts THEN [u EXCEPT !.attempts = @ + 1]
                    ELSE [w EXCEPT !.attempts = @ + 1, !.due = FALSE]
  BY DEF Failed
<1> HIDE DEF u, w
<1> DEFINE x == [u EXCEPT !.attempts = @ + 1]
           y == [w EXCEPT !.attempts = @ + 1, !.due = FALSE]
<1>4. x \in Row /\ x.status = "FAILED" /\ x.qos = row.qos
  BY <1>1, <1>2 DEF Row
<1>5. y \in Row /\ y.status = "PENDING" /\ y.qos = row.qos /\ y.attempts = row.attempts + 1
  BY <1>1, <1>2 DEF Row
<1>6. Failed(row) = IF row.attempts + 1 >= MaxAttempts THEN x ELSE y
  BY <1>3
<1> HIDE DEF x, y
<1>a. CASE row.attempts + 1 >= MaxAttempts
  BY <1>a, <1>6, <1>4 DEF Lives, IsLive
<1>b. CASE ~(row.attempts + 1 >= MaxAttempts)
  <2>1. row.attempts + 1 < MaxAttempts
    BY <1>b, <1>1, SyncAssumption DEF SyncAssumption
  <2> QED
    BY <1>b, <2>1, <1>6, <1>5 DEF Lives, IsLive
<1> QED
  BY <1>a, <1>b

-----------------------------------------------------------------------------
(* The table and the library's messages. *)

Table(t) == t \in Seq(Row) /\ Len(t) <= MaxRows /\ \A k \in DOMAIN t : Lives(t[k])

Reads(p) ==
  p \in [phase: {"looping", "awaiting", "published", "failing"},
         batch: SUBSET DOMAIN rows, record: {0} \union DOMAIN rows, offline: BOOLEAN]

LEMMA TableFacts == ASSUME NEW t, Table(t)
  PROVE  /\ Len(t) \in Nat /\ DOMAIN t = 1..Len(t) /\ DOMAIN t \subseteq 1..MaxRows
         /\ \A k \in DOMAIN t : t[k] \in Row /\ t[k].qos \in {0, 1} /\ Lives(t[k])
<1>1. Len(t) \in Nat /\ DOMAIN t = 1..Len(t) /\ MaxRows \in Nat /\ Len(t) <= MaxRows
  BY SyncAssumption DEF SyncAssumption, Table
<1>2. DOMAIN t \subseteq 1..MaxRows
  BY <1>1
<1>3. \A k \in DOMAIN t : t[k] \in Row /\ Lives(t[k])
  BY DEF Table, Lives
<1>4. \A k \in DOMAIN t : t[k].qos \in {0, 1}
  BY <1>3 DEF Row
<1> QED
  BY <1>1, <1>2, <1>3, <1>4

\* A statement that rewrites rows in place.
LEMMA RowsRewritten ==
  ASSUME NEW t, Table(t), NEW u, u = [k \in DOMAIN t |-> u[k]], \A k \in DOMAIN t : Lives(u[k])
  PROVE  Table(u) /\ DOMAIN u = DOMAIN t /\ Len(u) = Len(t)
<1>1. Len(t) \in Nat /\ DOMAIN t = 1..Len(t)
  BY TableFacts
<1>2. \A k \in 1..Len(t) : u[k] \in Row
  BY <1>1 DEF Lives
<1>3. u \in [1..Len(t) -> Row]
  BY <1>1, <1>2
<1>4. u \in Seq(Row) /\ Len(u) = Len(t) /\ DOMAIN u = DOMAIN t
  BY <1>1, <1>3
<1>5. \A k \in DOMAIN u : Lives(u[k])
  BY <1>4
<1> QED
  BY <1>4, <1>5 DEF Table

LEMMA RowRewritten ==
  ASSUME NEW t, Table(t), NEW k \in DOMAIN t, NEW r, Lives(r)
  PROVE  LET u == [t EXCEPT ![k] = r] IN
         /\ Table(u) /\ DOMAIN u = DOMAIN t /\ Len(u) = Len(t)
         /\ u[k] = r /\ \A j \in DOMAIN t : j # k => u[j] = t[j]
<1> DEFINE u == [t EXCEPT ![k] = r]
<1>1. Len(t) \in Nat /\ DOMAIN t = 1..Len(t) /\ t \in Seq(Row) /\ r \in Row
  BY TableFacts DEF Table, Lives
<1>2. u \in Seq(Row) /\ Len(u) = Len(t) /\ DOMAIN u = DOMAIN t
  BY <1>1
<1>3. u[k] = r /\ \A j \in DOMAIN t : j # k => u[j] = t[j]
  BY <1>1
<1>4. \A j \in DOMAIN u : Lives(u[j])
  BY <1>2, <1>3 DEF Table
<1> QED
  BY <1>2, <1>3, <1>4 DEF Table

\* A sequence grows at its end.
LEMMA AppendFacts ==
  ASSUME NEW S, NEW s \in Seq(S), NEW e \in S
  PROVE  /\ Append(s, e) \in Seq(S) /\ Len(Append(s, e)) = Len(s) + 1
         /\ DOMAIN Append(s, e) = 1..Len(s)+1
         /\ \A i \in 1..Len(s) : Append(s, e)[i] = s[i]
         /\ Append(s, e)[Len(s) + 1] = e
OBVIOUS

LEMMA AppendIsFunction ==
  ASSUME NEW S, NEW s \in Seq(S), NEW e \in S
  PROVE  Append(s, e) = [k \in 1..Len(s)+1 |-> Append(s, e)[k]]
<1>1. Append(s, e) \in Seq(S) /\ Len(Append(s, e)) = Len(s) + 1
  BY AppendFacts
<1>2. Append(s, e) \in [1..Len(Append(s, e)) -> S]
  BY <1>1, LenProperties
<1> QED
  BY <1>1, <1>2

LEMMA TailFacts ==
  ASSUME NEW S, NEW s \in Seq(S), s # <<>>
  PROVE  /\ Tail(s) \in Seq(S) /\ Len(Tail(s)) = Len(s) - 1 /\ Len(s) >= 1
         /\ DOMAIN Tail(s) = 1..Len(s)-1
         /\ \A i \in 1..Len(s)-1 : Tail(s)[i] = s[i + 1] /\ i + 1 \in DOMAIN s
         /\ Head(s) = s[1] /\ 1 \in DOMAIN s
OBVIOUS

-----------------------------------------------------------------------------
(* The inductive invariant. *)

\* What the worker has in its hands is claimed, also after its lease ran out.
BatchIsClaimed ==
  /\ \A k \in worker.batch : rows[k].status = "CLAIMED"
  /\ worker.phase # "looping" =>
       /\ worker.record \in DOMAIN rows
       /\ worker.record \notin worker.batch
       /\ rows[worker.record].status = "CLAIMED"

NetworkIsTyped ==
  /\ connected \in BOOLEAN
  /\ outbox \in Seq(Entry)
  /\ received \in [1..MaxRows -> Nat]

\* The broker has what it took, and nothing but entries of the queue.
TakenWasReceived ==
  /\ \A i \in DOMAIN outbox :
       /\ outbox[i].subject \in DOMAIN rows
       /\ outbox[i].taken => received[outbox[i].subject] > 0
  /\ \A k \in 1..MaxRows : received[k] > 0 => k \in DOMAIN rows

\* publish waits for one PUBACK at most, that of the entry at hand.
AwaitsTheRecord ==
  /\ \A i \in DOMAIN outbox :
       outbox[i].awaited => worker.phase = "awaiting" /\ outbox[i].subject = worker.record
  /\ \A i, j \in DOMAIN outbox : outbox[i].awaited /\ outbox[j].awaited => i = j

\* What is about to be marked DELIVERED has arrived.
PublishedHasArrived ==
  worker.phase = "published" /\ rows[worker.record].qos = 1 => received[worker.record] > 0

DeliveryInv ==
  /\ Table(rows)
  /\ Reads(worker)
  /\ BatchIsClaimed
  /\ NetworkIsTyped
  /\ TakenWasReceived
  /\ AwaitsTheRecord
  /\ PublishedHasArrived

LEMMA InvImpliesType == DeliveryInv => SyncTypeOK
BY DEF DeliveryInv, Table, Reads, NetworkIsTyped, SyncTypeOK, Row, Entry

-----------------------------------------------------------------------------
(* The initial state and the steps. *)

LEMMA InitDelivery == Init => DeliveryInv
<1> SUFFICES ASSUME Init PROVE DeliveryInv
  OBVIOUS
<1>1. rows = <<>> /\ worker = Idle /\ outbox = <<>> /\ connected = FALSE
      /\ received = [k \in 1..MaxRows |-> 0]
  BY DEF Init, SyncInit, ClientInit
<1>2. Table(rows)
  BY <1>1, SyncAssumption DEF SyncAssumption, Table
<1>3. Reads(worker) /\ BatchIsClaimed /\ PublishedHasArrived
  BY <1>1 DEF Reads, BatchIsClaimed, PublishedHasArrived, Idle
<1>4. NetworkIsTyped
  <2>1. <<>> \in Seq(Entry) /\ [k \in 1..MaxRows |-> 0] \in [1..MaxRows -> Nat]
    OBVIOUS
  <2> QED
    BY <1>1, <2>1 DEF NetworkIsTyped
<1>5. AwaitsTheRecord
  BY <1>1 DEF AwaitsTheRecord
<1>6. TakenWasReceived
  BY <1>1 DEF TakenWasReceived
<1> QED
  BY <1>2, <1>3, <1>4, <1>5, <1>6 DEF DeliveryInv

LEMMA InvFacts == ASSUME DeliveryInv
  PROVE  /\ Len(rows) \in Nat /\ DOMAIN rows = 1..Len(rows) /\ DOMAIN rows \subseteq 1..MaxRows
         /\ \A k \in DOMAIN rows : rows[k] \in Row /\ rows[k].qos \in {0, 1} /\ Lives(rows[k])
         /\ worker.batch \subseteq DOMAIN rows
         /\ worker.phase \in {"looping", "awaiting", "published", "failing"}
         /\ worker.record \in {0} \union DOMAIN rows
         /\ Len(outbox) \in Nat /\ DOMAIN outbox = 1..Len(outbox)
<1>1. Table(rows) /\ Reads(worker) /\ NetworkIsTyped
  BY DEF DeliveryInv
<1> QED
  BY <1>1, TableFacts DEF Reads, NetworkIsTyped

LEMMA EnqueuePreserves == DeliveryInv /\ Enqueue => DeliveryInv'
<1> SUFFICES ASSUME DeliveryInv, Enqueue PROVE DeliveryInv'
  OBVIOUS
<1>1. PICK q \in Qos(Len(rows) + 1) : rows' = Append(rows, NewRow(q))
  BY DEF Enqueue
<1>2. Len(rows) < MaxRows /\ UNCHANGED <<worker, connected, outbox, received>>
  BY DEF Enqueue, clientVars
<1>3. Len(rows) + 1 \in 1..MaxRows
  BY <1>2, InvFacts, SyncAssumption DEF SyncAssumption
<1>4. q \in {0, 1}
  BY <1>1, <1>3, SyncAssumption DEF SyncAssumption
<1>5. /\ rows' \in Seq(Row) /\ Len(rows') = Len(rows) + 1 /\ DOMAIN rows' = 1..Len(rows)+1
      /\ \A k \in 1..Len(rows) : rows'[k] = rows[k]
      /\ Lives(rows'[Len(rows) + 1])
  BY <1>1, <1>4, AppendFacts, NewRowLives DEF DeliveryInv, Table, Lives
<1>6. DOMAIN rows \subseteq DOMAIN rows' /\ \A k \in DOMAIN rows : rows'[k] = rows[k]
  BY <1>5, InvFacts
<1>7. Table(rows')
  BY <1>3, <1>5, InvFacts DEF Table
<1>8. Reads(worker)'
  BY <1>2, <1>6 DEF DeliveryInv, Reads
<1>9. BatchIsClaimed' /\ PublishedHasArrived'
  BY <1>2, <1>6, InvFacts DEF DeliveryInv, BatchIsClaimed, PublishedHasArrived
<1>10. NetworkIsTyped' /\ TakenWasReceived' /\ AwaitsTheRecord'
  BY <1>2, <1>6 DEF DeliveryInv, NetworkIsTyped, TakenWasReceived, AwaitsTheRecord
<1> QED
  BY <1>7, <1>8, <1>9, <1>10 DEF DeliveryInv

\* A step that only rewrites rows the worker does not hold, or none.
LEMMA OthersRewritten ==
  ASSUME DeliveryInv, Table(rows'), DOMAIN rows' = DOMAIN rows,
         UNCHANGED <<worker, clientVars>>,
         \A k \in DOMAIN rows : rows'[k].qos = rows[k].qos,
         \A k \in DOMAIN rows :
           rows[k].status = "CLAIMED" => rows'[k].status = "CLAIMED"
  PROVE  DeliveryInv'
<1>1. UNCHANGED <<worker, connected, outbox, received>>
  BY DEF clientVars
<1>2. Reads(worker)'
  BY <1>1 DEF DeliveryInv, Reads
<1>3. BatchIsClaimed' /\ PublishedHasArrived'
  BY <1>1, InvFacts DEF DeliveryInv, BatchIsClaimed, PublishedHasArrived
<1>4. NetworkIsTyped' /\ TakenWasReceived' /\ AwaitsTheRecord'
  BY <1>1 DEF DeliveryInv, NetworkIsTyped, TakenWasReceived, AwaitsTheRecord
<1> QED
  BY <1>2, <1>3, <1>4 DEF DeliveryInv

LEMMA TimePreserves == ASSUME NEW k \in DOMAIN rows, DeliveryInv, TimePasses(k) PROVE DeliveryInv'
<1> DEFINE d == [rows[k] EXCEPT !.due = TRUE]
           l == [rows[k] EXCEPT !.stale = TRUE]
<1>1. rows' \in {[rows EXCEPT ![k] = d], [rows EXCEPT ![k] = l]}
      /\ UNCHANGED <<worker, clientVars>>
  BY DEF TimePasses
<1>2. \A r \in {d, l} : Lives(r) /\ r.qos = rows[k].qos /\ r.status = rows[k].status
  BY InvFacts DEF Lives, Row, IsLive
<1>3. PICK r \in {d, l} : rows' = [rows EXCEPT ![k] = r]
  BY <1>1
<1> HIDE DEF d, l
<1>4. Table(rows)
  BY DEF DeliveryInv
<1>5. /\ Table(rows') /\ DOMAIN rows' = DOMAIN rows
      /\ rows'[k] = r /\ \A j \in DOMAIN rows : j # k => rows'[j] = rows[j]
  BY <1>2, <1>3, <1>4, RowRewritten
<1> QED
  BY <1>1, <1>2, <1>5, OthersRewritten

\* release_stale_locks only makes claimed rows pending again.
LEMMA ReleasedTable ==
  ASSUME NEW t, Table(t)
  PROVE  /\ Table(Released(t)) /\ DOMAIN Released(t) = DOMAIN t
         /\ Len(Released(t)) = Len(t)
         /\ \A k \in DOMAIN t :
              /\ Released(t)[k].qos = t[k].qos
              /\ Released(t)[k] # t[k] => IsLive(t[k]) /\ IsLive(Released(t)[k])
<1> DEFINE u == Released(t)
           w(k) == Unlocked(t[k], "PENDING")
<1>1. \A k \in DOMAIN t : t[k] \in Row /\ Lives(t[k])
  BY TableFacts
<1>2. \A k \in DOMAIN t : /\ w(k) \in Row /\ w(k).status = "PENDING"
                          /\ w(k).qos = t[k].qos /\ w(k).attempts = t[k].attempts
  BY <1>1, UnlockedRow
<1>3. \A k \in DOMAIN t : u[k] = IF IsStaleLock(t[k]) THEN w(k) ELSE t[k]
  BY DEF Released
<1>4. u = [k \in DOMAIN t |-> u[k]]
  BY DEF Released
<1> HIDE DEF u, w
<1>5. \A k \in DOMAIN t : IsStaleLock(t[k]) => IsLive(t[k])
  BY DEF IsStaleLock, IsLive
<1>6. \A k \in DOMAIN t : IsLive(t[k]) => Lives(w(k)) /\ IsLive(w(k))
  BY <1>1, <1>2 DEF Lives, IsLive
<1>7. \A k \in DOMAIN t :
        /\ Lives(u[k]) /\ u[k].qos = t[k].qos
        /\ u[k] # t[k] => IsLive(t[k]) /\ IsLive(u[k])
  BY <1>1, <1>2, <1>3, <1>5, <1>6
<1>8. Table(u) /\ DOMAIN u = DOMAIN t /\ Len(u) = Len(t)
  BY <1>4, <1>7, RowsRewritten
<1> QED
  BY <1>7, <1>8 DEF u

\* claim_batch only claims what is pending.
LEMMA ClaimedTable ==
  ASSUME NEW t, Table(t), NEW ids \in SUBSET Claimable(t)
  PROVE  /\ Table(Claimed(t, ids)) /\ DOMAIN Claimed(t, ids) = DOMAIN t
         /\ ids \subseteq DOMAIN t
         /\ \A k \in ids : Claimed(t, ids)[k].status = "CLAIMED"
         /\ \A k \in DOMAIN t :
              /\ Claimed(t, ids)[k].qos = t[k].qos
              /\ Claimed(t, ids)[k] # t[k] => IsLive(t[k]) /\ IsLive(Claimed(t, ids)[k])
<1> DEFINE u == Claimed(t, ids)
           w(k) == [t[k] EXCEPT !.status = "CLAIMED"]
<1>1. \A k \in DOMAIN t : t[k] \in Row /\ Lives(t[k])
  BY TableFacts
<1>2. \A k \in DOMAIN t : /\ w(k) \in Row /\ w(k).status = "CLAIMED"
                          /\ w(k).qos = t[k].qos /\ w(k).attempts = t[k].attempts
  BY <1>1 DEF Row
<1>3. \A k \in DOMAIN t : u[k] = IF k \in ids THEN w(k) ELSE t[k]
  BY DEF Claimed
<1>4. u = [k \in DOMAIN t |-> u[k]]
  BY DEF Claimed
<1> HIDE DEF u, w
<1>5. \A k \in ids : k \in DOMAIN t /\ IsLive(t[k])
  BY DEF Claimable, IsLive
<1>6. \A k \in DOMAIN t : IsLive(t[k]) => Lives(w(k)) /\ IsLive(w(k))
  BY <1>1, <1>2 DEF Lives, IsLive
<1>7. \A k \in DOMAIN t :
        /\ Lives(u[k]) /\ u[k].qos = t[k].qos
        /\ u[k] # t[k] => IsLive(t[k]) /\ IsLive(u[k])
  BY <1>1, <1>2, <1>3, <1>5, <1>6
<1>8. Table(u) /\ DOMAIN u = DOMAIN t
  BY <1>4, <1>7, RowsRewritten
<1>9. \A k \in ids : u[k].status = "CLAIMED"
  BY <1>2, <1>3, <1>5
<1> QED
  BY <1>5, <1>7, <1>8, <1>9 DEF u

\* What a step does to the network when it keeps the outbox.
LEMMA NetworkKept ==
  ASSUME DeliveryInv, UNCHANGED <<connected, outbox, received>>, DOMAIN rows' = DOMAIN rows
  PROVE  NetworkIsTyped' /\ TakenWasReceived'
BY DEF DeliveryInv, NetworkIsTyped, TakenWasReceived

\* The new rows of StartCycle.
LEMMA CycleRows ==
  ASSUME DeliveryInv, StartCycle
  PROVE  /\ Table(rows') /\ DOMAIN rows' = DOMAIN rows
         /\ worker'.batch \subseteq DOMAIN rows
         /\ \A k \in worker'.batch : rows'[k].status = "CLAIMED"
         /\ \A k \in DOMAIN rows :
              /\ rows'[k].qos = rows[k].qos
              /\ rows'[k] # rows[k] => IsLive(rows[k]) /\ IsLive(rows'[k])
         /\ worker' = [worker EXCEPT !.batch = worker'.batch]
<1> DEFINE free == Released(rows)
           ids == Oldest(Claimable(free))
<1>1. rows' = Claimed(free, ids) /\ worker' = [worker EXCEPT !.batch = ids]
  BY DEF StartCycle
<1>2. ids \in SUBSET Claimable(free)
  BY DEF Oldest
<1>3. Table(rows)
  BY DEF DeliveryInv
<1> HIDE DEF free, ids
<1>4. /\ Table(free) /\ DOMAIN free = DOMAIN rows
      /\ \A k \in DOMAIN rows :
           /\ free[k].qos = rows[k].qos
           /\ free[k] # rows[k] => IsLive(rows[k]) /\ IsLive(free[k])
  BY <1>3, ReleasedTable DEF free
<1>5. /\ Table(rows') /\ DOMAIN rows' = DOMAIN rows /\ ids \subseteq DOMAIN rows
      /\ \A k \in ids : rows'[k].status = "CLAIMED"
      /\ \A k \in DOMAIN rows :
           /\ rows'[k].qos = free[k].qos
           /\ rows'[k] # free[k] => IsLive(free[k]) /\ IsLive(rows'[k])
  BY <1>1, <1>2, <1>4, ClaimedTable
<1>6. worker'.batch = ids
  BY <1>1 DEF DeliveryInv, Reads
<1> QED
  BY <1>1, <1>4, <1>5, <1>6

LEMMA StartCyclePreserves == ASSUME DeliveryInv, StartCycle PROVE DeliveryInv'
<1>1. /\ worker.phase = "looping"
      /\ UNCHANGED <<connected, outbox, received>>
  BY DEF StartCycle, clientVars
<1> DEFINE ids == worker'.batch
<1>2. /\ Table(rows') /\ DOMAIN rows' = DOMAIN rows /\ ids \subseteq DOMAIN rows
      /\ \A k \in ids : rows'[k].status = "CLAIMED"
      /\ worker' = [worker EXCEPT !.batch = ids]
  BY CycleRows
<1> HIDE DEF ids
<1>3. Reads(worker)' /\ worker'.phase = "looping" /\ worker'.batch = ids
  BY <1>1, <1>2 DEF DeliveryInv, Reads
<1>4. BatchIsClaimed' /\ PublishedHasArrived'
  BY <1>2, <1>3 DEF BatchIsClaimed, PublishedHasArrived
<1>5. NetworkIsTyped' /\ TakenWasReceived'
  BY <1>1, <1>2, NetworkKept
<1>6. AwaitsTheRecord'
  BY <1>1, <1>3 DEF DeliveryInv, AwaitsTheRecord
<1> QED
  BY <1>2, <1>3, <1>4, <1>5, <1>6 DEF DeliveryInv

\* The worker takes the next record of its batch.
LEMMA TakesRecord ==
  ASSUME DeliveryInv, NEW k \in worker.batch, NEW o \in BOOLEAN,
         NEW p \in {"awaiting", "published", "failing"},
         worker' = On(p, k, o), UNCHANGED rows
  PROVE  /\ Reads(worker)' /\ BatchIsClaimed'
         /\ worker'.phase = p /\ worker'.record = k /\ k \in DOMAIN rows
BY InvFacts DEF DeliveryInv, Reads, BatchIsClaimed, On

LEMMA MessageFacts ==
  ASSUME NEW k \in 1..MaxRows
  PROVE  /\ Message(k) \in Entry
         /\ Message(k).subject = k /\ Message(k).taken = FALSE /\ Message(k).awaited = TRUE
BY DEF Message, Entry

\* The broker receives one more copy.
LEMMA CopyArrives ==
  ASSUME DeliveryInv, NEW k \in DOMAIN rows, DOMAIN rows' = DOMAIN rows,
         connected' = connected, outbox' = outbox,
         received' = [received EXCEPT ![k] = @ + 1]
  PROVE  /\ NetworkIsTyped' /\ TakenWasReceived' /\ received'[k] > 0
         /\ \A j \in DOMAIN rows : received[j] > 0 => received'[j] > 0
<1>1. /\ k \in 1..MaxRows /\ received \in [1..MaxRows -> Nat]
      /\ DOMAIN rows \subseteq 1..MaxRows
  BY InvFacts DEF DeliveryInv, NetworkIsTyped
<1>2. /\ received' \in [1..MaxRows -> Nat] /\ received'[k] > 0
      /\ \A j \in 1..MaxRows : j # k => received'[j] = received[j]
  BY <1>1
<1>3. \A j \in DOMAIN rows : received[j] > 0 => received'[j] > 0
  BY <1>1, <1>2
<1>4. NetworkIsTyped'
  BY <1>2 DEF DeliveryInv, NetworkIsTyped
<1>5. TakenWasReceived'
  BY <1>1, <1>2, <1>3 DEF DeliveryInv, TakenWasReceived
<1> QED
  BY <1>2, <1>3, <1>4, <1>5

\* A message is handed to the library while nothing is awaited.
LEMMA MessageHanded ==
  ASSUME DeliveryInv, NEW k \in DOMAIN rows, NEW m \in Entry, DOMAIN rows' = DOMAIN rows,
         m.subject = k, m.taken = FALSE, worker.phase = "looping",
         UNCHANGED <<connected, received>>, outbox' = Append(outbox, m),
         m.awaited => worker'.phase = "awaiting" /\ worker'.record = k
  PROVE  NetworkIsTyped' /\ TakenWasReceived' /\ AwaitsTheRecord'
<1>1. outbox \in Seq(Entry)
  BY DEF DeliveryInv, NetworkIsTyped
<1>2. /\ outbox' \in Seq(Entry) /\ DOMAIN outbox' = 1..Len(outbox)+1
      /\ \A i \in 1..Len(outbox) : outbox'[i] = outbox[i]
      /\ outbox'[Len(outbox) + 1] = m
  BY <1>1, AppendFacts
<1>3. Len(outbox) \in Nat /\ DOMAIN outbox = 1..Len(outbox)
  BY InvFacts
<1>4. \A i \in DOMAIN outbox' : i \in DOMAIN outbox \/ i = Len(outbox) + 1
  BY <1>2, <1>3
<1>5. NetworkIsTyped'
  BY <1>2 DEF DeliveryInv, NetworkIsTyped
<1>6. TakenWasReceived'
  BY <1>2, <1>3, <1>4 DEF DeliveryInv, TakenWasReceived
<1>7. \A i \in DOMAIN outbox : ~outbox[i].awaited
  BY DEF DeliveryInv, AwaitsTheRecord
<1>8. \A i \in DOMAIN outbox' : outbox'[i].awaited => i = Len(outbox) + 1 /\ m.awaited
  BY <1>2, <1>3, <1>4, <1>7
<1>9. AwaitsTheRecord'
  BY <1>2, <1>8 DEF AwaitsTheRecord
<1> QED
  BY <1>5, <1>6, <1>9

LEMMA PublishRecordPreserves == ASSUME DeliveryInv, PublishRecord PROVE DeliveryInv'
<1>1. worker.phase = "looping" /\ UNCHANGED rows
  BY DEF PublishRecord
<1>2. PICK k \in worker.batch :
        \/ rows[k].qos = 1 /\ Awaits(k)
        \/ rows[k].qos = 0 /\ Casts(k) /\ worker' = On("published", k, FALSE)
  BY DEF PublishRecord
<1>3. Table(rows') /\ k \in DOMAIN rows /\ k \in 1..MaxRows
  BY <1>1, InvFacts DEF DeliveryInv
<1>4. \A i \in DOMAIN outbox : ~outbox[i].awaited
  BY <1>1 DEF DeliveryInv, AwaitsTheRecord
<1>5. CASE Hands(k) /\ worker' = On("awaiting", k, FALSE)
  <2>1. /\ Reads(worker)' /\ BatchIsClaimed'
        /\ worker'.phase = "awaiting" /\ worker'.record = k
    BY <1>1, <1>5, TakesRecord
  <2>2. NetworkIsTyped' /\ TakenWasReceived' /\ AwaitsTheRecord'
    BY <1>1, <1>3, <1>5, <2>1, MessageFacts, MessageHanded DEF Hands
  <2> QED
    BY <1>3, <2>1, <2>2 DEF DeliveryInv, PublishedHasArrived
<1>6. CASE AcknowledgedTooEarly(k) /\ worker' = On("awaiting", k, FALSE)
  <2>1. /\ Reads(worker)' /\ BatchIsClaimed'
        /\ worker'.phase = "awaiting" /\ worker'.record = k
    BY <1>1, <1>6, TakesRecord
  <2>2. NetworkIsTyped' /\ TakenWasReceived'
    BY <1>1, <1>3, <1>6, CopyArrives DEF AcknowledgedTooEarly
  <2>3. AwaitsTheRecord'
    BY <1>4, <1>6 DEF AcknowledgedTooEarly, AwaitsTheRecord
  <2> QED
    BY <1>3, <2>1, <2>2, <2>3 DEF DeliveryInv, PublishedHasArrived
<1>7. CASE rows[k].qos = 0 /\ Casts(k) /\ worker' = On("published", k, FALSE)
  <2>1. /\ Reads(worker)' /\ BatchIsClaimed'
        /\ worker'.phase = "published" /\ worker'.record = k
    BY <1>1, <1>7, TakesRecord
  <2>2. /\ connected' = connected /\ outbox' = outbox
        /\ received' = received \/ received' = [received EXCEPT ![k] = @ + 1]
    BY <1>7 DEF Casts
  <2>3. NetworkIsTyped' /\ TakenWasReceived'
    BY <1>1, <1>3, <2>2, CopyArrives, NetworkKept
  <2>4. AwaitsTheRecord'
    BY <1>4, <2>2 DEF AwaitsTheRecord
  <2>5. rows'[worker'.record].qos = 0
    BY <1>1, <1>7, <2>1
  <2>6. PublishedHasArrived'
    BY <2>5 DEF PublishedHasArrived
  <2> QED
    BY <1>3, <2>1, <2>3, <2>4, <2>6 DEF DeliveryInv
<1> QED
  BY <1>2, <1>5, <1>6, <1>7 DEF Awaits

\* The rows stay and the worker neither takes nor waits for anything new.
LEMMA WorkerMoves ==
  ASSUME DeliveryInv, UNCHANGED rows, NetworkIsTyped', TakenWasReceived',
         Reads(worker)', worker'.batch = worker.batch, worker'.record = worker.record,
         worker'.phase \in {"looping", worker.phase, "failing"},
         worker.phase = "looping" => worker'.phase = "looping",
         worker'.phase = "published" => \A k \in DOMAIN rows : received'[k] = received[k]
  PROVE  Table(rows)' /\ BatchIsClaimed' /\ PublishedHasArrived'
<1>1. Table(rows)'
  BY DEF DeliveryInv
<1>2. BatchIsClaimed'
  BY DEF DeliveryInv, BatchIsClaimed
<1>3. ASSUME worker'.phase = "published" PROVE PublishedHasArrived'
  BY <1>3 DEF DeliveryInv, BatchIsClaimed, PublishedHasArrived
<1>4. ASSUME worker'.phase # "published" PROVE PublishedHasArrived'
  BY <1>4 DEF PublishedHasArrived
<1> QED
  BY <1>1, <1>2, <1>3, <1>4

LEMMA PublishFailsPreserves ==
  ASSUME DeliveryInv, PublishOffline \/ PublishFails PROVE DeliveryInv'
<1>1. PICK k \in worker.batch, o \in BOOLEAN :
        /\ worker' = On("failing", k, o)
        /\ Refuses(k) \/ UNCHANGED clientVars
  BY DEF PublishOffline, PublishFails
<1>2. worker.phase = "looping" /\ UNCHANGED rows
  BY DEF PublishOffline, PublishFails
<1>3. /\ Reads(worker)' /\ BatchIsClaimed'
      /\ worker'.phase = "failing" /\ worker'.record = k /\ k \in DOMAIN rows
  BY <1>1, <1>2, TakesRecord
<1>4. Table(rows') /\ PublishedHasArrived' /\ k \in 1..MaxRows
  BY <1>2, <1>3, InvFacts DEF DeliveryInv, PublishedHasArrived
<1>5. CASE UNCHANGED clientVars
  <2>1. UNCHANGED <<connected, outbox, received>>
    BY <1>5 DEF clientVars
  <2>2. NetworkIsTyped' /\ TakenWasReceived'
    BY <1>2, <2>1, NetworkKept
  <2>3. AwaitsTheRecord'
    BY <1>2, <2>1 DEF DeliveryInv, AwaitsTheRecord
  <2> QED
    BY <1>3, <1>4, <2>2, <2>3 DEF DeliveryInv
<1>6. CASE Refuses(k)
  <2> DEFINE m == [Message(k) EXCEPT !.awaited = FALSE]
  <2>1. /\ UNCHANGED <<connected, received>> /\ outbox' = Append(outbox, m)
    BY <1>6 DEF Refuses
  <2>2. m \in Entry /\ m.subject = k /\ m.taken = FALSE /\ m.awaited = FALSE
    BY <1>4 DEF Message, Entry
  <2> HIDE DEF m
  <2>3. NetworkIsTyped' /\ TakenWasReceived' /\ AwaitsTheRecord'
    BY <1>2, <1>3, <2>1, <2>2, MessageHanded
  <2> QED
    BY <1>3, <1>4, <2>3 DEF DeliveryInv
<1> QED
  BY <1>1, <1>5, <1>6

\* The library's messages after the first.
LEMMA OutboxTail ==
  ASSUME DeliveryInv, PubackArrives, UNCHANGED rows
  PROVE  /\ NetworkIsTyped' /\ TakenWasReceived'
         /\ UNCHANGED received
         /\ 1 \in DOMAIN outbox /\ Head(outbox) = outbox[1] /\ outbox[1].taken
         /\ \A i \in DOMAIN outbox' : /\ i + 1 \in DOMAIN outbox /\ i + 1 # 1
                                      /\ outbox'[i] = outbox[i + 1]
<1>1. outbox \in Seq(Entry) /\ outbox # <<>> /\ outbox' = Tail(outbox)
      /\ UNCHANGED <<connected, received>> /\ Head(outbox).taken
  BY DEF DeliveryInv, NetworkIsTyped, PubackArrives, IsAcknowledged
<1>2. /\ outbox' \in Seq(Entry) /\ DOMAIN outbox' = 1..Len(outbox)-1 /\ Len(outbox) \in Nat
      /\ \A i \in 1..Len(outbox)-1 : outbox'[i] = outbox[i + 1] /\ i + 1 \in DOMAIN outbox
      /\ Head(outbox) = outbox[1] /\ 1 \in DOMAIN outbox
  BY <1>1, TailFacts
<1>3. NetworkIsTyped'
  BY <1>1, <1>2 DEF DeliveryInv, NetworkIsTyped
<1>4. TakenWasReceived'
  BY <1>1, <1>2 DEF DeliveryInv, TakenWasReceived
<1> QED
  BY <1>1, <1>2, <1>3, <1>4

LEMMA PublishReturnsPreserves == ASSUME DeliveryInv, PublishReturns PROVE DeliveryInv'
<1>1. PubackArrives /\ UNCHANGED rows
  BY DEF PublishReturns
<1>2. /\ NetworkIsTyped' /\ TakenWasReceived' /\ UNCHANGED received
      /\ 1 \in DOMAIN outbox /\ Head(outbox) = outbox[1] /\ outbox[1].taken
      /\ \A i \in DOMAIN outbox' : /\ i + 1 \in DOMAIN outbox /\ i + 1 # 1
                                   /\ outbox'[i] = outbox[i + 1]
  BY <1>1, OutboxTail
<1>3. Table(rows')
  BY <1>1 DEF DeliveryInv
<1>4. CASE outbox[1].awaited
  <2>1. worker' = [worker EXCEPT !.phase = "published"]
    BY <1>2, <1>4 DEF PublishReturns
  <2>2. worker.phase = "awaiting" /\ worker.record = outbox[1].subject
    BY <1>2, <1>4 DEF DeliveryInv, AwaitsTheRecord
  <2>3. /\ Reads(worker)' /\ worker'.phase = "published"
        /\ worker'.batch = worker.batch /\ worker'.record = worker.record
    BY <1>1, <2>1 DEF DeliveryInv, Reads
  <2>4. received[worker.record] > 0
    BY <1>2, <2>2 DEF DeliveryInv, TakenWasReceived
  <2>5. BatchIsClaimed' /\ PublishedHasArrived'
    BY <1>1, <1>2, <2>2, <2>3, <2>4 DEF DeliveryInv, BatchIsClaimed, PublishedHasArrived
  <2>6. \A i \in DOMAIN outbox' : ~outbox'[i].awaited
    BY <1>2, <1>4 DEF DeliveryInv, AwaitsTheRecord
  <2>7. AwaitsTheRecord'
    BY <2>6 DEF AwaitsTheRecord
  <2> QED
    BY <1>2, <1>3, <2>3, <2>5, <2>7 DEF DeliveryInv
<1>5. CASE ~outbox[1].awaited
  <2>1. worker' = worker
    BY <1>2, <1>5 DEF PublishReturns
  <2>2. Reads(worker)' /\ BatchIsClaimed' /\ PublishedHasArrived'
    BY <1>1, <1>2, <2>1 DEF DeliveryInv, Reads, BatchIsClaimed, PublishedHasArrived
  <2>3. \A i, j \in DOMAIN outbox' : i + 1 = j + 1 => i = j
    BY <1>2, InvFacts DEF NetworkIsTyped
  <2>4. AwaitsTheRecord'
    BY <1>2, <2>1, <2>3 DEF DeliveryInv, AwaitsTheRecord
  <2> QED
    BY <1>2, <1>3, <2>2, <2>4 DEF DeliveryInv
<1> QED
  BY <1>4, <1>5

\* The library's messages rewritten in place, none newly taken.
LEMMA OutboxRewritten ==
  ASSUME DeliveryInv, UNCHANGED <<rows, received>>, connected' \in BOOLEAN,
         outbox' = [i \in DOMAIN outbox |-> outbox'[i]],
         \A i \in DOMAIN outbox :
           /\ outbox'[i] \in Entry /\ outbox'[i].subject = outbox[i].subject
           /\ outbox'[i].taken => outbox[i].taken
  PROVE  NetworkIsTyped' /\ TakenWasReceived' /\ DOMAIN outbox' = DOMAIN outbox
<1>1. Len(outbox) \in Nat /\ DOMAIN outbox = 1..Len(outbox)
  BY InvFacts
<1>2. outbox' \in [1..Len(outbox) -> Entry]
  BY <1>1
<1>3. outbox' \in Seq(Entry) /\ DOMAIN outbox' = DOMAIN outbox
  BY <1>1, <1>2
<1>4. NetworkIsTyped'
  BY <1>3 DEF DeliveryInv, NetworkIsTyped
<1>5. TakenWasReceived'
  BY <1>3 DEF DeliveryInv, TakenWasReceived
<1> QED
  BY <1>3, <1>4, <1>5

LEMMA PublishTimesOutPreserves == ASSUME DeliveryInv, PublishTimesOut PROVE DeliveryInv'
<1> DEFINE m(i) == [outbox[i] EXCEPT !.awaited = FALSE]
<1>1. /\ worker.phase = "awaiting" /\ worker' = [worker EXCEPT !.phase = "failing"]
      /\ outbox' = [i \in DOMAIN outbox |-> m(i)]
      /\ UNCHANGED <<rows, connected, received>>
  BY DEF PublishTimesOut, GivesUp
<1>2. \A i \in DOMAIN outbox : outbox[i] \in Entry
  BY DEF DeliveryInv, NetworkIsTyped
<1>3. \A i \in DOMAIN outbox :
        /\ m(i) \in Entry /\ m(i).subject = outbox[i].subject
        /\ m(i).taken = outbox[i].taken /\ m(i).awaited = FALSE
  BY <1>2 DEF Entry
<1> HIDE DEF m
<1>4. connected' \in BOOLEAN
  BY <1>1 DEF DeliveryInv, NetworkIsTyped
<1>5. NetworkIsTyped' /\ TakenWasReceived' /\ DOMAIN outbox' = DOMAIN outbox
  BY <1>1, <1>3, <1>4, OutboxRewritten
<1>6. \A i \in DOMAIN outbox' : ~outbox'[i].awaited
  BY <1>1, <1>3
<1>7. AwaitsTheRecord'
  BY <1>6 DEF AwaitsTheRecord
<1>8. /\ Reads(worker)' /\ worker'.phase = "failing"
      /\ worker'.batch = worker.batch /\ worker'.record = worker.record
  BY <1>1 DEF DeliveryInv, Reads
<1>9. Table(rows)' /\ BatchIsClaimed' /\ PublishedHasArrived'
  BY <1>1, <1>5, <1>8, WorkerMoves
<1> QED
  BY <1>5, <1>7, <1>8, <1>9 DEF DeliveryInv

\* The record at hand is settled or put back, and the worker goes on or stops.
LEMMA RecordRewritten ==
  ASSUME DeliveryInv, worker.phase \in {"published", "failing"},
         NEW r, Lives(r), rows' = [rows EXCEPT ![worker.record] = r],
         Reads(worker)', worker'.phase = "looping",
         worker'.batch \subseteq worker.batch, UNCHANGED clientVars
  PROVE  DeliveryInv'
<1>1. worker.record \in DOMAIN rows /\ worker.record \notin worker.batch
  BY DEF DeliveryInv, BatchIsClaimed
<1>2. Table(rows)
  BY DEF DeliveryInv
<1>3. /\ Table(rows') /\ DOMAIN rows' = DOMAIN rows
      /\ \A j \in DOMAIN rows : j # worker.record => rows'[j] = rows[j]
  BY <1>1, <1>2, RowRewritten
<1>4. BatchIsClaimed' /\ PublishedHasArrived'
  BY <1>1, <1>3, InvFacts DEF DeliveryInv, BatchIsClaimed, PublishedHasArrived
<1>5. UNCHANGED <<connected, outbox, received>>
  BY DEF clientVars
<1>6. NetworkIsTyped' /\ TakenWasReceived'
  BY <1>3, <1>5, NetworkKept
<1>7. AwaitsTheRecord'
  BY <1>5 DEF DeliveryInv, AwaitsTheRecord
<1> QED
  BY <1>3, <1>4, <1>6, <1>7 DEF DeliveryInv

LEMMA MarkDeliveredPreserves == ASSUME DeliveryInv, MarkDelivered PROVE DeliveryInv'
<1>1. /\ worker.phase = "published" /\ UNCHANGED clientVars
      /\ worker' = [worker EXCEPT !.phase = "looping"]
      /\ rows' = [rows EXCEPT ![worker.record] = Delivered(rows[worker.record])]
  BY DEF MarkDelivered
<1>2. Lives(Delivered(rows[worker.record]))
  BY <1>1, InvFacts, DeliveredLives DEF DeliveryInv, BatchIsClaimed
<1>3. DOMAIN rows' = DOMAIN rows
  BY <1>1
<1>4. Reads(worker)' /\ worker'.phase = "looping" /\ worker'.batch = worker.batch
  BY <1>1, <1>3 DEF DeliveryInv, Reads
<1> QED
  BY <1>1, <1>2, <1>4, RecordRewritten

LEMMA MarkFailedPreserves == ASSUME DeliveryInv, MarkFailed PROVE DeliveryInv'
<1>1. /\ worker.phase = "failing" /\ UNCHANGED clientVars
      /\ worker' = IF worker.offline THEN Idle ELSE [worker EXCEPT !.phase = "looping"]
      /\ rows' = [rows EXCEPT ![worker.record] = Failed(rows[worker.record])]
  BY DEF MarkFailed
<1>2. Lives(Failed(rows[worker.record]))
  BY <1>1, InvFacts, FailedLives DEF DeliveryInv, BatchIsClaimed
<1>3. DOMAIN rows' = DOMAIN rows
  BY <1>1
<1>4. Reads(worker)' /\ worker'.phase = "looping" /\ worker'.batch \subseteq worker.batch
  BY <1>1, <1>3 DEF DeliveryInv, Reads, Idle
<1> QED
  BY <1>1, <1>2, <1>4, RecordRewritten

LEMMA MarkingFailsPreserves ==
  ASSUME DeliveryInv, MarkDeliveredFails \/ MarkFailedFails PROVE DeliveryInv'
<1>1. /\ UNCHANGED <<rows, connected, outbox, received>>
      /\ worker.phase \in {"published", "failing"}
  BY DEF MarkDeliveredFails, MarkFailedFails, clientVars
<1>2. NetworkIsTyped' /\ TakenWasReceived'
  BY <1>1, NetworkKept
<1>3. AwaitsTheRecord'
  BY <1>1 DEF DeliveryInv, AwaitsTheRecord
<1>4. CASE MarkDeliveredFails
  <2>1. worker' = [worker EXCEPT !.phase = "failing"]
    BY <1>4 DEF MarkDeliveredFails
  <2>2. /\ Reads(worker)' /\ worker'.phase = "failing"
        /\ worker'.batch = worker.batch /\ worker'.record = worker.record
    BY <1>1, <2>1 DEF DeliveryInv, Reads
  <2>3. Table(rows)' /\ BatchIsClaimed' /\ PublishedHasArrived'
    BY <1>1, <1>2, <2>2, WorkerMoves
  <2> QED
    BY <1>2, <1>3, <2>2, <2>3 DEF DeliveryInv
<1>5. CASE MarkFailedFails
  <2>1. worker' = Idle
    BY <1>5 DEF MarkFailedFails
  <2>2. Reads(worker)' /\ BatchIsClaimed' /\ PublishedHasArrived' /\ Table(rows)'
    BY <1>1, <2>1 DEF DeliveryInv, Reads, BatchIsClaimed, PublishedHasArrived, Idle
  <2> QED
    BY <1>2, <1>3, <2>2 DEF DeliveryInv
<1> QED
  BY <1>4, <1>5

LEMMA BrokerTakesPreserves ==
  ASSUME DeliveryInv, BrokerTakes, UNCHANGED <<rows, worker>> PROVE DeliveryInv'
<1>1. PICK i \in DOMAIN outbox :
        /\ outbox' = [outbox EXCEPT ![i].taken = TRUE]
        /\ received' = [received EXCEPT ![outbox[i].subject] = @ + 1]
  BY DEF BrokerTakes
<1> DEFINE k == outbox[i].subject
           m == [outbox[i] EXCEPT !.taken = TRUE]
<1>2. /\ connected' = connected
      /\ outbox \in Seq(Entry) /\ outbox[i] \in Entry /\ DOMAIN outbox = 1..Len(outbox)
      /\ outbox' = [outbox EXCEPT ![i] = m]
      /\ received' = [received EXCEPT ![k] = @ + 1]
      /\ received \in [1..MaxRows -> Nat]
      /\ k \in DOMAIN rows /\ DOMAIN rows \subseteq 1..MaxRows
  <2>1. connected' = connected
    BY DEF BrokerTakes
  <2>2. outbox \in Seq(Entry) /\ received \in [1..MaxRows -> Nat] /\ k \in DOMAIN rows
    BY DEF DeliveryInv, NetworkIsTyped, TakenWasReceived
  <2>3. outbox[i] \in Entry /\ DOMAIN outbox = 1..Len(outbox) /\ DOMAIN rows \subseteq 1..MaxRows
    BY <2>2, InvFacts
  <2> QED
    BY <1>1, <2>1, <2>2, <2>3
<1>3. m \in Entry /\ m.subject = k /\ m.taken = TRUE /\ m.awaited = outbox[i].awaited
  BY <1>2 DEF Entry
<1> HIDE DEF k, m
<1>4. /\ outbox' \in Seq(Entry) /\ DOMAIN outbox' = DOMAIN outbox /\ outbox'[i] = m
      /\ \A j \in DOMAIN outbox : j # i => outbox'[j] = outbox[j]
  BY <1>2, <1>3
<1>5. /\ received' \in [1..MaxRows -> Nat] /\ received'[k] > 0
      /\ \A j \in 1..MaxRows : j # k => received'[j] = received[j]
  BY <1>2
<1>6. NetworkIsTyped'
  BY <1>2, <1>4, <1>5 DEF DeliveryInv, NetworkIsTyped
<1>7. \A j \in DOMAIN outbox :
        outbox'[j].subject = outbox[j].subject /\ outbox'[j].awaited = outbox[j].awaited
  BY <1>3, <1>4 DEF k
<1>8. TakenWasReceived'
  <2>1. \A j \in DOMAIN rows : received[j] > 0 => received'[j] > 0
    BY <1>2, <1>5
  <2>2. \A j \in DOMAIN outbox' :
          outbox'[j].subject \in DOMAIN rows
          /\ (outbox'[j].taken => received'[outbox'[j].subject] > 0)
    BY <1>3, <1>4, <1>5, <1>7, <2>1 DEF DeliveryInv, TakenWasReceived
  <2>3. \A j \in 1..MaxRows : received'[j] > 0 => j \in DOMAIN rows
    BY <1>2, <1>5 DEF DeliveryInv, TakenWasReceived
  <2> QED
    BY <2>2, <2>3 DEF TakenWasReceived
<1>9. AwaitsTheRecord'
  BY <1>4, <1>7 DEF DeliveryInv, AwaitsTheRecord
<1>10. Table(rows)' /\ Reads(worker)' /\ BatchIsClaimed'
  BY DEF DeliveryInv, Reads, BatchIsClaimed
<1>11. PublishedHasArrived'
  <2>1. worker.phase = "published" => worker.record \in DOMAIN rows
    BY DEF DeliveryInv, BatchIsClaimed
  <2>2. \A j \in DOMAIN rows : received[j] > 0 => received'[j] > 0
    BY <1>2, <1>5
  <2> QED
    BY <2>1, <2>2 DEF DeliveryInv, PublishedHasArrived
<1> QED
  BY <1>6, <1>8, <1>9, <1>10, <1>11 DEF DeliveryInv

LEMMA ConnectionPreserves ==
  ASSUME DeliveryInv, Connects \/ Disconnects, UNCHANGED <<rows, worker>> PROVE DeliveryInv'
<1>1. \A i \in DOMAIN outbox : outbox[i] \in Entry
  BY DEF DeliveryInv, NetworkIsTyped
<1>2. /\ connected' \in BOOLEAN /\ UNCHANGED received
      /\ outbox' = [i \in DOMAIN outbox |-> outbox'[i]]
      /\ \A i \in DOMAIN outbox :
           /\ outbox'[i] \in Entry /\ outbox'[i].subject = outbox[i].subject
           /\ outbox'[i].taken => outbox[i].taken
           /\ outbox'[i].awaited = outbox[i].awaited
  <2> DEFINE m(i) == [outbox[i] EXCEPT !.taken = FALSE]
  <2>1. CASE Connects
    <3>1. outbox' = [i \in DOMAIN outbox |-> m(i)] /\ connected' = TRUE /\ UNCHANGED received
      BY <2>1 DEF Connects
    <3>2. \A i \in DOMAIN outbox : /\ m(i) \in Entry /\ m(i).subject = outbox[i].subject
                                   /\ m(i).taken = FALSE /\ m(i).awaited = outbox[i].awaited
      BY <1>1 DEF Entry
    <3> HIDE DEF m
    <3> QED
      BY <3>1, <3>2
  <2>2. CASE Disconnects
    <3>1. outbox \in Seq(Entry) /\ UNCHANGED <<outbox, received>> /\ connected' = FALSE
      BY <2>2 DEF Disconnects, DeliveryInv, NetworkIsTyped
    <3>2. outbox = [i \in DOMAIN outbox |-> outbox[i]]
      BY <3>1
    <3> QED
      BY <1>1, <3>1, <3>2
  <2> QED
    BY <2>1, <2>2
<1>3. NetworkIsTyped' /\ TakenWasReceived' /\ DOMAIN outbox' = DOMAIN outbox
  BY <1>2, OutboxRewritten
<1>4. AwaitsTheRecord'
  BY <1>2, <1>3 DEF DeliveryInv, AwaitsTheRecord
<1>5. Table(rows)' /\ Reads(worker)' /\ BatchIsClaimed' /\ PublishedHasArrived'
  BY <1>2 DEF DeliveryInv, Reads, BatchIsClaimed, PublishedHasArrived
<1> QED
  BY <1>3, <1>4, <1>5 DEF DeliveryInv

LEMMA RestartPreserves == ASSUME DeliveryInv, Restart PROVE DeliveryInv'
<1>1. /\ rows' = Released(rows) /\ worker' = Idle
      /\ connected' = FALSE /\ outbox' = <<>> /\ UNCHANGED received
  BY DEF Restart, ClientEnds
<1>2. Table(rows)
  BY DEF DeliveryInv
<1>3. Table(rows') /\ DOMAIN rows' = DOMAIN rows
  BY <1>1, <1>2, ReleasedTable
<1>4. Reads(worker)' /\ BatchIsClaimed' /\ PublishedHasArrived'
  BY <1>1 DEF Reads, BatchIsClaimed, PublishedHasArrived, Idle
<1>5. <<>> \in Seq(Entry)
  OBVIOUS
<1>6. NetworkIsTyped'
  BY <1>1, <1>5 DEF DeliveryInv, NetworkIsTyped
<1>8. AwaitsTheRecord'
  BY <1>1 DEF AwaitsTheRecord
<1>7. TakenWasReceived'
  BY <1>1, <1>3 DEF DeliveryInv, TakenWasReceived
<1> QED
  BY <1>3, <1>4, <1>6, <1>7, <1>8 DEF DeliveryInv

\* Whatever else the process does leaves the queue and its worker alone.
LEMMA OthersPreserve ==
  ASSUME DeliveryInv, UNCHANGED <<rows, worker, clientVars>> PROVE DeliveryInv'
<1>1. Table(rows)
  BY DEF DeliveryInv
<1> QED
  BY <1>1, OthersRewritten

\* A step of the queue or of the process, as far as the queue is concerned.
QueueStep == SyncStep \/ Restart \/ UNCHANGED <<rows, worker, clientVars>>

LEMMA NextIsQueueStep == [Next]_vars => QueueStep
<1> SUFFICES ASSUME [Next]_vars PROVE QueueStep
  OBVIOUS
<1>1. CASE Next
  <2>1. CASE Delivers
    BY <2>1 DEF Delivers, QueueStep
  <2>2. CASE Requests
    BY <2>2 DEF Requests, QueueStep, deliveryVars, syncVars, clientVars
  <2>3. CASE Streams
    BY <2>3 DEF Streams, QueueStep, deliveryVars, syncVars, clientVars
  <2>4. CASE Beats
    BY <2>4 DEF Beats, QueueStep, deliveryVars, syncVars, clientVars
  <2>5. CASE ProcessRestarts
    BY <2>5 DEF ProcessRestarts, QueueStep
  <2> QED
    BY <1>1, <2>1, <2>2, <2>3, <2>4, <2>5 DEF Next
<1>2. CASE UNCHANGED vars
  BY <1>2 DEF vars, QueueStep, deliveryVars, syncVars, clientVars
<1> QED
  BY <1>1, <1>2

LEMMA QueueStepPreserves == ASSUME DeliveryInv, QueueStep PROVE DeliveryInv'
<1>1. CASE Enqueue
  BY <1>1, EnqueuePreserves
<1>2. CASE StartCycle
  BY <1>2, StartCyclePreserves
<1>3. CASE PublishRecord
  BY <1>3, PublishRecordPreserves
<1>4. CASE PublishOffline \/ PublishFails
  BY <1>4, PublishFailsPreserves
<1>5. CASE PublishTimesOut
  BY <1>5, PublishTimesOutPreserves
<1>6. CASE MarkDelivered
  BY <1>6, MarkDeliveredPreserves
<1>7. CASE MarkFailed
  BY <1>7, MarkFailedPreserves
<1>8. CASE MarkDeliveredFails \/ MarkFailedFails
  BY <1>8, MarkingFailsPreserves
<1>9. CASE PublishReturns
  BY <1>9, PublishReturnsPreserves
<1>10. CASE (BrokerTakes \/ Connects \/ Disconnects) /\ UNCHANGED syncVars
  BY <1>10, BrokerTakesPreserves, ConnectionPreserves DEF syncVars
<1>11. CASE \E k \in DOMAIN rows : TimePasses(k)
  BY <1>11, TimePreserves
<1>12. CASE Restart
  BY <1>12, RestartPreserves
<1>13. CASE UNCHANGED <<rows, worker, clientVars>>
  BY <1>13, OthersPreserve
<1> QED
  BY <1>1, <1>2, <1>3, <1>4, <1>5, <1>6, <1>7, <1>8, <1>9, <1>10, <1>11, <1>12, <1>13
     DEF QueueStep, SyncStep, WorkerStep, WorkerFails, NetworkStep

LEMMA DeliveryInvariant == Spec => []DeliveryInv
<1>1. Init => DeliveryInv
  BY InitDelivery
<1>2. DeliveryInv /\ [Next]_vars => DeliveryInv'
  BY NextIsQueueStep, QueueStepPreserves
<1> QED
  BY <1>1, <1>2, PTL DEF Spec

\* Rows, the worker's place and the library's messages keep their shape: above
\* all mark_failed never counts past max_attempts, although it looks at no status.
THEOREM QueueTypesHold == Spec => []SyncTypeOK
BY DeliveryInvariant, InvImpliesType, PTL

-----------------------------------------------------------------------------
(* The queue implements at-least-once delivery. *)

\* What AtLeastOnce is told of the queue.
Qoses == [k \in DOMAIN rows |-> rows[k].qos]
Verdicts == [k \in DOMAIN rows |-> Verdict(rows[k])]
Arrivals == {k \in DOMAIN rows : received[k] > 0}

LEMMA InitPromise == Init => Promise!Init
<1> SUFFICES ASSUME Init PROVE Promise!Init
  OBVIOUS
<1>1. rows = <<>>
  BY DEF Init, SyncInit
<1>2. /\ [k \in DOMAIN rows |-> rows[k].qos] = <<>>
      /\ [k \in DOMAIN rows |-> Verdict(rows[k])] = <<>>
  BY <1>1
<1>3. {k \in DOMAIN rows : received[k] > 0} = {}
  BY <1>1
<1> QED
  BY <1>2, <1>3 DEF Promise!Init

\* Nothing the cloud could tell.
LEMMA Stutters ==
  ASSUME DOMAIN rows' = DOMAIN rows, UNCHANGED received,
         \A k \in DOMAIN rows :
           rows'[k].qos = rows[k].qos /\ Verdict(rows'[k]) = Verdict(rows[k])
  PROVE  UNCHANGED <<Qoses, Verdicts, Arrivals>>
BY DEF Qoses, Verdicts, Arrivals

LEMMA LiveRowsWait == ASSUME NEW row, IsLive(row) PROVE Verdict(row) = "waiting"
BY DEF IsLive, Verdict

LEMMA EnqueueAccepts ==
  ASSUME DeliveryInv, Enqueue PROVE Promise!Accept
<1>1. PICK q \in Qos(Len(rows) + 1) : rows' = Append(rows, NewRow(q))
  BY DEF Enqueue
<1>2. Len(rows) < MaxRows /\ UNCHANGED received
  BY DEF Enqueue, clientVars
<1>3. Len(rows) + 1 \in 1..MaxRows /\ Len(rows) \in Nat /\ DOMAIN rows = 1..Len(rows)
  BY <1>2, InvFacts, SyncAssumption DEF SyncAssumption
<1>4. q \in {0, 1}
  BY <1>1, <1>3, SyncAssumption DEF SyncAssumption
<1> DEFINE n == Len(rows)
           r == NewRow(q)
<1>5. /\ DOMAIN rows' = 1..n+1
      /\ \A k \in 1..n : rows'[k] = rows[k]
      /\ rows'[n + 1] = r
  BY <1>1, <1>4, AppendFacts, NewRowLives DEF DeliveryInv, Table, Lives
<1>6. r.qos = q /\ Verdict(r) = "waiting"
  BY <1>4, NewRowLives, LiveRowsWait DEF IsLive
<1> HIDE DEF r
<1>7. Qoses' = Append(Qoses, q)
  <2>1. Qoses \in Seq({0, 1}) /\ Len(Qoses) = n
    <3>1. Qoses \in [1..n -> {0, 1}]
      BY <1>3, InvFacts DEF Qoses
    <3> QED
      BY <1>3, <3>1
  <2>2. /\ Append(Qoses, q) = [k \in 1..n+1 |-> Append(Qoses, q)[k]]
        /\ \A k \in 1..n : Append(Qoses, q)[k] = Qoses[k]
        /\ Append(Qoses, q)[n + 1] = q
    BY <1>4, <2>1, AppendFacts, AppendIsFunction
  <2>3. \A k \in 1..n+1 : rows'[k].qos = Append(Qoses, q)[k]
    BY <1>3, <1>5, <1>6, <2>2 DEF Qoses
  <2> QED
    BY <1>5, <2>2, <2>3 DEF Qoses
<1>8. Verdicts' = Append(Verdicts, "waiting")
  <2> DEFINE S == {"waiting", "confirmed", "abandoned"}
  <2>1. Verdicts \in Seq(S) /\ Len(Verdicts) = n
    <3>1. Verdicts \in [1..n -> S]
      BY <1>3 DEF Verdicts, Verdict
    <3> QED
      BY <1>3, <3>1
  <2>w. "waiting" \in S
    OBVIOUS
  <2> HIDE DEF S
  <2>2. /\ Append(Verdicts, "waiting") = [k \in 1..n+1 |-> Append(Verdicts, "waiting")[k]]
        /\ \A k \in 1..n : Append(Verdicts, "waiting")[k] = Verdicts[k]
        /\ Append(Verdicts, "waiting")[n + 1] = "waiting"
    BY <2>1, <2>w, AppendFacts, AppendIsFunction
  <2>3. \A k \in 1..n+1 : Verdict(rows'[k]) = Append(Verdicts, "waiting")[k]
    BY <1>3, <1>5, <1>6, <2>2 DEF Verdicts
  <2> QED
    BY <1>5, <2>2, <2>3 DEF Verdicts
<1>9. Arrivals' = Arrivals
  <2>1. received[n + 1] = 0
    BY <1>3, InvFacts DEF DeliveryInv, TakenWasReceived, NetworkIsTyped
  <2> QED
    BY <1>2, <1>3, <1>5, <2>1 DEF Arrivals
<1> QED
  BY <1>4, <1>7, <1>8, <1>9 DEF Promise!Accept, Qoses, Verdicts, Arrivals

\* A copy that the broker receives.
LEMMA CopyIsArrival ==
  ASSUME DeliveryInv, NEW k \in DOMAIN rows, UNCHANGED rows,
         received' = [received EXCEPT ![k] = @ + 1]
  PROVE  Promise!Arrive(k)
<1>1. k \in 1..MaxRows /\ received \in [1..MaxRows -> Nat] /\ DOMAIN rows \subseteq 1..MaxRows
  BY InvFacts DEF DeliveryInv, NetworkIsTyped
<1>2. received'[k] > 0 /\ \A j \in DOMAIN rows : j # k => received'[j] = received[j]
  BY <1>1
<1>3. Arrivals' = Arrivals \union {k}
  BY <1>2 DEF Arrivals
<1>4. UNCHANGED <<Qoses, Verdicts>>
  BY DEF Qoses, Verdicts
<1> QED
  BY <1>3, <1>4 DEF Promise!Arrive, Qoses, Verdicts, Arrivals

\* The record at hand is settled.
LEMMA RecordIsSettled ==
  ASSUME DeliveryInv, worker.phase \in {"published", "failing"},
         NEW r, rows' = [rows EXCEPT ![worker.record] = r],
         r.qos = rows[worker.record].qos, UNCHANGED received
  PROVE  /\ worker.record \in DOMAIN Verdicts /\ Verdicts[worker.record] = "waiting"
         /\ Verdicts' = [Verdicts EXCEPT ![worker.record] = Verdict(r)]
         /\ UNCHANGED <<Qoses, Arrivals>>
<1> DEFINE k == worker.record
<1>1. k \in DOMAIN rows /\ rows[k].status = "CLAIMED"
  BY DEF DeliveryInv, BatchIsClaimed
<1>2. DOMAIN rows' = DOMAIN rows /\ rows'[k] = r
      /\ \A j \in DOMAIN rows : j # k => rows'[j] = rows[j]
  BY <1>1
<1>3. Verdict(rows[k]) = "waiting"
  BY <1>1 DEF Verdict
<1> HIDE DEF k
<1>4. UNCHANGED Qoses
  BY <1>1, <1>2 DEF Qoses, k
<1>5. UNCHANGED Arrivals
  BY <1>2 DEF Arrivals
<1>6. Verdicts' = [Verdicts EXCEPT ![k] = Verdict(r)]
  BY <1>1, <1>2 DEF Verdicts
<1>7. k \in DOMAIN Verdicts /\ Verdicts[k] = "waiting"
  BY <1>1, <1>3 DEF Verdicts
<1> QED
  BY <1>4, <1>5, <1>6, <1>7 DEF k

\* Rows that were live and stay so look the same to the cloud.
LEMMA LivesStutter ==
  ASSUME DOMAIN rows' = DOMAIN rows, UNCHANGED received,
         \A k \in DOMAIN rows :
           /\ rows'[k].qos = rows[k].qos
           /\ rows'[k] # rows[k] => IsLive(rows[k]) /\ IsLive(rows'[k])
  PROVE  UNCHANGED <<Qoses, Verdicts, Arrivals>>
<1>1. \A k \in DOMAIN rows : Verdict(rows'[k]) = Verdict(rows[k])
  BY LiveRowsWait
<1> QED
  BY <1>1, Stutters

LEMMA TimeStutters ==
  ASSUME DeliveryInv, NEW k \in DOMAIN rows, TimePasses(k)
  PROVE  UNCHANGED <<Qoses, Verdicts, Arrivals>>
<1> DEFINE d == [rows[k] EXCEPT !.due = TRUE]
           l == [rows[k] EXCEPT !.stale = TRUE]
<1>1. rows' \in {[rows EXCEPT ![k] = d], [rows EXCEPT ![k] = l]} /\ UNCHANGED received
  BY DEF TimePasses, clientVars
<1>2. IsLive(rows[k]) /\ rows[k] \in Row
  BY InvFacts DEF TimePasses, IsLive
<1>3. \A r \in {d, l} : r.qos = rows[k].qos /\ IsLive(r)
  BY <1>2 DEF Row, IsLive
<1>4. PICK r \in {d, l} : rows' = [rows EXCEPT ![k] = r]
  BY <1>1
<1> HIDE DEF d, l
<1>5. /\ DOMAIN rows' = DOMAIN rows
      /\ rows'[k] = r /\ \A j \in DOMAIN rows : j # k => rows'[j] = rows[j]
  BY <1>4
<1> QED
  BY <1>1, <1>2, <1>3, <1>5, LivesStutter

LEMMA MarkDeliveredConfirms ==
  ASSUME DeliveryInv, MarkDelivered PROVE Promise!Confirm(worker.record)
<1> DEFINE k == worker.record
           r == Delivered(rows[k])
<1>1. worker.phase = "published" /\ rows' = [rows EXCEPT ![k] = r] /\ UNCHANGED received
  BY DEF MarkDelivered, clientVars
<1>2. k \in DOMAIN rows /\ rows[k] \in Row
  BY <1>1, InvFacts DEF DeliveryInv, BatchIsClaimed
<1>3. r.qos = rows[k].qos /\ Verdict(r) = "confirmed"
  BY <1>2, DeliveredLives DEF Verdict
<1>4. Qoses[k] = 1 => k \in Arrivals
  BY <1>1, <1>2 DEF DeliveryInv, PublishedHasArrived, Qoses, Arrivals
<1> HIDE DEF r
<1>5. /\ k \in DOMAIN Verdicts /\ Verdicts[k] = "waiting"
      /\ Verdicts' = [Verdicts EXCEPT ![k] = "confirmed"]
      /\ UNCHANGED <<Qoses, Arrivals>>
  BY <1>1, <1>3, RecordIsSettled
<1> QED
  BY <1>4, <1>5 DEF Promise!Confirm, Promise!Settle, Qoses, Verdicts, Arrivals

LEMMA MarkFailedAbandons ==
  ASSUME DeliveryInv, MarkFailed
  PROVE  Promise!Abandon(worker.record) \/ UNCHANGED <<Qoses, Verdicts, Arrivals>>
<1> DEFINE k == worker.record
           r == Failed(rows[k])
<1>1. worker.phase = "failing" /\ rows' = [rows EXCEPT ![k] = r] /\ UNCHANGED received
  BY DEF MarkFailed, clientVars
<1>2. k \in DOMAIN rows /\ Lives(rows[k]) /\ rows[k].status = "CLAIMED"
  BY <1>1, InvFacts DEF DeliveryInv, BatchIsClaimed
<1>3. r.qos = rows[k].qos /\ r.status \in {"PENDING", "FAILED"}
  BY <1>2, FailedLives
<1> HIDE DEF r
<1>4. /\ k \in DOMAIN Verdicts /\ Verdicts[k] = "waiting"
      /\ Verdicts' = [Verdicts EXCEPT ![k] = Verdict(r)]
      /\ UNCHANGED <<Qoses, Arrivals>>
  BY <1>1, <1>3, RecordIsSettled
<1>5. CASE r.status = "FAILED"
  <2>1. Verdict(r) = "abandoned"
    BY <1>5 DEF Verdict
  <2> QED
    BY <1>4, <2>1 DEF Promise!Abandon, Promise!Settle, Qoses, Verdicts, Arrivals
<1>6. CASE r.status = "PENDING"
  <2>1. Verdict(r) = "waiting"
    BY <1>6 DEF Verdict
  <2>2. Verdicts' = Verdicts
    BY <1>4, <2>1 DEF Verdicts
  <2> QED
    BY <1>4, <2>2
<1> QED
  BY <1>3, <1>5, <1>6

\* One step of the queue: an acceptance, an arrival, a verdict, or nothing.
LEMMA QueueStepKeepsPromise ==
  ASSUME DeliveryInv, QueueStep
  PROVE  Promise!Next \/ UNCHANGED <<Qoses, Verdicts, Arrivals>>
<1>0. DOMAIN Verdicts = DOMAIN rows
  BY DEF Verdicts
<1>a. ASSUME NEW k \in DOMAIN rows, Promise!Arrive(k) \/ Promise!Confirm(k) \/ Promise!Abandon(k)
      PROVE  Promise!Next
  BY <1>a DEF Promise!Next
<1>b. ASSUME UNCHANGED <<rows, received>> PROVE UNCHANGED <<Qoses, Verdicts, Arrivals>>
  BY <1>b DEF Qoses, Verdicts, Arrivals
<1>1. CASE Enqueue
  BY <1>1, EnqueueAccepts DEF Promise!Next
<1>2. CASE StartCycle
  BY <1>2, CycleRows, LivesStutter DEF StartCycle, clientVars
<1>3. CASE PublishRecord
  <2>1. PICK k \in worker.batch :
          \/ rows[k].qos = 1 /\ Awaits(k)
          \/ rows[k].qos = 0 /\ Casts(k)
    BY <1>3 DEF PublishRecord
  <2>2. k \in DOMAIN rows /\ UNCHANGED rows
    BY <1>3, InvFacts DEF PublishRecord
  <2>3. received' = received \/ received' = [received EXCEPT ![k] = @ + 1]
    BY <2>1 DEF Awaits, Hands, AcknowledgedTooEarly, Casts
  <2> QED
    BY <1>a, <1>b, <2>2, <2>3, CopyIsArrival
<1>4. CASE PublishOffline \/ PublishFails \/ PublishTimesOut \/ MarkDeliveredFails \/ MarkFailedFails
  BY <1>4, <1>b DEF PublishOffline, PublishFails, PublishTimesOut, MarkDeliveredFails,
                    MarkFailedFails, Refuses, GivesUp, clientVars
<1>5. CASE PublishReturns
  BY <1>5, <1>b DEF PublishReturns, PubackArrives
<1>6. CASE MarkDelivered
  <2>1. worker.record \in DOMAIN rows
    BY <1>6 DEF MarkDelivered, DeliveryInv, BatchIsClaimed
  <2> QED
    BY <1>6, <1>a, <2>1, MarkDeliveredConfirms
<1>7. CASE MarkFailed
  <2>1. worker.record \in DOMAIN rows
    BY <1>7 DEF MarkFailed, DeliveryInv, BatchIsClaimed
  <2> QED
    BY <1>7, <1>a, <2>1, MarkFailedAbandons
<1>8. CASE (BrokerTakes \/ Connects \/ Disconnects) /\ UNCHANGED syncVars
  <2>1. CASE BrokerTakes
    <3>1. PICK i \in DOMAIN outbox : received' = [received EXCEPT ![outbox[i].subject] = @ + 1]
      BY <2>1 DEF BrokerTakes
    <3>2. outbox[i].subject \in DOMAIN rows /\ UNCHANGED rows
      BY <1>8 DEF DeliveryInv, TakenWasReceived, syncVars
    <3> QED
      BY <1>a, <3>1, <3>2, CopyIsArrival
  <2>2. CASE Connects \/ Disconnects
    BY <1>8, <1>b, <2>2 DEF Connects, Disconnects, syncVars
  <2> QED
    BY <1>8, <2>1, <2>2
<1>9. CASE \E k \in DOMAIN rows : TimePasses(k)
  BY <1>9, TimeStutters
<1>10. CASE Restart
  <2>1. rows' = Released(rows) /\ UNCHANGED received /\ Table(rows)
    BY <1>10 DEF Restart, ClientEnds, DeliveryInv
  <2> QED
    BY <2>1, ReleasedTable, LivesStutter
<1>11. CASE UNCHANGED <<rows, worker, clientVars>>
  BY <1>11, <1>b DEF clientVars
<1> QED
  BY <1>1, <1>2, <1>3, <1>4, <1>5, <1>6, <1>7, <1>8, <1>9, <1>10, <1>11
     DEF QueueStep, SyncStep, WorkerStep, WorkerFails, NetworkStep

\* The sync queue, its worker, the MQTT client and restarts deliver at least
\* once: for any batch size and any number of attempts, outages and restarts, a
\* QoS 1 entry is marked DELIVERED only after the broker has received it, and no
\* entry that is DELIVERED or FAILED is ever anything else again.
THEOREM QueueDeliversAtLeastOnce == Spec => DeliveryIsAtLeastOnce
<1>1. Init => Promise!Init
  BY InitPromise
<1>2. DeliveryInv /\ [Next]_vars =>
        [Promise!Next]_<<[k \in DOMAIN rows |-> rows[k].qos],
                         [k \in DOMAIN rows |-> Verdict(rows[k])],
                         {k \in DOMAIN rows : received[k] > 0}>>
  BY NextIsQueueStep, QueueStepKeepsPromise DEF Qoses, Verdicts, Arrivals
<1> QED
  BY <1>1, <1>2, DeliveryInvariant, PTL DEF Spec, DeliveryIsAtLeastOnce, Promise!Spec

-----------------------------------------------------------------------------
(* Troubles are counted. *)

TroublesCounted == outages \in Nat /\ errors \in Nat /\ crashes \in Nat

LEMMA TroublesGrow ==
  ASSUME TroublesCounted, [Next]_vars
  PROVE  TroublesCounted' /\ outages' >= outages /\ errors' >= errors /\ crashes' >= crashes
<1>1. /\ outages' = outages \/ outages' = outages + 1
      /\ errors' = errors \/ errors' = errors + 1
      /\ crashes' = crashes \/ crashes' = crashes + 1
  <2>1. CASE Delivers
    <3>1. CASE Enqueue \/ WorkerStep \/ \E k \in DOMAIN rows : TimePasses(k)
      <4>1. UNCHANGED <<errors, crashes>>
        BY <3>1 DEF Enqueue, WorkerStep, TimePasses, StartCycle, PublishRecord, PublishOffline,
                    PublishTimesOut, MarkDelivered, MarkFailed
      <4>2. UNCHANGED outages
        BY <3>1 DEF Enqueue, WorkerStep, TimePasses, StartCycle, PublishRecord, PublishOffline,
                    PublishTimesOut, MarkDelivered, MarkFailed, clientVars, Awaits, Hands,
                    AcknowledgedTooEarly, Casts, GivesUp
      <4> QED  BY <4>1, <4>2
    <3>2. CASE WorkerFails
      <4>1. UNCHANGED crashes /\ errors' = errors + 1
        BY <3>2 DEF WorkerFails, PublishFails, MarkDeliveredFails, MarkFailedFails, Raises
      <4>2. UNCHANGED outages
        BY <3>2 DEF WorkerFails, PublishFails, MarkDeliveredFails, MarkFailedFails, clientVars,
                    Refuses
      <4> QED  BY <4>1, <4>2
    <3>3. CASE NetworkStep
      BY <3>3 DEF NetworkStep, PublishReturns, PubackArrives, BrokerTakes, Connects,
                  Disconnects, syncVars
    <3> QED  BY <2>1, <3>1, <3>2, <3>3 DEF Delivers, SyncStep
  <2>2. CASE Requests
    BY <2>2 DEF Requests, Raises, deliveryVars, syncVars, clientVars
  <2>3. CASE Streams \/ Beats
    BY <2>3 DEF Streams, Beats, deliveryVars, syncVars, clientVars
  <2>4. CASE ProcessRestarts
    BY <2>4 DEF ProcessRestarts, Restart, ClientEnds
  <2>5. CASE UNCHANGED vars
    BY <2>5 DEF vars, deliveryVars, syncVars, clientVars
  <2> QED  BY <2>1, <2>2, <2>3, <2>4, <2>5 DEF Next
<1> QED  BY <1>1 DEF TroublesCounted

-----------------------------------------------------------------------------
(* Copies are counted. *)

\* The library's messages of an entry, and those the broker will still take.
MessagesOf(k) == {i \in DOMAIN outbox : outbox[i].subject = k}
Untaken(k) == {i \in MessagesOf(k) : ~outbox[i].taken}
ToCome(k) == IF connected THEN Untaken(k) ELSE MessagesOf(k)

IsHeld(k) == worker.phase # "looping" /\ worker.record = k

\* How often an entry can have been given to the library: the attempts that were
\* counted, one for each that was not, and the one that is made or succeeded.
Share(k) == IF IsHeld(k) \/ rows[k].status = "DELIVERED" THEN 1 ELSE 0
Tries(k) == rows[k].attempts + errors + crashes + Share(k)

Expected(k) == received[k] + Cardinality(ToCome(k))

\* Each of them leaves one message, and each connection lets a message through once.
CopiesOK(k) ==
  /\ Cardinality(MessagesOf(k)) <= Tries(k)
  /\ Expected(k) <= Tries(k) * (outages + 1)

CopiesInv == TroublesCounted /\ \A k \in DOMAIN rows : CopiesOK(k)

LEMMA Products ==
  ASSUME NEW t \in Nat, NEW u \in Nat, NEW o \in Nat, NEW p \in Nat, t <= u, o <= p
  PROVE  /\ t * (o + 1) \in Nat /\ u * (p + 1) \in Nat
         /\ t * (o + 1) <= u * (p + 1)
         /\ t < u => t * (o + 1) + 1 <= u * (p + 1)
         /\ o < p => t * (o + 1) + t <= u * (p + 1)
<1> DEFINE d == u - t
           e == p - o
<1>1. d \in Nat /\ e \in Nat /\ u = t + d /\ p = o + e
  OBVIOUS
<1> HIDE DEF d, e
<1>2. /\ t * (o + 1) \in Nat /\ t * e \in Nat /\ d * (p + 1) \in Nat
      /\ u * (p + 1) = t * (o + 1) + t * e + d * (p + 1)
  BY <1>1
<1>3. t < u => d * (p + 1) >= 1
  <2> HAVE t < u
  <2>1. d >= 1
    BY <1>1
  <2> QED  BY <1>1, <2>1
<1>4. o < p => t * e >= t
  <2> HAVE o < p
  <2>1. e >= 1
    BY <1>1
  <2> QED  BY <1>1, <2>1
<1> QED  BY <1>2, <1>3, <1>4

\* What a step may do to the counts of an entry: nothing but to make more tries;
\* one more message for one more try; or one more connection for each message.
LEMMA CountsGrow ==
  ASSUME NEW t \in Nat, NEW u \in Nat, NEW o \in Nat, NEW p \in Nat, t <= u, o <= p,
         NEW m \in Nat, NEW n \in Nat, NEW x \in Nat, NEW y \in Nat,
         m <= t, x <= t * (o + 1),
         \/ n <= m /\ y <= x
         \/ n <= m + 1 /\ y <= x + 1 /\ t < u
         \/ n <= m /\ y <= x + m /\ o < p
  PROVE  n <= u /\ y <= u * (p + 1)
<1> DEFINE a == t * (o + 1)
           b == u * (p + 1)
<1>1. /\ a \in Nat /\ b \in Nat /\ a <= b
      /\ t < u => a + 1 <= b
      /\ o < p => a + t <= b
  BY Products
<1>2. x <= a
  OBVIOUS
<1> HIDE DEF a, b
<1>3. n <= u
  OBVIOUS
<1>4. y <= b
  BY <1>1, <1>2
<1> QED  BY <1>3, <1>4 DEF b

LEMMA IndicesAreFinite ==
  ASSUME NEW b \in Seq(Entry), NEW S, S \subseteq DOMAIN b
  PROVE  IsFiniteSet(S) /\ Cardinality(S) \in Nat
<1>1. DOMAIN b = 1..Len(b) /\ 1 \in Int /\ Len(b) \in Int
  OBVIOUS
<1>2. IsFiniteSet(1..Len(b))
  BY <1>1, FS_Interval
<1> QED  BY <1>1, <1>2, FS_Subset, FS_CardinalityType

LEMMA OutboxIsFinite ==
  ASSUME DeliveryInv, DeliveryInv', NEW k
  PROVE  /\ IsFiniteSet(MessagesOf(k)) /\ Cardinality(MessagesOf(k)) \in Nat
         /\ IsFiniteSet(Untaken(k)) /\ Cardinality(Untaken(k)) \in Nat
         /\ IsFiniteSet(MessagesOf(k)') /\ Cardinality(MessagesOf(k)') \in Nat
         /\ IsFiniteSet(Untaken(k)') /\ Cardinality(Untaken(k)') \in Nat
<1>1. outbox \in Seq(Entry) /\ outbox' \in Seq(Entry)
  BY DEF DeliveryInv, NetworkIsTyped
<1>2. /\ MessagesOf(k) \subseteq DOMAIN outbox /\ Untaken(k) \subseteq DOMAIN outbox
      /\ MessagesOf(k)' \subseteq DOMAIN outbox' /\ Untaken(k)' \subseteq DOMAIN outbox'
  BY DEF MessagesOf, Untaken
<1> QED  BY <1>1, <1>2, IndicesAreFinite

LEMMA CountTypes ==
  ASSUME DeliveryInv, DeliveryInv', TroublesCounted, NEW k \in DOMAIN rows
  PROVE  /\ Cardinality(MessagesOf(k)) \in Nat /\ Cardinality(ToCome(k)) \in Nat
         /\ Cardinality(ToCome(k)) <= Cardinality(MessagesOf(k))
         /\ received[k] \in Nat /\ received'[k] \in Nat /\ Expected(k) \in Nat
         /\ Cardinality(MessagesOf(k)') \in Nat /\ Cardinality(ToCome(k)') \in Nat
         /\ Expected(k)' \in Nat
         /\ rows[k].attempts \in Nat /\ Share(k) \in {0, 1} /\ Tries(k) \in Nat
<1>1. rows[k] \in Row /\ k \in 1..MaxRows
  BY InvFacts
<1>2. rows[k].attempts \in 0..MaxAttempts /\ MaxAttempts \in Nat
  BY <1>1, SyncAssumption DEF Row, SyncAssumption
<1>3. received[k] \in Nat /\ received'[k] \in Nat
  BY <1>1 DEF DeliveryInv, NetworkIsTyped
<1>4. Share(k) \in {0, 1}
  BY DEF Share
<1>5. Tries(k) \in Nat
  BY <1>2, <1>4 DEF Tries, TroublesCounted
<1>6. /\ Cardinality(MessagesOf(k)) \in Nat /\ Cardinality(MessagesOf(k)') \in Nat
      /\ Cardinality(ToCome(k)) \in Nat /\ Cardinality(ToCome(k)') \in Nat
  BY OutboxIsFinite DEF ToCome
<1>7. Cardinality(ToCome(k)) <= Cardinality(MessagesOf(k))
  <2>1. ToCome(k) \subseteq MessagesOf(k)
    BY DEF ToCome, Untaken
  <2> QED  BY <2>1, OutboxIsFinite, FS_Subset
<1> QED  BY <1>2, <1>3, <1>4, <1>5, <1>6, <1>7 DEF Expected

-----------------------------------------------------------------------------
(* What the steps do to the counts of an entry. *)

\* No message and no copy more.
Quieter(k) ==
  /\ Cardinality(MessagesOf(k)') <= Cardinality(MessagesOf(k))
  /\ Expected(k)' <= Expected(k)

\* One message or copy more.
Sends(k) ==
  /\ Cardinality(MessagesOf(k)') <= Cardinality(MessagesOf(k)) + 1
  /\ Expected(k)' <= Expected(k) + 1

LEMMA NetworkKeptIsQuiet ==
  ASSUME DeliveryInv, DeliveryInv', TroublesCounted, NEW k \in DOMAIN rows,
         UNCHANGED <<connected, outbox, received>>
  PROVE  Quieter(k)
<1>1. MessagesOf(k)' = MessagesOf(k) /\ ToCome(k)' = ToCome(k) /\ received'[k] = received[k]
  BY DEF MessagesOf, ToCome, Untaken
<1> QED  BY <1>1, CountTypes DEF Quieter, Expected

\* A message is handed over.
LEMMA HandedCounts ==
  ASSUME DeliveryInv, DeliveryInv', TroublesCounted, NEW k \in DOMAIN rows,
         NEW m, m.taken = FALSE, connected, UNCHANGED <<connected, received>>,
         outbox' = Append(outbox, m)
  PROVE  Sends(k) /\ (m.subject # k => Quieter(k))
<1> DEFINE l == Len(outbox)
<1>1. /\ l \in Nat /\ DOMAIN outbox = 1..l /\ DOMAIN outbox' = 1..l+1
      /\ outbox'[l + 1] = m /\ \A i \in 1..l : outbox'[i] = outbox[i]
  BY InvFacts DEF DeliveryInv, NetworkIsTyped
<1> HIDE DEF l
<1>2. CASE m.subject # k
  <2>1. MessagesOf(k)' = MessagesOf(k) /\ Untaken(k)' = Untaken(k)
    BY <1>1, <1>2 DEF MessagesOf, Untaken
  <2> QED  BY <2>1, CountTypes, <1>2 DEF Sends, Quieter, Expected, ToCome
<1>3. CASE m.subject = k
  <2>1. /\ MessagesOf(k)' = MessagesOf(k) \union {l + 1} /\ l + 1 \notin MessagesOf(k)
        /\ Untaken(k)' = Untaken(k) \union {l + 1} /\ l + 1 \notin Untaken(k)
    BY <1>1, <1>3 DEF MessagesOf, Untaken
  <2>2. /\ Cardinality(MessagesOf(k)') = Cardinality(MessagesOf(k)) + 1
        /\ Cardinality(Untaken(k)') = Cardinality(Untaken(k)) + 1
    BY <2>1, OutboxIsFinite, FS_AddElement
  <2>3. ToCome(k) = Untaken(k) /\ ToCome(k)' = Untaken(k)'
    BY DEF ToCome
  <2> QED  BY <1>3, <2>2, <2>3, CountTypes DEF Sends, Expected
<1> QED  BY <1>2, <1>3

\* A copy arrives that no message is kept of.
LEMMA CopyCounts ==
  ASSUME DeliveryInv, DeliveryInv', TroublesCounted, NEW k \in DOMAIN rows,
         NEW j \in DOMAIN rows, UNCHANGED <<connected, outbox>>,
         received' \in {received, [received EXCEPT ![j] = @ + 1]}
  PROVE  Sends(k) /\ (j # k => Quieter(k))
<1>1. MessagesOf(k)' = MessagesOf(k) /\ ToCome(k)' = ToCome(k)
  BY DEF MessagesOf, ToCome, Untaken
<1>2. received'[k] = IF j = k /\ received' # received THEN received[k] + 1 ELSE received[k]
  BY InvFacts DEF DeliveryInv, NetworkIsTyped
<1> QED  BY <1>1, <1>2, CountTypes DEF Sends, Quieter, Expected

\* The library takes note of messages, in place.
LEMMA NotedCounts ==
  ASSUME DeliveryInv, DeliveryInv', TroublesCounted, NEW k \in DOMAIN rows,
         UNCHANGED <<connected, received>>, DOMAIN outbox' = DOMAIN outbox,
         \A i \in DOMAIN outbox :
           outbox'[i].subject = outbox[i].subject /\ outbox'[i].taken = outbox[i].taken
  PROVE  Quieter(k)
<1>1. MessagesOf(k)' = MessagesOf(k) /\ Untaken(k)' = Untaken(k)
  BY DEF MessagesOf, Untaken
<1> QED  BY <1>1, CountTypes DEF Quieter, Expected, ToCome

LEMMA TakesCounts ==
  ASSUME DeliveryInv, DeliveryInv', TroublesCounted, NEW k \in DOMAIN rows, BrokerTakes
  PROVE  Quieter(k)
<1>1. PICK i \in DOMAIN outbox :
        /\ ~outbox[i].taken
        /\ outbox' = [outbox EXCEPT ![i].taken = TRUE]
        /\ received' = [received EXCEPT ![outbox[i].subject] = @ + 1]
  BY DEF BrokerTakes
<1>2. connected /\ connected'
  BY DEF BrokerTakes
<1> DEFINE m == [outbox[i] EXCEPT !.taken = TRUE]
           j == outbox[i].subject
<1>3. outbox \in Seq(Entry) /\ outbox[i] \in Entry /\ i \in Nat
  BY InvFacts DEF DeliveryInv, NetworkIsTyped
<1>4. m.subject = j /\ m.taken = TRUE /\ outbox' = [outbox EXCEPT ![i] = m]
  BY <1>1, <1>3 DEF Entry
<1> HIDE DEF m
<1>5. /\ DOMAIN outbox' = DOMAIN outbox /\ outbox'[i] = m
      /\ \A n \in DOMAIN outbox : n # i => outbox'[n] = outbox[n]
  BY <1>3, <1>4
<1>6. /\ MessagesOf(k)' = MessagesOf(k)
      /\ Untaken(k)' = Untaken(k) \ {i}
      /\ j = k => i \in Untaken(k)
  BY <1>1, <1>4, <1>5 DEF MessagesOf, Untaken
<1>7. received'[k] = IF j = k THEN received[k] + 1 ELSE received[k]
  BY <1>1, InvFacts DEF DeliveryInv, NetworkIsTyped
<1>8. ToCome(k) = Untaken(k) /\ ToCome(k)' = Untaken(k)'
  BY <1>2 DEF ToCome
<1> HIDE DEF j
<1>9. CASE j = k
  <2>1. Cardinality(Untaken(k)') = Cardinality(Untaken(k)) - 1
    BY <1>6, <1>9, OutboxIsFinite, FS_RemoveElement
  <2> QED  BY <1>6, <1>7, <1>8, <1>9, <2>1, CountTypes DEF Quieter, Expected
<1>10. CASE j # k
  <2>1. Cardinality(Untaken(k)') <= Cardinality(Untaken(k))
    BY <1>6, OutboxIsFinite, FS_Subset
  <2>2. received'[k] = received[k] /\ Cardinality(ToCome(k)') <= Cardinality(ToCome(k))
    BY <1>7, <1>8, <1>10, <2>1
  <2> QED  BY <1>6, <2>2, CountTypes DEF Quieter, Expected
<1> QED  BY <1>9, <1>10

LEMMA PubackCounts ==
  ASSUME DeliveryInv, DeliveryInv', TroublesCounted, NEW k \in DOMAIN rows,
         PubackArrives
  PROVE  Quieter(k)
<1>1. outbox \in Seq(Entry) /\ outbox # <<>> /\ outbox' = Tail(outbox)
      /\ UNCHANGED <<connected, received>>
  BY DEF DeliveryInv, NetworkIsTyped, PubackArrives
<1>2. /\ DOMAIN outbox' = 1..Len(outbox)-1 /\ Len(outbox) \in Nat
      /\ \A i \in 1..Len(outbox)-1 : outbox'[i] = outbox[i + 1] /\ i + 1 \in DOMAIN outbox
  BY <1>1, TailFacts
<1>3. \A i \in MessagesOf(k)' : i \in Nat /\ i + 1 \in MessagesOf(k)
  BY <1>2 DEF MessagesOf
<1>4. \A i \in Untaken(k)' : i \in Nat /\ i + 1 \in Untaken(k)
  BY <1>2, <1>3 DEF MessagesOf, Untaken
<1>5. ASSUME NEW S, NEW T, IsFiniteSet(T), \A i \in S : i \in Nat /\ i + 1 \in T
      PROVE  Cardinality(S) <= Cardinality(T)
  <2> DEFINE f == [i \in S |-> i + 1]
  <2>1. f \in [S -> T] /\ \A i, j \in S : f[i] = f[j] => i = j
    BY <1>5
  <2>2. f \in Injection(S, T)
    BY <2>1 DEF Injection, IsInjective
  <2> QED  BY <1>5, <2>2, FS_Injection
<1>6. /\ Cardinality(MessagesOf(k)') <= Cardinality(MessagesOf(k))
      /\ Cardinality(Untaken(k)') <= Cardinality(Untaken(k))
  BY <1>3, <1>4, <1>5, OutboxIsFinite
<1>7. connected /\ connected'
  BY <1>1 DEF PubackArrives
<1>8. ToCome(k) = Untaken(k) /\ ToCome(k)' = Untaken(k)' /\ received'[k] = received[k]
  BY <1>1, <1>7 DEF ToCome
<1> QED  BY <1>6, <1>8, CountTypes DEF Quieter, Expected

\* After a reconnection the broker will take every message again, as was expected.
LEMMA ConnectsCounts ==
  ASSUME DeliveryInv, DeliveryInv', TroublesCounted, NEW k \in DOMAIN rows, Connects
  PROVE  Quieter(k)
<1>1. /\ ~connected /\ connected' /\ received' = received
      /\ outbox' = [i \in DOMAIN outbox |-> [outbox[i] EXCEPT !.taken = FALSE]]
  BY DEF Connects
<1>2. \A i \in DOMAIN outbox : outbox[i] \in Entry
  BY DEF DeliveryInv, NetworkIsTyped
<1>3. /\ DOMAIN outbox' = DOMAIN outbox
      /\ \A i \in DOMAIN outbox :
           outbox'[i].subject = outbox[i].subject /\ outbox'[i].taken = FALSE
  BY <1>1, <1>2 DEF Entry
<1>4. MessagesOf(k)' = MessagesOf(k) /\ Untaken(k)' = MessagesOf(k)
  BY <1>3 DEF MessagesOf, Untaken
<1>5. ToCome(k)' = ToCome(k)
  BY <1>1, <1>4 DEF ToCome
<1> QED  BY <1>1, <1>4, <1>5, CountTypes DEF Quieter, Expected

LEMMA DisconnectsCounts ==
  ASSUME DeliveryInv, DeliveryInv', TroublesCounted, NEW k \in DOMAIN rows, Disconnects
  PROVE  /\ Cardinality(MessagesOf(k)') <= Cardinality(MessagesOf(k))
         /\ Expected(k)' <= Expected(k) + Cardinality(MessagesOf(k))
         /\ outages' = outages + 1
<1>1. ~connected' /\ UNCHANGED <<outbox, received>> /\ outages' = outages + 1
  BY DEF Disconnects
<1>2. MessagesOf(k)' = MessagesOf(k) /\ ToCome(k)' = MessagesOf(k) /\ received'[k] = received[k]
  BY <1>1 DEF MessagesOf, ToCome
<1> QED  BY <1>1, <1>2, CountTypes DEF Expected

LEMMA EndCounts ==
  ASSUME DeliveryInv, DeliveryInv', TroublesCounted, NEW k \in DOMAIN rows, ClientEnds
  PROVE  Quieter(k)
<1>1. outbox' = <<>> /\ received' = received
  BY DEF ClientEnds
<1>2. MessagesOf(k)' = {} /\ ToCome(k)' = {}
  BY <1>1 DEF MessagesOf, ToCome, Untaken
<1>3. Cardinality({}) = 0
  BY FS_EmptySet
<1>4. Cardinality(MessagesOf(k)') = 0 /\ Cardinality(ToCome(k)') = 0
  BY <1>2, <1>3
<1> QED  BY <1>1, <1>4, CountTypes DEF Quieter, Expected

-----------------------------------------------------------------------------
(* What the steps do to the tries of an entry. *)

\* release_stale_locks and claim_batch count no attempt and touch no DELIVERED row.
LEMMA ReleaseCountsNothing ==
  ASSUME NEW t, Table(t), NEW k \in DOMAIN t
  PROVE  /\ Released(t)[k].attempts = t[k].attempts
         /\ Released(t)[k].status = "DELIVERED" <=> t[k].status = "DELIVERED"
<1>1. t[k] \in Row
  BY TableFacts
<1>2. Released(t)[k] = IF IsStaleLock(t[k]) THEN Unlocked(t[k], "PENDING") ELSE t[k]
  BY DEF Released
<1> DEFINE free == Unlocked(t[k], "PENDING")
<1>3. free.attempts = t[k].attempts /\ free.status = "PENDING"
  BY <1>1, UnlockedRow
<1>4. Released(t)[k] = IF IsStaleLock(t[k]) THEN free ELSE t[k]
  BY <1>2
<1>5. IsStaleLock(t[k]) => t[k].status = "CLAIMED"
  BY DEF IsStaleLock
<1> HIDE DEF free
<1> QED  BY <1>3, <1>4, <1>5

LEMMA ClaimCountsNothing ==
  ASSUME NEW t, Table(t), NEW ids \in SUBSET Claimable(t), NEW k \in DOMAIN t
  PROVE  /\ Claimed(t, ids)[k].attempts = t[k].attempts
         /\ Claimed(t, ids)[k].status = "DELIVERED" <=> t[k].status = "DELIVERED"
<1>1. t[k] \in Row
  BY TableFacts
<1> DEFINE claimed == [t[k] EXCEPT !.status = "CLAIMED"]
<1>2. claimed.attempts = t[k].attempts /\ claimed.status = "CLAIMED"
  BY <1>1 DEF Row
<1>3. Claimed(t, ids)[k] = IF k \in ids THEN claimed ELSE t[k]
  BY DEF Claimed
<1> HIDE DEF claimed
<1>4. k \in ids => t[k].status = "PENDING"
  BY DEF Claimable
<1> QED  BY <1>2, <1>3, <1>4

LEMMA CycleCountsNothing ==
  ASSUME DeliveryInv, StartCycle, NEW k \in DOMAIN rows
  PROVE  /\ rows'[k].attempts = rows[k].attempts
         /\ rows'[k].status = "DELIVERED" <=> rows[k].status = "DELIVERED"
<1> DEFINE free == Released(rows)
           ids == Oldest(Claimable(free))
<1>1. rows' = Claimed(free, ids) /\ ids \in SUBSET Claimable(free) /\ Table(rows)
  BY DEF StartCycle, Oldest, DeliveryInv
<1>2. /\ free[k].attempts = rows[k].attempts
      /\ free[k].status = "DELIVERED" <=> rows[k].status = "DELIVERED"
      /\ Table(free) /\ k \in DOMAIN free
  BY <1>1, ReleasedTable, ReleaseCountsNothing
<1> HIDE DEF free, ids
<1> QED  BY <1>1, <1>2, ClaimCountsNothing

LEMMA FailedAttempts ==
  ASSUME NEW row \in Row
  PROVE  Failed(row).attempts = row.attempts + 1 /\ Failed(row).status \in {"PENDING", "FAILED"}
<1> DEFINE u == Unlocked(row, "FAILED")
           w == Unlocked(row, "PENDING")
           x == [u EXCEPT !.attempts = @ + 1]
           y == [w EXCEPT !.attempts = @ + 1, !.due = FALSE]
<1>1. /\ u \in Row /\ u.attempts = row.attempts /\ u.status = "FAILED"
      /\ w \in Row /\ w.attempts = row.attempts /\ w.status = "PENDING"
  BY UnlockedRow
<1>2. Failed(row) = x \/ Failed(row) = y
  BY DEF Failed
<1> HIDE DEF u, w
<1>3. /\ x.attempts = row.attempts + 1 /\ x.status = "FAILED"
      /\ y.attempts = row.attempts + 1 /\ y.status = "PENDING"
  BY <1>1 DEF Row
<1> HIDE DEF x, y
<1> QED  BY <1>2, <1>3

LEMMA TriesGrow ==
  ASSUME NEW a \in Nat, NEW e \in Nat, NEW c \in Nat, NEW f \in Nat, NEW d \in Nat,
         NEW s \in {0, 1}, NEW t \in {0, 1}, f >= e, d >= c, t >= s \/ f + d > e + c
  PROVE  a + f + d + t >= a + e + c + s
OBVIOUS

\* The worker keeps or drops what it holds.
LEMMA TriesOfOthers ==
  ASSUME DeliveryInv, DeliveryInv', TroublesCounted, TroublesCounted', NEW k \in DOMAIN rows,
         k \in DOMAIN rows', rows'[k].attempts = rows[k].attempts,
         rows'[k].status = "DELIVERED" <=> rows[k].status = "DELIVERED",
         errors' >= errors, crashes' >= crashes,
         IsHeld(k) => IsHeld(k)' \/ errors' + crashes' > errors + crashes
  PROVE  Tries(k)' >= Tries(k)
<1>1. /\ rows[k].attempts \in Nat
      /\ errors \in Nat /\ crashes \in Nat /\ errors' \in Nat /\ crashes' \in Nat
  BY CountTypes DEF TroublesCounted
<1>2. /\ Share(k) \in {0, 1} /\ Share(k)' \in {0, 1}
      /\ Share(k)' >= Share(k) \/ errors' + crashes' > errors + crashes
  BY DEF Share
<1>3. /\ Tries(k) = rows[k].attempts + errors + crashes + Share(k)
      /\ Tries(k)' = rows[k].attempts + errors' + crashes' + Share(k)'
  BY DEF Tries
<1> DEFINE a == rows[k].attempts
           e == errors
           c == crashes
           f == errors'
           d == crashes'
           s == Share(k)
           t == Share(k)'
<1>4. /\ a \in Nat /\ e \in Nat /\ c \in Nat /\ f \in Nat /\ d \in Nat
      /\ s \in {0, 1} /\ t \in {0, 1} /\ f >= e /\ d >= c
      /\ t >= s \/ f + d > e + c
      /\ Tries(k) = a + e + c + s /\ Tries(k)' = a + f + d + t
  BY <1>1, <1>2, <1>3
<1> HIDE DEF a, e, c, f, d, s, t
<1> QED  BY <1>4, TriesGrow

\* It takes the next one in hand.
LEMMA TriesOfTaken ==
  ASSUME DeliveryInv, DeliveryInv', TroublesCounted, TroublesCounted', NEW k \in DOMAIN rows,
         NEW j \in worker.batch, UNCHANGED rows, worker.phase = "looping",
         worker'.phase # "looping", worker'.record = j,
         errors' >= errors, crashes' >= crashes
  PROVE  Tries(k)' >= Tries(k) /\ (j = k => Tries(k)' > Tries(k))
<1>1. /\ rows[k].attempts \in Nat
      /\ errors \in Nat /\ crashes \in Nat /\ errors' \in Nat /\ crashes' \in Nat
  BY CountTypes DEF TroublesCounted
<1>2. ~IsHeld(k) /\ (IsHeld(k)' <=> j = k)
  BY DEF IsHeld
<1>3. j = k => rows[k].status = "CLAIMED"
  BY DEF DeliveryInv, BatchIsClaimed
<1>4. /\ Share(k) \in {0, 1} /\ Share(k)' \in {0, 1} /\ Share(k)' >= Share(k)
      /\ j = k => Share(k) = 0 /\ Share(k)' = 1
  BY <1>2, <1>3 DEF Share
<1> QED  BY <1>1, <1>4 DEF Tries

\* It marks what it holds.
LEMMA TriesOfMarked ==
  ASSUME DeliveryInv, DeliveryInv', TroublesCounted, NEW k \in DOMAIN rows,
         MarkDelivered \/ MarkFailed
  PROVE  Tries(k)' >= Tries(k)
<1> DEFINE j == worker.record
           r == rows'[j]
<1>1. /\ worker.phase # "looping" /\ j \in DOMAIN rows /\ rows[j] \in Row
      /\ UNCHANGED <<errors, crashes>> /\ worker'.phase = "looping"
  BY InvFacts DEF MarkDelivered, MarkFailed, DeliveryInv, BatchIsClaimed, Reads, Idle
<1>2. /\ \A i \in DOMAIN rows : i # j => rows'[i] = rows[i]
      /\ r = Delivered(rows[j]) \/ r = Failed(rows[j])
  BY <1>1 DEF MarkDelivered, MarkFailed
<1>3. \/ r.status = "DELIVERED" /\ r.attempts = rows[j].attempts
      \/ r.attempts = rows[j].attempts + 1
  <2>1. Delivered(rows[j]).status = "DELIVERED" /\ Delivered(rows[j]).attempts = rows[j].attempts
    BY <1>1, UnlockedRow DEF Delivered
  <2>2. Failed(rows[j]).attempts = rows[j].attempts + 1
    BY <1>1, FailedAttempts
  <2> HIDE DEF j, r
  <2> QED  BY <1>2, <2>1, <2>2
<1>4. rows[k].attempts \in Nat /\ errors \in Nat /\ crashes \in Nat
  BY CountTypes DEF TroublesCounted
<1>5. CASE j # k
  <2>1. Share(k)' = Share(k) /\ rows'[k] = rows[k]
    BY <1>1, <1>2, <1>5 DEF Share, IsHeld
  <2> QED  BY <1>1, <1>4, <2>1 DEF Tries, Share
<1>6. CASE j = k
  <2>1. Share(k) = 1 /\ Share(k)' \in {0, 1} /\ (rows'[k].status = "DELIVERED" => Share(k)' = 1)
    BY <1>1, <1>6 DEF Share, IsHeld
  <2> HIDE DEF j
  <2> QED  BY <1>1, <1>3, <1>4, <1>6, <2>1 DEF Tries, j
<1> QED  BY <1>5, <1>6

-----------------------------------------------------------------------------
(* The counts are kept. *)

LEMMA NextTries ==
  ASSUME DeliveryInv', TroublesCounted', NEW k \in DOMAIN rows'
  PROVE  Tries(k)' \in Nat
<1>1. rows'[k] \in Row
  BY TableFacts DEF DeliveryInv
<1>2. rows'[k].attempts \in 0..MaxAttempts /\ MaxAttempts \in Nat
  BY <1>1, SyncAssumption DEF Row, SyncAssumption
<1>3. Share(k)' \in {0, 1}
  BY DEF Share
<1>4. Tries(k)' = rows'[k].attempts + errors' + crashes' + Share(k)'
  BY DEF Tries
<1> QED  BY <1>2, <1>3, <1>4 DEF TroublesCounted

LEMMA CopiesStay ==
  ASSUME DeliveryInv, DeliveryInv', TroublesCounted, TroublesCounted', NEW k \in DOMAIN rows,
         k \in DOMAIN rows', CopiesOK(k), Tries(k)' >= Tries(k), outages' >= outages,
         \/ Quieter(k)
         \/ Sends(k) /\ Tries(k)' > Tries(k)
         \/ Disconnects
  PROVE  CopiesOK(k)'
<1> DEFINE t == Tries(k)
           u == Tries(k)'
           m == Cardinality(MessagesOf(k))
           n == Cardinality(MessagesOf(k)')
           x == Expected(k)
           y == Expected(k)'
           o == outages
           p == outages'
<1>1. /\ t \in Nat /\ m \in Nat /\ n \in Nat /\ x \in Nat /\ y \in Nat
      /\ o \in Nat /\ p \in Nat
  BY CountTypes DEF TroublesCounted
<1>2. u \in Nat
  BY NextTries
<1>3. m <= t /\ x <= t * (o + 1)
  BY DEF CopiesOK
<1>4. \/ n <= m /\ y <= x
      \/ n <= m + 1 /\ y <= x + 1 /\ u > t
      \/ n <= m /\ y <= x + m /\ p = o + 1
  BY DisconnectsCounts DEF Quieter, Sends
<1>5. t <= u /\ o <= p
  BY <1>1, <1>2
<1> HIDE DEF t, u, m, n, x, y, o, p
<1>6. \/ n <= m /\ y <= x
      \/ n <= m + 1 /\ y <= x + 1 /\ t < u
      \/ n <= m /\ y <= x + m /\ o < p
  BY <1>1, <1>2, <1>4
<1>7. n <= u /\ y <= u * (p + 1)
  BY <1>1, <1>2, <1>3, <1>5, <1>6, CountsGrow
<1> QED  BY <1>7 DEF n, u, y, p, CopiesOK

\* What the worker takes in hand it may hand over; of no other entry are there more.
LEMMA TakingCounts ==
  ASSUME DeliveryInv, DeliveryInv', TroublesCounted, TroublesCounted', NEW k \in DOMAIN rows,
         PublishRecord \/ PublishOffline \/ PublishFails,
         errors' >= errors, crashes' >= crashes
  PROVE  /\ Tries(k)' >= Tries(k)
         /\ \/ Quieter(k)
            \/ Sends(k) /\ Tries(k)' > Tries(k)
<1>1. PICK j \in worker.batch :
        /\ worker'.phase # "looping" /\ worker'.record = j
        /\ \/ Hands(j) \/ AcknowledgedTooEarly(j) \/ Casts(j) \/ Refuses(j)
           \/ UNCHANGED clientVars
  BY DEF PublishRecord, PublishOffline, PublishFails, Awaits, On
<1>2. /\ worker.phase = "looping" /\ UNCHANGED rows /\ j \in DOMAIN rows /\ j \in 1..MaxRows
      /\ k \in DOMAIN rows'
  BY InvFacts DEF PublishRecord, PublishOffline, PublishFails
<1>3. Tries(k)' >= Tries(k) /\ (j = k => Tries(k)' > Tries(k))
  BY <1>1, <1>2, TriesOfTaken
<1>4. \/ Quieter(k)
      \/ Sends(k) /\ (j # k => Quieter(k))
  <2>1. CASE Hands(j)
    <3>1. Message(j).taken = FALSE /\ Message(j).subject = j
      BY DEF Message
    <3> QED  BY <2>1, <3>1, HandedCounts DEF Hands
  <2>2. CASE Refuses(j)
    <3> DEFINE m == [Message(j) EXCEPT !.awaited = FALSE]
    <3>1. m.taken = FALSE /\ m.subject = j
      BY DEF Message
    <3>2. outbox' = Append(outbox, m) /\ connected /\ UNCHANGED <<connected, received>>
      BY <2>2 DEF Refuses
    <3> HIDE DEF m
    <3> QED  BY <3>1, <3>2, HandedCounts
  <2>3. CASE AcknowledgedTooEarly(j) \/ Casts(j)
    BY <1>2, <2>3, CopyCounts DEF AcknowledgedTooEarly, Casts
  <2>4. CASE UNCHANGED clientVars
    BY <2>4, NetworkKeptIsQuiet DEF clientVars
  <2> QED  BY <1>1, <2>1, <2>2, <2>3, <2>4
<1> QED  BY <1>3, <1>4

LEMMA EnqueueCopies ==
  ASSUME DeliveryInv, DeliveryInv', TroublesCounted, TroublesCounted', Enqueue, CopiesInv,
         outages' = outages, errors' = errors, crashes' = crashes, NEW k \in DOMAIN rows'
  PROVE  CopiesOK(k)'
<1> DEFINE new == Len(rows) + 1
<1>1. PICK q \in Qos(new) : rows' = Append(rows, NewRow(q))
  BY DEF Enqueue
<1>2. UNCHANGED <<worker, connected, outbox, received>> /\ Len(rows) < MaxRows
  BY DEF Enqueue, clientVars
<1>3. Len(rows) \in Nat /\ DOMAIN rows = 1..Len(rows) /\ new \in 1..MaxRows
  BY <1>2, InvFacts, SyncAssumption DEF SyncAssumption
<1>4. DOMAIN rows' = 1..new /\ \A i \in DOMAIN rows : rows'[i] = rows[i]
  BY <1>1, <1>3
<1>5. MessagesOf(k)' = MessagesOf(k) /\ ToCome(k)' = ToCome(k)
  BY <1>2 DEF MessagesOf, Untaken, ToCome
<1>6. CASE k \in DOMAIN rows
  <2>1. Tries(k)' = Tries(k) /\ Expected(k)' = Expected(k)
    BY <1>2, <1>4, <1>5, <1>6 DEF Tries, Share, IsHeld, Expected
  <2> QED  BY <1>5, <1>6, <2>1 DEF CopiesInv, CopiesOK
<1>7. CASE k = new
  <2>1. k \notin DOMAIN rows /\ k \in 1..MaxRows
    BY <1>3, <1>7
  <2>2. MessagesOf(k) = {} /\ ToCome(k) = {}
    BY <2>1 DEF MessagesOf, Untaken, ToCome, DeliveryInv, TakenWasReceived
  <2>3. received[k] = 0
    BY <2>1 DEF DeliveryInv, NetworkIsTyped, TakenWasReceived
  <2>4. Cardinality({}) = 0
    BY FS_EmptySet
  <2>5. Cardinality(MessagesOf(k)') = 0 /\ Cardinality(ToCome(k)') = 0
    BY <1>5, <2>2, <2>4
  <2>6. Expected(k)' = 0
    BY <1>2, <2>3, <2>5 DEF Expected
  <2>7. Tries(k)' \in Nat /\ outages' \in Nat
    BY NextTries DEF TroublesCounted
  <2> HIDE DEF new
  <2>8. Tries(k)' * (outages' + 1) \in Nat
    BY <2>7
  <2> QED  BY <2>5, <2>6, <2>7, <2>8 DEF CopiesOK
<1> QED  BY <1>3, <1>4, <1>6, <1>7

LEMMA RowsStay ==
  ASSUME DeliveryInv, QueueStep, ~Enqueue
  PROVE  DOMAIN rows' = DOMAIN rows
<1>1. Table(rows)
  BY DEF DeliveryInv
<1>2. CASE StartCycle
  BY <1>2, CycleRows
<1>3. CASE Restart
  BY <1>1, <1>3, ReleasedTable DEF Restart
<1>4. CASE MarkDelivered \/ MarkFailed \/ \E k \in DOMAIN rows : TimePasses(k)
  BY <1>4 DEF MarkDelivered, MarkFailed, TimePasses
<1>5. CASE UNCHANGED rows
  BY <1>5
<1>6. \/ UNCHANGED rows \/ StartCycle \/ Restart \/ MarkDelivered \/ MarkFailed
      \/ \E k \in DOMAIN rows : TimePasses(k)
  BY DEF QueueStep, SyncStep, WorkerStep, WorkerFails, NetworkStep, PublishRecord, PublishOffline,
         PublishTimesOut, PublishFails, MarkDeliveredFails, MarkFailedFails, PublishReturns, syncVars
<1> QED  BY <1>2, <1>3, <1>4, <1>5, <1>6

\* The worker, and what it knows of its rows, stays as it is.
LEMMA IdleTries ==
  ASSUME DeliveryInv, DeliveryInv', TroublesCounted, TroublesCounted', NEW k \in DOMAIN rows,
         k \in DOMAIN rows', UNCHANGED <<rows, worker>>, errors' >= errors, crashes' >= crashes
  PROVE  Tries(k)' >= Tries(k)
<1>1. IsHeld(k)' = IsHeld(k)
  BY DEF IsHeld
<1> QED  BY <1>1, TriesOfOthers

LEMMA CopiesOfStep ==
  ASSUME DeliveryInv, DeliveryInv', TroublesCounted, TroublesCounted', NEW k \in DOMAIN rows,
         k \in DOMAIN rows', QueueStep, ~Enqueue, errors' >= errors, crashes' >= crashes
  PROVE  /\ Tries(k)' >= Tries(k)
         /\ \/ Quieter(k)
            \/ Sends(k) /\ Tries(k)' > Tries(k)
            \/ Disconnects
<1>1. CASE StartCycle
  <2>1. UNCHANGED <<connected, outbox, received>> /\ ~IsHeld(k)
    BY <1>1 DEF StartCycle, clientVars, IsHeld
  <2>2. Quieter(k)
    BY <2>1, NetworkKeptIsQuiet
  <2> QED  BY <1>1, <2>1, <2>2, CycleCountsNothing, TriesOfOthers
<1>2. CASE PublishRecord \/ PublishOffline \/ PublishFails
  BY <1>2, TakingCounts
<1>3. CASE PublishTimesOut
  <2>1. /\ UNCHANGED <<rows, connected, received>> /\ worker.phase = "awaiting"
        /\ outbox' = [i \in DOMAIN outbox |-> [outbox[i] EXCEPT !.awaited = FALSE]]
        /\ worker' = [worker EXCEPT !.phase = "failing"]
    BY <1>3 DEF PublishTimesOut, GivesUp
  <2>2. \A i \in DOMAIN outbox : outbox[i] \in Entry
    BY DEF DeliveryInv, NetworkIsTyped
  <2>3. /\ DOMAIN outbox' = DOMAIN outbox
        /\ \A i \in DOMAIN outbox :
             outbox'[i].subject = outbox[i].subject /\ outbox'[i].taken = outbox[i].taken
    BY <2>1, <2>2 DEF Entry
  <2>4. Quieter(k)
    BY <2>1, <2>3, NotedCounts
  <2>5. IsHeld(k) => IsHeld(k)'
    BY <2>1 DEF IsHeld, DeliveryInv, Reads
  <2> QED  BY <2>1, <2>4, <2>5, TriesOfOthers
<1>4. CASE PublishReturns
  <2>1. PubackArrives /\ UNCHANGED rows
        /\ (worker' = worker \/ worker' = [worker EXCEPT !.phase = "published"])
    BY <1>4 DEF PublishReturns
  <2>2. IsHeld(k) => IsHeld(k)'
    BY <2>1 DEF IsHeld, DeliveryInv, Reads
  <2> QED  BY <2>1, <2>2, PubackCounts, TriesOfOthers
<1>5. CASE MarkDelivered \/ MarkFailed
  <2>1. UNCHANGED <<connected, outbox, received>>
    BY <1>5 DEF MarkDelivered, MarkFailed, clientVars
  <2> QED  BY <1>5, <2>1, NetworkKeptIsQuiet, TriesOfMarked
<1>6. CASE MarkDeliveredFails \/ MarkFailedFails
  <2>1. /\ UNCHANGED <<rows, crashes, connected, outbox, received>> /\ errors' = errors + 1
    BY <1>6 DEF MarkDeliveredFails, MarkFailedFails, clientVars, Raises
  <2>2. errors' + crashes' > errors + crashes
    BY <2>1 DEF TroublesCounted
  <2> QED  BY <2>1, <2>2, NetworkKeptIsQuiet, TriesOfOthers
<1>7. CASE (BrokerTakes \/ Connects \/ Disconnects) /\ UNCHANGED syncVars
  <2>1. UNCHANGED <<rows, worker>>
    BY <1>7 DEF syncVars
  <2>2. Tries(k)' >= Tries(k)
    BY <2>1, IdleTries
  <2> QED  BY <1>7, <2>2, TakesCounts, ConnectsCounts
<1>8. CASE \E i \in DOMAIN rows : TimePasses(i)
  <2>1. PICK i \in DOMAIN rows : TimePasses(i)
    BY <1>8
  <2>2. UNCHANGED <<worker, connected, outbox, received>> /\ rows[i] \in Row /\ rows[k] \in Row
    BY <2>1, InvFacts DEF TimePasses, clientVars
  <2>3. rows'[k].attempts = rows[k].attempts /\ rows'[k].status = rows[k].status
    BY <2>1, <2>2 DEF TimePasses, Row
  <2>4. IsHeld(k)' = IsHeld(k)
    BY <2>2 DEF IsHeld
  <2> QED  BY <2>2, <2>3, <2>4, NetworkKeptIsQuiet, TriesOfOthers
<1>9. CASE Restart
  <2>1. rows' = Released(rows) /\ crashes' = crashes + 1 /\ ClientEnds /\ errors' = errors
    BY <1>9 DEF Restart
  <2>2. Table(rows)
    BY DEF DeliveryInv
  <2>3. /\ rows'[k].attempts = rows[k].attempts
        /\ rows'[k].status = "DELIVERED" <=> rows[k].status = "DELIVERED"
    BY <2>1, <2>2, ReleaseCountsNothing
  <2>4. errors' + crashes' > errors + crashes
    BY <2>1 DEF TroublesCounted
  <2> QED  BY <2>1, <2>3, <2>4, EndCounts, TriesOfOthers
<1>10. CASE UNCHANGED <<rows, worker, clientVars>>
  <2>1. UNCHANGED <<rows, worker, connected, outbox, received>>
    BY <1>10 DEF clientVars
  <2> QED  BY <2>1, IdleTries, NetworkKeptIsQuiet
<1> QED
  BY <1>1, <1>2, <1>3, <1>4, <1>5, <1>6, <1>7, <1>8, <1>9, <1>10
     DEF QueueStep, SyncStep, WorkerStep, WorkerFails, NetworkStep

LEMMA CopiesStep ==
  ASSUME DeliveryInv, DeliveryInv', CopiesInv, [Next]_vars
  PROVE  CopiesInv'
<1>1. /\ TroublesCounted /\ TroublesCounted'
      /\ outages' >= outages /\ errors' >= errors /\ crashes' >= crashes
  BY TroublesGrow DEF CopiesInv
<1>2. CASE Enqueue
  <2>1. UNCHANGED <<outages, errors, crashes>>
    BY <1>2 DEF Enqueue, clientVars
  <2> QED  BY <1>1, <1>2, <2>1, EnqueueCopies DEF CopiesInv
<1>3. CASE ~Enqueue
  <2>1. QueueStep
    BY NextIsQueueStep
  <2>2. DOMAIN rows' = DOMAIN rows
    BY <1>3, <2>1, RowsStay
  <2>3. ASSUME NEW k \in DOMAIN rows  PROVE CopiesOK(k)'
    <3>1. CopiesOK(k)
      BY DEF CopiesInv
    <3>2. /\ Tries(k)' >= Tries(k)
          /\ \/ Quieter(k)
             \/ Sends(k) /\ Tries(k)' > Tries(k)
             \/ Disconnects
      BY <1>1, <1>3, <2>1, <2>2, CopiesOfStep
    <3> QED  BY <1>1, <2>2, <3>1, <3>2, CopiesStay
  <2> QED  BY <1>1, <2>2, <2>3 DEF CopiesInv
<1> QED  BY <1>2, <1>3

\* Whatever is tried again, times out, is cut short or raises, the cloud gets no
\* more copies of an entry than its attempts, the troubles and the connections
\* explain (SyncWorker._cycle, mark_failed, the library's resending).
THEOREM CopiesAreExplained == Spec => []DuplicatesHaveCauses
<1>1. Init => DeliveryInv /\ CopiesInv
  <2> SUFFICES ASSUME Init  PROVE CopiesInv
    BY InitDelivery
  <2>1. rows = <<>> /\ outages = 0 /\ errors = 0 /\ crashes = 0
    BY DEF Init, SyncInit, ClientInit
  <2> QED  BY <2>1 DEF CopiesInv, TroublesCounted
<1>2. DeliveryInv /\ CopiesInv /\ [Next]_vars => DeliveryInv' /\ CopiesInv'
  BY NextIsQueueStep, QueueStepPreserves, CopiesStep
<1>3. DeliveryInv /\ CopiesInv => DuplicatesHaveCauses
  <2> SUFFICES ASSUME DeliveryInv, CopiesInv, NEW k \in DOMAIN rows
               PROVE  received[k] <= (rows[k].attempts + errors + crashes + 1) * (outages + 1)
    BY DEF DuplicatesHaveCauses
  <2> DEFINE t == Tries(k)
             u == rows[k].attempts + errors + crashes + 1
  <2>1. /\ TroublesCounted /\ Expected(k) <= t * (outages + 1)
    BY DEF CopiesInv, CopiesOK
  <2>2. /\ rows[k] \in Row /\ k \in 1..MaxRows
    BY InvFacts
  <2>3. rows[k].attempts \in Nat
    BY <2>2, SyncAssumption DEF Row, SyncAssumption
  <2>4. t \in Nat /\ u \in Nat /\ t <= u /\ outages \in Nat
    BY <2>1, <2>3 DEF Tries, Share, TroublesCounted
  <2>5. received[k] <= Expected(k)
    <3>1. received[k] \in Nat
      BY <2>2 DEF DeliveryInv, NetworkIsTyped
    <3>2. Cardinality(ToCome(k)) \in Nat
      <4>1. outbox \in Seq(Entry) /\ ToCome(k) \subseteq DOMAIN outbox
        BY DEF DeliveryInv, NetworkIsTyped, ToCome, Untaken, MessagesOf
      <4> QED  BY <4>1, IndicesAreFinite
    <3> QED  BY <3>1, <3>2 DEF Expected
  <2> HIDE DEF t, u
  <2>6. t * (outages + 1) <= u * (outages + 1)
    BY <2>4, Products
  <2>7. /\ t * (outages + 1) \in Nat /\ u * (outages + 1) \in Nat
        /\ received[k] \in Nat /\ Expected(k) \in Nat
    <3>1. received[k] \in Nat
      BY <2>2 DEF DeliveryInv, NetworkIsTyped
    <3>2. Cardinality(ToCome(k)) \in Nat
      <4>1. outbox \in Seq(Entry) /\ ToCome(k) \subseteq DOMAIN outbox
        BY DEF DeliveryInv, NetworkIsTyped, ToCome, Untaken, MessagesOf
      <4> QED  BY <4>1, IndicesAreFinite
    <3> QED  BY <2>4, <3>1, <3>2 DEF Expected
  <2>8. received[k] <= u * (outages + 1)
    BY <2>1, <2>5, <2>6, <2>7
  <2> QED  BY <2>8 DEF u
<1> QED  BY <1>1, <1>2, <1>3, PTL DEF Spec

-----------------------------------------------------------------------------
(* Entries go in turn. *)

Untroubled == outages + errors + crashes = 0

\* Waiting for its first attempt.
IsNew(k) == rows[k].status = "PENDING" /\ rows[k].attempts = 0

IsEmitted(k) == received[k] > 0 \/ MessagesOf(k) # {}

\* Nobody needs to wait for it any longer.
IsServed(k) == received[k] > 0 \/ rows[k].attempts > 0 \/ rows[k].qos = 0

WorkerIsOnline ==
  /\ ~worker.offline
  /\ worker.batch # {} \/ worker.phase # "looping" => connected

\* No lease is left behind.
ClaimedIsInHand ==
  \A k \in DOMAIN rows : rows[k].status = "CLAIMED" => k \in worker.batch \/ IsHeld(k)

\* The new entries are claimable, and the newest.
NewAreLast ==
  \A j \in DOMAIN rows : IsNew(j) => rows[j].due /\ \A k \in DOMAIN rows : j < k => IsNew(k)

SettledIsServed ==
  \A k \in DOMAIN rows : rows[k].status \in {"DELIVERED", "FAILED"} => IsServed(k)

EmittedInTurn == \A j, k \in DOMAIN rows : j < k /\ IsEmitted(k) => IsServed(j)

InTurn == WorkerIsOnline /\ ClaimedIsInHand /\ NewAreLast /\ SettledIsServed /\ EmittedInTurn

TurnInv == TroublesCounted /\ (Untroubled => InTurn)

LEMMA TurnTypes ==
  ASSUME DeliveryInv, NEW k \in DOMAIN rows
  PROVE  /\ rows[k] \in Row /\ rows[k].attempts \in Nat /\ k \in 1..MaxRows /\ k \in Nat
         /\ received[k] \in Nat
         /\ rows[k].status \in {"PENDING", "CLAIMED", "DELIVERED", "FAILED"}
         /\ rows[k].due \in BOOLEAN
<1>1. rows[k] \in Row /\ k \in 1..MaxRows
  BY InvFacts
<1>2. rows[k].attempts \in 0..MaxAttempts /\ MaxAttempts \in Nat
  BY <1>1, SyncAssumption DEF Row, SyncAssumption
<1> QED  BY <1>1, <1>2 DEF Row, DeliveryInv, NetworkIsTyped

\* What is done stays done.
LEMMA TurnsKept ==
  ASSUME DeliveryInv, DeliveryInv', InTurn, DOMAIN rows' = DOMAIN rows,
         \A k \in DOMAIN rows :
           /\ rows'[k].attempts >= rows[k].attempts /\ rows'[k].qos = rows[k].qos
           /\ received'[k] >= received[k]
           /\ IsEmitted(k)' => IsEmitted(k)
  PROVE  EmittedInTurn' /\ \A k \in DOMAIN rows : IsServed(k) => IsServed(k)'
<1>1. ASSUME NEW k \in DOMAIN rows, IsServed(k)  PROVE IsServed(k)'
  <2>1. /\ rows[k].attempts \in Nat /\ received[k] \in Nat
        /\ rows'[k].attempts \in Nat /\ received'[k] \in Nat
    <3>1. k \in DOMAIN rows' /\ rows[k].attempts \in Nat /\ received[k] \in Nat
      BY TurnTypes
    <3>2. rows'[k] \in Row /\ k \in 1..MaxRows
      BY <3>1, TableFacts DEF DeliveryInv
    <3> QED  BY <3>1, <3>2, SyncAssumption DEF Row, SyncAssumption, DeliveryInv, NetworkIsTyped
  <2> QED  BY <1>1, <2>1 DEF IsServed
<1>2. EmittedInTurn'
  BY <1>1 DEF InTurn, EmittedInTurn
<1> QED  BY <1>1, <1>2

\* The rows stay, and the worker keeps what it has in hand.
LEMMA HandKept ==
  ASSUME DeliveryInv, DeliveryInv', InTurn, UNCHANGED rows,
         worker'.batch = worker.batch, worker'.record = worker.record,
         worker'.offline = worker.offline,
         worker'.phase = "looping" <=> worker.phase = "looping",
         connected => connected',
         \A k \in DOMAIN rows : received'[k] >= received[k] /\ (IsEmitted(k)' => IsEmitted(k))
  PROVE  InTurn'
<1>1. \A k \in DOMAIN rows : rows'[k].attempts >= rows[k].attempts
  BY TurnTypes
<1>2. EmittedInTurn' /\ \A k \in DOMAIN rows : IsServed(k) => IsServed(k)'
  BY <1>1, TurnsKept
<1>3. WorkerIsOnline'
  BY DEF InTurn, WorkerIsOnline
<1>4. ClaimedIsInHand'
  BY DEF InTurn, ClaimedIsInHand, IsHeld
<1>5. NewAreLast'
  BY DEF InTurn, NewAreLast, IsNew
<1>6. SettledIsServed'
  BY <1>2 DEF InTurn, SettledIsServed
<1> QED  BY <1>2, <1>3, <1>4, <1>5, <1>6 DEF InTurn

\* The network's steps emit nothing that was not emitted.
LEMMA NetworkEmitsNothing ==
  ASSUME DeliveryInv, DeliveryInv', NEW k \in DOMAIN rows,
         BrokerTakes \/ Connects \/ PubackArrives \/ GivesUp
  PROVE  /\ received'[k] >= received[k] /\ (IsEmitted(k)' => IsEmitted(k))
         /\ connected => connected'
<1>1. received[k] \in Nat /\ k \in 1..MaxRows /\ received \in [1..MaxRows -> Nat]
  BY TurnTypes DEF DeliveryInv, NetworkIsTyped
<1>2. outbox \in Seq(Entry) /\ \A i \in DOMAIN outbox : outbox[i] \in Entry
  BY DEF DeliveryInv, NetworkIsTyped
<1>3. CASE BrokerTakes
  <2>1. PICK i \in DOMAIN outbox :
          /\ outbox' = [outbox EXCEPT ![i].taken = TRUE]
          /\ received' = [received EXCEPT ![outbox[i].subject] = @ + 1]
    BY <1>3 DEF BrokerTakes
  <2>2. /\ DOMAIN outbox' = DOMAIN outbox
        /\ \A n \in DOMAIN outbox : outbox'[n].subject = outbox[n].subject
    BY <1>2, <2>1 DEF Entry
  <2>3. MessagesOf(k)' = MessagesOf(k)
    BY <2>2 DEF MessagesOf
  <2>4. \/ received'[k] = received[k]
        \/ received'[k] = received[k] + 1 /\ outbox[i].subject = k
    BY <1>1, <2>1
  <2>5. outbox[i].subject = k => MessagesOf(k) # {}
    BY <2>1 DEF MessagesOf
  <2>6. connected'
    BY <1>3 DEF BrokerTakes
  <2> QED  BY <1>1, <2>3, <2>4, <2>5, <2>6 DEF IsEmitted
<1>4. CASE Connects \/ GivesUp
  <2>1. /\ DOMAIN outbox' = DOMAIN outbox /\ received' = received /\ (connected => connected')
        /\ \A n \in DOMAIN outbox : outbox'[n].subject = outbox[n].subject
    BY <1>2, <1>4 DEF Connects, GivesUp, Entry
  <2>2. MessagesOf(k)' = MessagesOf(k)
    BY <2>1 DEF MessagesOf
  <2> QED  BY <1>1, <2>1, <2>2 DEF IsEmitted
<1>5. CASE PubackArrives
  <2>1. outbox # <<>> /\ outbox' = Tail(outbox) /\ UNCHANGED <<connected, received>>
    BY <1>5 DEF PubackArrives
  <2>2. /\ DOMAIN outbox' = 1..Len(outbox)-1 /\ Len(outbox) \in Nat
        /\ \A i \in 1..Len(outbox)-1 : outbox'[i] = outbox[i + 1] /\ i + 1 \in DOMAIN outbox
    BY <1>2, <2>1, TailFacts
  <2>3. MessagesOf(k)' # {} => MessagesOf(k) # {}
    BY <2>2 DEF MessagesOf
  <2> QED  BY <1>1, <2>1, <2>3 DEF IsEmitted
<1> QED  BY <1>3, <1>4, <1>5

\* publish: whatever is older is done, or it would come first.
LEMMA PublishInTurn ==
  ASSUME DeliveryInv, DeliveryInv', InTurn, PublishRecord
  PROVE  InTurn'
<1>1. PICK k \in worker.batch :
        /\ Takes(k)
        /\ \/ Hands(k) /\ worker' = On("awaiting", k, FALSE)
           \/ AcknowledgedTooEarly(k) /\ worker' = On("awaiting", k, FALSE)
           \/ Casts(k) /\ worker' = On("published", k, FALSE)
  BY DEF PublishRecord, Awaits
<1>2. worker.phase = "looping" /\ UNCHANGED rows /\ k \in DOMAIN rows
  BY InvFacts DEF PublishRecord
<1>3. /\ worker'.batch = worker.batch \ {k} /\ worker'.record = k
      /\ worker'.offline = FALSE /\ worker'.phase # "looping"
  BY <1>1 DEF On
<1>4. /\ connected'
      /\ \A i \in DOMAIN rows :
           /\ received'[i] >= received[i]
           /\ i # k => (IsEmitted(i)' => IsEmitted(i))
  <2> SUFFICES ASSUME NEW i \in DOMAIN rows
               PROVE  connected' /\ received'[i] >= received[i]
                      /\ (i # k => (IsEmitted(i)' => IsEmitted(i)))
    BY <1>2
  <2>1. received[i] \in Nat /\ i \in 1..MaxRows /\ received \in [1..MaxRows -> Nat]
    BY TurnTypes DEF DeliveryInv, NetworkIsTyped
  <2>2. CASE Hands(k)
    <3>1. outbox' = Append(outbox, Message(k)) /\ Message(k).subject = k /\ connected'
          /\ received' = received
      BY <2>2 DEF Hands, Message
    <3>2. /\ DOMAIN outbox = 1..Len(outbox) /\ DOMAIN outbox' = 1..Len(outbox)+1
          /\ Len(outbox) \in Nat
          /\ outbox'[Len(outbox) + 1].subject = k
          /\ \A n \in 1..Len(outbox) : outbox'[n] = outbox[n]
      BY <3>1, InvFacts DEF DeliveryInv, NetworkIsTyped
    <3>3. i # k => MessagesOf(i)' = MessagesOf(i)
      BY <3>2 DEF MessagesOf
    <3> QED  BY <2>1, <3>1, <3>3 DEF IsEmitted
  <2>3. CASE AcknowledgedTooEarly(k) \/ Casts(k)
    <3>1. connected' /\ outbox' = outbox
          /\ received' \in {received, [received EXCEPT ![k] = @ + 1]}
      BY <2>3 DEF AcknowledgedTooEarly, Casts
    <3>2. CASE received' = received
      BY <2>1, <3>1, <3>2 DEF IsEmitted, MessagesOf
    <3>3. CASE received' = [received EXCEPT ![k] = @ + 1]
      <4>1. received'[i] = IF i = k THEN received[i] + 1 ELSE received[i]
        BY <2>1, <3>3
      <4> QED  BY <2>1, <3>1, <4>1 DEF IsEmitted, MessagesOf
    <3> QED  BY <3>1, <3>2, <3>3
  <2> QED  BY <1>1, <2>2, <2>3
<1>5. ASSUME NEW j \in DOMAIN rows, j < k  PROVE IsServed(j)
  <2>1. rows[k].status = "CLAIMED" /\ ~IsNew(k) /\ ~IsHeld(j)
    BY <1>2 DEF DeliveryInv, BatchIsClaimed, IsNew, IsHeld
  <2>2. ~IsNew(j)
    BY <1>2, <1>5, <2>1 DEF InTurn, NewAreLast
  <2>3. j \notin worker.batch
    <3>1. j \in Nat /\ k \in Nat
      BY <1>2, TurnTypes
    <3> QED  BY <1>1, <1>5, <3>1 DEF Takes
  <2>4. rows[j].status # "CLAIMED"
    BY <2>1, <2>3 DEF InTurn, ClaimedIsInHand
  <2>5. CASE rows[j].status = "PENDING"
    BY <2>2, <2>5, TurnTypes DEF IsNew, IsServed
  <2>6. CASE rows[j].status \in {"DELIVERED", "FAILED"}
    BY <2>6 DEF InTurn, SettledIsServed
  <2> QED  BY <2>4, <2>5, <2>6, TurnTypes
<1>6. \A i \in DOMAIN rows : IsServed(i) => IsServed(i)'
  <2> SUFFICES ASSUME NEW i \in DOMAIN rows, IsServed(i)  PROVE IsServed(i)'
    OBVIOUS
  <2>1. received[i] \in Nat /\ received'[i] \in Nat /\ received'[i] >= received[i]
    BY <1>4, TurnTypes DEF DeliveryInv, NetworkIsTyped
  <2> QED  BY <1>2, <2>1 DEF IsServed
<1>7. EmittedInTurn'
  BY <1>2, <1>4, <1>5, <1>6 DEF InTurn, EmittedInTurn
<1>8. WorkerIsOnline'
  BY <1>3, <1>4 DEF WorkerIsOnline
<1>9. ClaimedIsInHand'
  BY <1>2, <1>3 DEF InTurn, ClaimedIsInHand, IsHeld
<1>10. NewAreLast'
  BY <1>2 DEF InTurn, NewAreLast, IsNew
<1>11. SettledIsServed'
  BY <1>2, <1>6 DEF InTurn, SettledIsServed
<1> QED  BY <1>7, <1>8, <1>9, <1>10, <1>11 DEF InTurn

\* mark_delivered and mark_failed settle the record in hand, or count its attempt.
LEMMA MarkInTurn ==
  ASSUME DeliveryInv, DeliveryInv', InTurn, MarkDelivered \/ MarkFailed
  PROVE  InTurn'
<1>0. PICK j \in DOMAIN rows : j = worker.record /\ rows[j].status = "CLAIMED"
  BY DEF MarkDelivered, MarkFailed, DeliveryInv, BatchIsClaimed
<1> DEFINE old == rows[j]
           new == rows'[j]
<1>1. /\ worker.phase # "looping" /\ old \in Row /\ Lives(old)
      /\ UNCHANGED <<connected, outbox, received>>
      /\ worker' = [worker EXCEPT !.phase = "looping"]
  BY <1>0, InvFacts DEF MarkDelivered, MarkFailed, InTurn, WorkerIsOnline, clientVars
<1>2. /\ DOMAIN rows' = DOMAIN rows
      /\ \A i \in DOMAIN rows : i # j => rows'[i] = rows[i]
      /\ \/ worker.phase = "published" /\ new = Delivered(old)
         \/ new = Failed(old)
  BY <1>0, <1>1 DEF MarkDelivered, MarkFailed
<1>3. /\ worker'.batch = worker.batch /\ worker'.phase = "looping"
      /\ worker'.offline = worker.offline /\ worker'.record = j
  BY <1>0, <1>1 DEF DeliveryInv, Reads
<1>4. old.attempts \in Nat /\ received[j] \in Nat /\ old.qos \in {0, 1}
  BY <1>0, <1>1, TurnTypes DEF Row
<1> DEFINE d == Delivered(old)
           f == Failed(old)
<1>5. /\ d.qos = old.qos /\ d.status = "DELIVERED" /\ d.attempts = old.attempts
      /\ f.qos = old.qos /\ f.status \in {"PENDING", "FAILED"} /\ f.attempts = old.attempts + 1
  <2>1. d.qos = old.qos /\ d.status = "DELIVERED" /\ d.attempts = old.attempts
    BY <1>1, UnlockedRow DEF Delivered
  <2>2. f.qos = old.qos
    BY <1>0, <1>1, FailedLives
  <2> QED  BY <1>1, <2>1, <2>2, FailedAttempts
<1>a. (worker.phase = "published" /\ new = d) \/ new = f
  BY <1>2
<1> HIDE DEF old, new, d, f
<1>6. /\ new.qos = old.qos
      /\ \/ /\ new.status = "DELIVERED" /\ new.attempts = old.attempts
            /\ worker.phase = "published"
         \/ new.status \in {"PENDING", "FAILED"} /\ new.attempts = old.attempts + 1
  BY <1>5, <1>a
<1>7. new.attempts >= old.attempts /\ new.status # "CLAIMED"
      /\ ~(new.status = "PENDING" /\ new.attempts = 0)
  BY <1>4, <1>6
<1>8. worker.phase = "published" => received[j] > 0 \/ old.qos = 0
  BY <1>0, <1>4 DEF DeliveryInv, PublishedHasArrived, old
<1>10. /\ rows[j] = old /\ rows'[j] = new
       /\ \A i : IsHeld(i) => i = j
  BY <1>0 DEF old, new, IsHeld
<1>9. IsServed(j)'
  BY <1>1, <1>4, <1>6, <1>8, <1>10 DEF IsServed
<1>11. \A i \in DOMAIN rows :
         /\ rows'[i].attempts >= rows[i].attempts /\ rows'[i].qos = rows[i].qos
         /\ received'[i] >= received[i]
         /\ IsEmitted(i)' => IsEmitted(i)
  <2> TAKE i \in DOMAIN rows
  <2>1. received[i] \in Nat /\ rows[i].attempts \in Nat
    BY TurnTypes
  <2> QED  BY <1>1, <1>2, <1>6, <1>7, <1>10, <2>1 DEF IsEmitted, MessagesOf
<1>12. EmittedInTurn' /\ \A i \in DOMAIN rows : IsServed(i) => IsServed(i)'
  BY <1>2, <1>11, TurnsKept
<1>13. WorkerIsOnline'
  BY <1>1, <1>3 DEF InTurn, WorkerIsOnline
<1>14. ClaimedIsInHand'
  BY <1>2, <1>3, <1>7, <1>10 DEF InTurn, ClaimedIsInHand
<1>15. ~IsNew(j)'
  BY <1>7, <1>10 DEF IsNew
<1>16. ~IsNew(j)
  BY <1>0 DEF IsNew
<1>17. \A i \in DOMAIN rows : IsNew(i)' <=> IsNew(i)
  BY <1>2, <1>15, <1>16 DEF IsNew
<1>18. \A i \in DOMAIN rows : IsNew(i) => i # j
  BY <1>16
<1>19. NewAreLast'
  BY <1>2, <1>17, <1>18 DEF InTurn, NewAreLast
<1>20. SettledIsServed'
  BY <1>2, <1>9, <1>12 DEF InTurn, SettledIsServed
<1> QED  BY <1>12, <1>13, <1>14, <1>19, <1>20 DEF InTurn

\* Of what is claimable, claim_batch leaves no older entry for a newer one.
LEMMA OldestAreFirst ==
  ASSUME NEW S, IsFiniteSet(S), S \subseteq Nat, NEW k \in Oldest(S), NEW j \in S, j < k
  PROVE  j \in Oldest(S)
<1> DEFINE older(i) == {n \in S : n < i}
<1>1. older(j) \subseteq older(k)
  <2>1. k \in S /\ k \in Nat /\ j \in Nat
    BY DEF Oldest
  <2>2. ASSUME NEW n \in S, n < j  PROVE n < k
    <3>1. n \in Nat
      OBVIOUS
    <3> QED  BY <2>1, <2>2, <3>1
  <2> QED  BY <2>2
<1>2. older(k) \subseteq S /\ older(j) \subseteq S
  OBVIOUS
<1>3. /\ Cardinality(older(j)) <= Cardinality(older(k))
      /\ Cardinality(older(j)) \in Nat /\ Cardinality(older(k)) \in Nat
  BY <1>1, <1>2, FS_Subset, FS_CardinalityType
<1>4. Cardinality(older(k)) < BatchSize /\ BatchSize \in Nat
  BY SyncAssumption DEF Oldest, SyncAssumption
<1>5. Cardinality(older(j)) < BatchSize
  BY <1>3, <1>4
<1> QED  BY <1>5 DEF Oldest

\* With no lease left behind, a cycle claims the oldest entries that wait.
LEMMA CycleInTurn ==
  ASSUME DeliveryInv, DeliveryInv', InTurn, StartCycle
  PROVE  InTurn'
<1>1. worker.phase = "looping" /\ worker.batch = {} /\ connected
      /\ UNCHANGED <<connected, outbox, received>>
  BY DEF StartCycle, clientVars
<1>2. \A k \in DOMAIN rows : rows[k].status # "CLAIMED"
  BY <1>1 DEF InTurn, ClaimedIsInHand, IsHeld
<1>3. Table(rows) /\ DOMAIN rows = 1..Len(rows) /\ Len(rows) \in Nat /\ rows \in Seq(Row)
  BY InvFacts DEF DeliveryInv, Table
<1>4. Released(rows) = rows
  BY <1>2, <1>3 DEF Released, IsStaleLock
<1> DEFINE waiting == Claimable(rows)
           ids == Oldest(waiting)
<1>5. rows' = Claimed(rows, ids) /\ worker' = [worker EXCEPT !.batch = ids]
  BY <1>4 DEF StartCycle
<1>6. ids \in SUBSET waiting /\ waiting \subseteq DOMAIN rows
  BY DEF Oldest, Claimable
<1>7. IsFiniteSet(waiting) /\ waiting \subseteq Nat
  <2>1. 1 \in Int /\ Len(rows) \in Int
    BY <1>3
  <2>2. IsFiniteSet(DOMAIN rows)
    BY <1>3, <2>1, FS_Interval
  <2> QED  BY <1>3, <1>6, <2>2, FS_Subset
<1>8. \A k \in DOMAIN rows :
        /\ rows'[k].status = IF k \in ids THEN "CLAIMED" ELSE rows[k].status
        /\ rows'[k].attempts = rows[k].attempts /\ rows'[k].qos = rows[k].qos
        /\ rows'[k].due = rows[k].due
  <2> TAKE k \in DOMAIN rows
  <2> DEFINE claimed == [rows[k] EXCEPT !.status = "CLAIMED"]
  <2>1. /\ claimed.status = "CLAIMED" /\ claimed.attempts = rows[k].attempts
        /\ claimed.qos = rows[k].qos /\ claimed.due = rows[k].due
    BY TurnTypes DEF Row
  <2>2. rows'[k] = IF k \in ids THEN claimed ELSE rows[k]
    BY <1>5 DEF Claimed
  <2> HIDE DEF claimed, ids
  <2> QED  BY <2>1, <2>2
<1>9. DOMAIN rows' = DOMAIN rows
  BY <1>5 DEF Claimed
<1>10. worker'.batch = ids /\ worker'.phase = "looping" /\ worker'.offline = worker.offline
  BY <1>1, <1>5 DEF DeliveryInv, Reads
<1>11. \A k \in DOMAIN rows : k \in waiting <=> rows[k].status = "PENDING" /\ rows[k].due
  BY DEF Claimable
<1>12. \A j, k \in waiting : k \in ids /\ j < k => j \in ids
  BY <1>7, OldestAreFirst
<1> HIDE DEF waiting, ids
<1>13. \A k \in DOMAIN rows : IsNew(k)' <=> IsNew(k) /\ k \notin ids
  BY <1>8 DEF IsNew
<1>14. NewAreLast'
  <2> SUFFICES ASSUME NEW j \in DOMAIN rows, IsNew(j), j \notin ids
               PROVE  rows'[j].due /\ \A k \in DOMAIN rows : j < k => IsNew(k) /\ k \notin ids
    BY <1>9, <1>13 DEF NewAreLast
  <2>1. rows[j].due /\ \A k \in DOMAIN rows : j < k => IsNew(k)
    BY DEF InTurn, NewAreLast
  <2>2. j \in waiting
    BY <1>11, <2>1 DEF IsNew
  <2>3. \A k \in DOMAIN rows : j < k => k \notin ids
    BY <1>6, <1>12, <2>2
  <2> QED  BY <1>8, <2>1, <2>3
<1>15. \A k \in DOMAIN rows :
         /\ rows'[k].attempts >= rows[k].attempts /\ rows'[k].qos = rows[k].qos
         /\ received'[k] >= received[k]
         /\ IsEmitted(k)' => IsEmitted(k)
  <2> TAKE k \in DOMAIN rows
  <2>1. received[k] \in Nat /\ rows[k].attempts \in Nat
    BY TurnTypes
  <2> QED  BY <1>1, <1>8, <2>1 DEF IsEmitted, MessagesOf
<1>16. EmittedInTurn' /\ \A k \in DOMAIN rows : IsServed(k) => IsServed(k)'
  BY <1>9, <1>15, TurnsKept
<1>17. WorkerIsOnline'
  BY <1>1, <1>10 DEF InTurn, WorkerIsOnline
<1>18. ClaimedIsInHand'
  BY <1>2, <1>8, <1>9, <1>10 DEF ClaimedIsInHand
<1>19. SettledIsServed'
  <2> SUFFICES ASSUME NEW k \in DOMAIN rows, rows'[k].status \in {"DELIVERED", "FAILED"}
               PROVE  IsServed(k)'
    BY <1>9 DEF SettledIsServed
  <2>1. rows[k].status \in {"DELIVERED", "FAILED"}
    BY <1>8
  <2> QED  BY <1>16, <2>1 DEF InTurn, SettledIsServed
<1> QED  BY <1>14, <1>16, <1>17, <1>18, <1>19 DEF InTurn

\* A backoff or a lease runs out.
LEMMA TimeInTurn ==
  ASSUME DeliveryInv, DeliveryInv', InTurn, NEW i \in DOMAIN rows, TimePasses(i)
  PROVE  InTurn'
<1>1. UNCHANGED <<worker, connected, outbox, received>> /\ DOMAIN rows' = DOMAIN rows
  BY DEF TimePasses, clientVars
<1>2. rows[i] \in Row
  BY TurnTypes
<1>3. \A k \in DOMAIN rows :
        /\ rows'[k].status = rows[k].status /\ rows'[k].attempts = rows[k].attempts
        /\ rows'[k].qos = rows[k].qos /\ (rows[k].due => rows'[k].due)
  BY <1>2 DEF TimePasses, Row
<1>4. \A k \in DOMAIN rows :
        /\ rows'[k].attempts >= rows[k].attempts /\ rows'[k].qos = rows[k].qos
        /\ received'[k] >= received[k]
        /\ IsEmitted(k)' => IsEmitted(k)
  <2> TAKE k \in DOMAIN rows
  <2>1. received[k] \in Nat /\ rows[k].attempts \in Nat
    BY TurnTypes
  <2> QED  BY <1>1, <1>3, <2>1 DEF IsEmitted, MessagesOf
<1>5. EmittedInTurn' /\ \A k \in DOMAIN rows : IsServed(k) => IsServed(k)'
  BY <1>1, <1>4, TurnsKept
<1>6. WorkerIsOnline'
  BY <1>1 DEF InTurn, WorkerIsOnline
<1>7. ClaimedIsInHand'
  BY <1>1, <1>3 DEF InTurn, ClaimedIsInHand, IsHeld
<1>8. NewAreLast'
  BY <1>1, <1>3 DEF InTurn, NewAreLast, IsNew
<1>9. SettledIsServed'
  <2> SUFFICES ASSUME NEW k \in DOMAIN rows, rows'[k].status \in {"DELIVERED", "FAILED"}
               PROVE  IsServed(k)'
    BY <1>1 DEF SettledIsServed
  <2> QED  BY <1>3, <1>5 DEF InTurn, SettledIsServed
<1> QED  BY <1>5, <1>6, <1>7, <1>8, <1>9 DEF InTurn

LEMMA EnqueueInTurn ==
  ASSUME DeliveryInv, DeliveryInv', InTurn, Enqueue
  PROVE  InTurn'
<1> DEFINE new == Len(rows) + 1
<1>1. PICK q \in Qos(new) : rows' = Append(rows, NewRow(q))
  BY DEF Enqueue
<1>2. UNCHANGED <<worker, connected, outbox, received>> /\ Len(rows) < MaxRows
  BY DEF Enqueue, clientVars
<1>3. Len(rows) \in Nat /\ DOMAIN rows = 1..Len(rows) /\ new \in 1..MaxRows /\ new \notin DOMAIN rows
  BY <1>2, InvFacts, SyncAssumption DEF SyncAssumption
<1>4. /\ DOMAIN rows' = 1..new /\ \A i \in DOMAIN rows : rows'[i] = rows[i]
      /\ rows'[new] = NewRow(q)
  BY <1>1, <1>3, InvFacts DEF DeliveryInv, Table
<1>5. rows'[new].status = "PENDING" /\ rows'[new].attempts = 0 /\ rows'[new].due
  BY <1>4 DEF NewRow
<1>6. MessagesOf(new) = {} /\ received[new] = 0
  <2>1. MessagesOf(new) = {}
    BY <1>3 DEF MessagesOf, DeliveryInv, TakenWasReceived
  <2> QED  BY <1>3, <2>1 DEF DeliveryInv, NetworkIsTyped, TakenWasReceived
<1>7. \A i : IsEmitted(i)' = IsEmitted(i)
  BY <1>2 DEF IsEmitted, MessagesOf
<1>8. ~IsEmitted(new)
  BY <1>6 DEF IsEmitted
<1> HIDE DEF new
<1>9. \A i \in DOMAIN rows' : i \in DOMAIN rows \/ i = new
  BY <1>3, <1>4 DEF new
<1>10. \A i \in DOMAIN rows : IsServed(i)' = IsServed(i) /\ IsNew(i)' = IsNew(i)
  BY <1>2, <1>4 DEF IsServed, IsNew
<1>11. /\ \A i \in DOMAIN rows' : ~(new < i)
       /\ DOMAIN rows \subseteq DOMAIN rows'
  BY <1>3, <1>4 DEF new
<1>12. WorkerIsOnline'
  BY <1>2 DEF InTurn, WorkerIsOnline
<1>13. ClaimedIsInHand'
  BY <1>2, <1>4, <1>5, <1>9 DEF InTurn, ClaimedIsInHand, IsHeld
<1>14. NewAreLast'
  <2>1. \A i : i = new => IsNew(i)'
    BY <1>5 DEF IsNew
  <2> QED  BY <1>4, <1>5, <1>9, <1>10, <1>11, <2>1 DEF InTurn, NewAreLast
<1>15. SettledIsServed'
  BY <1>4, <1>5, <1>9, <1>10 DEF InTurn, SettledIsServed
<1>16. EmittedInTurn'
  BY <1>7, <1>8, <1>9, <1>10, <1>11 DEF InTurn, EmittedInTurn
<1> QED  BY <1>12, <1>13, <1>14, <1>15, <1>16 DEF InTurn

LEMMA NoneOfThree ==
  ASSUME NEW a \in Nat, NEW b \in Nat, NEW c \in Nat, a + b + c = 0
  PROVE  a = 0 /\ b = 0 /\ c = 0
OBVIOUS

LEMMA TurnStep ==
  ASSUME DeliveryInv, DeliveryInv', TurnInv, [Next]_vars
  PROVE  TurnInv'
<1>1. /\ TroublesCounted /\ TroublesCounted'
      /\ outages' >= outages /\ errors' >= errors /\ crashes' >= crashes
  BY TroublesGrow DEF TurnInv
<1> SUFFICES ASSUME Untroubled'  PROVE InTurn'
  BY <1>1 DEF TurnInv
<1>2. /\ outages = 0 /\ errors = 0 /\ crashes = 0
      /\ outages' = 0 /\ errors' = 0 /\ crashes' = 0
  <2>1. outages \in Nat /\ errors \in Nat /\ crashes \in Nat
    BY <1>1 DEF TroublesCounted
  <2>2. outages' \in Nat /\ errors' \in Nat /\ crashes' \in Nat
    BY <1>1 DEF TroublesCounted
  <2>3. outages' + errors' + crashes' = 0
    BY DEF Untroubled
  <2>4. outages' = 0 /\ errors' = 0 /\ crashes' = 0
    BY <2>2, <2>3, NoneOfThree
  <2> QED  BY <1>1, <2>1, <2>4
<1>3. InTurn
  BY <1>2 DEF TurnInv, Untroubled
<1>4. QueueStep
  BY NextIsQueueStep
<1>5. ~WorkerFails /\ ~MarkFailedFails /\ ~Restart /\ ~Disconnects
  BY <1>2 DEF WorkerFails, PublishFails, MarkDeliveredFails, MarkFailedFails, Raises,
              Restart, Disconnects
<1>6. ~PublishOffline
  BY <1>3 DEF InTurn, WorkerIsOnline, PublishOffline
<1>7. CASE Enqueue
  BY <1>3, <1>7, EnqueueInTurn
<1>8. CASE StartCycle
  BY <1>3, <1>8, CycleInTurn
<1>9. CASE PublishRecord
  BY <1>3, <1>9, PublishInTurn
<1>10. CASE MarkDelivered \/ MarkFailed
  BY <1>3, <1>10, MarkInTurn
<1>11. CASE \E i \in DOMAIN rows : TimePasses(i)
  BY <1>3, <1>11, TimeInTurn
<1>12. CASE PublishTimesOut
  <2>1. /\ GivesUp /\ UNCHANGED rows /\ worker.phase # "looping"
        /\ worker' = [worker EXCEPT !.phase = "failing"]
    BY <1>12 DEF PublishTimesOut
  <2>2. /\ worker'.batch = worker.batch /\ worker'.record = worker.record
        /\ worker'.offline = worker.offline /\ worker'.phase # "looping"
    BY <2>1 DEF DeliveryInv, Reads
  <2>3. connected' = connected
    BY <2>1 DEF GivesUp
  <2> QED  BY <1>3, <2>1, <2>2, <2>3, NetworkEmitsNothing, HandKept
<1>13. CASE PublishReturns
  <2>1. /\ PubackArrives /\ UNCHANGED rows
        /\ worker' = IF Head(outbox).awaited THEN [worker EXCEPT !.phase = "published"] ELSE worker
    BY <1>13 DEF PublishReturns
  <2>2. Head(outbox) = outbox[1] /\ 1 \in DOMAIN outbox
    BY <2>1, OutboxTail
  <2>3. Head(outbox).awaited => worker.phase = "awaiting"
    BY <2>2 DEF DeliveryInv, AwaitsTheRecord
  <2>4. /\ worker'.batch = worker.batch /\ worker'.record = worker.record
        /\ worker'.offline = worker.offline
        /\ worker'.phase = "looping" <=> worker.phase = "looping"
    BY <2>1, <2>3 DEF DeliveryInv, Reads
  <2>5. connected' = connected
    BY <2>1 DEF PubackArrives
  <2> QED  BY <1>3, <2>1, <2>4, <2>5, NetworkEmitsNothing, HandKept
<1>14. CASE (BrokerTakes \/ Connects) /\ UNCHANGED syncVars
  <2>1. UNCHANGED <<rows, worker>>
    BY <1>14 DEF syncVars
  <2>2. connected => connected'
    BY <1>14 DEF BrokerTakes, Connects
  <2> QED  BY <1>3, <1>14, <2>1, <2>2, NetworkEmitsNothing, HandKept
<1>15. CASE UNCHANGED <<rows, worker, clientVars>>
  <2>1. UNCHANGED <<rows, worker, connected, outbox, received>>
    BY <1>15 DEF clientVars
  <2>2. \A k \in DOMAIN rows : received'[k] >= received[k] /\ (IsEmitted(k)' => IsEmitted(k))
    <3> TAKE k \in DOMAIN rows
    <3>1. received[k] \in Nat
      BY TurnTypes
    <3> QED  BY <2>1, <3>1 DEF IsEmitted, MessagesOf
  <2> QED  BY <1>3, <2>1, <2>2, HandKept
<1> QED
  BY <1>4, <1>5, <1>6, <1>7, <1>8, <1>9, <1>10, <1>11, <1>12, <1>13, <1>14, <1>15
     DEF QueueStep, SyncStep, WorkerStep, NetworkStep

\* As long as no connection is lost, no statement raises and no process ends, the
\* cloud hears of an entry after every older one, but for those that failed at
\* least once and those of QoS 0, which may be lost (claim_batch and _cycle).
THEOREM EntriesGoInTurn == Spec => []OvertakenOnlyAfterFailure
<1>1. Init => DeliveryInv /\ TurnInv
  <2> SUFFICES ASSUME Init  PROVE TurnInv
    BY InitDelivery
  <2>1. /\ rows = <<>> /\ outages = 0 /\ errors = 0 /\ crashes = 0
        /\ worker.offline = FALSE /\ worker.batch = {} /\ worker.phase = "looping"
    BY DEF Init, SyncInit, ClientInit, Idle
  <2> QED
    BY <2>1 DEF TurnInv, TroublesCounted, InTurn, WorkerIsOnline, ClaimedIsInHand,
                NewAreLast, SettledIsServed, EmittedInTurn
<1>2. DeliveryInv /\ TurnInv /\ [Next]_vars => DeliveryInv' /\ TurnInv'
  BY NextIsQueueStep, QueueStepPreserves, TurnStep
<1>3. DeliveryInv /\ TurnInv => OvertakenOnlyAfterFailure
  <2> SUFFICES ASSUME DeliveryInv, InTurn, NEW j \in DOMAIN rows, NEW k \in DOMAIN rows,
                      j < k, received[j] = 0, received[k] > 0
               PROVE  rows[j].attempts > 0 \/ rows[j].qos = 0
    BY DEF TurnInv, Untroubled, OvertakenOnlyAfterFailure
  <2>1. IsServed(j)
    BY DEF InTurn, EmittedInTurn, IsEmitted
  <2> QED  BY <2>1 DEF IsServed
<1> QED  BY <1>1, <1>2, <1>3, PTL DEF Spec

=============================================================================

---------------------------- MODULE SyncDelivery ----------------------------
(***************************************************************************)
(* The sync queue in the database (persistence/repositories/sync_queue.py) *)
(* and the SyncWorker that publishes its entries over MQTT                 *)
(* (cloud/sync_worker.py), through lost connections, timeouts, failing     *)
(* statements and restarts of the process.                                 *)
(*                                                                         *)
(* The k-th row is the k-th in created_at, and k its deduplication key: an *)
(* enqueue with a key that exists changes nothing.  One process drains the *)
(* queue.                                                                  *)
(***************************************************************************)
EXTENDS MqttClient, FiniteSets

CONSTANTS
  Qos(_),          \* what the QoS of the k-th entry may be
  MaxRows,         \* bound: entries enqueued
  BatchSize,       \* batch_size
  MaxAttempts,     \* max_attempts
  MaxErrors,       \* bound: statements that raise
  MaxCrashes       \* bound: restarts of the process

VARIABLES
  rows,            \* the sync_queue table
  worker,          \* the SyncWorker's place in _cycle
  errors, crashes

syncVars == <<rows, worker, errors, crashes>>

ASSUME SyncAssumption ==
  /\ {MaxRows, MaxOutages, MaxErrors, MaxCrashes} \subseteq Nat
  /\ {BatchSize, MaxAttempts} \subseteq Nat \ {0}
  /\ \A k \in 1..MaxRows : Qos(k) \subseteq {0, 1}

-----------------------------------------------------------------------------
(* The queue. *)

\* due: available_at has come; stale: locked_at is past the lease.
NewRow(qos) ==
  [qos |-> qos, status |-> "PENDING", attempts |-> 0, due |-> TRUE, stale |-> FALSE]

IsStaleLock(row) == row.status = "CLAIMED" /\ row.stale

\* locked_at = None
Unlocked(row, status) == [row EXCEPT !.status = status, !.stale = FALSE]

\* Mutant of Released: no lease is ever taken away.
ReleasedNever(table) == table

\* release_stale_locks
Released(table) ==
  [k \in DOMAIN table |->
     IF IsStaleLock(table[k]) THEN Unlocked(table[k], "PENDING") ELSE table[k]]

Claimable(table) == {k \in DOMAIN table : table[k].status = "PENDING" /\ table[k].due}

\* Mutant of Oldest: the newest entries are claimed first.
Newest(ids) == {k \in ids : Cardinality({j \in ids : j > k}) < BatchSize}

Oldest(ids) == {k \in ids : Cardinality({j \in ids : j < k}) < BatchSize}

\* claim_batch
Claimed(table, ids) ==
  [k \in DOMAIN table |->
     IF k \in ids THEN [table[k] EXCEPT !.status = "CLAIMED"] ELSE table[k]]

\* Mutant of Delivered: the row stays CLAIMED.
DeliveredUnmarked(row) == [row EXCEPT !.stale = FALSE]

Delivered(row) == Unlocked(row, "DELIVERED")

\* Mutant of Failed: one attempt too many.
FailedLate(row) ==
  IF row.attempts + 1 > MaxAttempts
  THEN [Unlocked(row, "FAILED") EXCEPT !.attempts = @ + 1]
  ELSE [Unlocked(row, "PENDING") EXCEPT !.attempts = @ + 1, !.due = FALSE]

\* mark_failed, whatever the row's status is.
Failed(row) ==
  IF row.attempts + 1 >= MaxAttempts
  THEN [Unlocked(row, "FAILED") EXCEPT !.attempts = @ + 1]
  ELSE [Unlocked(row, "PENDING") EXCEPT !.attempts = @ + 1, !.due = FALSE]

-----------------------------------------------------------------------------

Idle == [phase |-> "looping", batch |-> {}, record |-> 0, offline |-> FALSE]

SyncInit ==
  /\ rows = <<>>
  /\ worker = Idle
  /\ received = [k \in 1..MaxRows |-> 0]
  /\ errors = 0 /\ crashes = 0

\* A producer commits an entry.
Enqueue ==
  /\ Len(rows) < MaxRows
  /\ \E qos \in Qos(Len(rows) + 1) : rows' = Append(rows, NewRow(qos))
  /\ UNCHANGED <<worker, errors, crashes, clientVars>>

\* A backoff or a lease runs out.
TimePasses(k) ==
  /\ \/ /\ rows[k].status = "PENDING" /\ ~rows[k].due
        /\ rows' = [rows EXCEPT ![k].due = TRUE]
     \/ /\ rows[k].status = "CLAIMED" /\ ~rows[k].stale
        /\ rows' = [rows EXCEPT ![k].stale = TRUE]
  /\ UNCHANGED <<worker, errors, crashes, clientVars>>

Raises == errors < MaxErrors /\ errors' = errors + 1

\* The database refuses release_stale_locks and claim_batch: their transaction is
\* rolled back and nothing happens.
StartCycle ==
  /\ worker.phase = "looping" /\ worker.batch = {}
  /\ connected
  /\ LET free == Released(rows)
         ids == Oldest(Claimable(free)) IN
     /\ rows' = Claimed(free, ids)
     /\ worker' = [worker EXCEPT !.batch = ids]
  /\ UNCHANGED <<errors, crashes, clientVars>>

\* The records of the batch come in the order of created_at.
Takes(k) == k \in worker.batch /\ \A j \in worker.batch : k <= j

On(phase, k, offline) ==
  [phase |-> phase, batch |-> worker.batch \ {k}, record |-> k, offline |-> offline]

\* Mutant of Awaits: marked without waiting for the PUBACK.
Forgets(k) == Hands(k) /\ worker' = On("published", k, FALSE)

Awaits(k) == (Hands(k) \/ AcknowledgedTooEarly(k)) /\ worker' = On("awaiting", k, FALSE)

\* map_record and publish, up to where publish waits.
PublishRecord ==
  /\ worker.phase = "looping"
  /\ \E k \in worker.batch :
       /\ Takes(k)
       /\ \/ rows[k].qos = 1 /\ Awaits(k)
          \/ rows[k].qos = 0 /\ Casts(k) /\ worker' = On("published", k, FALSE)
  /\ UNCHANGED <<rows, errors, crashes>>

\* publish raises MqttNotConnectedError.
PublishOffline ==
  /\ worker.phase = "looping"
  /\ ~connected
  /\ \E k \in worker.batch : Takes(k) /\ worker' = On("failing", k, TRUE)
  /\ UNCHANGED <<rows, errors, crashes, clientVars>>

\* map_record raises, or the library refuses the message.
PublishFails ==
  /\ worker.phase = "looping"
  /\ Raises
  /\ \E k \in worker.batch :
       /\ Takes(k)
       /\ worker' = On("failing", k, FALSE)
       /\ Refuses(k) \/ UNCHANGED clientVars
  /\ UNCHANGED <<rows, crashes>>

\* The PUBACK that publish waits for.
PublishReturns ==
  /\ PubackArrives
  /\ worker' = IF Head(outbox).awaited THEN [worker EXCEPT !.phase = "published"] ELSE worker
  /\ UNCHANGED <<rows, errors, crashes>>

\* No PUBACK within 10 seconds.
PublishTimesOut ==
  /\ worker.phase = "awaiting"
  /\ GivesUp
  /\ worker' = [worker EXCEPT !.phase = "failing"]
  /\ UNCHANGED <<rows, errors, crashes>>

MarkDelivered ==
  /\ worker.phase = "published"
  /\ rows' = [rows EXCEPT ![worker.record] = Delivered(@)]
  /\ worker' = [worker EXCEPT !.phase = "looping"]
  /\ UNCHANGED <<errors, crashes, clientVars>>

\* mark_delivered raises: the entry counts as malformed.
MarkDeliveredFails ==
  /\ worker.phase = "published"
  /\ Raises
  /\ worker' = [worker EXCEPT !.phase = "failing"]
  /\ UNCHANGED <<rows, crashes, clientVars>>

\* When offline the rest of the batch stays claimed until its lease is stale.
MarkFailed ==
  /\ worker.phase = "failing"
  /\ rows' = [rows EXCEPT ![worker.record] = Failed(@)]
  /\ worker' = IF worker.offline THEN Idle ELSE [worker EXCEPT !.phase = "looping"]
  /\ UNCHANGED <<errors, crashes, clientVars>>

\* mark_failed raises out of _cycle, and _run goes on.
MarkFailedFails ==
  /\ worker.phase = "failing"
  /\ Raises
  /\ worker' = Idle
  /\ UNCHANGED <<rows, crashes, clientVars>>

\* The process ends and starts again: RecoveryService.recover releases the leases
\* that are stale by then.
Restart ==
  /\ crashes < MaxCrashes /\ crashes' = crashes + 1
  /\ rows' = Released(rows)
  /\ worker' = Idle
  /\ ClientEnds
  /\ UNCHANGED errors

WorkerStep ==
  \/ StartCycle \/ PublishRecord \/ PublishOffline \/ PublishTimesOut
  \/ MarkDelivered \/ MarkFailed

WorkerFails == PublishFails \/ MarkDeliveredFails \/ MarkFailedFails

NetworkStep ==
  \/ PublishReturns
  \/ (BrokerTakes \/ Connects \/ Disconnects) /\ UNCHANGED syncVars

SyncStep ==
  \/ Enqueue \/ WorkerStep \/ WorkerFails \/ NetworkStep
  \/ \E k \in DOMAIN rows : TimePasses(k)

-----------------------------------------------------------------------------
(* Properties *)

SyncTypeOK ==
  /\ rows \in Seq([qos: {0, 1}, status: {"PENDING", "CLAIMED", "DELIVERED", "FAILED"},
                   attempts: 0..MaxAttempts, due: BOOLEAN, stale: BOOLEAN])
  /\ Len(rows) <= MaxRows
  /\ worker \in [phase: {"looping", "awaiting", "published", "failing"},
                 batch: SUBSET DOMAIN rows, record: {0} \union DOMAIN rows,
                 offline: BOOLEAN]
  /\ connected \in BOOLEAN
  /\ outbox \in Seq([subject: 1..MaxRows, taken: BOOLEAN, awaited: BOOLEAN])
  /\ received \in [1..MaxRows -> Nat]

Verdict(row) ==
  IF row.status = "DELIVERED" THEN "confirmed"
  ELSE IF row.status = "FAILED" THEN "abandoned"
  ELSE "waiting"

\* The queue, its worker and the network implement at-least-once delivery: no
\* race of leases, timeouts, lost connections, failing statements and restarts
\* marks a QoS 1 entry DELIVERED that the broker has not received, and what is
\* DELIVERED or FAILED stays so, although mark_failed looks at no status.
Promise ==
  INSTANCE AtLeastOnce
    WITH qos     <- [k \in DOMAIN rows |-> rows[k].qos],
         verdict <- [k \in DOMAIN rows |-> Verdict(rows[k])],
         arrived <- {k \in DOMAIN rows : received[k] > 0}
DeliveryIsAtLeastOnce == Promise!Spec

\* Every entry ends up DELIVERED or FAILED: none is left claimed by a worker that
\* is gone, and none is tried for ever.
EveryEntryIsSettled ==
  \A k \in 1..MaxRows :
    Len(rows) >= k ~> k \in DOMAIN rows /\ Verdict(rows[k]) # "waiting"

\* A copy too many has a cause: an attempt that was given up, a connection lost
\* before the PUBACK, a statement that raised, or a restart.
DuplicatesHaveCauses ==
  \A k \in DOMAIN rows :
    received[k] <= (rows[k].attempts + errors + crashes + 1) * (outages + 1)

\* "Ordering: claim sorts by created_at ascending (practical per-entity FIFO)":
\* while nothing else goes wrong, an entry is overtaken only after it failed.
OvertakenOnlyAfterFailure ==
  outages + errors + crashes = 0 =>
    \A j, k \in DOMAIN rows :
      j < k /\ received[j] = 0 /\ received[k] > 0 => rows[j].attempts > 0 \/ rows[j].qos = 0

=============================================================================

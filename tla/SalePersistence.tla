--------------------------- MODULE SalePersistence --------------------------
(***************************************************************************)
(* From the session's events to the database: PersistenceBridge.on_event   *)
(* turns events into jobs of the bounded PersistenceWorker, whose task     *)
(* runs them one by one, each in a database transaction of its own, while  *)
(* the pump is polled on; and what a restart finds (RecoveryService).      *)
(*                                                                         *)
(* The uuids of transactions are numbered in the order they are made.  The *)
(* audit log, the transaction_events and the fill book are left out.       *)
(***************************************************************************)
EXTENDS DispenserSales, FiniteSets
LOCAL INSTANCE FiniteSetsExt

CONSTANTS
  MaxQueue,        \* maxsize of the worker's queue
  MaxDrops,        \* bound: jobs dropped by the full queue
  MaxErrors,       \* bound: handlers that raise
  MaxCrashes,      \* bound: restarts of the station
  MaxTroubles      \* bound: blips, outages, drops, errors and crashes together

VARIABLES
  queue,           \* the worker's queue: every job here has priority NORMAL
  txByAddress,     \* _tx_by_address for this pump
  uuids,           \* how many uuids have been made
  rows,            \* the transactions table
  completions,     \* the TRANSACTION_COMPLETED entries of the sync queue
  snapshot,        \* the latest pump_state_snapshots row
  dropped,         \* history: how many jobs the full queue has dropped
  errors, crashes

storeVars == <<txByAddress, uuids, rows, completions, snapshot>>
vars == <<dispenserVars, queue, storeVars, dropped, errors, crashes>>

ASSUME PersistenceAssumption ==
  MaxQueue \in Nat \ {0} /\ {MaxDrops, MaxErrors, MaxCrashes, MaxTroubles} \subseteq Nat

Init ==
  /\ DispenserInit
  /\ queue = <<>>
  /\ txByAddress = None /\ uuids = 0
  /\ rows = <<>> /\ completions = {}
  /\ snapshot = None
  /\ dropped = 0
  /\ errors = 0 /\ crashes = 0

-----------------------------------------------------------------------------
(* The event loop's side: on_event and PersistenceWorker.submit. *)

\* The jobs that find room, and those that are counted in dropped_normal.
Submits(notices) ==
  LET room == MaxQueue - Len(queue)
      kept == IF room < Len(notices) THEN room ELSE Len(notices) IN
  /\ queue' = queue \o SubSeq(notices, 1, kept)
  /\ dropped' = dropped + Len(notices) - kept
  /\ dropped' <= MaxDrops

PollPump ==
  /\ ControllerSteps
  /\ Submits(session'.events)
  /\ UNCHANGED <<storeVars, errors, crashes>>

DispenserWorks ==
  /\ DispenserSteps
  /\ UNCHANGED <<queue, storeVars, dropped, errors, crashes>>

-----------------------------------------------------------------------------
(* The handlers. *)

Snapshot(state, version, healthy, nozzle, raw, frame, previous) ==
  [state |-> state, version |-> version, healthy |-> healthy, nozzle |-> nozzle,
   raw |-> raw, frame |-> frame, previous |-> previous]

SameView(s, t) ==
  <<s.state, s.healthy, s.nozzle, s.raw>> = <<t.state, t.healthy, t.nozzle, t.raw>>

\* Mutant of IsMeaningful: an equal version is never news.
IsNewer(s) == snapshot = None \/ s.version > snapshot.version

\* insert_if_meaningful
IsMeaningful(s) ==
  \/ snapshot = None
  \/ s.version > snapshot.version
  \/ s.version = snapshot.version /\ ~SameView(s, snapshot)

PersistsSnapshot(s) == snapshot' = IF IsMeaningful(s) THEN s ELSE snapshot

\* TransactionService.begin, for the uuid of this pump's transaction.
BeginsSale(job) ==
  LET uuid == IF txByAddress = None THEN uuids + 1 ELSE txByAddress IN
  /\ txByAddress' = uuid
  /\ uuids' = IF txByAddress = None THEN uuid ELSE uuids
  /\ rows' = [u \in DOMAIN rows \union {uuid} |->
                IF u \in DOMAIN rows THEN rows[u]
                ELSE [status |-> "ACTIVE", volume |-> 0, key |-> None]]
  /\ UNCHANGED completions

\* Mutant of IsUnfinished: any row may be completed, again too.
IsPresent(uuid) == uuid \in DOMAIN rows

\* complete_once finds neither the key nor a completed row.
IsUnfinished(uuid) == uuid \in DOMAIN rows /\ rows[uuid].status = "ACTIVE"

KeyIsUsed(key) == \E u \in DOMAIN rows : rows[u].key = key

\* TransactionService.complete, with the volume the row has.
CompletesSale(job) ==
  LET key == IF job.key # None THEN job.key
             ELSE <<"complete", txByAddress, job.ctx.current_state>>
      newly == ~KeyIsUsed(key) /\ IsUnfinished(txByAddress)
  IN /\ rows' = IF newly
                THEN [rows EXCEPT ![txByAddress].status = "COMPLETED",
                                  ![txByAddress].key = key]
                ELSE rows
     /\ completions' = IF newly
                       THEN completions \union {[key |-> key, uuid |-> txByAddress]}
                       ELSE completions
     /\ UNCHANGED <<txByAddress, uuids>>

NoTransaction == UNCHANGED <<txByAddress, uuids, rows, completions>>

\* Mutant of EndsSale: a pause ends the sale too.
EndsOrPausesSale(state) == state \in {"FILLING_COMPLETE", "LIMIT_REACHED", "SUSPENDED"}

EndsSale(state) == state \in {"FILLING_COMPLETE", "LIMIT_REACHED"}

\* complete_once raises for a transaction that has no row, unless the key is known.
FindsNoRow(job) ==
  /\ job.type = "STATE_CHANGED"
  /\ EndsSale(job.ctx.current_state)
  /\ txByAddress # None /\ txByAddress \notin DOMAIN rows
  /\ ~KeyIsUsed(job.key)

HandleStateChanged(job) ==
  LET c == job.ctx IN
  /\ job.type = "STATE_CHANGED"
  /\ PersistsSnapshot(Snapshot(c.current_state, c.state_version, c.communication_healthy,
                               c.selected_nozzle, c.last_raw_wayne_status,
                               c.last_source_frame_hex, job.from))
  /\ \/ c.current_state = "FILLING" /\ BeginsSale(job)
     \/ EndsSale(c.current_state) /\ txByAddress # None /\ CompletesSale(job)
     \/ EndsSale(c.current_state) /\ txByAddress = None /\ NoTransaction
     \/ c.current_state # "FILLING" /\ ~EndsSale(c.current_state) /\ NoTransaction

\* Only a DC2 of a pump with a transaction is kept; a row's volume never falls.
HandleDecoded(job) ==
  LET volume == job.volume IN
  /\ job.type = "APPLICATION_TRANSACTION_DECODED"
  /\ rows' = IF volume # None /\ txByAddress \in DOMAIN rows
             THEN [rows EXCEPT ![txByAddress].volume = Max({@, volume})]
             ELSE rows
  /\ UNCHANGED <<txByAddress, uuids, completions, snapshot>>

\* The latest snapshot again, with the new health and a version of its own.
HandleComm(job) ==
  /\ job.type \in {"PUMP_CONNECTED", "PUMP_DISCONNECTED"}
  /\ PersistsSnapshot(
       Snapshot(IF snapshot = None THEN "DISCONNECTED" ELSE snapshot.state,
                IF snapshot = None THEN 1 ELSE snapshot.version + 1,
                job.type = "PUMP_CONNECTED", None, None, None, None))
  /\ NoTransaction

TakesJob ==
  /\ queue # <<>>
  /\ queue' = Tail(queue)
  /\ UNCHANGED <<dispenserVars, dropped, crashes>>

RunJob ==
  /\ TakesJob
  /\ ~FindsNoRow(Head(queue))
  /\ \/ HandleStateChanged(Head(queue))
     \/ HandleDecoded(Head(queue))
     \/ HandleComm(Head(queue))
  /\ UNCHANGED errors

\* The handler raises: the transaction is rolled back, the job is not retried,
\* and what the handler wrote to the bridge stays.
JobFails ==
  /\ TakesJob
  /\ \/ FindsNoRow(Head(queue)) /\ UNCHANGED errors
     \/ errors < MaxErrors /\ errors' = errors + 1
  /\ LET n == Head(queue)
         begins == n.type = "STATE_CHANGED" /\ n.ctx.current_state = "FILLING"
                     /\ txByAddress = None IN
     /\ txByAddress' = IF begins THEN uuids + 1 ELSE txByAddress
     /\ uuids' = IF begins THEN uuids + 1 ELSE uuids
  /\ UNCHANGED <<rows, completions, snapshot>>

-----------------------------------------------------------------------------
(* A power cut: the controller and the dispenser start again. *)

\* recover and apply_recovered_contexts
Recovered ==
  IF snapshot = None THEN NewContext("DISCONNECTED", FALSE)
  ELSE [NewContext(snapshot.state, FALSE) EXCEPT
          !.previous_state = snapshot.previous,
          !.selected_nozzle = snapshot.nozzle,
          !.last_raw_wayne_status = snapshot.raw,
          !.state_version = snapshot.version,
          !.last_source_frame_hex = snapshot.frame]

PowerCut ==
  /\ crashes < MaxCrashes /\ crashes' = crashes + 1
  /\ session' = SessionWith(Recovered)
  /\ dispenser' = [dispenser EXCEPT !.phase = "ready"]
  /\ pending' = Current("ready") /\ seq' = 0
  /\ queue' = <<>> /\ txByAddress' = None
  /\ UNCHANGED <<recurred, swallowed, detours, blips, outages, uuids, rows, completions, snapshot,
                 dropped, errors>>

-----------------------------------------------------------------------------

Troubles == blips + outages + dropped + errors + crashes

Next ==
  /\ DispenserWorks \/ PollPump \/ RunJob \/ JobFails \/ PowerCut
  /\ Troubles' <= MaxTroubles

Spec == Init /\ [][Next]_vars

-----------------------------------------------------------------------------
(* Properties *)

CompletedRows == {u \in DOMAIN rows : rows[u].status = "COMPLETED"}

\* Whatever is dropped, rolled back, repeated or lost in a power cut, the
\* database never counts more completed sales than the dispenser finished.
NoInventedSale == Cardinality(CompletedRows) <= dispenser.finished

\* The cloud is told of a completed transaction exactly once, in the commit that
\* completes it, although the limit and the completion both try to
\* (transaction_service.complete, "share one commit").
CloudHearsOnce ==
  /\ CompletedRows = {e.uuid : e \in completions}
  /\ \A d, e \in completions : d.uuid = e.uuid \/ d.key = e.key => d = e

AllJobsDone == queue = <<>> /\ dropped = 0 /\ errors = 0

Reconnections == blips + outages + crashes

\* When every job has run, the latest snapshot, from which a restart recovers,
\* holds the state of the session's machine, as long as the pump has reconnected
\* at most once: _handle_comm gives each reconnection a version the machine does
\* not know of, and after two the store may refuse the machine's next state
\* (insert_if_meaningful).
SnapshotIsCurrent ==
  AllJobsDone /\ snapshot # None /\ Reconnections <= 1 => snapshot.state = Controller

\* "Begin when dispensing becomes active": when every job has run, a pump that
\* is filling has a transaction that is not completed.
SaleHasOpenRow ==
  AllJobsDone /\ crashes = 0 /\ Controller = "FILLING"
    => txByAddress \in DOMAIN rows /\ rows[txByAddress].status = "ACTIVE"

=============================================================================

# A verification development for the IntelliPump forecourt controller

TLA+ modules of `intelipump_fdc`, the Python controller that polls Wayne
dispensers over a DART line, follows each pump with a normalized state machine,
stores sales and pump states in SQLite, delivers them to a cloud over MQTT and
takes commands from there and from its HTTP API. The repository also holds a
simulated dispenser that speaks the same line protocol. Paths below are
relative to `src/src/intelipump_fdc/` unless they start with `docs/` (which is
`src/docs/`).

`PROJECT.json` names every run, its mutants, the theorems, the hazards and, in
`map`, the source lines each definition stands for.

## 1. The system

    dispenser  <-- DART line -->  FrameStreamAssembler, decoder
    (or simulator)                     |
                                  ControllerLoop / PumpSession     (asyncio task)
                                       |  PumpStateMachine.apply        ^
                                       |  EventBus events               | OutboundQueue
                               PersistenceBridge --> PersistenceWorker  |
                                       |              (own task)        |
                                     SQLite: transactions, snapshots,   |
                                             sync queue, commands       |
                                       |                                |
      cloud <-- MQTT -- SyncWorker, HeartbeatService                    |
      cloud --- MQTT -> CloudCommandIntake -----------------------------+
      browser - HTTP -> lab_submit, evaluate ---------------------------+
      browser <- SSE/WS - EventBroker

| Component | State it keeps | Operations | What makes it correct |
|---|---|---|---|
| Pump state machine `state_machine/machine.py`, `transitions.py` | one `PumpContext`: state, nozzle, transaction, health, version, used completion evidence, last frame | `apply`, with early returns for stale, duplicate, unknown and unauthorized observations | no sale without authorization; evidence used once; versions that readers can compare; time and health that do not lie |
| Wayne mapper `state_machine/wayne_mapper.py` | none | reads one decoded transaction in the light of the current context | with the table it tracks a dispenser through any sale |
| Eligibility guard `state_machine/guards.py` | none | says whether a command may be offered | no command in a state that cannot bear it |
| Frame stream `protocol/dart/line/*` | bytes of an unfinished frame, an open escape | `feed`, build, parse, CRC | finds the frames again after any damage; debris is no frame; nothing lost silently |
| Application codec `protocol/dart/application/*`, `simulator/encoding.py` | none | split, decode; encode | what is decoded is what was encoded |
| Controller session `controller/pump_session.py` | TX#s of both directions, timeouts, health, applied completion keys | `handle_response` (DATA, EOT, NAK), `on_timeout` | payloads applied once and in order; DISCONNECTED for pumps that are gone |
| Polling loop and outbound queue `controller/controller_loop.py`, `outbound.py` | whose turn it is, queued commands | one poll cycle with bounded re-POLLs, one command before the POLL | no pump starves; no command executed twice |
| Simulator session `simulator/session.py` | TX#s, the frame awaiting its ACK, pending reports | answers POLL, DATA, ACK, NAK | as above, from the other end |
| Simulated pump `simulator/pump.py` | a pump's fields, its own machine, the filling engine, totals | customer actions, commands, time, faults, restarts, outages | engine, state and totals agree; a sale counts once and ends |
| Persistence bridge and worker `services/persistence_*.py` | a uuid per pump, a bounded queue | turn events into jobs; run each in one database transaction | nothing invented, each completion told once, snapshots current |
| Database `persistence/repositories/*` | transactions, snapshots, sync queue, commands, audit | `begin`, `complete_once`, `insert_if_meaningful`, leases | uniqueness of keys and uuids |
| Restart recovery `services/recovery_service.py`, `lab_persistence.py` | none | seeds machines from snapshots, releases leases, reconciles commands | the recovered state is the last one |
| Sync queue and cloud delivery `cloud/sync_worker.py`, `repositories/sync_queue.py` | leases, attempts, the batch in hand | claim, publish, acknowledge, retry, release stale leases | at least once, nothing stuck, FIFO as far as promised |
| MQTT client `cloud/mqtt/client.py` | connection, futures of unacknowledged messages | publish, callbacks of the library's thread | a PUBACK means the broker has it |
| Heartbeat `cloud/heartbeat.py` | a counter, the latest unsent beat | publish once per interval | nothing old is sent |
| Command intake `cloud/command_intake.py`, `api/routes/commands.py` | recently seen commands, command rows | deduplicate, check, queue for the line, persist | a command is executed at most once, and its row says so |
| Live events `events/*`, `api/routes/events.py` | sequence numbers, bounded queues | subscribe, publish, stream, close | in order, critical events not lost |
| Transports, read-only API, bench tools, CLI | files, ports, settings | I/O | not modelled, see section 7 |

Interactions. The loop is the only task that drives the sessions; a session
publishes events synchronously, and the bridge turns them into jobs without
awaiting, so a full queue drops jobs inside `submit`. The worker runs the jobs
later, while the pump is polled on: the handlers see the context the event
carried, but the bridge's uuid map and the database as they are *then*. The
sync worker, the heartbeat and the command intake share one MQTT connection and
the database; each incoming message and each HTTP request is a task of its own,
and what it has checked may have changed after the next await. A restart loses
every queue, map, counter and TX#; only the database stays.

What is hard here: half-duplex answers that arrive after the master gave up;
TX#s of four bits that wrap; two sides that restart independently; a report
whose meaning depends on the state reached so far; state written by the
controller's task and read by the worker's; rollbacks that do not undo what is
kept in memory; leases, PUBACKs and timeouts that overtake each other; duplicate
deliveries whose tasks interleave. `PROJECT.json` lists these under `hazards`,
each at its line, with the properties that guard it or the reason why none does.

## 2. Modules

| Module | Models | Shape |
|---|---|---|
| `PumpStates` | the states, the table, `apply` as a pure function of context and observation | operators; `Outcome` picks the way out in the code's order, `Apply` does what it does |
| `PumpStateMachine` | one machine under every sequence of observations | one action per way out of `apply`; histories `confirmed`, `completions` |
| `WayneMapper` | `map_wayne_observation` as the session calls it | operators |
| `CommandEligibility` | `evaluate_command_eligibility` | operators |
| `DartFrames` | control bytes, escapes, building and parsing of frames | operators over sequences of bytes |
| `WayneCodec` | BCD, encoders, splitter, decoders | operators over sequences of bytes |
| `FrameStream` | a pump's frames, a medium that damages them, `FrameStreamAssembler` | one action per frame sent and per byte fed |
| `ReliableDelivery` | what the line promises the controller, without the line | abstract specification |
| `DartLink` | one pump's line: poll cycle, session, simulator session, medium | detailed specification, refines `ReliableDelivery` |
| `PollingBus` | the loop over several addresses: whose answer is read in whose turn, and whether it counts as a sign of life | specification with weak fairness |
| `ControllerSession` | decoding, mapping, events of an accepted frame | operators over `WayneMapper` and `PumpStates` |
| `SimulatedPump` | `simulator/pump.py` | one action per command, customer action, mishap and engine tick |
| `PumpTracking` | `SimulatedPump` and the `ControllerSession` that follows it | composition |
| `DispenserSales` | a dispenser that reports what the table expects, in frames of one report or several, and the `ControllerSession` | composition; the dispenser is external; histories `recurred`, `swallowed` |
| `SalePersistence` | `DispenserSales`, the bridge, the worker, the database, a power cut | composition |
| `MqttClient` | `publish` and the callbacks; the library and the broker as the code relies on them | actions that the modules above it conjoin |
| `AtLeastOnce` | what the sync queue promises the cloud | abstract specification |
| `SyncDelivery` | the sync queue and the `SyncWorker` | one action per statement and per await; refines `AtLeastOnce` |
| `Heartbeat` | `HeartbeatService.publish_once` | one action per way out |
| `CommandIntake` | `handle_command`, `lab_submit_command`, `evaluate_command`, the outbound queue | one action per stretch between two awaits of a task |
| `EventBroker` | subscriptions, their queues, the streams of the routes | one action per operation |
| `StationServices` | `SyncDelivery`, `Heartbeat`, `CommandIntake` and `EventBroker` in one process | composition |
| `PumpStateMachineProofs`, `SyncDeliveryProofs`, `DartLinkProofs`, `PollingBusProofs`, `PumpTrackingProofs`, `SalePersistenceProofs`, `StationServicesProofs` | the theorems | TLAPS |
| `ControllerSessionProofs` | what `PumpSession` does with one report; used by `PumpTrackingProofs` and `SalePersistenceProofs` | lemmas, TLAPS |
| `MCPumpStateMachine`, `MCPumpTracking`, `MCFrameStream`, `MCStationServices` | values of constants for TLC | |

Correspondence, where it is not one to one:

* **Two levels of frames.** In `FrameStream` a frame is its bytes, with the CRC
  the code computes (`MCFrameStream!Crc16`). In `DartLink` it is a record of
  control type, TX#, the number of the payload it carries and whether its CRC
  holds: `FrameStream` shows that an undamaged frame arrives as such and a
  damaged one not at all or as one with a wrong CRC. In `ControllerSession` a
  frame is its TX# and its reports: equal frames are equal bytes, which is what
  `last_source_frame_hex` and the completion key compare.
* **`_read_one_frame`** returns the first frame of the chunk it has read and
  forgets the others; `Reads` drops any number of the frames that follow.
* **Answers** in `PollingBus` are the address they come from. `TakeAnswer` is an
  EOT or DATA the session accepts; `RefuseAnswer` is a NAK, or DATA that is
  damaged, a duplicate or out of sequence, which the session counts in its
  statistics and leaves `consecutive_timeouts` alone. Any answer may be either:
  which it is depends on TX#s, which are `DartLink`'s question. The address of a
  frame is taken to arrive intact.
* **Contexts** leave out the identifiers and `last_transition_at`; in
  `SimulatedPump` and `PumpTracking` also version and previous state, which
  nothing there reads.
* **`SimulatedPump`** counts volume in engine intervals; `emitted` is what one
  operation appends to `pending_outbound`.
* **Jobs** are the session's events themselves; a handler that raises
  (`JobFails`) undoes its database work and keeps what it wrote to the bridge.
* **`PowerCut`** restarts station and dispenser together, so both lines begin
  with TX# 0; the machines start in the `Recovered` snapshot.
* **Rows of the sync queue** are numbered in `created_at`; `due` and `stale`
  stand for the comparisons of `available_at` and `locked_at` with the clock,
  and `TimePasses` makes either true at any time.
* **The worker** is its place in `_cycle`: `awaiting` while `publish` waits for
  its PUBACK, `published` and `failing` between that and the statement that
  marks the row. A PUBACK that the library's thread reads before the future is
  registered is `AcknowledgedTooEarly`; the library sends what it holds again at
  `Connects`, also what `publish` gave up.
* **Tasks** of `CommandIntake` hold what was decided about the command before
  the await they stand at. `commands` and `outbound` are shared; `doubtful`
  remembers the commands whose tasks overlapped or were cut short.
* **Streams** of `EventBroker` keep their subscription's queue; `registered` is
  membership of `_subs`, which a stream that was never opened never leaves.
* **Mutants.** Next to a definition stand the wrong versions of it ("Mutant
  of ..."), each a plausible bug; nothing uses them but the mutation runs, which
  put one in the definition's place and expect the property to fail.

## 3. Runs

Seconds are for two workers on a small machine.

| Run | States | What it shows |
|---|---|---|
| `PumpStateMachine` | 137 k, 125 s | Under two sales' worth of observations in any order, with replays, late ones, faults and outages: `FuellingWasAuthorized`, `CompletedOncePerEvidence`, `HealthyMeansConnected`, `VersionFollowsView`, `TimeNeverGoesBack` |
| `FrameStream` | 1.4 M, 80 s | Every report a pump sends, bytes that need escapes, CRCs that contain ETX, DLE and SF, a frame in which a DLE hides an escape, up to two damaged frames: `StreamResynchronizes`, `ValidDataWasSent`, `ReportsAreUnderstood`, `NoByteIsLost` |
| `DartLink` | 402 k, 75 s | Loss, damage, late answers, re-POLLs, commands in between, TX#s that wrap, a restart or outage of the pump: `DeliveryIsReliable` (refinement), `NeverOutOfStep`, `DroppedDataWasApplied`, and `EventuallyApplied` while the medium is usable |
| `PollingBus` | 28 k, 10 s | Four addresses, one silent, three late answers, any answer refused by its session: the gone pump is disconnected for good, the others are heard again and again; late answers that cost less than `max_consecutive_timeouts` get none of them disconnected |
| `PumpTracking` | 290 k, 105 s | A two-nozzle simulated pump under every command, customer action and mishap through two sales: engine and state agree, totals count each sale once, amounts do not fall, fillings end; and an alarm of a pump that is polled always reaches the controller |
| `DispenserSales` | 6.9 M, 120 s | One or two reports to a frame: through sales, pauses, limits, status answers and short silences the controller ends in the dispenser's state; a pump in a sale is never taken for idle; the end of a sale is seen also after an outage; each unless a report of a block is dropped as a duplicate and was none |
| `SalePersistence` | 4.0 M, 130 s | Any two of silence, outage, dropped job, raising handler and power cut: no invented sale, the cloud hears once, the snapshot is current |
| `StationServices` | 683 k, 115 s | Sync worker, heartbeat, command intake, API requests and event streams with an outage, a raising statement or a restart: at-least-once delivery (refinement), every entry settled, duplicates have causes, FIFO as promised, commands executed as their rows tell and once if their tasks do not overlap, streams in order, heartbeats recent |
| `PollingBusSkew`, `BlocksAreTracked`, `SaleHasOpenRow`, `DuplicatesAreRejected` | violations | see section 6 |

### Bounds

* `PumpStateMachine`: a sale takes five transitions, four when it starts
  implicitly, and `MaxVersion = 11` leaves room for one of each after discovery;
  two frames, two evidence keys, two times.
* `FrameStream`: the noise bytes are ETX, DLE and SF, the only ones the assembler
  or the parser treats specially. The first frame is one of nine payloads: every
  kind of transaction, a malformed one, and a block of several with an unknown
  one and a trailing fragment. Up to three short frames follow, because the
  stream needs at most one of them to find its way. `MaxBuffer = 30` and
  `MaxBufferSize = 24` stand for 512 and 256: the longest frame fits, and two
  that were glued together overflow.
* `DartLink`: `MaxSeq = 2` gives TX#s 0..2, so four payloads wrap (0, 1, 2, 1);
  the smallest `MaxSeq` at which an old and a new TX# can be confused while a
  TX# of its own lies between. Two frames in flight in a direction is one more
  than a cycle needs, so a late answer and the next one coexist. Three
  consecutive timeouts reach UNKNOWN, HEALTHY, DEGRADED and DISCONNECTED.
  `MaxTraffic = 4` shares the four events out between payloads, commands and one
  interruption in every proportion.
* `PollingBus`: four addresses so that the silent one has a neighbour on either
  side and one that is neither; one retry, as in `hardware/bench_runner.py`, and
  four consecutive timeouts where the default is five
  (`controller/poll_scheduler.py`). With these values `LateCost` of one late answer
  is one timeout, of two three, and of three five: `FewLate` admits two late
  answers, and the third, which the run has too, is one too many: with it an
  answering pump whose answers are all refused reaches four timeouts.
* `PumpTracking`: nozzles with different prices, natural volume 2 and presets of
  1, so that presets cut below the first interval and below the natural limit;
  two sales and one mishap so that a mishap can fall into either. Whether a
  controller polls the pump is chosen at the start (`observed`). A polled pump is
  followed through one sale without presets (`OneSale`): what the controller
  makes of several sales is the question of `DispenserSales`.
* `DispenserSales`: `MaxSeq = 3` instead of 15, so that TX#s recur within two
  sales (`recurred` is reached, and excluded only where the property says so).
  A DATA frame carries one report or two (`MaxBlock = 2`), as
  `docs/protocol-notes/application-capture-analysis.md:38-39` has them, cut from
  the pending reports at any place. One detour, one short silence and one outage,
  at any time.
* `SalePersistence`: one report to a frame, since what blocks do to a machine is
  `DispenserSales`' question and the theorems hold for any `MaxBlock`; a queue of four is what the events of the first frame need;
  each trouble happens at most once, two in all (`MaxTroubles`), in any
  combination and order.
* `StationServices`: `Loads` names what a behaviour asks of each part: three
  entries with an outage, two commands with two requests, one command with
  three, one stream with six events, two streams with three, five heartbeats
  with an outage, and an entry together with a command. The parts share only the
  connection, the database's errors and the restarts, so their product adds no
  interaction that the last load does not have. A batch of two of three entries
  leaves one behind; two attempts are one retry and one giving up; a queue of two
  is full while one event is being sent; three requests are two overlapping ones
  and one that comes after both. One outage, error or restart falls between any
  two steps.

`CHECK_DEADLOCK FALSE` is set where every counter can be used up and the system
then rests; `PollingBus` and `PumpStateMachine` never rest and are checked for
deadlock.

### Fairness

* `DartLink!Spec` states a usable medium and nothing about the code's choices:
  again and again a POLL is answered while the loop waits for it and nothing late
  is on the wire, and neither every undamaged DATA nor every ACK that could be
  read is lost (strong fairness of the two reads, since loss and timeouts
  disable them). The loop polls for ever (`ControllerLoop.run`), so the first
  condition only asks of the wire what a connected pump gives.
* `PollingBus!Spec` has weak fairness of the whole next-state relation: the event
  loop keeps running the poll task and it never waits without a timeout
  (`_read_one_frame`). That an answering pump answers in time except `MaxLate`
  times is in `TimeOut`'s guard, not in fairness.
* `PumpTracking!Spec`: the simulated clock is advanced again and again while fuel
  can flow (`on_time_advance` is called by the simulator's runner).
  `ClockAdvances` says `[]<>~FuelFlows \/ []<><<FillOneInterval>>`, weak fairness
  with the guard written out.
* `StationServices!Spec`: the sync worker's task keeps running (`_run` loops and
  every wait of it has a timeout), backoffs and leases run out, and the library
  reconnects. Nothing is asked of the broker, the PUBACKs, the requests or the
  streams.

## 4. Proofs

For every value of the constants within the named assumptions:

| Theorem | Property |
|---|---|
| `PumpStateMachineProofs!TypeCorrect` | `[]TypeOK` |
| `NoUnauthorizedSale` | `[]FuellingWasAuthorized` |
| `EvidenceUsedOnce` | `[]CompletedOncePerEvidence` |
| `HealthIsHonest` | `[]HealthyMeansConnected` |
| `TimeIsMonotonic` | `TimeNeverGoesBack` |
| `VersionIsFaithful` | `VersionFollowsView` |
| `SyncDeliveryProofs!QueueTypesHold` | `[]SyncTypeOK` |
| `QueueDeliversAtLeastOnce` | `DeliveryIsAtLeastOnce`, the refinement of `AtLeastOnce` |
| `CopiesAreExplained` | `[]DuplicatesHaveCauses` |
| `EntriesGoInTurn` | `[]OvertakenOnlyAfterFailure` |
| `DartLinkProofs!LineStaysInStep` | `[]NeverOutOfStep` |
| `RepeatsWereApplied` | `[]DroppedDataWasApplied` |
| `LineIsReliable` | `DeliveryIsReliable`, the refinement of `ReliableDelivery` |
| `PollingBusProofs!AnsweringPumpsSurvive` | `[]AnsweringPumpsStayConnected` |
| `PumpTrackingProofs!EngineIsItsState` | `[]EngineFollowsState` |
| `FuelIsSoldOnce` | `[]FlowsForAnOpenSale` |
| `TotalsAreReceipts` | `[]TotalsMatchReceipts` |
| `AmountOnlyRises` | `AmountNeverDecreases` |
| `FaultsAreObserved` | `[]FaultIsObserved` |
| `SalePersistenceProofs!CompletionsAreToldOnce` | `[]CloudHearsOnce` |
| `NoSaleIsInvented` | `[]NoInventedSale` |
| `SnapshotStaysCurrent` | `[]SnapshotIsCurrent`, if `None` is no snapshot |
| `SalesAreAlwaysTracked` | `[]SalesAreTracked` |
| `IdleIsAlwaysReal` | `[]IdleIsReal` |
| `SaleEndIsAlwaysSeen` | `[]SaleEndIsSeen` |
| `StationServicesProofs!RowsAreTrue` | `[]RowsTellExecution` |
| `CloudCommandsGoOnce` | `[]CloudCommandQueuedOnce` |
| `RequestsAreSentOnce` | `[]SentOncePerRequest` |
| `ClientsSeeOrder` | `[]EventsInOrder` |
| `CriticalSurvives` | `[]LatestCriticalArrives` |
| `BeatsAreRecent` | `HeartbeatIsRecent` |

The assumptions are those on the constants: the arguments of `apply` have the
types of its annotations (`ConstantAssumption`); sizes and bounds are numbers, a
QoS is 0 or 1 (`SyncAssumption`, `BrokerAssumption`, `BusAssumption`,
`PersistenceAssumption`, `LoadAssumption`); commands have one of the types of
`PumpCommand` (`CommandAssumption`); a pump has nozzles and its prices, presets
and natural volume are numbers (`PumpAssumption`); there are at least three TX#s,
of which 0 or 1 follows the last (`LinkAssumption`); a dispenser's bounds are
numbers, and `None` is no number, no frame and no completion key
(`DispenserAssumption`). TLC evaluates them on the runs. One theorem has a
hypothesis besides. That of `SnapshotStaysCurrent` is that a stored snapshot is not `None` (`SnapshotsAreSome`):
it is true of any model value, and of Python's `None`, but it quantifies over all
values of a snapshot's fields, so that TLC cannot evaluate it as an assumption.

**The state machine.** `CompletedOncePerEvidence` alone is not inductive: a
second completion is prevented by `completed_evidence_keys`, of which the counts
say nothing. The inductive invariant is

    Inv == TypeOK /\ FuellingWasAuthorized /\ HealthyMeansConnected /\ EvidenceIsRecorded

where `EvidenceIsRecorded` says that an evidence key has completed once if the
context remembers it and never otherwise. The other parts need `TypeOK` (a
context is a record, so an update changes the fields it names) and facts about
the table: `SaleEntry` (a sale is entered from outside only by a confirmation, or
by FILLING_STARTED in NOZZLE_UP, which the guard stops unless it is declared
implicit), `DisconnectedByLoss`, `TransitionMoves`. `ApplyByOutcome` and
`TransitionConditions` split `apply` into its ways out; `StateKept` and
`MoveFields` say what each does to the fields the invariant is about;
`ApplyKeepsContext` is type correctness of `apply`. `StepInv` has a step for each
action of `Next`. The action properties follow from the same invariant by
`TimeOfApply` and `VersionOfApply`; the latter needs that a refreshed context
with an equal view *is* the old context (`NoopVersion`), and that a transition
which is no same-state noop leaves its state. The view is all that a reader gets:
what the eligibility guards, the STATE_CHANGED payload and `insert_if_meaningful`
look at, `communication_healthy` included. So `VersionFollowsView` has an
exception and names it (`RegainsHealth`): COMMUNICATION_STARTED in DISCOVERING is
a same-state noop that makes the pump healthy under the version it had. The
theorem says that this is the only one: no other step changes what a reader sees
without a new version, or counts up for nothing.

**Delivery.** `mark_delivered` and `mark_failed` look at no status, so that a
verdict is final, and confirmed only after arrival, rests on what the worker
holds. `DeliveryInv` says it: what is in the batch or in hand is CLAIMED, also
when its lease has run out, since only the worker's own next cycle or a restart
takes a lease away (`BatchIsClaimed`); at most one message of the library is
awaited, that of the record in hand (`AwaitsTheRecord`), so the PUBACK that ends
a wait is the right one; what the library marks as taken the broker has received
(`TakenWasReceived`); hence a published QoS 1 record has arrived
(`PublishedHasArrived`). Each step then preserves it and is, mapped by
`Promise`, an `Accept`, `Arrive`, `Confirm`, `Abandon` or a stutter.
`BatchIsClaimed` is where it matters that one process drains the queue.

`DuplicatesHaveCauses` is not inductive, because copies are sent long after the
try they belong to. `CopiesInv` counts ahead: `Tries` is what can have given the
entry to the library, its counted attempts, one for each statement that raised or
restart that kept an attempt from being counted, and the one in hand or the one
that succeeded. The library has at most one message per try, and what was
received together with what is still to come over this connection is at most one
copy per try and connection. A step is then quiet, or sends one message for one
more try, or disconnects, which makes each kept message come once more
(`CopiesOfStep`, `CountsGrow`). `OvertakenOnlyAfterFailure` rests on `InTurn`: without
trouble the worker always finds a connection, no lease is left behind
(`ClaimedIsInHand`), so that a cycle releases nothing, and the entries that wait
for their first attempt are the newest ones (`NewAreLast`), since a
cycle claims the oldest of those claimable (`OldestAreFirst`). An entry older than
the one being published was therefore tried before.

**Commands.** `CommandInv` says of every command that its rows and its tasks are
`Honest`: QUEUED, in a row or in a task, only if it was queued; and, unless the
command is `doubtful`, `Serialized`: one task at most, no row while that task is
about to queue it or has just done so, a QUEUED row or task once it is queued,
and at most one queueing by the cloud. `TaskMoves` reduces each step of a task to
what it does to the one command it is about; `OtherCommand` shows that no other
is disturbed.

`SentOncePerRequest` counts, and each of its two inequalities needs a reason of
its own. `LineInv`: what was sent and what waits in the queue is together no more
than what was put there; every operation of the queue only moves an item or drops
it (`PopCounts`, `PopForOtherCounts`, `ItemExpiresCounts`, `DroppingCounts`).
`SpentInv`: a command was put there no more often than there are requests for it
whose task is past the phases in which it can be (`Spent`); a task leaves those
phases for good when it queues (`QueueingSpent`), which is where
"no second enqueue" is decided. `OnceInv` is both with `CommandInv`.

**The line.** `NeverOutOfStep` alone says nothing of the ACKs that will move the
sender on, nor of what is behind the frame at the head. `LinkInv` describes each
direction as a relay (`Relay`): the sender's TX# is either what the receiver
expects, and then the DATA in flight are repetitions of the last accepted one
followed by the new one, and no ACK in flight has its TX# (`Underway`); or what
the receiver accepted last, and then only that DATA and, behind older ones, its
ACKs are in flight (`Arrived`). Frames are lost and damaged, but never overtake
each other, and with three TX#s or more the accepted, the expected and the next
one differ. Both directions are the same formula with the roles exchanged.
`Order` says what a payload's number on the wire has to do with the one applied
last and the one being sent, and holds through interruptions; `Numbered` says the
stronger thing that holds without any: payloads are applied without gaps. From
`Order` every accepted frame is a `Deliver`, or a `Skip` after an interruption,
which is the refinement; from `Relay` and `Numbered` a repeat was applied.

**The bus.** A late answer shifts the reads of all later turns, so that timeouts
of one address are caused by the answers of others, and an answer that is read
need not reset them: duplicates come exactly after late answers, and the session
refuses them. The theorem therefore counts on no reset at all. `BusInv` counts by
cause: by the end of a turn `l` late answers have cost a pump at most `Cost(l)`
timeouts in all, one for the first and the attempts of a turn for each further one; among the
re-POLLs of a turn (`AmongRetries`) the turn either began with the first late
answer, when nothing else was on the bus (`NothingStale`), or pays for its own
attempts. `AwaitsAnswer` says that an answering pump's turn always has something
to read. The condition `FewLate` is that sum compared with
`max_consecutive_timeouts`, so the theorem does not speak of every bus: it says
how many late answers, over the whole run, the configured limits bear while every
answer may be refused.

**The simulated pump.** Its commands change the engine's flags, the machine and
the totals one after the other, through intermediate pumps that satisfy nothing;
the lemmas therefore follow an operation statement by statement (`After`: where
an event takes the machine from each state; `SameSale`, `SameTerms`,
`SameMachine`: what a statement leaves alone). The inductive invariant `PumpOK`
relates a pump to the receipts of its sales: the engine runs exactly in FILLING
and SUSPENDED, and between operations the machine is never in AUTHORIZED or
LIMIT_REACHED, which are passed through (`EngineAgrees`); the evidence keys the
machine remembers are receipts, and the sale that goes on has none, so its
completion cannot be refused as known (`SalesAgree`); volume and amount are
within the limits (`WithinLimits`), without which cutting at a preset would
lower the amount.

`TotalsMatchReceipts` compares a counter with a sum over a set, so it needs
that a sum can be taken in any order. The library's sum is a recursive function
over the subsets; `SumsAgree` shows, by induction over the size of a set (made
with `UpTo`, which has a set where the library's induction has an operator), that
whichever element it takes first, it is `SumOfMore`: one receipt more adds its
field. `Tally` then says that the totals are those sums; an operation either
`Sells`, adding one receipt that is new because the sale that goes on has none
(`SalesAgree`), or `SellsNothing` and leaves totals and receipts alone. A completion reported
again falls under the second, which is where the count would go wrong.

`FaultIsObserved` spans pump, line and controller. `FaultInv`: while the pump is
faulted its alarm is among the reports under way or the controller has heard it,
and no report takes a machine out of FAULTED. That the frame with the alarm could be taken for
a repetition of the last one is excluded by `AlarmKnown`: a machine that
remembers a frame with the alarm is in FAULTED. (`PumpTracking` has one report to a
frame.)

**The database.** `StoreInv` holds whatever the sessions report: it needs nothing
of the dispenser, the bridge's map or the queue, only that
`TransactionService.complete` looks the key up in all rows, and writes row and
entry in one commit. An entry has the key of a completed row and each completed
row has an entry (`ToldAsCompleted`); no two completed rows have the same key
(`KeysAreUnique`), without which two rows could share an entry.

**The sales.** Between a dispenser and its controller there are any number of reports
that are not yet delivered, so an invariant must say where these will take the
machine. `TrackingInv` says it as a trace property: `Ends(m, S, pending, V)` is that
every way the pending reports may take a machine from a state of `S` ends in `V`, the
views of the dispenser's phase. There are three modes `m` of what may be lost: `clean`,
nothing; `lossy`, a completion taken for a repeated one; `broken`, everything before
an outage and what it refuses after. Each theorem is one of the modes:
`SalesAreTracked`, `IdleIsReal` and `SaleEndIsSeen`. A step of the dispenser appends
reports (`AppendEnds`) that take the old views to the new ones (`ScriptTaken`, one fact per line of the script),
a delivery takes those of the frame away, one after the other (`FrameFollows`: by
induction over the reports of a frame; `TailEnds`, `RestEnds`). What one report of a
frame does to the machine (`OneDelivered`) is one of four things, `Follows`: it takes
the machine where the report leads; it is a completion taken for a repeated one; it is
one of several in its frame and dropped as a duplicate although it would have changed
the state; or the machine is in DISCOVERING. This needs `IsFollowing`: the frame the
machine remembers, if it has one report, holds one that changes nothing in the state
the machine is in (`IsSettled`), so that taking a frame for its repetition loses
nothing; and the last status, by which the mapper reads the next one, is that of the
state (`IsReadRight`).

The third case is what the code does with a frame of several transactions
(`state_machine/machine.py:107`). The theorems are for any `MaxBlock`; the history
`swallowed` remembers that it happened, and ends the claims, as `recurred` does for a
recurring completion. They so say that nothing else in a block loses a step: not the
mapper, which reads the second report in the context the first has left, not the noop
rules, and not the duplicate check where what it drops says nothing new. That it
happens at once, with a frame like those of the captures, is the run `BlocksAreTracked`.

`NoInventedSale` holds for frames of any length. `Counted` is its
inductive form: the completed rows other than the bridge's present one, and one more
if that one has, or may still get, a completion (`Ended`), are no more than the sales
finished. An end is under way from the moment the dispenser is in its phase, through
the reports, to a job of the queue and the row; `FrameTaken` shows by induction
over the reports of a frame (`IsRun`, `TakeFrameRuns`) that no session tells of an
end that no report told it of. A power cut forgets the bridge's uuid, so that the
next completion is of a row of its own.

**The snapshot.** `SnapshotIsCurrent` speaks of an empty queue; the invariant must
say where the jobs of a queue that is not empty lead. Of a snapshot only its state and
version matter here (`Stored`), and what a job makes of them is `Persisted`. `Yields(p, q, r)`
is that the jobs of `q` lead from `p` to `r`: a submitted job adds to its end
(`AppendYields`, `BothYield`), the worker takes its first step away (`TailYields`,
`JobPersists`). `Shown(k)` is that the queue leads to the machine's state, with a version at most
`k` ahead of the machine's. With `k = 0` a reconnection leaves `k = 1`, because
`_handle_comm` counts up a version the machine does not know of; the machine's next change of
state has a version of its own (`VersionApplied`), so an equal one is taken over and `k`
stays at most 1. A second reconnection could make it 2, which is where the claim ends. `InStep` has the case
that is not obvious: the pump is given up before it ever answered, and its first answer
is then another `PUMP_CONNECTED`. The view may be two ahead for one change of state
(`Nears`), but DISCOVERING and the RESET of the first status, two changes, come in the same
frame (`ResetTaken`, `FrameShows`); this needs `Fresh`, that the status is still to come.
A job without a row can only be one whose begin failed (`HasRow`), so a run without
errors loses no snapshot by it.

**The events and the heartbeat.** A client's events are in order if what was sent
is older than what is queued and the queue is in order, but the sentinel of
`close` has no number and may follow anything: it is the last of the queue and
nothing is offered after it (`QueueInOrder`, `SentBefore`). A displaced event may be
critical; `LatestKept` holds because the event that displaces it is the later one.
`BeatInv`: the beat that is kept is the last one made.

**What stays with TLC.** Liveness (`EventuallyApplied`, `FillingEnds`,
`AnsweringPumpsAreHeard`, `GonePumpsAreDisconnected`, `EveryEntryIsSettled`) is
out of this prover's reach. So is induction with an operator for a parameter; where
the model has recursive functions the proofs induct over the set of the numbers a
statement holds of (`UpTo`). What the byte stream and the codec do is checked only
(`StreamResynchronizes`, `ValidDataWasSent`, `ReportsAreUnderstood`,
`NoByteIsLost`), for the payloads of `MCFrameStream`: which frames survive a damage
unnoticed depends on the CRCs of the bytes at hand, and a DLE that is data hides an
escape (section 6).

## 5. What the abstract specifications say

`ReliableDelivery` has three variables: how many payloads were queued, the
sequence applied, and whether the pump was interrupted. One action applies the
next payload; only after an interruption may some be skipped, and none is ever
applied twice or out of order. `DeliveryIsReliable` says that every step of
`DartLink` is one of these or a stutter.

`AtLeastOnce` knows entries that wait, are confirmed or abandoned, and the set
that has arrived. An entry of QoS 1 is confirmed only after it has arrived; a
verdict is final; arrivals repeat freely. `DeliveryIsAtLeastOnce` maps the rows'
statuses to verdicts.

## 6. Where code and documents differ

Kept as runs:

* `PollingBusSkew`: a frame of another address ends the turn
  (`controller/controller_loop.py:134`), so one late answer shifts every later
  turn; no pump is heard again (`docs/architecture/polling-engine.md:15`,
  "failures are isolated"). With a silent address on the bus the shift heals,
  which is why the passing run has one.
* `BlocksAreTracked`: all transactions of a DATA frame have its bytes for their
  source frame, and once one of them is applied the others equal
  `last_source_frame_hex` and are dropped as duplicates, whatever they say
  (`state_machine/machine.py:107`), though several transactions to a frame are what
  the captures show (`docs/protocol-notes/application-capture-analysis.md:38-39`,
  `protocol/dart/application/splitter.py:8`). A nozzle lifted, or the end of a sale,
  reported second is lost until the pump reports it again. The dispenser of
  `DispenserSales` cuts its reports into frames of one or two; its other properties
  hold for all frames of which no such report was dropped (`swallowed`).
* `SaleHasOpenRow`: the bridge keeps the uuid of the completed sale
  (`services/persistence_bridge.py:281`), and the next sale of the pump is not
  recorded.
* `DuplicatesAreRejected`: two deliveries of one command both pass the checks
  before either is remembered (`cloud/command_intake.py:107`), and the pump
  executes it twice.

Observed while modelling and recorded with the hazards; each is the reason why a
property is stated with a condition, or not at all:

* After a restart the first DATA frame of a pump can have the TX# last accepted
  and is acknowledged without being applied (`controller/pump_session.py:164`);
  hence `restarts = 0` in `DroppedDataWasApplied`. A pump whose TX# does not match
  is refused for ever (`:181`); hence `restarts = 0` in `NeverOutOfStep`.
* The loop advances its TX# only when it reads the ACK and never repeats a
  command (`controller_loop.py:174`); after a lost ACK the next, different
  command is acknowledged as a duplicate and not executed.
* COMMUNICATION_STARTED in a DISCOVERING entered by way of MAINTENANCE makes the
  pump healthy under the state version it had (`state_machine/machine.py:233-236`),
  and `insert_if_meaningful` (`persistence/repositories/states.py:76-82`) and the
  guards see a change that the version does not tell of; hence `RegainsHealth` in
  `VersionFollowsView`.
* `consecutive_timeouts` is reset by an EOT and by accepted DATA only; a NAK, or DATA
  that is damaged, a duplicate or out of sequence, leaves it alone
  (`controller/pump_session.py:72`, `:134-196`). Timeouts between which the pump was
  heard add up, and it can be declared DISCONNECTED right after an answer
  (`docs/architecture/polling-engine.md:21`, "after `max_consecutive_timeouts`"). So
  `AnsweringPumpsStayConnected` counts late answers, however far apart they are
  (`FewLate`).
* The assembler takes every byte after a DLE as escaped
  (`protocol/dart/line/stream.py:61`), but only SF is escaped by the builder, so a
  DLE that is data hides the escape behind it: with an amount that ends in 10
  before a CRC that begins with FA, the frame is cut at `10 10 FA` and lost. The
  frame is one of those `FrameStream` sends; `StreamResynchronizes` excepts it
  (`HidesEscape`) and shows that the frame after it is found.
* Lifting a cheaper nozzle during a filling lowers the amount
  (`simulator/pump.py:203`); hence the condition in `AmountNeverDecreases`. At a
  preset amount the volume is not recomputed (`:539`).
* The simulator reports a lifted nozzle as DC1 RESET and DC3, and the RESET takes
  the controller to a state where NOZZLE_LIFTED has no transition
  (`wayne_mapper.py:306`, `docs/architecture/pump-state-machine.md:72`).
* A completion key is its frame (`wayne_mapper.py:339`) and TX#s recur, so a later
  sale's completion can be taken for a replay; the controller then stays in
  FILLING.
* Completions are submitted with priority NORMAL and dropped when the queue is
  full (`persistence_bridge.py:79`, `docs/architecture/transaction-lifecycle.md:43`).
* A completion key of an earlier run of the station is found again after a
  restart (`persistence/repositories/transactions.py:160`).
* After an outage during a sale a status answer can leave the controller in RESET
  while the dispenser is lifted or filling, where a SET_PRICE would be offered;
  hence `outages = 0` in `SalesAreTracked` and `IdleIsReal`. `SaleEndIsSeen` shows
  that it does not outlast the sale.
* `_handle_comm` invents snapshot versions (`persistence_bridge.py:394`), which
  overtake the machine's after several reconnections; hence
  `Reconnections <= 1` in `SnapshotIsCurrent`.
* Both entry points queue a command before they write its row
  (`command_intake.py:207`, `api/routes/commands.py:272`): a crash in between
  makes a redelivery execute it again, and a repeated correlation id at
  `lab_submit` ends in an IntegrityError after the command was queued. Hence
  `doubtful`.
* QUEUED rows whose outbound items a restart has lost are never reconciled:
  recovery looks for PENDING and IN_PROGRESS, which nothing writes
  (`repositories/commands.py`, `services/recovery_service.py`). A cloud command's
  `expiresAt` is checked on arrival only; the outbound item has its own time to
  live.
* When the connection is lost during a batch, the rest of it stays CLAIMED until
  its lease runs out, not until the connection is back
  (`cloud/sync_worker.py:104`), and is overtaken meanwhile; hence the condition of
  `OvertakenOnlyAfterFailure`.
* A heartbeat kept through an outage is sent in place of the next one, so what
  arrives is one interval old and says DISCONNECTED (`cloud/heartbeat.py:113`).
* A critical event that finds a full queue displaces the oldest item, which may
  be critical too (`events/broker.py:63`); a client that leaves before CONNECTED
  leaves its subscription behind (`api/routes/events.py:92`); `close` drops its
  sentinel when the queue is full (`events/subscription.py:25`), and the stream
  goes on with HEARTBEATs. CONNECTED and HEARTBEATs take sequence numbers that
  no other stream sees.

## 7. Not modelled

* Transports: `DartLink` has the losses and delays they cause. The serial
  transport has no step that notices a failed adapter (a hazard), so there is no
  reconnection to model.
* Read-only API routes, audit rows, alarms and the schema carry no state the
  properties read. The bench tools and the command lines are I/O.
* `reconciliation.py`'s `reconcile_after_restart` and `EventBroker.stream` have no
  caller outside the tests.
* The fill throttle is a function of clock readings; the fill book,
  transaction_events, and the audit and rejection jobs of the bridge are left out
  of `SalePersistence`.
* TLS, the last will, the ONLINE message and the result messages of commands are
  messages nobody in this code reads.
* Logging, wording, decimals and the warnings of decoders.

## 8. What is left to do

In the order of importance:

1. The controller's restart on a line whose pump goes on, with the transports'
   reconnection once the serial transport has one.
2. The fill book and the priorities of the persistence worker's jobs.

---------------------------- MODULE CommandIntake ---------------------------
(***************************************************************************)
(* The ways a command reaches the outbound queue of the controller:        *)
(* CloudCommandIntake.handle_command for MQTT messages, and the API routes *)
(* lab_submit_command and evaluate_command.  Each request is a task of one *)
(* event loop; a step is what a task does between two awaits, so tasks     *)
(* interleave, also those of one and the same command.                     *)
(*                                                                         *)
(* A command is its correlation id.  Results, audit records and messages   *)
(* that do not parse are left out; the pump exists, its session is         *)
(* attached over a memory transport, and allow_lab_simulator_commands is   *)
(* on.                                                                     *)
(***************************************************************************)
EXTENDS CommandEligibility, Sequences, FiniteSets

CONSTANTS
  Commands,        \* correlation ids
  Command(_),      \* of each: [type, simulator_only, valid]
  Contexts,        \* contexts the pump's machine may be in
  Environment,     \* "LAB" or another
  Mode,            \* the controller's mode
  MaxOutbound,     \* max_size of the outbound queue
  MaxRequests      \* bound: requests

VARIABLES
  tasks,           \* the n-th request's task
  seen,            \* _seen of the intake
  active,          \* the intake is subscribed
  commands,        \* the commands table: the status of each row, or None
  expired,         \* commands whose expiresAt has passed
  outbound,        \* OutboundQueue._items of the pump's address
  queued,          \* history: how often a command was put into outbound
  transmitted,     \* history: how often it was taken out to be sent
  doubtful         \* history: commands with two tasks at a time, or a task cut short

commandVars ==
  <<tasks, seen, active, commands, expired, outbound, queued, transmitted, doubtful>>

\* What a row says of its command.
CommandStatus ==
  {"PENDING", "IN_PROGRESS", "QUEUED", "EVALUATED_ONLY", "ENQUEUE_FAILED", "REJECTED", "ELIGIBLE",
   "EXPIRED", "NEEDS_RECONCILIATION"}

ASSUME CommandAssumption ==
  /\ MaxOutbound \in Nat \ {0} /\ MaxRequests \in Nat
  /\ None \notin CommandStatus
  /\ \A c \in Commands : Command(c).type \in PumpCommand

CommandInit ==
  /\ tasks = <<>> /\ seen = {} /\ active = FALSE
  /\ commands = [c \in Commands |-> None]
  /\ expired = {}
  /\ outbound = <<>>
  /\ queued = [c \in Commands |-> 0] /\ transmitted = [c \in Commands |-> 0]
  /\ doubtful = {}

-----------------------------------------------------------------------------
(* The outbound queue. *)

ReadCommands == {"READ_STATUS", "READ_TOTALS"}

Mapped == {"READ_STATUS", "RESET", "AUTHORIZE", "STOP"}

\* evaluate_outbound_safety, with allow_lab_simulator_commands set by the caller.
SafetyAllows(c) ==
  /\ Mode \in {"LISTEN_ONLY", "BENCH_CONTROL"}
  /\ Command(c).simulator_only
  /\ Environment = "LAB"

\* enqueue does not raise OutboundRejectedError or OutboundQueueFullError.
Admits(c) == SafetyAllows(c) /\ Len(outbound) < MaxOutbound

Enqueues(c) ==
  /\ outbound' = Append(outbound, [command |-> c, old |-> FALSE])
  /\ queued' = [queued EXCEPT ![c] = @ + 1]

LeavesQueue == UNCHANGED <<outbound, queued>>

\* The TTL of an item; all are alike, so the oldest goes first.
ItemExpires ==
  /\ \E i \in DOMAIN outbound :
       /\ ~outbound[i].old
       /\ \A j \in 1..i-1 : outbound[j].old
       /\ outbound' = [outbound EXCEPT ![i].old = TRUE]
  /\ UNCHANGED <<tasks, seen, active, commands, expired, queued, transmitted, doubtful>>

\* The items that have expired are the first.
Fresh(items) ==
  SubSeq(items, Cardinality({i \in DOMAIN items : items[i].old}) + 1, Len(items))

\* Mutant of Remaining: the selected item stays in the queue.
RemainingAll(items) == items

Remaining(items) == Tail(items)

\* pop_for_address, and the item goes onto the line.
PopForAddress ==
  /\ outbound # <<>>
  /\ IF Fresh(outbound) = <<>>
     THEN outbound' = <<>> /\ UNCHANGED transmitted
     ELSE /\ outbound' = Remaining(Fresh(outbound))
          /\ transmitted' = [transmitted EXCEPT ![Head(Fresh(outbound)).command] = @ + 1]
  /\ UNCHANGED <<tasks, seen, active, commands, expired, queued, doubtful>>

\* pop_for_address of another pump drops the items that have expired.
PopForOther ==
  /\ outbound' = Fresh(outbound) /\ outbound' # outbound
  /\ UNCHANGED <<tasks, seen, active, commands, expired, queued, transmitted, doubtful>>

-----------------------------------------------------------------------------
(* Requests. *)

IsDone(n) == tasks[n].phase = "done"

\* The tasks of a command that are not done.
Running(c) == {n \in DOMAIN tasks : tasks[n].command = c /\ ~IsDone(n)}

\* status: what is decided about the command, None while it may be executed.
Begins(c, via, phase, status) ==
  /\ Len(tasks) < MaxRequests
  /\ tasks' = Append(tasks, [command |-> c, via |-> via, phase |-> phase, status |-> status])
  /\ doubtful' = IF Running(c) = {} THEN doubtful ELSE doubtful \union {c}

At(n, via, phase) == tasks[n].via = via /\ tasks[n].phase = phase

Moves(n, phase) == tasks' = [tasks EXCEPT ![n].phase = phase]

IsRefused(c) == ~Command(c).valid \/ c \in expired \/ c \in seen

\* The checks before the first await.  A simulator command outside the LAB is not
\* among the reasons for which one is rejected.
Deliver(c) ==
  /\ active
  /\ Begins(c, "cloud", "look up",
            IF IsRefused(c) THEN "REJECTED"
            ELSE IF Environment # "LAB" /\ Command(c).simulator_only THEN "EVALUATED_ONLY"
            ELSE None)
  /\ UNCHANGED <<seen, active, commands, expired, outbound, queued, transmitted>>

\* Mutant of IsKnown: only what was not executed is looked for.
IsKnownUnexecuted(c) == commands[c] \in {"EVALUATED_ONLY", "REJECTED"}

IsKnown(c) == commands[c] # None

LookUp(n) ==
  /\ At(n, "cloud", "look up")
  /\ LET status == IF IsKnown(tasks[n].command) THEN "REJECTED" ELSE tasks[n].status IN
     tasks' = [tasks EXCEPT ![n].status = status,
                            ![n].phase = IF status = None THEN "evaluate" ELSE "settle"]
  /\ UNCHANGED <<seen, active, commands, expired, outbound, queued, transmitted,
                 doubtful>>

\* The guards, without a preset, on what the session's machine knows by then.
Evaluate(n) ==
  /\ At(n, "cloud", "evaluate")
  /\ \E context \in Contexts :
       tasks' = [tasks EXCEPT
                   ![n].status = IF Eligible(Command(tasks[n].command).type, None, context)
                                 THEN None ELSE "EVALUATED_ONLY",
                   ![n].phase = "settle"]
  /\ UNCHANGED <<seen, active, commands, expired, outbound, queued, transmitted,
                 doubtful>>

\* What may be executed: in the LAB, for the simulator, and with a CD1 code.
IsExecutable(c) ==
  Environment = "LAB" /\ Command(c).simulator_only /\ Command(c).type \in Mapped

Concludes(n, status) ==
  tasks' = [tasks EXCEPT ![n].status = status, ![n].phase = "look again"]

\* From the last await of the evaluation to _seen.add, without one in between.
Settle(n) ==
  /\ At(n, "cloud", "settle")
  /\ LET c == tasks[n].command IN
     /\ seen' = seen \union {c}
     /\ \/ /\ tasks[n].status # None
           /\ Concludes(n, tasks[n].status) /\ LeavesQueue
        \/ /\ tasks[n].status = None /\ ~IsExecutable(c)
           /\ Concludes(n, "EVALUATED_ONLY") /\ LeavesQueue
        \/ /\ tasks[n].status = None /\ IsExecutable(c)
           /\ IF Admits(c) THEN Concludes(n, "QUEUED") /\ Enqueues(c)
              ELSE Concludes(n, "ENQUEUE_FAILED") /\ LeavesQueue
  /\ UNCHANGED <<active, commands, expired, transmitted, doubtful>>

\* commands.get before commands.create: a row that is there is left alone.
LookAgain(n) ==
  /\ At(n, "cloud", "look again")
  /\ Moves(n, IF commands[tasks[n].command] = None THEN "create" ELSE "done")
  /\ UNCHANGED <<seen, active, commands, expired, outbound, queued, transmitted,
                 doubtful>>

\* lab_submit_command, up to the await that finds the pump.
LabSubmit(c) ==
  /\ IsExecutable(c)
  /\ Begins(c, "lab", "queue", None)
  /\ UNCHANGED <<seen, active, commands, expired, outbound, queued, transmitted>>

\* Neither the guards nor earlier requests of the same id are consulted.
LabQueue(n) ==
  /\ At(n, "lab", "queue")
  /\ IF Admits(tasks[n].command)
     THEN /\ Enqueues(tasks[n].command)
          /\ tasks' = [tasks EXCEPT ![n].status = "QUEUED", ![n].phase = "create"]
     ELSE Moves(n, "done") /\ LeavesQueue
  /\ UNCHANGED <<seen, active, commands, expired, transmitted, doubtful>>

\* evaluate_command, up to the row it is going to create.
EvaluateOnly(c) ==
  /\ \E context \in Contexts :
       Begins(c, "evaluate", "create",
              IF Eligible(Command(c).type, None, context) THEN "ELIGIBLE" ELSE "REJECTED")
  /\ UNCHANGED <<seen, active, commands, expired, outbound, queued, transmitted>>

Created(c, status) == IF commands[c] = None THEN [commands EXCEPT ![c] = status] ELSE commands

\* commands.create; a second row of the id raises IntegrityError.
Create(n) ==
  /\ tasks[n].phase = "create"
  /\ LET c == tasks[n].command IN
     /\ commands' = Created(c, tasks[n].status)
     /\ doubtful' = IF IsKnown(c) THEN doubtful \union {c} ELSE doubtful
  /\ Moves(n, "done")
  /\ UNCHANGED <<seen, active, expired, outbound, queued, transmitted>>

-----------------------------------------------------------------------------
(* Around the requests. *)

\* The next statement of the database raises, and with it the task.
TaskFails(n) ==
  /\ tasks[n].phase \in {"look up", "evaluate", "look again", "create"}
  /\ Moves(n, "done")
  /\ doubtful' = doubtful \union {tasks[n].command}
  /\ UNCHANGED <<seen, active, commands, expired, outbound, queued, transmitted>>

CommandExpires(c) ==
  /\ c \notin expired
  /\ expired' = expired \union {c}
  /\ UNCHANGED <<tasks, seen, active, commands, outbound, queued, transmitted, doubtful>>

\* The runtime's connection handler starts the intake.
IntakeStarts ==
  /\ ~active
  /\ active' = TRUE
  /\ UNCHANGED <<tasks, seen, commands, expired, outbound, queued, transmitted, doubtful>>

NonIdempotent == PumpCommand \ ReadCommands

\* Mutant of Reconciled: it looks at every row.
ReconciledAll(c) == IF commands[c] = None THEN None ELSE "EXPIRED"

\* _reconcile_command of a row that list_pending_or_in_progress returns.
Reconciled(c) ==
  IF commands[c] \notin {"PENDING", "IN_PROGRESS"} THEN commands[c]
  ELSE IF c \in expired \/ Command(c).type \notin NonIdempotent THEN "EXPIRED"
  ELSE "NEEDS_RECONCILIATION"

\* The process ends and starts again.
CommandsRestart ==
  /\ tasks' = [n \in DOMAIN tasks |-> [tasks[n] EXCEPT !.phase = "done"]]
  /\ doubtful' = doubtful \union {c \in Commands : Running(c) # {}}
  /\ seen' = {} /\ active' = FALSE /\ outbound' = <<>>
  /\ commands' = [c \in Commands |-> Reconciled(c)]
  /\ UNCHANGED <<expired, queued, transmitted>>

TaskStep ==
  \E n \in DOMAIN tasks :
    \/ LookUp(n) \/ Evaluate(n) \/ Settle(n) \/ LookAgain(n)
    \/ LabQueue(n) \/ Create(n)

Request == \E c \in Commands : LabSubmit(c) \/ EvaluateOnly(c)

CommandStep ==
  \/ TaskStep \/ Request \/ PopForAddress \/ PopForOther \/ ItemExpires
  \/ \E c \in Commands : CommandExpires(c)

-----------------------------------------------------------------------------
(* Properties *)

\* The requests ever made for a command.
RequestsOf(c, via) == {n \in DOMAIN tasks : tasks[n].command = c /\ tasks[n].via = via}

\* A command whose deliveries were handled one after the other is put on the
\* line once, whatever was remembered in _seen and whatever only in the database
\* when the station restarted (handle_command's two duplicate checks).
CloudCommandQueuedOnce ==
  \A c \in Commands \ doubtful :
    RequestsOf(c, "lab") = {} => queued[c] <= 1

\* The commands table says of a command whether it was put on the line: by none
\* of its three producers does a row claim it falsely, nor, when the tasks did not
\* overlap and none was cut short, leave it out.
RowsTellExecution ==
  \A c \in Commands :
    /\ commands[c] = "QUEUED" => queued[c] > 0
    /\ c \notin doubtful /\ Running(c) = {} /\ queued[c] > 0 => commands[c] = "QUEUED"

\* No request makes the pump hear a command twice, and a restart none that was
\* queued before (OutboundQueue.pop_for_address, "never replay").
SentOncePerRequest ==
  \A c \in Commands :
    /\ transmitted[c] + Cardinality({i \in DOMAIN outbound : outbound[i].command = c})
         <= queued[c]
    /\ queued[c] <= Cardinality(RequestsOf(c, "cloud") \union RequestsOf(c, "lab"))

\* "Reject duplicates": of all deliveries of a command by the cloud, one at most
\* puts it on the line.
DuplicatesAreRejected ==
  \A c \in Commands : RequestsOf(c, "lab") = {} => queued[c] <= 1

=============================================================================

------------------------------ MODULE Executor ------------------------------
(***************************************************************************)
(* The task executor of the interpreter (interp/src/lib.rs): `task` calls  *)
(* spawn one OS thread each, `await` joins a thread through a bounded      *)
(* bridge, `task_cancel` raises a flag the thread reads when it suspends   *)
(* or exits, and the end of `run` drains what was never awaited.           *)
(*                                                                         *)
(* Every thread owns a private interpreter, hence a private registry of    *)
(* the tasks IT spawned; threads meet only in the process-wide atomics     *)
(* (live, depth), in NOCT_WORKERS and in the cancel flags.  An action is   *)
(* one access to that shared state together with the private code that     *)
(* surrounds it.  What a task body computes is a free choice.              *)
(***************************************************************************)
EXTENDS Integers, FiniteSets

CONSTANTS
  Main,           \* the thread that called Interpreter::run
  Tasks,          \* the worker threads the process may ever create
  NoTask,         \* absence of a registry entry
  MaxId,          \* bound: handle ids one interpreter may hand out
  InitialWorkers, \* executor_worker_count() at start; 0: malformed NOCT_WORKERS
  EnvWorkers,     \* values a body may give NOCT_WORKERS with env_set
  MaxWorkers      \* the largest of those worker counts

ASSUME ExecutorAssumption ==
  /\ Main \notin Tasks
  /\ NoTask \notin Tasks /\ NoTask # Main
  /\ IsFiniteSet(Tasks)
  /\ MaxId \in Nat
  /\ InitialWorkers \in Nat
  /\ EnvWorkers \subseteq Nat
  /\ MaxWorkers \in {InitialWorkers} \cup EnvWorkers
  /\ \A w \in {InitialWorkers} \cup EnvWorkers : w <= MaxWorkers

Threads == Tasks \cup {Main}
Ids     == 1 .. MaxId

VARIABLES
  workers,    \* NOCT_WORKERS as parse_noct_workers sees it
  live, peak, \* EXECUTOR_LIVE_TASKS, EXECUTOR_PEAK_TASKS
  depth,      \* BRIDGE_DEPTH
  pc,         \* where each thread is
  cap,        \* the worker cap a thread has read in its current call, else 0
  reg,        \* TaskRegistry.tasks of each thread's interpreter
  completed,  \* TaskRegistry.completed
  nextId,     \* TaskRegistry.next_id
  target,     \* join_task's id argument while it runs, else 0
  held,       \* the TaskEntry join_task has taken out of the registry
  flag,       \* the cancel flag of each task
  result,     \* how a body ended, before the exit-time cancel check
  outcome,    \* TaskOutcome.result of a finished worker
  todo,       \* drain_tasks: snapshot ids still to join
  drainFailed,\* drain_tasks: code = 1
  parent, ident, slot \* history: spawner and handle of a task, fate of its slot

gauges  == <<live, peak, depth>>
private == <<reg, completed, nextId, target, held>>
history == <<parent, ident, slot>>
vars == <<workers, gauges, pc, cap, private, flag, result, outcome, todo,
          drainFailed, history>>

InBody == "body"

Points == {"unborn", InBody, "reserve", "spawn", "unreserve", "admit", "enter",
           "rollback", "wait", "joined", "exit", "drain", "done"}

Results  == {"none", "value", "lookalike", "error"}
Outcomes == {"none", "value", "lookalike", "error", "cancelled", "died"}
Slots    == {"none", "live", "awaited", "drained"}

Bigger(a, b) == IF a > b THEN a ELSE b

\* blocking_bridge_cap: the worker count, 4 when that is malformed.
BridgeCap == IF workers = 0 THEN 4 ELSE workers

Registered(p) == {id \in Ids : reg[p][id] # NoTask}

\* Main joins from drain_tasks once its body has ended.
Draining(p) == p = Main /\ result[Main] # "none"

Init ==
  /\ workers = InitialWorkers
  /\ live = 0 /\ peak = 0 /\ depth = 0
  /\ pc = [p \in Threads |-> IF p = Main THEN InBody ELSE "unborn"]
  /\ cap = [p \in Threads |-> 0]
  /\ reg = [p \in Threads |-> [id \in Ids |-> NoTask]]
  /\ completed = [p \in Threads |-> {}]
  /\ nextId = [p \in Threads |-> 1]
  /\ target = [p \in Threads |-> 0]
  /\ held = [p \in Threads |-> NoTask]
  /\ flag = [t \in Tasks |-> FALSE]
  /\ result = [p \in Threads |-> "none"]
  /\ outcome = [t \in Tasks |-> "none"]
  /\ todo = {}
  /\ drainFailed = FALSE
  /\ parent = [t \in Tasks |-> NoTask]
  /\ ident = [t \in Tasks |-> 0]
  /\ slot = [t \in Tasks |-> "none"]

Goto(p, point) == pc' = [pc EXCEPT ![p] = point]

\* The checks and the decrements on the two gauges; mutants: a cap checked one
\* too late, a slot kept or freed twice, a bridge slot kept.
OverByTwo(n, limit) == n > limit + 1
Over(n, limit)      == n > limit

FreeSlotForgotten == UNCHANGED live
FreeSlot          == live' = live - 1

ReleaseForgotten == UNCHANGED depth
Release          == depth' = depth - 1

\* The locals of a call end with their last use.
DropCap(p)    == cap' = [cap EXCEPT ![p] = 0]
DropTarget(p) == target' = [target EXCEPT ![p] = 0]

(***************************************************************************)
(* RuntimeError::Panic leaves the built-in.  Nothing in the language       *)
(* catches it: a body ends in error; drain_tasks records it and goes on.   *)
(***************************************************************************)
DrainFails == drainFailed' = TRUE

Panic(p) ==
  IF Draining(p)
  THEN /\ Goto(p, "drain")
       /\ DrainFails
       /\ UNCHANGED result
  ELSE /\ Goto(p, "exit")
       /\ result' = [result EXCEPT ![p] = "error"]
       /\ UNCHANGED drainFailed

-----------------------------------------------------------------------------
(***************************************************************************)
(* spawn_task                                                              *)
(***************************************************************************)

\* The cap is read from the environment on every call; malformed is loud.
SpawnBegin(p) ==
  /\ pc[p] = InBody
  /\ nextId[p] \in Ids
  /\ IF workers = 0
     THEN Panic(p) /\ UNCHANGED cap
     ELSE /\ cap' = [cap EXCEPT ![p] = workers]
          /\ Goto(p, "reserve")
          /\ UNCHANGED <<result, drainFailed>>
  /\ UNCHANGED <<workers, gauges, private, flag, outcome, todo, history>>

\* fetch_add then fetch_max: the peak sees the reservation before its check.
SpawnReserve(p) ==
  /\ pc[p] = "reserve"
  /\ live' = live + 1
  /\ peak' = Bigger(peak, live + 1)
  /\ Goto(p, IF Over(live + 1, cap[p]) THEN "unreserve" ELSE "spawn")
  /\ DropCap(p)
  /\ UNCHANGED <<workers, depth, private, flag, result, outcome, todo,
                 drainFailed, history>>

SpawnThread(p, t) ==
  /\ pc[p] = "spawn" /\ pc[t] = "unborn"
  /\ pc' = [pc EXCEPT ![p] = InBody, ![t] = InBody]
  /\ reg' = [reg EXCEPT ![p][nextId[p]] = t]
  /\ nextId' = [nextId EXCEPT ![p] = @ + 1]
  /\ parent' = [parent EXCEPT ![t] = p]
  /\ ident' = [ident EXCEPT ![t] = nextId[p]]
  /\ slot' = [slot EXCEPT ![t] = "live"]
  /\ UNCHANGED <<workers, gauges, cap, completed, target, held, flag, result,
                 outcome, todo, drainFailed>>

\* Builder::spawn failed: the id is spent, the reservation is not kept.
SpawnThreadFails(p) ==
  /\ pc[p] = "spawn"
  /\ nextId' = [nextId EXCEPT ![p] = @ + 1]
  /\ Goto(p, "unreserve")
  /\ UNCHANGED <<workers, gauges, cap, reg, completed, target, held, flag,
                 result, outcome, todo, drainFailed, history>>

SpawnRefused(p) ==
  /\ pc[p] = "unreserve"
  /\ FreeSlot
  /\ Panic(p)
  /\ UNCHANGED <<workers, peak, depth, cap, private, flag, outcome, todo, history>>

-----------------------------------------------------------------------------
(***************************************************************************)
(* join_task, reached from `await` and from drain_tasks                    *)
(***************************************************************************)

\* An id that is not registered here is loud, another thread's id included.
JoinBegin(p, id) ==
  /\ IF reg[p][id] = NoTask
     THEN Panic(p) /\ UNCHANGED <<cap, target>>
     ELSE /\ cap' = [cap EXCEPT ![p] = BridgeCap]
          /\ target' = [target EXCEPT ![p] = id]
          /\ Goto(p, "admit")
          /\ UNCHANGED <<result, drainFailed>>
  /\ UNCHANGED <<workers, gauges, reg, completed, nextId, held, flag, outcome,
                 history>>

Await(p, id) ==
  /\ pc[p] = InBody
  /\ JoinBegin(p, id)
  /\ UNCHANGED todo

\* blocking_bridge_try_acquire: the check, on a value that may be stale.
BridgeAdmit(p) ==
  /\ pc[p] = "admit"
  /\ IF depth >= cap[p]
     THEN Panic(p) /\ DropCap(p) /\ DropTarget(p)
     ELSE Goto(p, "enter") /\ UNCHANGED <<cap, target, result, drainFailed>>
  /\ UNCHANGED <<workers, gauges, reg, completed, nextId, held, flag, outcome,
                 todo, history>>

\* The increment and its re-check; the entry leaves the registry only now.
BridgeEnter(p) ==
  /\ pc[p] = "enter"
  /\ depth' = depth + 1
  /\ IF Over(depth + 1, cap[p])
     THEN Goto(p, "rollback") /\ UNCHANGED <<reg, held>>
     ELSE /\ Goto(p, "wait")
          /\ held' = [held EXCEPT ![p] = reg[p][target[p]]]
          /\ reg' = [reg EXCEPT ![p][target[p]] = NoTask]
  /\ DropCap(p)
  /\ UNCHANGED <<workers, live, peak, completed, nextId, target, flag, result,
                 outcome, todo, drainFailed, history>>

BridgeRollback(p) ==
  /\ pc[p] = "rollback"
  /\ Release
  /\ Panic(p)
  /\ DropTarget(p)
  /\ UNCHANGED <<workers, live, peak, cap, reg, completed, nextId, held, flag,
                 outcome, todo, history>>

\* JoinHandle::is_finished; mutant: a cancelled task is not waited for.
FinishedOrCancelled(p) == pc[held[p]] = "done" \/ flag[held[p]]
Finished(p)            == pc[held[p]] = "done"

\* The 30 s deadline may have passed in any poll; mutant: there is none.
NoWatchdog(p)      == FALSE
WatchdogExpired(p) == ~ Finished(p)

\* The entry goes back under its id; mutant: it is dropped.
PutBackForgotten(p) == UNCHANGED reg
PutBack(p)          == reg' = [reg EXCEPT ![p][target[p]] = held[p]]

\* is_finished, join, and blocking_bridge_release BEFORE the slot is freed.
WaitFinished(p) ==
  /\ pc[p] = "wait"
  /\ Finished(p)
  /\ Release
  /\ Goto(p, "joined")
  /\ UNCHANGED <<workers, live, peak, cap, private, flag, result, outcome, todo,
                 drainFailed, history>>

\* The 30 s watchdog: the entry goes back, its slot stays taken.
WaitTimesOut(p) ==
  /\ pc[p] = "wait"
  /\ WatchdogExpired(p)
  /\ PutBack(p)
  /\ held' = [held EXCEPT ![p] = NoTask]
  /\ Release
  /\ Panic(p)
  /\ DropTarget(p)
  /\ UNCHANGED <<workers, live, peak, cap, completed, nextId, flag, outcome,
                 todo, history>>

\* is_cancelled_value: the pinned value, and any Err(String) ending like it.
\* (The mutant never recognises either.)
IsCancelledValueNever(o) == FALSE
IsCancelledValue(o) == o \in {"cancelled", "lookalike"}

\* Tombstone, live slot, then the value: an error or a dead thread fails the
\* awaiter, and the drain also reports whatever is_cancelled_value accepts.
JoinDone(p) ==
  /\ pc[p] = "joined"
  /\ completed' = [completed EXCEPT ![p] = @ \cup {target[p]}]
  /\ FreeSlot
  /\ slot' = [slot EXCEPT ![held[p]] = IF Draining(p) THEN "drained" ELSE "awaited"]
  /\ held' = [held EXCEPT ![p] = NoTask]
  /\ DropTarget(p)
  /\ IF outcome[held[p]] \in {"error", "died"}
     THEN Panic(p)
     ELSE /\ Goto(p, IF Draining(p) THEN "drain" ELSE InBody)
          /\ drainFailed' = \/ drainFailed
                            \/ Draining(p) /\ IsCancelledValue(outcome[held[p]])
          /\ UNCHANGED result
  /\ UNCHANGED <<workers, peak, depth, cap, reg, nextId, flag, outcome, todo,
                 parent, ident>>

-----------------------------------------------------------------------------
(***************************************************************************)
(* Cancellation                                                            *)
(***************************************************************************)

\* task_cancel: flag a registered task, accept a tombstone, refuse the rest.
Cancel(p, id) ==
  /\ pc[p] = InBody
  /\ \/ /\ reg[p][id] # NoTask
        /\ flag' = [flag EXCEPT ![reg[p][id]] = TRUE]
        /\ UNCHANGED <<pc, result, drainFailed>>
     \/ /\ reg[p][id] = NoTask
        /\ id \notin completed[p]
        /\ Panic(p)
        /\ UNCHANGED flag
  /\ UNCHANGED <<workers, gauges, cap, private, outcome, todo, history>>

\* sleep, sleep(0) included, in a flagged task; without a flag it only waits.
SleepCheckpoint(t) ==
  /\ pc[t] = InBody
  /\ flag[t]
  /\ Panic(t)
  /\ UNCHANGED <<workers, gauges, cap, private, flag, outcome, todo, history>>

-----------------------------------------------------------------------------
(***************************************************************************)
(* Bodies, thread exit, and the end of run                                 *)
(***************************************************************************)

EnvSetWorkers(p, w) ==
  /\ pc[p] = InBody
  /\ workers' = w
  /\ UNCHANGED <<gauges, pc, cap, private, flag, result, outcome, todo,
                 drainFailed, history>>

\* "lookalike": an Err(String) of the program's own that ends in "cancelled".
BodyEnds(p) ==
  /\ pc[p] = InBody
  /\ \E r \in Results \ {"none"} : result' = [result EXCEPT ![p] = r]
  /\ Goto(p, "exit")
  /\ UNCHANGED <<workers, gauges, cap, private, flag, outcome, todo,
                 drainFailed, history>>

\* A finished thread drops its private interpreter, the registry of its own
\* children included: their JoinHandles are detached, nothing is joined.
DropInterpreter(t) ==
  /\ reg' = [reg EXCEPT ![t] = [id \in Ids |-> NoTask]]
  /\ completed' = [completed EXCEPT ![t] = {}]
  /\ nextId' = [nextId EXCEPT ![t] = 1]
  /\ Goto(t, "done")

\* The worker thread itself panics: JoinHandle::join returns Err.
ThreadDies(t) ==
  /\ pc[t] = InBody
  /\ outcome' = [outcome EXCEPT ![t] = "died"]
  /\ DropInterpreter(t)
  /\ UNCHANGED <<workers, gauges, cap, target, held, flag, result, todo,
                 drainFailed, history>>

\* The exit-time cancel check of spawn_task's closure; it overrides errors.
\* (Mutant: an error is reported although the flag is set.)
ReportKeepingErrors(t) ==
  IF flag[t] /\ result[t] # "error" THEN "cancelled" ELSE result[t]
Report(t) == IF flag[t] THEN "cancelled" ELSE result[t]

ExitCheck(t) ==
  /\ pc[t] = "exit"
  /\ outcome' = [outcome EXCEPT ![t] = Report(t)]
  /\ result' = [result EXCEPT ![t] = "none"]
  /\ DropInterpreter(t)
  /\ UNCHANGED <<workers, gauges, cap, target, held, flag, todo, drainFailed,
                 history>>

DrainBegin ==
  /\ pc[Main] = "exit"
  /\ todo' = Registered(Main)
  /\ Goto(Main, "drain")
  /\ UNCHANGED <<workers, gauges, cap, private, flag, result, outcome,
                 drainFailed, history>>

DrainNext(id) ==
  /\ pc[Main] = "drain"
  /\ id \in todo
  /\ todo' = todo \ {id}
  /\ JoinBegin(Main, id)

RunReturns ==
  /\ pc[Main] = "drain"
  /\ todo = {}
  /\ Goto(Main, "done")
  /\ UNCHANGED <<workers, gauges, cap, private, flag, result, outcome, todo,
                 drainFailed, history>>

\* run's return value
ExitCode == IF result[Main] = "error" \/ drainFailed THEN 1 ELSE 0

Terminated ==
  /\ pc[Main] = "done"
  /\ \A t \in Tasks : pc[t] \in {"unborn", "done"}
  /\ UNCHANGED vars

-----------------------------------------------------------------------------
\* What a body may ask for next.
BodyStep(p) ==
  \/ SpawnBegin(p)
  \/ \E id \in Ids : Await(p, id)
  \/ \E id \in Ids : Cancel(p, id)
  \/ \E w \in EnvWorkers : EnvSetWorkers(p, w)
  \/ BodyEnds(p)

\* What the executor's own code does next once asked.
ExecutorStep(p) ==
  \/ SpawnReserve(p)
  \/ \E t \in Tasks : SpawnThread(p, t)
  \/ SpawnThreadFails(p)
  \/ SpawnRefused(p)
  \/ BridgeAdmit(p)
  \/ BridgeEnter(p)
  \/ BridgeRollback(p)
  \/ WaitFinished(p)
  \/ WaitTimesOut(p)
  \/ JoinDone(p)

DrainStep ==
  \/ DrainBegin
  \/ \E id \in Ids : DrainNext(id)
  \/ RunReturns

Next ==
  \/ \E p \in Threads : BodyStep(p) \/ ExecutorStep(p)
  \/ \E t \in Tasks : SleepCheckpoint(t) \/ ThreadDies(t) \/ ExitCheck(t)
  \/ DrainStep
  \/ Terminated

Spec == Init /\ [][Next]_vars

(***************************************************************************)
(* The OS schedules every thread, so a thread inside the executor's code   *)
(* takes its next step; a body owes nothing (it may loop for ever).        *)
(***************************************************************************)
Fairness ==
  /\ \A p \in Threads : WF_vars(ExecutorStep(p))
  /\ \A t \in Tasks : WF_vars(ExitCheck(t))
  /\ WF_vars(DrainStep)

FairSpec == Spec /\ Fairness

-----------------------------------------------------------------------------
(***************************************************************************)
(* Properties                                                              *)
(***************************************************************************)

ShapeOK ==
  /\ workers \in {InitialWorkers} \cup EnvWorkers
  /\ pc \in [Threads -> Points]
  /\ cap \in [Threads -> Nat]
  /\ reg \in [Threads -> [Ids -> Tasks \cup {NoTask}]]
  /\ completed \in [Threads -> SUBSET Ids]
  /\ nextId \in [Threads -> 1 .. MaxId + 1]
  /\ target \in [Threads -> 0 .. MaxId]
  /\ held \in [Threads -> Tasks \cup {NoTask}]
  /\ flag \in [Tasks -> BOOLEAN]
  /\ result \in [Threads -> Results]
  /\ outcome \in [Tasks -> Outcomes]
  /\ todo \subseteq Ids
  /\ drainFailed \in BOOLEAN
  /\ parent \in [Tasks -> Threads \cup {NoTask}]
  /\ ident \in [Tasks -> 0 .. MaxId]
  /\ slot \in [Tasks -> Slots]

\* The shape of the executor's state.  The gauges are unsigned: a release too
\* many would wrap them.
TypeOK ==
  /\ ShapeOK
  /\ live \in Nat /\ peak \in Nat /\ depth \in Nat

LiveTasks   == {t \in Tasks : slot[t] = "live"}
Reserving   == {p \in Threads : pc[p] \in {"spawn", "unreserve"}}
OnTheBridge == {p \in Threads : pc[p] \in {"rollback", "wait"}}

\* The live gauge is exact at every instant: one unit for each task whose
\* handle was not joined, one for each spawn between its reservation and its
\* thread; whatever refusals, failed spawns, dead threads and watchdogs occur.
LiveGaugeIsExact == live = Cardinality(LiveTasks) + Cardinality(Reserving)

\* The bridge gauge is exact: one unit for each join past its increment, and
\* every error path of join_task gives its unit back.
BridgeGaugeIsExact == depth = Cardinality(OnTheBridge)

\* The pool never oversubscribes: however spawners interleave their check
\* with their reservation, no more tasks are live than the largest worker
\* count NOCT_WORKERS ever had.
LiveWithinCap == Cardinality(LiveTasks) <= MaxWorkers

\* "Sizing rule: bridge cap >= pool max" (lib.rs, executor header): while
\* NOCT_WORKERS keeps its value no await is refused for a full bridge, on
\* either side of the stale check.  It rests on join_task releasing the
\* bridge before it frees the live slot.
BridgeNeverRefuses ==
  EnvWorkers = {} =>
    \A p \in Threads :
      /\ pc[p] \in {"admit", "enter"} => depth < cap[p]
      /\ pc[p] # "rollback"

\* Pool and bridge keep to their sizes: neither admits too many, and a bridge
\* of the pool's size never refuses one of the pool's tasks.
PoolIsSized == LiveWithinCap /\ BridgeNeverRefuses

\* p's interpreter exists: main's, and a worker's until its thread is done.
Alive(p) == p = Main \/ pc[p] # "done"

Placed(t, p, id) ==
  IF slot[t] = "live"
  THEN /\ id \notin completed[p]
       /\ \/ reg[p][id] = t /\ held[p] # t
          \/ reg[p][id] = NoTask /\ held[p] = t /\ target[p] = id
  ELSE /\ id \in completed[p]
       /\ reg[p][id] = NoTask
       /\ held[p] # t

\* While its spawner lives, the handle of an unjoined task is in exactly one
\* place, the registry or the join in progress, under the id it was given;
\* once joined it is a tombstone and nothing else.  A watchdog or a refused
\* bridge loses no task, and no await or cancel reaches another one.
HandleIsInOnePlace ==
  \A t \in Tasks :
    slot[t] # "none" /\ Alive(parent[t]) => Placed(t, parent[t], ident[t])

\* A slot is given back only for a task whose thread has ended: no join, not
\* even one cut short by a cancellation, detaches a running worker.
JoinedTasksHaveStopped ==
  \A t \in Tasks : slot[t] \in {"awaited", "drained"} => pc[t] = "done"

\* Awaits never close a circle: in any group of threads one does not wait for
\* another of the group, so the watchdog is not what ends a deadlock.
NoCircularAwait ==
  \A group \in (SUBSET Threads) \ {{}} :
    \E p \in group : ~(pc[p] = "wait" /\ held[p] \in group)

\* Exit code 0 is earned: every task main spawned has been joined, none failed
\* and one that was cancelled (or answers so) was awaited by the program.
ExitZeroIsClean ==
  pc[Main] = "done" /\ ExitCode = 0 =>
    \A t \in Tasks : parent[t] = Main =>
      /\ slot[t] \in {"awaited", "drained"}
      /\ outcome[t] \notin {"error", "died"}
      /\ slot[t] = "drained" => outcome[t] = "value"

\* Once main's body ends, run returns: the drain is never wedged by a task
\* that loops for ever, by the bridge or by tasks awaiting their own children.
RunAlwaysReturns == result[Main] # "none" ~> pc[Main] = "done"

\* Every await comes back to the body or fails it; no assumption on the task.
AwaitAlwaysAnswers ==
  \A t \in Tasks : pc[t] = "admit" ~> pc[t] \in {"body", "exit"}

(***************************************************************************)
(* The inductive invariant behind the theorems of ExecutorProofs           *)
(***************************************************************************)

Spawning == {p \in Threads : pc[p] = "spawn"}

\* What a thread's control point says about its locals.
ControlInv ==
  /\ \A t \in Tasks : pc[t] = "unborn" <=> slot[t] = "none"
  /\ \A p \in Threads :
       /\ pc[p] \in {"reserve", "spawn"} => nextId[p] \in Ids
       /\ pc[p] \in {"admit", "enter", "rollback", "wait", "joined"} => target[p] \in Ids
       /\ pc[p] \in {"admit", "enter"} => reg[p][target[p]] # NoTask
       /\ pc[p] \in {"wait", "joined"} <=> held[p] # NoTask
       /\ pc[p] = "joined" => pc[held[p]] = "done"

\* Who may sit in a registry or in a join, and which ids are spent.
RegistryInv ==
  /\ \A p \in Threads : \A id \in Ids :
       reg[p][id] # NoTask =>
         /\ slot[reg[p][id]] = "live"
         /\ parent[reg[p][id]] = p
         /\ ident[reg[p][id]] = id
  /\ \A p \in Threads :
       held[p] # NoTask =>
         /\ slot[held[p]] = "live"
         /\ parent[held[p]] = p
         /\ ident[held[p]] = target[p]
         /\ reg[p][target[p]] = NoTask
  /\ \A p \in Threads : \A id \in completed[p] : id < nextId[p]
  /\ \A t \in Tasks :
       slot[t] # "none" =>
         /\ parent[t] \in Threads /\ ident[t] \in Ids
         /\ Alive(parent[t]) => ident[t] < nextId[parent[t]]

ThreadInv ==
  ShapeOK /\ ControlInv /\ RegistryInv /\ HandleIsInOnePlace /\ JoinedTasksHaveStopped

\* What the gauges count; a granted reservation is already within the cap.
CountInv ==
  /\ LiveGaugeIsExact
  /\ BridgeGaugeIsExact
  /\ Cardinality(LiveTasks) + Cardinality(Spawning) <= MaxWorkers

\* The caps threads carry from their reading to their check.
CapInv ==
  \A p \in Threads :
    /\ pc[p] = "reserve" => cap[p] <= MaxWorkers
    /\ EnvWorkers = {} =>
         /\ pc[p] \in {"admit", "enter"} => cap[p] = BridgeCap
         /\ pc[p] # "rollback"

GaugeInv == peak \in Nat /\ CountInv /\ CapInv

IInv == ThreadInv /\ GaugeInv

\* When main has a result, where it then is, and what a thread that ends leaves.
ResultInv ==
  /\ pc[Main] \in {"body", "reserve", "spawn", "unreserve", "unborn"} => result[Main] = "none"
  /\ pc[Main] \in {"exit", "drain", "done"} => result[Main] # "none"
  /\ pc[Main] = "done" => todo = {}
  /\ \A t \in Tasks : /\ pc[t] = "exit" => result[t] # "none"
                      /\ pc[t] = "done" => outcome[t] # "none"
                      /\ slot[t] = "none" => parent[t] # Main

\* The drain has not begun, has failed, or still has main's task t in sight.
InSight(t) ==
  \/ result[Main] = "none" \/ pc[Main] = "exit" \/ drainFailed
  \/ ident[t] \in todo \/ held[Main] = t
  \/ pc[Main] \in {"admit", "enter", "rollback"} /\ target[Main] = ident[t]

\* What the exit code already owes each of main's tasks: an awaited one that
\* failed has failed main, a drained one that gave no value the drain.
VerdictInv ==
  \A t \in Tasks : parent[t] = Main =>
    /\ slot[t] = "awaited" => outcome[t] \notin {"error", "died"} \/ result[Main] = "error"
    /\ slot[t] = "drained" => outcome[t] = "value" \/ drainFailed
    /\ slot[t] = "live" => InSight(t)

ExitInv == ResultInv /\ VerdictInv

\* The executor implements the abstract task pool: refusals, failed spawns,
\* bridge and watchdog are invisible there, a slot never outlives its join and
\* is never reused before it.  A cancel that lands before the exit-time check
\* decides the answer, over the body's value or error and wherever the body
\* was; one that lands afterwards, before or after a join, changes nothing.
Phase(t) ==
  CASE slot[t] = "none" -> "none"
    [] slot[t] \in {"awaited", "drained"} -> "joined"
    [] OTHER -> IF pc[t] = "done" THEN "ended"
                ELSE IF flag[t] THEN "doomed" ELSE "running"

Pool == INSTANCE TaskPool WITH Cap <- MaxWorkers,
                               phase <- [t \in Tasks |-> Phase(t)],
                               answer <- outcome

ImplementsTaskPool == Pool!Spec

(***************************************************************************)
(* What the documentation says and the code does not do                    *)
(***************************************************************************)

\* docs/CONCURRENCY.md section 3: "No child task outlives its parent scope."
\* A worker that returns drops its private registry without draining it.
NoChildOutlivesItsTask ==
  \A t \in Tasks :
    parent[t] \in Tasks /\ pc[parent[t]] = "done" => slot[t] # "live"

\* is_cancelled_value: "True when `v` is the pinned cancelled-class value".
\* The drain blames a cancellation on any Err(String) ending in "cancelled".
DrainReportsRealFailures ==
  drainFailed =>
    \E t \in Tasks : /\ parent[t] = Main
                     /\ \/ outcome[t] \in {"error", "died", "cancelled"}
                        \/ slot[t] = "live"

\* Executor header: "Handles stay monotonic within a run and are NEVER
\* reused".  Every worker's registry starts again at 1.
HandlesAreUniqueInARun ==
  \A t, u \in Tasks :
    t # u /\ slot[t] # "none" /\ slot[u] # "none" => ident[t] # ident[u]

\* EXECUTOR_PEAK_TASKS: "High-water mark for live executor tasks".  It is
\* raised before the reservation is checked, so a refused spawn raises it.
PeakCountsLiveTasks == EnvWorkers = {} => peak <= InitialWorkers

=============================================================================

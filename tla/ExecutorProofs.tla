--------------------------- MODULE ExecutorProofs ---------------------------
(***************************************************************************)
(* Theorems about Executor, for every set of threads and every worker cap: *)
(* the life of a task and of its handle; the two process-wide gauges count *)
(* what they claim to count and neither cap is exceeded; every behaviour   *)
(* is one of TaskPool; a cancel that lands before a task's exit-time check *)
(* decides its outcome; and exit code 0 says that every task of main has   *)
(* been joined and accounted for.                                          *)
(***************************************************************************)
EXTENDS Executor, FiniteSetTheorems, TLAPS

-----------------------------------------------------------------------------
(* The life of a task and of its handle *)

LEMMA ThreadInvInit == Init => ThreadInv
  <1> SUFFICES ASSUME Init PROVE ThreadInv
    OBVIOUS
  <1>0. Main \notin Tasks /\ NoTask \notin Tasks /\ MaxId \in Nat
    BY ExecutorAssumption
  <1>1. ShapeOK
    <2>1. pc \in [Threads -> Points] /\ reg \in [Threads -> [Ids -> Tasks \cup {NoTask}]]
      BY DEF Init, Points, InBody
    <2>2. nextId \in [Threads -> 1 .. MaxId + 1] /\ target \in [Threads -> 0 .. MaxId]
      BY <1>0 DEF Init
    <2>3. ident \in [Tasks -> 0 .. MaxId] /\ cap \in [Threads -> Nat]
      BY <1>0 DEF Init
    <2>4. /\ completed \in [Threads -> SUBSET Ids]
          /\ held \in [Threads -> Tasks \cup {NoTask}]
          /\ parent \in [Tasks -> Threads \cup {NoTask}]
      BY DEF Init
    <2>5. /\ flag \in [Tasks -> BOOLEAN]
          /\ result \in [Threads -> Results]
          /\ outcome \in [Tasks -> Outcomes]
          /\ slot \in [Tasks -> Slots]
      BY DEF Init, Results, Outcomes, Slots
    <2>6. workers \in {InitialWorkers} \cup EnvWorkers /\ todo \subseteq Ids /\ drainFailed \in BOOLEAN
      BY DEF Init
    <2> QED BY <2>1, <2>2, <2>3, <2>4, <2>5, <2>6 DEF ShapeOK
  <1>2. \A t \in Tasks : slot[t] = "none" /\ pc[t] = "unborn"
    BY <1>0 DEF Init, Threads
  <1>3. \A p \in Threads : held[p] = NoTask /\ completed[p] = {} /\ pc[p] \in {"body", "unborn"}
    BY DEF Init, InBody
  <1>4. \A p \in Threads, id \in Ids : reg[p][id] = NoTask
    BY DEF Init
  <1>5. ControlInv
    BY <1>2, <1>3 DEF ControlInv
  <1>6. RegistryInv
    BY <1>2, <1>3, <1>4 DEF RegistryInv
  <1>7. HandleIsInOnePlace /\ JoinedTasksHaveStopped
    BY <1>2 DEF HandleIsInOnePlace, JoinedTasksHaveStopped
  <1> QED
    BY <1>1, <1>5, <1>6, <1>7 DEF ThreadInv

LEMMA GotoShape ==
  ASSUME ShapeOK, NEW p \in Threads, NEW pt \in Points, Goto(p, pt)
  PROVE  /\ pc' \in [Threads -> Points]
         /\ \A q \in Threads : pc'[q] = IF q = p THEN pt ELSE pc[q]
  BY DEF ShapeOK, Goto

LEMMA PanicShape ==
  ASSUME ShapeOK, NEW p \in Threads, Panic(p)
  PROVE  /\ pc' \in [Threads -> Points]
         /\ result' \in [Threads -> Results]
         /\ drainFailed' \in BOOLEAN
         /\ \A q \in Threads : q # p => pc'[q] = pc[q]
         /\ pc'[p] \in {"drain", "exit"}
  <1>1. CASE Draining(p)
    <2>1. Goto(p, "drain") /\ drainFailed' = TRUE /\ UNCHANGED result
      BY <1>1 DEF Panic, DrainFails
    <2> QED BY <2>1, GotoShape DEF ShapeOK, Points
  <1>2. CASE ~ Draining(p)
    <2>1. Goto(p, "exit") /\ UNCHANGED drainFailed /\ result' = [result EXCEPT ![p] = "error"]
      BY <1>2 DEF Panic
    <2> QED BY <2>1, GotoShape DEF ShapeOK, Points, Results
  <1> QED BY <1>1, <1>2

LEMMA Frame ==
  ASSUME ThreadInv, ShapeOK', NEW p \in Threads,
         UNCHANGED <<reg, completed, held, history>>,
         \A q \in Threads : q # p => /\ pc'[q] = pc[q]
                                     /\ target'[q] = target[q]
                                     /\ nextId'[q] = nextId[q],
         nextId'[p] >= nextId[p],
         pc[p] \notin {"unborn", "done"},
         pc'[p] # "unborn",
         pc'[p] = "done" => p = Main,
         pc'[p] \in {"reserve", "spawn"} => nextId'[p] \in Ids,
         pc'[p] \in {"admit", "enter", "rollback", "wait", "joined"} => target'[p] \in Ids,
         pc'[p] \in {"admit", "enter"} => reg[p][target'[p]] # NoTask,
         pc'[p] \in {"wait", "joined"} <=> held[p] # NoTask,
         held[p] # NoTask => target'[p] = target[p],
         pc'[p] = "joined" => pc[held[p]] = "done"
  PROVE  ThreadInv'
  <1>0. ShapeOK /\ ControlInv /\ RegistryInv /\ HandleIsInOnePlace /\ JoinedTasksHaveStopped
    BY DEF ThreadInv
  <1>1. UNCHANGED <<parent, ident, slot>>
    BY DEF history
  <1>2. \A q \in Threads : held[q] \in Tasks \cup {NoTask}
    BY <1>0 DEF ShapeOK
  <1>3. \A q \in Threads : Alive(q)' => Alive(q)
    <2> SUFFICES ASSUME NEW q \in Threads, Alive(q)' PROVE Alive(q)
      OBVIOUS
    <2> QED BY DEF Alive
  <1>4. \A q \in Threads : nextId[q] \in Nat /\ nextId'[q] \in Nat /\ nextId'[q] >= nextId[q]
    <2>1. \A q \in Threads : nextId[q] \in Nat
      BY <1>0, ExecutorAssumption DEF ShapeOK
    <2>2. \A q \in Threads : nextId'[q] \in Nat
      BY ExecutorAssumption DEF ShapeOK
    <2> QED BY <2>1, <2>2
  <1>5. \A q \in Threads : held[q] # NoTask => target'[q] = target[q]
    OBVIOUS
  <1>6. ControlInv'
    <2>1. \A t \in Tasks : pc'[t] = "unborn" <=> slot[t] = "none"
      BY <1>0 DEF ControlInv, Threads
    <2>2. ASSUME NEW q \in Threads, q # p
          PROVE  /\ pc'[q] \in {"reserve", "spawn"} => nextId'[q] \in Ids
                 /\ pc'[q] \in {"admit", "enter", "rollback", "wait", "joined"} => target'[q] \in Ids
                 /\ pc'[q] \in {"admit", "enter"} => reg[q][target'[q]] # NoTask
                 /\ pc'[q] \in {"wait", "joined"} <=> held[q] # NoTask
                 /\ pc'[q] = "joined" => pc[held[q]] = "done"
      BY <1>0, <2>2 DEF ControlInv
    <2>3. \A q \in Threads : pc[q] = "done" => pc'[q] = "done"
      OBVIOUS
    <2>4. \A q \in Threads : pc'[q] = "joined" => held[q] \in Threads
      BY <1>2, <2>2 DEF Threads
    <2>5. \A q \in Threads : pc'[q] = "joined" => pc'[held[q]] = "done"
      BY <2>2, <2>3, <2>4
    <2> QED BY <1>1, <2>1, <2>2, <2>5 DEF ControlInv
  <1>7. RegistryInv'
    <2>1. \A q \in Threads : \A id \in completed[q] : id < nextId'[q]
      <3> SUFFICES ASSUME NEW q \in Threads, NEW id \in completed[q] PROVE id < nextId'[q]
        OBVIOUS
      <3>1. id < nextId[q] /\ id \in Nat
        BY <1>0, ExecutorAssumption DEF RegistryInv, ShapeOK, Ids
      <3> QED BY <1>4, <3>1
    <2>2. \A t \in Tasks : slot[t] # "none" =>
            /\ parent[t] \in Threads /\ ident[t] \in Ids
            /\ Alive(parent[t])' => ident[t] < nextId'[parent[t]]
      <3> SUFFICES ASSUME NEW t \in Tasks, slot[t] # "none"
                   PROVE  /\ parent[t] \in Threads /\ ident[t] \in Ids
                          /\ Alive(parent[t])' => ident[t] < nextId'[parent[t]]
        OBVIOUS
      <3>1. /\ parent[t] \in Threads /\ ident[t] \in Ids
            /\ Alive(parent[t]) => ident[t] < nextId[parent[t]]
        BY <1>0 DEF RegistryInv
      <3>2. ident[t] \in Nat
        BY <3>1, ExecutorAssumption DEF Ids
      <3> QED BY <1>1, <1>3, <1>4, <3>1, <3>2
    <2>3. \A q \in Threads : \A id \in Ids :
       reg[q][id] # NoTask =>
         /\ slot[reg[q][id]] = "live"
         /\ parent[reg[q][id]] = q
         /\ ident[reg[q][id]] = id
      BY <1>0 DEF RegistryInv
    <2>4. \A q \in Threads :
       held[q] # NoTask =>
         /\ slot[held[q]] = "live"
         /\ parent[held[q]] = q
         /\ ident[held[q]] = target'[q]
         /\ reg[q][target'[q]] = NoTask
      BY <1>0, <1>5 DEF RegistryInv
    <2> QED BY <1>1, <2>1, <2>2, <2>3, <2>4 DEF RegistryInv
  <1>8. HandleIsInOnePlace'
    <2> SUFFICES ASSUME NEW t \in Tasks, slot[t] # "none", Alive(parent[t])'
                 PROVE  Placed(t, parent[t], ident[t])'
      BY <1>1 DEF HandleIsInOnePlace
    <2>1. parent[t] \in Threads
      BY <1>0 DEF RegistryInv
    <2>2. Placed(t, parent[t], ident[t])
      BY <1>0, <1>1, <1>3, <2>1 DEF HandleIsInOnePlace
    <2>3. t # NoTask
      BY ExecutorAssumption
    <2> QED BY <1>1, <1>5, <2>1, <2>2, <2>3 DEF Placed
  <1>9. JoinedTasksHaveStopped'
    BY <1>0, <1>1 DEF JoinedTasksHaveStopped, Threads
  <1> QED BY <1>6, <1>7, <1>8, <1>9 DEF ThreadInv
LEMMA SpawnThreadStep ==
  ASSUME ThreadInv, NEW p \in Threads, NEW t \in Tasks, SpawnThread(p, t)
  PROVE  ThreadInv'
  <1>0. ShapeOK /\ ControlInv /\ RegistryInv /\ HandleIsInOnePlace /\ JoinedTasksHaveStopped
    BY DEF ThreadInv
  <1>1. t \in Threads /\ t # NoTask 
    BY ExecutorAssumption DEF Threads
  <1>2. pc[p] = "spawn" /\ pc[t] = "unborn" /\ p # t
    BY DEF SpawnThread
  <1>3. nextId[p] \in Ids /\ slot[t] = "none" /\ held[p] = NoTask
    BY <1>0, <1>2 DEF ControlInv
  <1>4. \A q \in Threads : nextId[q] \in Nat
    BY <1>0, ExecutorAssumption DEF ShapeOK
  <1>a. \A u \in Tasks : /\ slot'[u] = IF u = t THEN "live" ELSE slot[u]
                         /\ parent'[u] = IF u = t THEN p ELSE parent[u]
                         /\ ident'[u] = IF u = t THEN nextId[p] ELSE ident[u]
    BY <1>0 DEF ShapeOK, SpawnThread
  <1>b. \A q \in Threads : pc'[q] = IF q \in {p, t} THEN "body" ELSE pc[q]
    BY <1>0, <1>1 DEF ShapeOK, SpawnThread, InBody
  <1>c. \A q \in Threads : nextId'[q] = IF q = p THEN nextId[p] + 1 ELSE nextId[q]
    BY <1>0 DEF ShapeOK, SpawnThread
  <1>d. \A q \in Threads, id \in Ids : reg'[q][id] = IF q = p /\ id = nextId[p] THEN t ELSE reg[q][id]
    BY <1>0 DEF ShapeOK, SpawnThread
  <1>f. UNCHANGED <<held, completed, target>>
    BY DEF SpawnThread
  <1>5. RegistryInv'
    <2>1. \A q \in Threads : \A id \in Ids :
       reg'[q][id] # NoTask =>
         /\ slot'[reg'[q][id]] = "live"
         /\ parent'[reg'[q][id]] = q
         /\ ident'[reg'[q][id]] = id
      <3> SUFFICES ASSUME NEW q \in Threads, NEW id \in Ids, reg'[q][id] # NoTask
                   PROVE  /\ slot'[reg'[q][id]] = "live"
                          /\ parent'[reg'[q][id]] = q
                          /\ ident'[reg'[q][id]] = id
        OBVIOUS
      <3>1. CASE q = p /\ id = nextId[p]
        BY <1>a, <1>d, <3>1
      <3>2. CASE ~(q = p /\ id = nextId[p])
        <4>1. reg'[q][id] = reg[q][id] /\ reg[q][id] \in Tasks
          BY <1>0, <1>d, <3>2 DEF ShapeOK
        <4>2. slot[reg[q][id]] = "live" /\ parent[reg[q][id]] = q /\ ident[reg[q][id]] = id
          BY <1>0, <4>1 DEF RegistryInv
        <4> QED BY <1>3, <1>a, <4>1, <4>2
      <3> QED BY <3>1, <3>2
    <2>2. \A q \in Threads :
       held'[q] # NoTask =>
         /\ slot'[held'[q]] = "live"
         /\ parent'[held'[q]] = q
         /\ ident'[held'[q]] = target'[q]
         /\ reg'[q][target'[q]] = NoTask
      <3> SUFFICES ASSUME NEW q \in Threads, held[q] # NoTask
                   PROVE  /\ slot'[held[q]] = "live"
                          /\ parent'[held[q]] = q
                          /\ ident'[held[q]] = target[q]
                          /\ reg'[q][target[q]] = NoTask
        BY <1>f
      <3>1. q # p /\ held[q] \in Tasks /\ target[q] \in Ids
        BY <1>0, <1>3 DEF ShapeOK, ControlInv
      <3>2. slot[held[q]] = "live" /\ parent[held[q]] = q /\ ident[held[q]] = target[q] /\ reg[q][target[q]] = NoTask
        BY <1>0 DEF RegistryInv
      <3> QED BY <1>3, <1>a, <1>d, <3>1, <3>2
    <2>3. \A q \in Threads : \A id \in completed'[q] : id < nextId'[q]
      <3> SUFFICES ASSUME NEW q \in Threads, NEW id \in completed[q]
                   PROVE  id < nextId'[q]
        BY <1>f
      <3>1. id < nextId[q] /\ id \in Nat
        BY <1>0, ExecutorAssumption DEF RegistryInv, ShapeOK, Ids
      <3> QED BY <1>4, <1>c, <3>1
    <2>4. ASSUME NEW u \in Tasks, slot'[u] # "none"
          PROVE  /\ parent'[u] \in Threads /\ ident'[u] \in Ids
                 /\ parent'[u] = Main \/ pc'[parent'[u]] # "done" => ident'[u] < nextId'[parent'[u]]
      BY <1>0, <1>1, <1>2, <1>3, <1>4, <1>a, <1>b, <1>c, <2>4, ExecutorAssumption DEF RegistryInv, Ids, Alive
    <2> QED BY <2>1, <2>2, <2>3, <2>4 DEF RegistryInv, Alive
  <1>6. HandleIsInOnePlace'
    <2>1. ASSUME NEW u \in Tasks, slot'[u] # "none", parent'[u] = Main \/ pc'[parent'[u]] # "done"
          PROVE Placed(u, parent[u], ident[u])'
      <3>1. CASE u = t
        BY <1>0, <1>1, <1>3, <1>4, <1>a, <1>d, <1>f, <3>1 DEF Placed, RegistryInv
      <3>2. CASE u # t
        <4>1. /\ slot'[u] = slot[u] /\ parent'[u] = parent[u] /\ ident'[u] = ident[u]
              /\ slot[u] # "none"
          BY <1>a, <2>1, <3>2
        <4>2. parent[u] \in Threads /\ ident[u] \in Ids /\ Alive(parent[u])
          BY <1>0, <1>1, <1>2, <1>b, <2>1, <4>1 DEF RegistryInv, Alive
        <4>3. Placed(u, parent[u], ident[u])
          BY <1>0, <4>1, <4>2 DEF HandleIsInOnePlace
        <4>4. ident[u] < nextId[parent[u]]
          BY <1>0, <4>1, <4>2 DEF RegistryInv
        <4>5. reg'[parent[u]][ident[u]] = reg[parent[u]][ident[u]]
          BY <1>4, <1>d, <4>2, <4>4
        <4> QED BY <1>f, <4>1, <4>3, <4>5 DEF Placed
      <3> QED BY <3>1, <3>2
    <2> QED BY <2>1 DEF HandleIsInOnePlace, Alive
  <1>7. JoinedTasksHaveStopped'
    BY <1>0, <1>1, <1>2, <1>a, <1>b DEF JoinedTasksHaveStopped, Threads
  <1>8. ShapeOK'
    <2>1. nextId[p] + 1 \in 1 .. MaxId + 1 /\ nextId[p] \in 0 .. MaxId
      BY <1>3, ExecutorAssumption DEF Ids
    <2>2. ident' \in [Tasks -> 0 .. MaxId] /\ nextId' \in [Threads -> 1 .. MaxId + 1]
      BY <1>0, <2>1 DEF ShapeOK, SpawnThread
    <2>3. reg' \in [Threads -> [Ids -> Tasks \cup {NoTask}]]
      BY <1>0, <1>3 DEF ShapeOK, SpawnThread
    <2>4. pc' \in [Threads -> Points]
      BY <1>0, <1>1 DEF ShapeOK, Points, SpawnThread, InBody
    <2>5. slot' \in [Tasks -> Slots] /\ parent' \in [Tasks -> Threads \cup {NoTask}]
      BY <1>0 DEF ShapeOK, Slots, SpawnThread
    <2> QED BY <1>0, <2>2, <2>3, <2>4, <2>5 DEF ShapeOK, SpawnThread
  <1>9. ControlInv'
    <2>1. \A u \in Tasks : pc'[u] = "unborn" <=> slot'[u] = "none"
      BY <1>0, <1>2, <1>a, <1>b DEF ControlInv, Threads
    <2>2. ASSUME NEW q \in Threads
          PROVE  /\ pc'[q] \in {"reserve", "spawn"} => nextId'[q] \in Ids
                 /\ pc'[q] \in {"admit", "enter", "rollback", "wait", "joined"} => target'[q] \in Ids
                 /\ pc'[q] \in {"wait", "joined"} <=> held'[q] # NoTask
      BY <1>0, <1>1, <1>2, <1>3, <1>b, <1>c, <1>f DEF ControlInv
    <2>3. ASSUME NEW q \in Threads, pc'[q] \in {"admit", "enter"}
          PROVE  reg'[q][target'[q]] # NoTask
      <3>1. q # p /\ pc[q] = pc'[q]
        BY <1>b, <2>3
      <3>2. reg[q][target[q]] # NoTask /\ target[q] \in Ids
        BY <1>0, <2>3, <3>1 DEF ControlInv
      <3> QED BY <1>d, <1>f, <3>1, <3>2
    <2>4. ASSUME NEW q \in Threads, pc'[q] = "joined"
          PROVE  pc'[held'[q]] = "done"
      <3>1. pc[q] = "joined"
        BY <1>b, <2>4
      <3>2. held[q] # NoTask /\ pc[held[q]] = "done"
        BY <1>0, <3>1 DEF ControlInv
      <3>3. held[q] \in Threads
        BY <1>0, <3>2 DEF ShapeOK, Threads
      <3> QED BY <1>2, <1>b, <1>f, <3>2, <3>3
    <2> QED BY <2>1, <2>2, <2>3, <2>4 DEF ControlInv
  <1> QED BY <1>5, <1>6, <1>7, <1>8, <1>9 DEF ThreadInv

\* Facts every step of a live thread starts from.
LEMMA Local ==
  ASSUME ThreadInv, NEW p \in Threads
  PROVE  /\ ShapeOK
         /\ nextId[p] \in Nat
         /\ pc[p] \in Points
         /\ pc[p] \in {"reserve", "spawn"} => nextId[p] \in Ids
         /\ pc[p] \in {"admit", "enter", "rollback", "wait", "joined"} => target[p] \in Ids
         /\ pc[p] \in {"admit", "enter"} => reg[p][target[p]] # NoTask
         /\ pc[p] \in {"wait", "joined"} <=> held[p] # NoTask
         /\ pc[p] = "joined" => pc[held[p]] = "done"
  <1>1. ShapeOK /\ ControlInv
    BY DEF ThreadInv
  <1>2. nextId[p] \in Nat /\ pc[p] \in Points
    BY <1>1, ExecutorAssumption DEF ShapeOK
  <1> QED BY <1>1, <1>2 DEF ControlInv

\* Steps that leave the registries alone and take or leave no entry.
LEMMA QuietStep ==
  ASSUME ThreadInv, ShapeOK', NEW p \in Threads,
         UNCHANGED <<private, history>>,
         \A q \in Threads : q # p => pc'[q] = pc[q],
         pc[p] \in {"body", "reserve", "spawn", "unreserve", "admit", "enter",
                    "exit", "drain"},
         \/ pc'[p] \in {"body", "unreserve", "exit", "drain"}
         \/ pc'[p] \in {"reserve", "spawn"} /\ nextId[p] \in Ids
         \/ pc'[p] = "enter" /\ pc[p] = "admit"
         \/ pc'[p] = "done" /\ p = Main
  PROVE  ThreadInv'
  <1>1. UNCHANGED <<reg, completed, held, nextId, target, history>>
    BY DEF private
  <1> QED BY <1>1, Local, Frame

LEMMA SpawnBeginStep ==
  ASSUME ThreadInv, NEW p \in Threads, SpawnBegin(p) PROVE ThreadInv'
  <1>0. ShapeOK /\ pc[p] = "body" /\ nextId[p] \in Ids
        /\ UNCHANGED <<workers, private, flag, outcome, todo, history>>
    BY Local DEF SpawnBegin, InBody
  <1>1. CASE workers = 0
    <2>1. Panic(p) /\ UNCHANGED cap
      BY <1>1 DEF SpawnBegin
    <2>2. ShapeOK'
      BY <1>0, <2>1, PanicShape DEF ShapeOK, private, history
    <2> QED BY <1>0, <2>1, <2>2, PanicShape, QuietStep
  <1>2. CASE workers # 0
    <2>1. cap' = [cap EXCEPT ![p] = workers] /\ Goto(p, "reserve") /\ UNCHANGED <<result, drainFailed>>
      BY <1>2 DEF SpawnBegin
    <2>2. pc' \in [Threads -> Points] /\ \A q \in Threads : pc'[q] = IF q = p THEN "reserve" ELSE pc[q]
      BY <1>0, <2>1, GotoShape DEF Points
    <2>3. workers \in Nat
      BY <1>0, ExecutorAssumption DEF ShapeOK
    <2>4. cap' \in [Threads -> Nat]
      BY <1>0, <2>1, <2>3 DEF ShapeOK
    <2>5. ShapeOK'
      BY <1>0, <2>1, <2>2, <2>4 DEF ShapeOK, private, history
    <2> QED BY <1>0, <2>2, <2>5, QuietStep
  <1> QED BY <1>1, <1>2

LEMMA SpawnReserveStep ==
  ASSUME ThreadInv, NEW p \in Threads, SpawnReserve(p) PROVE ThreadInv'
  <1>0. ShapeOK /\ pc[p] = "reserve" /\ nextId[p] \in Ids
        /\ UNCHANGED <<workers, private, flag, result, outcome, todo, drainFailed, history>>
    BY Local DEF SpawnReserve
  <1>1. PICK pt \in {"unreserve", "spawn"} : Goto(p, pt)
    BY DEF SpawnReserve
  <1>2. pc' \in [Threads -> Points] /\ \A q \in Threads : pc'[q] = IF q = p THEN pt ELSE pc[q]
    BY <1>0, <1>1, GotoShape DEF Points
  <1>3. cap' \in [Threads -> Nat]
    BY <1>0 DEF ShapeOK, SpawnReserve, DropCap
  <1>4. ShapeOK'
    BY <1>0, <1>2, <1>3 DEF ShapeOK, private, history
  <1> QED BY <1>0, <1>2, <1>4, QuietStep

LEMMA SpawnRefusedStep ==
  ASSUME ThreadInv, NEW p \in Threads, SpawnRefused(p) PROVE ThreadInv'
  <1>0. ShapeOK /\ pc[p] = "unreserve" /\ Panic(p)
        /\ UNCHANGED <<workers, cap, private, flag, outcome, todo, history>>
    BY Local DEF SpawnRefused
  <1>1. ShapeOK'
    BY <1>0, PanicShape DEF ShapeOK, private, history
  <1> QED BY <1>0, <1>1, PanicShape, QuietStep

LEMMA BodyQuietStep ==
  ASSUME ThreadInv, NEW p \in Threads, pc[p] = "body",
         \/ BodyEnds(p)
         \/ \E id \in Ids : Cancel(p, id)
         \/ \E w \in EnvWorkers : EnvSetWorkers(p, w)
         \/ p \in Tasks /\ SleepCheckpoint(p)
  PROVE  ThreadInv'
  <1>0. ShapeOK
    BY Local
  <1>1. CASE BodyEnds(p)
    <2>1. Goto(p, "exit") /\ \E r \in Results : result' = [result EXCEPT ![p] = r]
      BY <1>1 DEF BodyEnds
    <2>2. pc' \in [Threads -> Points] /\ \A q \in Threads : pc'[q] = IF q = p THEN "exit" ELSE pc[q]
      BY <1>0, <2>1, GotoShape DEF Points
    <2>3. result' \in [Threads -> Results]
      BY <1>0, <2>1 DEF ShapeOK
    <2>4. UNCHANGED <<workers, cap, private, flag, outcome, todo, drainFailed, history>>
      BY <1>1 DEF BodyEnds
    <2>5. ShapeOK'
      BY <1>0, <2>2, <2>3, <2>4 DEF ShapeOK, private, history
    <2> QED BY <2>2, <2>4, <2>5, QuietStep
  <1>2. CASE \E id \in Ids : Cancel(p, id)
    <2>1. PICK id \in Ids : Cancel(p, id)
      BY <1>2
    <2>2. UNCHANGED <<workers, cap, private, outcome, todo, history>>
      BY <2>1 DEF Cancel
    <2>3. CASE Panic(p) /\ UNCHANGED flag
      <3>1. ShapeOK'
        BY <1>0, <2>2, <2>3, PanicShape DEF ShapeOK, private, history
      <3> QED BY <1>0, <2>2, <2>3, <3>1, PanicShape, QuietStep
    <2>4. CASE /\ flag' = [flag EXCEPT ![reg[p][id]] = TRUE]
               /\ UNCHANGED <<pc, result, drainFailed>>
      <3>1. ShapeOK'
        BY <1>0, <2>2, <2>4 DEF ShapeOK, private, history
      <3> QED BY <2>2, <2>4, <3>1, QuietStep
    <2> QED BY <2>1, <2>3, <2>4 DEF Cancel
  <1>3. CASE \E w \in EnvWorkers : EnvSetWorkers(p, w)
    <2>1. UNCHANGED <<pc, cap, private, flag, result, outcome, todo, drainFailed, history>>
          /\ workers' \in EnvWorkers
      BY <1>3 DEF EnvSetWorkers
    <2>2. ShapeOK'
      BY <1>0, <2>1 DEF ShapeOK, private, history
    <2> QED BY <2>1, <2>2, QuietStep
  <1>4. CASE p \in Tasks /\ SleepCheckpoint(p)
    <2>1. Panic(p) /\ UNCHANGED <<workers, cap, private, flag, outcome, todo, history>>
      BY <1>4 DEF SleepCheckpoint
    <2>2. ShapeOK'
      BY <1>0, <2>1, PanicShape DEF ShapeOK, private, history
    <2> QED BY <1>0, <2>1, <2>2, PanicShape, QuietStep
  <1> QED BY <1>1, <1>2, <1>3, <1>4

LEMMA SpawnThreadFailsStep ==
  ASSUME ThreadInv, NEW p \in Threads, SpawnThreadFails(p) PROVE ThreadInv'
  <1>0. /\ ShapeOK /\ pc[p] = "spawn" /\ nextId[p] \in Ids /\ nextId[p] \in Nat
        /\ held[p] = NoTask
        /\ UNCHANGED <<workers, cap, reg, completed, target, held, flag, result,
                       outcome, todo, drainFailed, history>>
    BY Local DEF SpawnThreadFails
  <1>1. pc' \in [Threads -> Points] /\ \A q \in Threads : pc'[q] = IF q = p THEN "unreserve" ELSE pc[q]
    BY <1>0, GotoShape DEF SpawnThreadFails, Points
  <1>2. nextId[p] + 1 \in 1 .. MaxId + 1
    BY <1>0, ExecutorAssumption DEF Ids
  <1>3. /\ nextId' \in [Threads -> 1 .. MaxId + 1]
        /\ \A q \in Threads : nextId'[q] = IF q = p THEN nextId[p] + 1 ELSE nextId[q]
    BY <1>0, <1>2 DEF SpawnThreadFails, ShapeOK
  <1>4. ShapeOK'
    BY <1>0, <1>1, <1>3 DEF ShapeOK, history
  <1>5. nextId'[p] >= nextId[p]
    BY <1>0, <1>3
  <1> QED BY <1>0, <1>1, <1>3, <1>4, <1>5, Frame

LEMMA JoinBeginStep ==
  ASSUME ThreadInv, NEW p \in Threads, NEW id \in Ids, JoinBegin(p, id),
         pc[p] \in {"body", "drain"}, todo' \subseteq Ids
  PROVE  ThreadInv'
  <1>0. /\ ShapeOK /\ held[p] = NoTask /\ nextId[p] \in Nat
        /\ UNCHANGED <<workers, reg, completed, nextId, held, flag, outcome, history>>
    BY Local DEF JoinBegin
  <1>1. CASE reg[p][id] = NoTask
    <2>1. Panic(p) /\ UNCHANGED <<cap, target>>
      BY <1>1 DEF JoinBegin
    <2>2. ShapeOK'
      BY <1>0, <2>1, PanicShape DEF ShapeOK, history
    <2> QED BY <1>0, <2>1, <2>2, PanicShape, QuietStep DEF private
  <1>2. CASE reg[p][id] # NoTask
    <2>1. /\ cap' = [cap EXCEPT ![p] = BridgeCap]
          /\ target' = [target EXCEPT ![p] = id]
          /\ Goto(p, "admit") /\ UNCHANGED <<result, drainFailed>>
      BY <1>2 DEF JoinBegin
    <2>2. pc' \in [Threads -> Points] /\ \A q \in Threads : pc'[q] = IF q = p THEN "admit" ELSE pc[q]
      BY <1>0, <2>1, GotoShape DEF Points
    <2>3. BridgeCap \in Nat
      BY <1>0, ExecutorAssumption DEF ShapeOK, BridgeCap
    <2>4. cap' \in [Threads -> Nat]
      BY <1>0, <2>1, <2>3 DEF ShapeOK
    <2>5. id \in 0 .. MaxId
      BY ExecutorAssumption DEF Ids
    <2>6. /\ target' \in [Threads -> 0 .. MaxId]
          /\ \A q \in Threads : target'[q] = IF q = p THEN id ELSE target[q]
      BY <1>0, <2>1, <2>5 DEF ShapeOK
    <2>7. ShapeOK'
      BY <1>0, <2>1, <2>2, <2>4, <2>6 DEF ShapeOK, history
    <2> QED BY <1>0, <1>2, <2>2, <2>6, <2>7, Frame
  <1> QED BY <1>1, <1>2

\* A join that fails before it took anything: its id argument is dropped.
LEMMA JoinRefusedStep ==
  ASSUME ThreadInv, NEW p \in Threads, pc[p] \in {"admit", "rollback"},
         Panic(p), DropTarget(p), cap' = cap \/ DropCap(p),
         UNCHANGED <<workers, reg, completed, nextId, held, flag, outcome, todo, history>>
  PROVE  ThreadInv'
  <1>0. ShapeOK /\ held[p] = NoTask /\ nextId[p] \in Nat
    BY Local
  <1>1. cap' \in [Threads -> Nat]
    <2>1. cap \in [Threads -> Nat]
      BY <1>0 DEF ShapeOK
    <2>2. CASE cap' = cap
      BY <2>1, <2>2
    <2>3. CASE DropCap(p)
      BY <2>1, <2>3 DEF DropCap
    <2> QED BY <2>2, <2>3
  <1>2. 0 \in 0 .. MaxId
    BY ExecutorAssumption
  <1>3. /\ target' \in [Threads -> 0 .. MaxId]
        /\ \A q \in Threads : q # p => target'[q] = target[q]
    BY <1>0, <1>2 DEF ShapeOK, DropTarget
  <1>4. ShapeOK'
    BY <1>0, <1>1, <1>3, PanicShape DEF ShapeOK, history
  <1> QED BY <1>0, <1>3, <1>4, PanicShape, Frame

LEMMA BridgeAdmitStep ==
  ASSUME ThreadInv, NEW p \in Threads, BridgeAdmit(p) PROVE ThreadInv'
  <1>0. /\ ShapeOK /\ pc[p] = "admit"
        /\ UNCHANGED <<workers, reg, completed, nextId, held, flag, outcome, todo, history>>
    BY Local DEF BridgeAdmit
  <1>1. CASE depth >= cap[p]
    BY <1>0, <1>1, JoinRefusedStep DEF BridgeAdmit
  <1>2. CASE ~ (depth >= cap[p])
    <2>1. Goto(p, "enter") /\ UNCHANGED <<cap, target, result, drainFailed>>
      BY <1>2 DEF BridgeAdmit
    <2>2. pc' \in [Threads -> Points] /\ \A q \in Threads : pc'[q] = IF q = p THEN "enter" ELSE pc[q]
      BY <1>0, <2>1, GotoShape DEF Points
    <2>3. ShapeOK'
      BY <1>0, <2>1, <2>2 DEF ShapeOK, history
    <2> QED BY <1>0, <2>1, <2>2, <2>3, QuietStep DEF private
  <1> QED BY <1>1, <1>2

LEMMA BridgeRollbackStep ==
  ASSUME ThreadInv, NEW p \in Threads, BridgeRollback(p) PROVE ThreadInv'
  BY JoinRefusedStep DEF BridgeRollback

LEMMA WaitFinishedStep ==
  ASSUME ThreadInv, NEW p \in Threads, WaitFinished(p) PROVE ThreadInv'
  <1>0. /\ ShapeOK /\ pc[p] = "wait" /\ held[p] # NoTask /\ nextId[p] \in Nat
        /\ target[p] \in Ids /\ pc[held[p]] = "done"
        /\ UNCHANGED <<workers, cap, private, flag, result, outcome, todo, drainFailed, history>>
    BY Local DEF WaitFinished, Finished
  <1>1. pc' \in [Threads -> Points] /\ \A q \in Threads : pc'[q] = IF q = p THEN "joined" ELSE pc[q]
    BY <1>0, GotoShape DEF WaitFinished, Points
  <1>2. ShapeOK'
    BY <1>0, <1>1 DEF ShapeOK, private, history
  <1> QED BY <1>0, <1>1, <1>2, Frame DEF private

(***************************************************************************)
(* The steps that move one entry between p's registry and p's join leave   *)
(* every other entry, and the ids, where they were.                        *)
(***************************************************************************)
LEMMA MoveFrame ==
  ASSUME ThreadInv, ShapeOK', NEW p \in Threads, NEW t \in Tasks, NEW id \in Ids,
         slot[t] = "live", parent[t] = p, ident[t] = id,
         UNCHANGED <<completed, nextId, history>>,
         \A q \in Threads : q # p => /\ pc'[q] = pc[q]
                                     /\ target'[q] = target[q]
                                     /\ held'[q] = held[q],
         \A q \in Threads, i \in Ids :
           ~ (q = p /\ i = id) => reg'[q][i] = reg[q][i],
         held[p] \in {t, NoTask},
         \/ /\ held'[p] = t /\ reg'[p][id] = NoTask /\ target'[p] = id
            /\ pc'[p] = "wait"
         \/ /\ held'[p] = NoTask /\ reg'[p][id] = t
            /\ pc'[p] \in {"exit", "drain"},
         pc[p] \notin {"unborn", "done"}
  PROVE  ThreadInv'
  <1>0. ShapeOK /\ ControlInv /\ RegistryInv /\ HandleIsInOnePlace /\ JoinedTasksHaveStopped
    BY DEF ThreadInv
  <1>1. UNCHANGED <<parent, ident, slot>>
    BY DEF history
  <1>2. t # NoTask /\ \A u \in Tasks : u # NoTask
    BY ExecutorAssumption
  <1>3. \A q \in Threads : Alive(q)' <=> Alive(q)
    <2> SUFFICES ASSUME NEW q \in Threads PROVE Alive(q)' <=> Alive(q)
      OBVIOUS
    <2> QED BY DEF Alive
  <1>4. ControlInv'
    <2>1. \A u \in Tasks : pc'[u] = "unborn" <=> slot[u] = "none"
      BY <1>0 DEF ControlInv, Threads
    <2>2. ASSUME NEW q \in Threads
          PROVE  /\ pc'[q] \in {"reserve", "spawn"} => nextId'[q] \in Ids
                 /\ pc'[q] \in {"admit", "enter", "rollback", "wait", "joined"} => target'[q] \in Ids
                 /\ pc'[q] \in {"wait", "joined"} <=> held'[q] # NoTask
      BY <1>0, <1>2 DEF ControlInv
    <2>3. ASSUME NEW q \in Threads, pc'[q] \in {"admit", "enter"}
          PROVE  reg'[q][target'[q]] # NoTask
      BY <1>0, <2>2, <2>3 DEF ControlInv
    <2>4. ASSUME NEW q \in Threads, pc'[q] = "joined"
          PROVE  pc'[held'[q]] = "done"
      <3>1. q # p /\ pc[q] = "joined" /\ held'[q] = held[q]
        BY <2>4
      <3>2. held[q] # NoTask /\ pc[held[q]] = "done"
        BY <1>0, <3>1 DEF ControlInv
      <3>3. held[q] \in Threads
        BY <1>0, <3>2 DEF ShapeOK, Threads
      <3> QED BY <3>1, <3>2, <3>3
    <2> QED BY <1>1, <2>1, <2>2, <2>3, <2>4 DEF ControlInv
  <1>5. RegistryInv'
    <2>1. ASSUME NEW q \in Threads, NEW i \in Ids, reg'[q][i] # NoTask
          PROVE  /\ slot[reg'[q][i]] = "live"
                 /\ parent[reg'[q][i]] = q
                 /\ ident[reg'[q][i]] = i
      BY <1>0, <2>1 DEF RegistryInv
    <2>2. ASSUME NEW q \in Threads, held'[q] # NoTask
          PROVE  /\ slot[held'[q]] = "live"
                 /\ parent[held'[q]] = q
                 /\ ident[held'[q]] = target'[q]
                 /\ reg'[q][target'[q]] = NoTask
      <3>1. CASE q = p
        BY <2>2, <3>1
      <3>2. CASE q # p
        <4>1. held[q] # NoTask /\ held'[q] = held[q] /\ target'[q] = target[q]
          BY <2>2, <3>2
        <4>2. target[q] \in Ids
          BY <1>0, <4>1 DEF ControlInv
        <4> QED BY <1>0, <3>2, <4>1, <4>2 DEF RegistryInv
      <3> QED BY <3>1, <3>2
    <2>3. \A u \in Tasks :
            slot[u] # "none" =>
              /\ parent[u] \in Threads /\ ident[u] \in Ids
              /\ Alive(parent[u])' => ident[u] < nextId[parent[u]]
      BY <1>0, <1>1, <1>3 DEF RegistryInv
    <2>4. \A q \in Threads : \A i \in completed[q] : i < nextId[q]
      BY <1>0 DEF RegistryInv
    <2> QED BY <1>1, <2>1, <2>2, <2>3, <2>4 DEF RegistryInv
  <1>6. HandleIsInOnePlace'
    <2> SUFFICES ASSUME NEW u \in Tasks, slot[u] # "none", Alive(parent[u])'
                 PROVE  Placed(u, parent[u], ident[u])'
      BY <1>1 DEF HandleIsInOnePlace
    <2>1. parent[u] \in Threads /\ ident[u] \in Ids
      BY <1>0 DEF RegistryInv
    <2>2. Placed(u, parent[u], ident[u])
      BY <1>0, <1>1, <1>3, <2>1 DEF HandleIsInOnePlace
    <2>3. CASE u = t
      BY <1>1, <1>2, <2>1, <2>2, <2>3 DEF Placed
    <2>4. CASE u # t /\ parent[u] = p
      <3>1. Placed(t, p, id)
        BY <1>0, <1>1, <1>3, <2>4 DEF HandleIsInOnePlace
      <3>2. ident[u] # id
        BY <1>2, <2>1, <2>2, <2>4, <3>1 DEF Placed
      <3>3. reg'[p][ident[u]] = reg[p][ident[u]]
        BY <2>1, <3>2
      <3>4. held[p] # u
        BY <1>2, <2>4
      <3> QED BY <1>1, <1>2, <2>2, <2>4, <3>3, <3>4 DEF Placed
    <2>5. CASE u # t /\ parent[u] # p
      BY <1>1, <2>1, <2>2, <2>5 DEF Placed
    <2> QED BY <2>3, <2>4, <2>5
  <1>7. JoinedTasksHaveStopped'
    <2>1. \A u \in Tasks : pc[u] = "done" => pc'[u] = "done"
      BY DEF Threads
    <2> QED BY <1>0, <1>1, <2>1 DEF JoinedTasksHaveStopped
  <1> QED BY <1>4, <1>5, <1>6, <1>7 DEF ThreadInv

LEMMA BridgeEnterStep ==
  ASSUME ThreadInv, NEW p \in Threads, BridgeEnter(p) PROVE ThreadInv'
  <1>0. /\ ShapeOK /\ pc[p] = "enter" /\ held[p] = NoTask /\ nextId[p] \in Nat
        /\ target[p] \in Ids /\ reg[p][target[p]] # NoTask
        /\ UNCHANGED <<workers, completed, nextId, target, flag, result, outcome,
                       todo, drainFailed, history>>
    BY Local DEF BridgeEnter
  <1>1. cap' \in [Threads -> Nat]
    BY <1>0 DEF BridgeEnter, DropCap, ShapeOK
  <1>2. CASE Goto(p, "rollback") /\ UNCHANGED <<reg, held>>
    <2>1. pc' \in [Threads -> Points] /\ \A q \in Threads : pc'[q] = IF q = p THEN "rollback" ELSE pc[q]
      BY <1>0, <1>2, GotoShape DEF Points
    <2>2. ShapeOK'
      BY <1>0, <1>1, <1>2, <2>1 DEF ShapeOK, history
    <2> QED BY <1>0, <1>2, <2>1, <2>2, Frame
  <1>3. CASE /\ Goto(p, "wait")
             /\ held' = [held EXCEPT ![p] = reg[p][target[p]]]
             /\ reg' = [reg EXCEPT ![p][target[p]] = NoTask]
    <2>1. pc' \in [Threads -> Points] /\ \A q \in Threads : pc'[q] = IF q = p THEN "wait" ELSE pc[q]
      BY <1>0, <1>3, GotoShape DEF Points
    <2>2. reg[p][target[p]] \in Tasks
      BY <1>0 DEF ShapeOK
    <2>3. /\ held' \in [Threads -> Tasks \cup {NoTask}]
          /\ \A q \in Threads : held'[q] = IF q = p THEN reg[p][target[p]] ELSE held[q]
      BY <1>0, <1>3, <2>2 DEF ShapeOK
    <2>4. /\ reg' \in [Threads -> [Ids -> Tasks \cup {NoTask}]]
          /\ \A q \in Threads, i \in Ids :
               reg'[q][i] = IF q = p /\ i = target[p] THEN NoTask ELSE reg[q][i]
      BY <1>0, <1>3 DEF ShapeOK
    <2>5. ShapeOK'
      BY <1>0, <1>1, <2>1, <2>3, <2>4 DEF ShapeOK, history
    <2>6. /\ slot[reg[p][target[p]]] = "live"
          /\ parent[reg[p][target[p]]] = p
          /\ ident[reg[p][target[p]]] = target[p]
      BY <1>0 DEF ThreadInv, RegistryInv
    <2> QED BY <1>0, <2>1, <2>2, <2>3, <2>4, <2>5, <2>6, MoveFrame
  <1> QED BY <1>2, <1>3 DEF BridgeEnter

LEMMA WaitTimesOutStep ==
  ASSUME ThreadInv, NEW p \in Threads, WaitTimesOut(p) PROVE ThreadInv'
  <1>0. /\ ShapeOK /\ pc[p] = "wait" /\ held[p] # NoTask /\ nextId[p] \in Nat
        /\ target[p] \in Ids /\ Panic(p) /\ DropTarget(p)
        /\ UNCHANGED <<workers, cap, completed, nextId, flag, outcome, todo, history>>
    BY Local DEF WaitTimesOut
  <1>1. /\ held' = [held EXCEPT ![p] = NoTask]
        /\ reg' = [reg EXCEPT ![p][target[p]] = held[p]]
    BY DEF WaitTimesOut, PutBack
  <1>2. held[p] \in Tasks
    BY <1>0 DEF ShapeOK
  <1>3. /\ held' \in [Threads -> Tasks \cup {NoTask}]
        /\ \A q \in Threads : held'[q] = IF q = p THEN NoTask ELSE held[q]
    BY <1>0, <1>1 DEF ShapeOK
  <1>4. /\ reg' \in [Threads -> [Ids -> Tasks \cup {NoTask}]]
        /\ \A q \in Threads, i \in Ids :
             reg'[q][i] = IF q = p /\ i = target[p] THEN held[p] ELSE reg[q][i]
    BY <1>0, <1>1, <1>2 DEF ShapeOK
  <1>5. 0 \in 0 .. MaxId
    BY ExecutorAssumption
  <1>6. /\ target' \in [Threads -> 0 .. MaxId]
        /\ \A q \in Threads : q # p => target'[q] = target[q]
    BY <1>0, <1>5 DEF ShapeOK, DropTarget
  <1>7. ShapeOK'
    BY <1>0, <1>3, <1>4, <1>6, PanicShape DEF ShapeOK, history
  <1>8. slot[held[p]] = "live" /\ parent[held[p]] = p /\ ident[held[p]] = target[p]
    BY <1>0 DEF ThreadInv, RegistryInv
  <1>9. pc'[p] \in {"drain", "exit"} /\ \A q \in Threads : q # p => pc'[q] = pc[q]
    BY <1>0, PanicShape
  <1> QED BY <1>0, <1>2, <1>3, <1>4, <1>6, <1>7, <1>8, <1>9, MoveFrame

LEMMA JoinDoneStep ==
  ASSUME ThreadInv, NEW p \in Threads, JoinDone(p) PROVE ThreadInv'
  <1> DEFINE t == held[p]
             id == target[p]
  <1>0. ShapeOK /\ ControlInv /\ RegistryInv /\ HandleIsInOnePlace /\ JoinedTasksHaveStopped
    BY DEF ThreadInv
  <1>1. /\ pc[p] = "joined" /\ t # NoTask /\ id \in Ids /\ pc[t] = "done"
        /\ UNCHANGED <<workers, cap, reg, nextId, flag, outcome, todo, parent, ident>>
    BY Local DEF JoinDone
  <1>2. /\ t \in Tasks /\ slot[t] = "live" /\ parent[t] = p /\ ident[t] = id
        /\ reg[p][id] = NoTask
    BY <1>0, <1>1 DEF ShapeOK, RegistryInv
  <1>3. \A u \in Tasks : u # NoTask
    BY ExecutorAssumption
  <1>4. /\ slot' \in [Tasks -> Slots]
        /\ slot'[t] \in {"awaited", "drained"}
        /\ \A u \in Tasks : u # t => slot'[u] = slot[u]
    BY <1>0, <1>2 DEF JoinDone, ShapeOK, Slots
  <1>5. /\ completed' \in [Threads -> SUBSET Ids]
        /\ \A q \in Threads : completed'[q] = IF q = p THEN completed[q] \cup {id} ELSE completed[q]
    BY <1>0, <1>1 DEF JoinDone, ShapeOK
  <1>6. /\ held' \in [Threads -> Tasks \cup {NoTask}]
        /\ \A q \in Threads : held'[q] = IF q = p THEN NoTask ELSE held[q]
    BY <1>0 DEF JoinDone, ShapeOK
  <1>7. /\ target' \in [Threads -> 0 .. MaxId]
        /\ \A q \in Threads : q # p => target'[q] = target[q]
    <2>1. 0 \in 0 .. MaxId
      BY ExecutorAssumption
    <2> QED BY <1>0, <2>1 DEF JoinDone, DropTarget, ShapeOK
  <1>8. /\ pc' \in [Threads -> Points]
        /\ pc'[p] \in {"exit", "drain", "body"}
        /\ \A q \in Threads : q # p => pc'[q] = pc[q]
        /\ result' \in [Threads -> Results]
        /\ drainFailed' \in BOOLEAN
    <2>1. CASE Panic(p)
      BY <1>0, <2>1, PanicShape
    <2>2. CASE /\ Goto(p, IF Draining(p) THEN "drain" ELSE InBody)
               /\ drainFailed' = \/ drainFailed
                                 \/ Draining(p) /\ IsCancelledValue(outcome[t])
               /\ UNCHANGED result
      <3>1. PICK pt \in {"drain", "body"} : Goto(p, pt)
        BY <2>2 DEF InBody
      <3>2. pt \in Points
        BY DEF Points, InBody
      <3>3. /\ pc' \in [Threads -> Points]
            /\ \A q \in Threads : pc'[q] = IF q = p THEN pt ELSE pc[q]
        BY <1>0, <3>1, <3>2, GotoShape
      <3>4. drainFailed' \in BOOLEAN
        BY <1>0, <2>2 DEF ShapeOK
      <3> QED BY <1>0, <2>2, <3>3, <3>4 DEF ShapeOK
    <2> QED BY <2>1, <2>2 DEF JoinDone
  <1>9. ShapeOK'
    BY <1>0, <1>1, <1>4, <1>5, <1>6, <1>7, <1>8 DEF ShapeOK
  <1>10. \A q \in Threads : Alive(q)' <=> Alive(q)
    <2> SUFFICES ASSUME NEW q \in Threads PROVE Alive(q)' <=> Alive(q)
      OBVIOUS
    <2> QED BY <1>1, <1>8 DEF Alive
  <1>11. \A q \in Threads : held'[q] # NoTask => q # p /\ held[q] # t
    BY <1>0, <1>2, <1>6 DEF RegistryInv
  <1>12. \A q \in Threads, i \in Ids : reg[q][i] # t
    BY <1>0, <1>2, <1>3 DEF RegistryInv
  <1>13. ControlInv'
    <2>1. \A u \in Tasks : pc'[u] = "unborn" <=> slot'[u] = "none"
      BY <1>0, <1>1, <1>2, <1>4, <1>8 DEF ControlInv, Threads
    <2>2. ASSUME NEW q \in Threads
          PROVE  /\ pc'[q] \in {"reserve", "spawn"} => nextId[q] \in Ids
                 /\ pc'[q] \in {"admit", "enter", "rollback", "wait", "joined"} => target'[q] \in Ids
                 /\ pc'[q] \in {"admit", "enter"} => reg[q][target'[q]] # NoTask
                 /\ pc'[q] \in {"wait", "joined"} <=> held'[q] # NoTask
      BY <1>0, <1>6, <1>7, <1>8 DEF ControlInv
    <2>3. ASSUME NEW q \in Threads, pc'[q] = "joined"
          PROVE  pc'[held'[q]] = "done"
      <3>1. q # p /\ pc[q] = "joined" /\ held'[q] = held[q]
        BY <1>6, <1>8, <2>3
      <3>2. held[q] # NoTask /\ pc[held[q]] = "done"
        BY <1>0, <3>1 DEF ControlInv
      <3>3. held[q] \in Threads
        BY <1>0, <3>2 DEF ShapeOK, Threads
      <3> QED BY <1>1, <1>8, <3>1, <3>2, <3>3
    <2> QED BY <1>1, <2>1, <2>2, <2>3 DEF ControlInv
  <1>14. RegistryInv'
    <2>1. ASSUME NEW q \in Threads, NEW i \in Ids, reg[q][i] # NoTask
          PROVE  /\ slot'[reg[q][i]] = "live"
                 /\ parent[reg[q][i]] = q
                 /\ ident[reg[q][i]] = i
      BY <1>0, <1>4, <1>12, <2>1 DEF RegistryInv, ShapeOK
    <2>2. ASSUME NEW q \in Threads, held'[q] # NoTask
          PROVE  /\ slot'[held'[q]] = "live"
                 /\ parent[held'[q]] = q
                 /\ ident[held'[q]] = target'[q]
                 /\ reg[q][target'[q]] = NoTask
      <3>1. q # p /\ held'[q] = held[q] /\ held[q] # t /\ held[q] # NoTask /\ target'[q] = target[q]
        BY <1>6, <1>7, <1>11, <2>2
      <3>2. held[q] \in Tasks
        BY <1>0, <3>1 DEF ShapeOK
      <3> QED BY <1>0, <1>4, <3>1, <3>2 DEF RegistryInv
    <2>3. ASSUME NEW u \in Tasks, slot'[u] # "none"
          PROVE  /\ parent[u] \in Threads /\ ident[u] \in Ids
                 /\ Alive(parent[u])' => ident[u] < nextId[parent[u]]
      <3>1. slot[u] # "none"
        BY <1>2, <1>4, <2>3
      <3>2. /\ parent[u] \in Threads /\ ident[u] \in Ids
            /\ Alive(parent[u]) => ident[u] < nextId[parent[u]]
        BY <1>0, <3>1 DEF RegistryInv
      <3> QED BY <1>1, <1>10, <3>2
    <2>4. ASSUME NEW q \in Threads, NEW i \in completed'[q]
          PROVE  i < nextId[q]
      <3>1. Alive(p)
        BY <1>1 DEF Alive
      <3>2. id < nextId[p]
        BY <1>0, <1>2, <3>1 DEF RegistryInv
      <3> QED BY <1>0, <1>5, <2>4, <3>2 DEF RegistryInv
    <2> QED BY <1>1, <2>1, <2>2, <2>3, <2>4 DEF RegistryInv
  <1>15. HandleIsInOnePlace'
    <2> SUFFICES ASSUME NEW u \in Tasks, slot'[u] # "none", Alive(parent[u])'
                 PROVE  Placed(u, parent[u], ident[u])'
      BY <1>1 DEF HandleIsInOnePlace
    <2>1. slot[u] # "none"
      BY <1>2, <1>4
    <2>2. parent[u] \in Threads /\ ident[u] \in Ids
      BY <1>0, <2>1 DEF RegistryInv
    <2>3. Placed(u, parent[u], ident[u])
      BY <1>0, <1>1, <1>10, <2>1, <2>2 DEF HandleIsInOnePlace
    <2>4. CASE u = t
      BY <1>1, <1>2, <1>4, <1>5, <1>6, <2>2, <2>4 DEF Placed
    <2>5. CASE u # t /\ parent[u] = p
      <3>1. ident[u] = id => slot[u] # "live"
        BY <1>2, <1>3, <2>3, <2>5 DEF Placed
      <3>2. slot'[u] = slot[u]
        BY <1>4, <2>5
      <3> QED BY <1>1, <1>2, <1>3, <1>5, <1>6, <2>2, <2>3, <2>5, <3>1, <3>2 DEF Placed
    <2>6. CASE u # t /\ parent[u] # p
      BY <1>1, <1>4, <1>5, <1>6, <1>7, <2>2, <2>3, <2>6 DEF Placed
    <2> QED BY <2>4, <2>5, <2>6
  <1>16. JoinedTasksHaveStopped'
    <2>1. \A u \in Tasks : pc[u] = "done" => pc'[u] = "done"
      BY <1>1, <1>8 DEF Threads
    <2> QED BY <1>0, <1>1, <1>4, <2>1 DEF JoinedTasksHaveStopped
  <1> QED BY <1>9, <1>13, <1>14, <1>15, <1>16 DEF ThreadInv

LEMMA DropInterpreterStep ==
  ASSUME ThreadInv, NEW p \in Tasks, pc[p] \in {"body", "exit"}, DropInterpreter(p),
         NEW o \in Outcomes, outcome' = [outcome EXCEPT ![p] = o],
         result' \in [Threads -> Results],
         UNCHANGED <<workers, cap, target, held, flag, todo, drainFailed, history>>
  PROVE  ThreadInv'
  <1>0. ShapeOK /\ ControlInv /\ RegistryInv /\ HandleIsInOnePlace /\ JoinedTasksHaveStopped
    BY DEF ThreadInv
  <1>1. p \in Threads /\ p # Main /\ held[p] = NoTask /\ UNCHANGED <<parent, ident, slot>>
    BY <1>0, ExecutorAssumption DEF ControlInv, Threads, history
  <1>2. /\ pc' \in [Threads -> Points]
        /\ \A q \in Threads : pc'[q] = IF q = p THEN "done" ELSE pc[q]
    <2>1. Goto(p, "done") /\ "done" \in Points
      BY DEF DropInterpreter, Points
    <2> QED BY <1>0, <1>1, <2>1, GotoShape
  <1>3. /\ reg' \in [Threads -> [Ids -> Tasks \cup {NoTask}]]
        /\ \A q \in Threads, i \in Ids : reg'[q][i] = IF q = p THEN NoTask ELSE reg[q][i]
    BY <1>0 DEF DropInterpreter, ShapeOK
  <1>4. /\ completed' \in [Threads -> SUBSET Ids]
        /\ \A q \in Threads : completed'[q] = IF q = p THEN {} ELSE completed[q]
    BY <1>0 DEF DropInterpreter, ShapeOK
  <1>5. /\ nextId' \in [Threads -> 1 .. MaxId + 1]
        /\ \A q \in Threads : q # p => nextId'[q] = nextId[q]
    <2>1. 1 \in 1 .. MaxId + 1
      BY ExecutorAssumption
    <2> QED BY <1>0, <2>1 DEF DropInterpreter, ShapeOK
  <1>6. outcome' \in [Tasks -> Outcomes]
    BY <1>0 DEF ShapeOK
  <1>7. ShapeOK'
    BY <1>0, <1>1, <1>2, <1>3, <1>4, <1>5, <1>6 DEF ShapeOK
  <1>8. \A q \in Threads : Alive(q)' => Alive(q) /\ q # p
    <2> SUFFICES ASSUME NEW q \in Threads, Alive(q)' PROVE Alive(q) /\ q # p
      OBVIOUS
    <2> QED BY <1>1, <1>2 DEF Alive
  <1>9. ControlInv'
    <2>1. \A u \in Tasks : pc'[u] = "unborn" <=> slot[u] = "none"
      BY <1>0, <1>2 DEF ControlInv, Threads
    <2>2. ASSUME NEW q \in Threads
          PROVE  /\ pc'[q] \in {"reserve", "spawn"} => nextId'[q] \in Ids
                 /\ pc'[q] \in {"admit", "enter", "rollback", "wait", "joined"} => target[q] \in Ids
                 /\ pc'[q] \in {"admit", "enter"} => reg'[q][target[q]] # NoTask
                 /\ pc'[q] \in {"wait", "joined"} <=> held[q] # NoTask
      BY <1>0, <1>1, <1>2, <1>3, <1>5 DEF ControlInv
    <2>3. ASSUME NEW q \in Threads, pc'[q] = "joined"
          PROVE  pc'[held[q]] = "done"
      <3>1. pc[q] = "joined" /\ held[q] # NoTask /\ pc[held[q]] = "done"
        BY <1>0, <1>2, <2>3 DEF ControlInv
      <3>2. held[q] \in Threads
        BY <1>0, <3>1 DEF ShapeOK, Threads
      <3> QED BY <1>2, <3>1, <3>2
    <2> QED BY <1>1, <2>1, <2>2, <2>3 DEF ControlInv
  <1>10. RegistryInv'
    <2>1. ASSUME NEW q \in Threads, NEW i \in Ids, reg'[q][i] # NoTask
          PROVE  /\ slot[reg'[q][i]] = "live"
                 /\ parent[reg'[q][i]] = q
                 /\ ident[reg'[q][i]] = i
      BY <1>0, <1>3, <2>1 DEF RegistryInv
    <2>2. ASSUME NEW q \in Threads, held[q] # NoTask
          PROVE  /\ slot[held[q]] = "live"
                 /\ parent[held[q]] = q
                 /\ ident[held[q]] = target[q]
                 /\ reg'[q][target[q]] = NoTask
      <3>1. q # p /\ target[q] \in Ids
        BY <1>0, <1>1, <2>2 DEF ControlInv
      <3> QED BY <1>0, <1>3, <2>2, <3>1 DEF RegistryInv
    <2>3. \A u \in Tasks :
            slot[u] # "none" =>
              /\ parent[u] \in Threads /\ ident[u] \in Ids
              /\ Alive(parent[u])' => ident[u] < nextId'[parent[u]]
      BY <1>0, <1>1, <1>5, <1>8 DEF RegistryInv
    <2>4. \A q \in Threads : \A i \in completed'[q] : i < nextId'[q]
      BY <1>0, <1>4, <1>5 DEF RegistryInv
    <2> QED BY <1>1, <2>1, <2>2, <2>3, <2>4 DEF RegistryInv
  <1>11. HandleIsInOnePlace'
    <2> SUFFICES ASSUME NEW u \in Tasks, slot[u] # "none", Alive(parent[u])'
                 PROVE  Placed(u, parent[u], ident[u])'
      BY <1>1 DEF HandleIsInOnePlace
    <2>1. parent[u] \in Threads /\ ident[u] \in Ids
      BY <1>0 DEF RegistryInv
    <2>2. Placed(u, parent[u], ident[u]) /\ parent[u] # p
      BY <1>0, <1>1, <1>8, <2>1 DEF HandleIsInOnePlace
    <2> QED BY <1>1, <1>3, <1>4, <2>1, <2>2 DEF Placed
  <1>12. JoinedTasksHaveStopped'
    BY <1>0, <1>1, <1>2 DEF JoinedTasksHaveStopped, Threads
  <1> QED BY <1>7, <1>9, <1>10, <1>11, <1>12 DEF ThreadInv

LEMMA ThreadExitStep ==
  ASSUME ThreadInv, NEW p \in Tasks, ThreadDies(p) \/ ExitCheck(p)
  PROVE  ThreadInv'
  <1>0. ShapeOK /\ p \in Threads
    BY DEF ThreadInv, Threads
  <1>1. CASE ThreadDies(p)
    <2>1. /\ pc[p] = "body" /\ outcome' = [outcome EXCEPT ![p] = "died"]
          /\ "died" \in Outcomes /\ result' \in [Threads -> Results]
      BY <1>0, <1>1 DEF ThreadDies, InBody, Outcomes, ShapeOK
    <2> QED BY <1>1, <2>1, DropInterpreterStep DEF ThreadDies
  <1>2. CASE ExitCheck(p)
    <2>1. Report(p) \in Outcomes
      BY <1>0 DEF ShapeOK, Report, Results, Outcomes
    <2>2. result' \in [Threads -> Results]
      BY <1>0, <1>2 DEF ExitCheck, ShapeOK, Results
    <2> QED BY <1>2, <2>1, <2>2, DropInterpreterStep DEF ExitCheck
  <1> QED BY <1>1, <1>2

LEMMA DrainStepStep ==
  ASSUME ThreadInv, DrainStep PROVE ThreadInv'
  <1>0. ShapeOK /\ Main \in Threads
    BY DEF ThreadInv, Threads
  <1>1. CASE DrainBegin
    <2>1. /\ pc[Main] = "exit" /\ Goto(Main, "drain") /\ todo' \subseteq Ids
          /\ UNCHANGED <<workers, cap, private, flag, result, outcome, drainFailed, history>>
      BY <1>1 DEF DrainBegin, Registered
    <2>2. pc' \in [Threads -> Points] /\ \A q \in Threads : pc'[q] = IF q = Main THEN "drain" ELSE pc[q]
      BY <1>0, <2>1, GotoShape DEF Points
    <2>3. ShapeOK'
      BY <1>0, <2>1, <2>2 DEF ShapeOK, private, history
    <2> QED BY <1>0, <2>1, <2>2, <2>3, QuietStep
  <1>2. CASE \E id \in Ids : DrainNext(id)
    <2>1. PICK id \in Ids : DrainNext(id)
      BY <1>2
    <2>2. pc[Main] = "drain" /\ JoinBegin(Main, id) /\ todo' \subseteq Ids
      BY <1>0, <2>1 DEF DrainNext, ShapeOK
    <2> QED BY <1>0, <2>2, JoinBeginStep
  <1>3. CASE RunReturns
    <2>1. /\ pc[Main] = "drain" /\ Goto(Main, "done")
          /\ UNCHANGED <<workers, cap, private, flag, result, outcome, todo, drainFailed, history>>
      BY <1>3 DEF RunReturns
    <2>2. pc' \in [Threads -> Points] /\ \A q \in Threads : pc'[q] = IF q = Main THEN "done" ELSE pc[q]
      BY <1>0, <2>1, GotoShape DEF Points
    <2>3. ShapeOK'
      BY <1>0, <2>1, <2>2 DEF ShapeOK, private, history
    <2> QED BY <1>0, <2>1, <2>2, <2>3, QuietStep
  <1> QED BY <1>1, <1>2, <1>3 DEF DrainStep

LEMMA ThreadStutter ==
  ASSUME ThreadInv, UNCHANGED vars PROVE ThreadInv'
  <1>1. /\ UNCHANGED <<workers, pc, cap, reg, completed, nextId, target, held, flag, result>>
        /\ UNCHANGED <<outcome, todo, drainFailed, parent, ident, slot>>
    BY DEF vars, private, history
  <1>2. ShapeOK' /\ ControlInv' /\ RegistryInv' /\ HandleIsInOnePlace' /\ JoinedTasksHaveStopped'
    BY <1>1 DEF ThreadInv, ShapeOK, ControlInv, RegistryInv, HandleIsInOnePlace,
                Placed, Alive, JoinedTasksHaveStopped
  <1> QED BY <1>2 DEF ThreadInv

LEMMA ThreadInvStep ==
  ASSUME ThreadInv, [Next]_vars PROVE ThreadInv'
  <1>1. ASSUME NEW p \in Threads, BodyStep(p) PROVE ThreadInv'
    <2>1. CASE SpawnBegin(p)
      BY <2>1, SpawnBeginStep
    <2>2. CASE \E id \in Ids : Await(p, id)
      <3>1. PICK id \in Ids : Await(p, id)
        BY <2>2
      <3>2. pc[p] = "body" /\ JoinBegin(p, id) /\ todo' \subseteq Ids
        BY <3>1 DEF Await, InBody, ThreadInv, ShapeOK
      <3> QED BY <3>2, JoinBeginStep
    <2>3. CASE \/ \E id \in Ids : Cancel(p, id)
               \/ \E w \in EnvWorkers : EnvSetWorkers(p, w)
               \/ BodyEnds(p)
      <3>1. pc[p] = "body"
        BY <2>3 DEF Cancel, EnvSetWorkers, BodyEnds, InBody
      <3> QED BY <2>3, <3>1, BodyQuietStep
    <2> QED BY <1>1, <2>1, <2>2, <2>3 DEF BodyStep
  <1>2. ASSUME NEW p \in Threads, ExecutorStep(p) PROVE ThreadInv'
    BY <1>2, SpawnReserveStep, SpawnThreadStep, SpawnThreadFailsStep, SpawnRefusedStep,
       BridgeAdmitStep, BridgeEnterStep, BridgeRollbackStep, WaitFinishedStep,
       WaitTimesOutStep, JoinDoneStep DEF ExecutorStep
  <1>3. ASSUME NEW t \in Tasks, SleepCheckpoint(t) PROVE ThreadInv'
    <2>1. t \in Threads /\ pc[t] = "body"
      BY <1>3 DEF SleepCheckpoint, InBody, Threads
    <2> QED BY <1>3, <2>1, BodyQuietStep
  <1>4. ASSUME NEW t \in Tasks, ThreadDies(t) \/ ExitCheck(t) PROVE ThreadInv'
    BY <1>4, ThreadExitStep
  <1> QED BY <1>1, <1>2, <1>3, <1>4, DrainStepStep, ThreadStutter DEF Next, Terminated

THEOREM ThreadInvariant == Spec => []ThreadInv
  <1>1. ThreadInv /\ [Next]_vars => ThreadInv'
    BY ThreadInvStep
  <1> QED BY ThreadInvInit, <1>1, PTL DEF Spec
\* Whatever is awaited, refused, timed out or cancelled, the handle of an
\* unjoined task stays where its spawner can reach it, and only there.
THEOREM HandlesAreNeverLost == Spec => []HandleIsInOnePlace
  <1>1. ThreadInv => HandleIsInOnePlace
    BY DEF ThreadInv
  <1> QED BY ThreadInvariant, <1>1, PTL

\* join_task gives a slot back only when the worker thread has ended.
THEOREM NoRunningTaskIsDetached == Spec => []JoinedTasksHaveStopped
  <1>1. ThreadInv => JoinedTasksHaveStopped
    BY DEF ThreadInv
  <1> QED BY ThreadInvariant, <1>1, PTL

-----------------------------------------------------------------------------
(* The gauges and the caps *)

LEMMA ThreadsFinite == IsFiniteSet(Threads)
  BY ExecutorAssumption, FS_AddElement DEF Threads

\* What the proofs below need to know about counting threads.
LEMMA Counting ==
  ASSUME NEW S \in SUBSET Threads
  PROVE  /\ IsFiniteSet(S)
         /\ Cardinality(S) \in Nat
         /\ \A x \in S : Cardinality(S \ {x}) = Cardinality(S) - 1
         /\ \A x : x \notin S => Cardinality(S \cup {x}) = Cardinality(S) + 1
         /\ \A T \in SUBSET S : Cardinality(T) <= Cardinality(S)
  <1>1. IsFiniteSet(S)
    BY ThreadsFinite, FS_Subset
  <1> QED BY <1>1, FS_CardinalityType, FS_AddElement, FS_RemoveElement, FS_Subset

LEMMA SetsOfThreads ==
  /\ LiveTasks \in SUBSET Threads /\ Reserving \in SUBSET Threads
  /\ Spawning \in SUBSET Reserving /\ OnTheBridge \in SUBSET Threads
  BY DEF LiveTasks, Reserving, Spawning, OnTheBridge, Threads

LEMMA CountsAreNat ==
  /\ Cardinality(LiveTasks) \in Nat /\ Cardinality(Reserving) \in Nat
  /\ Cardinality(OnTheBridge) \in Nat /\ Cardinality(Spawning) \in Nat
  /\ Cardinality(Spawning) <= Cardinality(Reserving)
  <1>1. Spawning \in SUBSET Threads
    BY SetsOfThreads
  <1> QED BY <1>1, SetsOfThreads, Counting

LEMMA WorkersInRange ==
  ASSUME ShapeOK
  PROVE  /\ workers \in Nat /\ workers <= MaxWorkers /\ MaxWorkers \in Nat
         /\ EnvWorkers = {} => workers = MaxWorkers
  BY ExecutorAssumption DEF ShapeOK

LEMMA GaugeInvInit == Init => GaugeInv
  <1> SUFFICES ASSUME Init PROVE GaugeInv
    OBVIOUS
  <1>1. LiveTasks = {} /\ Reserving = {} /\ Spawning = {} /\ OnTheBridge = {}
    BY DEF Init, LiveTasks, Reserving, Spawning, OnTheBridge, InBody
  <1>2. CountInv
    BY <1>1, FS_EmptySet, ExecutorAssumption
       DEF Init, CountInv, LiveGaugeIsExact, BridgeGaugeIsExact
  <1>3. CapInv
    BY DEF Init, CapInv, InBody
  <1> QED BY <1>2, <1>3 DEF GaugeInv, Init

(***************************************************************************)
(* The bridge has room for every join that has not entered it yet: the     *)
(* joins inside it hold distinct live tasks, and the one about to enter    *)
(* still has its own, live too, in its registry.                           *)
(***************************************************************************)
LEMMA BridgeRoom ==
  ASSUME ThreadInv, CountInv, CapInv, EnvWorkers = {},
         NEW p \in Threads, pc[p] \in {"admit", "enter"}
  PROVE  depth < cap[p] /\ depth + 1 <= cap[p]
  <1> DEFINE e == reg[p][target[p]]
             f == [q \in OnTheBridge |-> held[q]]
  <1>0. ShapeOK /\ ControlInv /\ RegistryInv
    BY DEF ThreadInv
  <1>1. target[p] \in Ids /\ e # NoTask
    BY <1>0 DEF ControlInv
  <1>2. e \in LiveTasks /\ parent[e] = p
    BY <1>0, <1>1 DEF ShapeOK, RegistryInv, LiveTasks
  <1>3. \A q \in OnTheBridge : q \in Threads /\ pc[q] = "wait" /\ held[q] # NoTask
    BY <1>0 DEF OnTheBridge, CapInv, ControlInv
  <1>4. \A q \in OnTheBridge : held[q] \in LiveTasks /\ parent[held[q]] = q
    BY <1>0, <1>3 DEF ShapeOK, RegistryInv, LiveTasks
  <1>5. \A q \in OnTheBridge : held[q] # e
    BY <1>2, <1>3, <1>4
  <1>6. f \in Injection(OnTheBridge, LiveTasks \ {e})
    <2>1. f \in [OnTheBridge -> LiveTasks \ {e}]
      BY <1>4, <1>5
    <2>2. \A a, b \in OnTheBridge : f[a] = f[b] => a = b
      BY <1>4
    <2> QED BY <2>1, <2>2 DEF Injection, IsInjective
  <1>7. /\ IsFiniteSet(LiveTasks \ {e})
        /\ Cardinality(LiveTasks \ {e}) = Cardinality(LiveTasks) - 1
    BY <1>2, Counting, SetsOfThreads, FS_RemoveElement
  <1>8. Cardinality(OnTheBridge) <= Cardinality(LiveTasks) - 1
    BY <1>6, <1>7, FS_Injection
  <1>9. depth + 1 <= MaxWorkers /\ depth \in Nat
    BY <1>8, CountsAreNat, WorkersInRange, <1>0 DEF CountInv, BridgeGaugeIsExact
  <1>10. cap[p] = MaxWorkers /\ MaxWorkers \in Nat
    <2>1. workers = MaxWorkers /\ MaxWorkers \in Nat
      BY <1>0, WorkersInRange
    <2>2. MaxWorkers # 0
      BY <1>9, <2>1
    <2>3. cap[p] = BridgeCap
      BY DEF CapInv
    <2> QED BY <2>1, <2>2, <2>3 DEF BridgeCap
  <1> QED BY <1>9, <1>10

\* Steps that touch neither gauge, no task's slot, and no counted control point.
LEMMA QuietCount ==
  ASSUME CountInv, NEW p \in Threads,
         UNCHANGED <<live, depth, slot>>,
         \A q \in Threads : q # p => pc'[q] = pc[q],
         pc[p] \notin {"spawn", "unreserve", "rollback", "wait"},
         pc'[p] \notin {"spawn", "unreserve", "rollback", "wait"}
  PROVE  CountInv'
  <1>1. LiveTasks' = LiveTasks
    BY DEF LiveTasks
  <1>2. Reserving' = Reserving /\ Spawning' = Spawning
    BY DEF Reserving, Spawning
  <1>3. OnTheBridge' = OnTheBridge
    BY DEF OnTheBridge
  <1> QED BY <1>1, <1>2, <1>3 DEF CountInv, LiveGaugeIsExact, BridgeGaugeIsExact

\* Only p's own control point and cap can disturb what CapInv says of p.
LEMMA CapFrame ==
  ASSUME CapInv, NEW p \in Threads,
         EnvWorkers = {} => UNCHANGED workers,
         \A q \in Threads : q # p => pc'[q] \in {pc[q], "body"} /\ cap'[q] = cap[q],
         pc'[p] = "reserve" => cap'[p] <= MaxWorkers,
         EnvWorkers = {} => /\ pc'[p] \in {"admit", "enter"} => cap'[p] = BridgeCap
                            /\ pc'[p] # "rollback"
  PROVE  CapInv'
  BY DEF CapInv, BridgeCap

\* Panic leaves a thread at a point that neither gauge nor cap is about.
LEMMA PanicCounts ==
  ASSUME ShapeOK, CapInv, NEW p \in Threads, Panic(p),
         EnvWorkers = {} => UNCHANGED workers,
         \A q \in Threads : q # p => cap'[q] = cap[q]
  PROVE  /\ CapInv'
         /\ \A q \in Threads : q # p => pc'[q] = pc[q]
         /\ pc'[p] \in {"drain", "exit"}
  BY PanicShape, CapFrame

LEMMA GaugeStutter ==
  ASSUME GaugeInv, UNCHANGED vars PROVE GaugeInv'
  <1>1. UNCHANGED <<workers, live, peak, depth, pc, cap, slot>>
    BY DEF vars, gauges, history
  <1>2. CountInv'
    BY <1>1 DEF GaugeInv, CountInv, LiveGaugeIsExact, BridgeGaugeIsExact, LiveTasks,
                Reserving, Spawning, OnTheBridge
  <1>3. CapInv'
    BY <1>1 DEF GaugeInv, CapInv, BridgeCap
  <1> QED BY <1>1, <1>2, <1>3 DEF GaugeInv

LEMMA SpawnBeginGauge ==
  ASSUME ThreadInv, GaugeInv, NEW p \in Threads, SpawnBegin(p) PROVE GaugeInv'
  <1>0. /\ ShapeOK /\ CountInv /\ CapInv /\ pc[p] = "body"
        /\ UNCHANGED <<workers, live, peak, depth, slot>>
    BY DEF ThreadInv, GaugeInv, SpawnBegin, InBody, gauges, history
  <1>1. CASE workers = 0
    <2>1. Panic(p) /\ UNCHANGED cap
      BY <1>1 DEF SpawnBegin
    <2>2. CapInv' /\ (\A q \in Threads : q # p => pc'[q] = pc[q]) /\ pc'[p] \in {"drain", "exit"}
      BY <1>0, <2>1, PanicCounts
    <2>3. CountInv'
      BY <1>0, <2>2, QuietCount
    <2> QED BY <1>0, <2>2, <2>3 DEF GaugeInv
  <1>2. CASE workers # 0
    <2>1. Goto(p, "reserve") /\ cap' = [cap EXCEPT ![p] = workers]
      BY <1>2 DEF SpawnBegin
    <2>2. \A q \in Threads : pc'[q] = IF q = p THEN "reserve" ELSE pc[q]
      BY <1>0, <2>1, GotoShape DEF Points
    <2>3. \A q \in Threads : cap'[q] = IF q = p THEN workers ELSE cap[q]
      BY <1>0, <2>1 DEF ShapeOK
    <2>4. CapInv'
      BY <1>0, <2>2, <2>3, WorkersInRange, CapFrame
    <2>5. CountInv'
      BY <1>0, <2>2, QuietCount
    <2> QED BY <1>0, <2>4, <2>5 DEF GaugeInv
  <1> QED BY <1>1, <1>2

LEMMA JoinBeginGauge ==
  ASSUME ThreadInv, GaugeInv, NEW p \in Threads, NEW id \in Ids, JoinBegin(p, id),
         pc[p] \in {"body", "drain"}
  PROVE  GaugeInv'
  <1>0. /\ ShapeOK /\ CountInv /\ CapInv
        /\ UNCHANGED <<workers, live, peak, depth, slot>>
    BY DEF ThreadInv, GaugeInv, JoinBegin, gauges, history
  <1>1. CASE reg[p][id] = NoTask
    <2>1. Panic(p) /\ UNCHANGED cap
      BY <1>1 DEF JoinBegin
    <2>2. CapInv' /\ (\A q \in Threads : q # p => pc'[q] = pc[q]) /\ pc'[p] \in {"drain", "exit"}
      BY <1>0, <2>1, PanicCounts
    <2>3. CountInv'
      BY <1>0, <2>2, QuietCount
    <2> QED BY <1>0, <2>2, <2>3 DEF GaugeInv
  <1>2. CASE reg[p][id] # NoTask
    <2>1. Goto(p, "admit") /\ cap' = [cap EXCEPT ![p] = BridgeCap]
      BY <1>2 DEF JoinBegin
    <2>2. \A q \in Threads : pc'[q] = IF q = p THEN "admit" ELSE pc[q]
      BY <1>0, <2>1, GotoShape DEF Points
    <2>3. \A q \in Threads : cap'[q] = IF q = p THEN BridgeCap ELSE cap[q]
      BY <1>0, <2>1 DEF ShapeOK
    <2>4. CapInv'
      BY <1>0, <2>2, <2>3, CapFrame
    <2>5. CountInv'
      BY <1>0, <2>2, QuietCount
    <2> QED BY <1>0, <2>4, <2>5 DEF GaugeInv
  <1> QED BY <1>1, <1>2

LEMMA BridgeAdmitGauge ==
  ASSUME ThreadInv, GaugeInv, NEW p \in Threads, BridgeAdmit(p) PROVE GaugeInv'
  <1>0. /\ ShapeOK /\ CountInv /\ CapInv /\ pc[p] = "admit"
        /\ UNCHANGED <<workers, live, peak, depth, slot>>
    BY DEF ThreadInv, GaugeInv, BridgeAdmit, gauges, history
  <1>1. CASE depth >= cap[p]
    <2>1. Panic(p) /\ DropCap(p)
      BY <1>1 DEF BridgeAdmit
    <2>2. \A q \in Threads : q # p => cap'[q] = cap[q]
      BY <1>0, <2>1 DEF ShapeOK, DropCap
    <2>3. CapInv' /\ (\A q \in Threads : q # p => pc'[q] = pc[q]) /\ pc'[p] \in {"drain", "exit"}
      BY <1>0, <2>1, <2>2, PanicCounts
    <2>4. CountInv'
      BY <1>0, <2>3, QuietCount
    <2> QED BY <1>0, <2>3, <2>4 DEF GaugeInv
  <1>2. CASE ~ (depth >= cap[p])
    <2>1. Goto(p, "enter") /\ UNCHANGED cap
      BY <1>2 DEF BridgeAdmit
    <2>2. \A q \in Threads : pc'[q] = IF q = p THEN "enter" ELSE pc[q]
      BY <1>0, <2>1, GotoShape DEF Points
    <2>3. EnvWorkers = {} => cap[p] = BridgeCap
      BY <1>0 DEF CapInv
    <2>4. CapInv'
      BY <1>0, <2>1, <2>2, <2>3, CapFrame
    <2>5. CountInv'
      BY <1>0, <2>2, QuietCount
    <2> QED BY <1>0, <2>4, <2>5 DEF GaugeInv
  <1> QED BY <1>1, <1>2

\* The steps at "body", "exit" and "drain" that neither spawn nor join.
LEMMA PlainGauge ==
  ASSUME ThreadInv, GaugeInv, NEW p \in Threads,
         pc[p] \in {"body", "exit", "drain"},
         EnvWorkers = {} => UNCHANGED workers,
         UNCHANGED <<gauges, cap, slot>>,
         \/ Panic(p)
         \/ UNCHANGED pc
         \/ \E pt \in {"exit", "drain", "done"} : Goto(p, pt)
  PROVE  GaugeInv'
  <1>0. ShapeOK /\ CountInv /\ CapInv /\ UNCHANGED <<live, peak, depth, cap, slot>>
    BY DEF ThreadInv, GaugeInv, gauges
  <1>1. /\ \A q \in Threads : q # p => pc'[q] = pc[q]
        /\ pc'[p] \in {"body", "exit", "drain", "done"}
    <2>1. CASE Panic(p)
      BY <1>0, <2>1, PanicShape
    <2>2. CASE \E pt \in {"exit", "drain", "done"} : Goto(p, pt)
      <3>1. PICK pt \in {"exit", "drain", "done"} : Goto(p, pt)
        BY <2>2
      <3>2. \A q \in Threads : pc'[q] = IF q = p THEN pt ELSE pc[q]
        BY <1>0, <3>1, GotoShape DEF Points
      <3> QED BY <3>2
    <2> QED BY <2>1, <2>2
  <1>2. CapInv'
    BY <1>0, <1>1, CapFrame
  <1>3. CountInv'
    BY <1>0, <1>1, QuietCount
  <1> QED BY <1>0, <1>2, <1>3 DEF GaugeInv

(***************************************************************************)
(* The steps that move the live gauge.                                     *)
(***************************************************************************)
LEMMA SpawnReserveGauge ==
  ASSUME ThreadInv, GaugeInv, NEW p \in Threads, SpawnReserve(p) PROVE GaugeInv'
  <1>0. /\ ShapeOK /\ CountInv /\ CapInv /\ pc[p] = "reserve" /\ peak \in Nat
        /\ UNCHANGED <<workers, depth, slot>> /\ live' = live + 1
    BY DEF ThreadInv, GaugeInv, SpawnReserve, history
  <1>1. live \in Nat /\ live = Cardinality(LiveTasks) + Cardinality(Reserving)
    BY <1>0, CountsAreNat DEF CountInv, LiveGaugeIsExact
  <1>2. peak' \in Nat
    BY <1>0, <1>1 DEF SpawnReserve, Bigger
  <1>3. cap[p] \in Nat /\ cap[p] <= MaxWorkers /\ MaxWorkers \in Nat
    BY <1>0, WorkersInRange DEF ShapeOK, CapInv
  <1>4. \A q \in Threads : q # p => cap'[q] = cap[q]
    BY <1>0 DEF SpawnReserve, DropCap, ShapeOK
  <1>5. LiveTasks' = LiveTasks /\ p \notin Reserving /\ p \notin Spawning
    BY <1>0 DEF LiveTasks, Reserving, Spawning
  <1>6. CASE Over(live + 1, cap[p])
    <2>1. \A q \in Threads : pc'[q] = IF q = p THEN "unreserve" ELSE pc[q]
      BY <1>0, <1>6, GotoShape DEF SpawnReserve, Points
    <2>2. /\ Reserving' = Reserving \cup {p} /\ Spawning' = Spawning
          /\ OnTheBridge' = OnTheBridge
      BY <1>0, <2>1 DEF Reserving, Spawning, OnTheBridge
    <2>3. Cardinality(Reserving') = Cardinality(Reserving) + 1
      BY <1>5, <2>2, SetsOfThreads, Counting
    <2>4. CountInv'
      BY <1>0, <1>1, <1>5, <2>2, <2>3, CountsAreNat
         DEF CountInv, LiveGaugeIsExact, BridgeGaugeIsExact
    <2>5. CapInv'
      BY <1>0, <1>4, <2>1, CapFrame
    <2> QED BY <1>2, <2>4, <2>5 DEF GaugeInv
  <1>7. CASE ~ Over(live + 1, cap[p])
    <2>1. \A q \in Threads : pc'[q] = IF q = p THEN "spawn" ELSE pc[q]
      BY <1>0, <1>7, GotoShape DEF SpawnReserve, Points
    <2>2. /\ Reserving' = Reserving \cup {p} /\ Spawning' = Spawning \cup {p}
          /\ OnTheBridge' = OnTheBridge
      BY <1>0, <2>1 DEF Reserving, Spawning, OnTheBridge
    <2>3. /\ Cardinality(Reserving') = Cardinality(Reserving) + 1
          /\ Cardinality(Spawning') = Cardinality(Spawning) + 1
      BY <1>5, <2>2, SetsOfThreads, Counting
    <2>4. Cardinality(LiveTasks) + Cardinality(Spawning) + 1 <= MaxWorkers
      BY <1>1, <1>3, <1>7, CountsAreNat DEF Over
    <2>5. CountInv'
      BY <1>0, <1>1, <1>3, <1>5, <2>2, <2>3, <2>4, CountsAreNat
         DEF CountInv, LiveGaugeIsExact, BridgeGaugeIsExact
    <2>6. CapInv'
      BY <1>0, <1>4, <2>1, CapFrame
    <2> QED BY <1>2, <2>5, <2>6 DEF GaugeInv
  <1> QED BY <1>6, <1>7

LEMMA SpawnThreadGauge ==
  ASSUME ThreadInv, GaugeInv, NEW p \in Threads, NEW t \in Tasks, SpawnThread(p, t)
  PROVE  GaugeInv'
  <1>0. /\ ShapeOK /\ ControlInv /\ CountInv /\ CapInv /\ peak \in Nat
        /\ pc[p] = "spawn" /\ pc[t] = "unborn" /\ t \in Threads
        /\ UNCHANGED <<workers, live, peak, depth, cap>>
    BY DEF ThreadInv, GaugeInv, SpawnThread, gauges, Threads
  <1>1. \A q \in Threads : pc'[q] = IF q \in {p, t} THEN "body" ELSE pc[q]
    BY <1>0 DEF ShapeOK, SpawnThread, InBody
  <1>2. slot[t] = "none" /\ \A u \in Tasks : slot'[u] = IF u = t THEN "live" ELSE slot[u]
    BY <1>0 DEF ShapeOK, SpawnThread, ControlInv
  <1>3. LiveTasks' = LiveTasks \cup {t} /\ t \notin LiveTasks
    BY <1>2 DEF LiveTasks
  <1>4. /\ Reserving' = Reserving \ {p} /\ p \in Reserving
        /\ Spawning' = Spawning \ {p} /\ p \in Spawning
        /\ OnTheBridge' = OnTheBridge
    BY <1>0, <1>1 DEF Reserving, Spawning, OnTheBridge
  <1>5. /\ Cardinality(LiveTasks') = Cardinality(LiveTasks) + 1
        /\ Cardinality(Reserving') = Cardinality(Reserving) - 1
        /\ Cardinality(Spawning') = Cardinality(Spawning) - 1
    BY <1>3, <1>4, SetsOfThreads, Counting
  <1>6. CountInv'
    BY <1>0, <1>4, <1>5, CountsAreNat DEF CountInv, LiveGaugeIsExact, BridgeGaugeIsExact
  <1>7. CapInv'
    BY <1>0, <1>1, CapFrame
  <1> QED BY <1>0, <1>6, <1>7 DEF GaugeInv

LEMMA SpawnThreadFailsGauge ==
  ASSUME ThreadInv, GaugeInv, NEW p \in Threads, SpawnThreadFails(p) PROVE GaugeInv'
  <1>0. /\ ShapeOK /\ CountInv /\ CapInv /\ peak \in Nat /\ pc[p] = "spawn"
        /\ UNCHANGED <<workers, live, peak, depth, cap, slot>>
    BY DEF ThreadInv, GaugeInv, SpawnThreadFails, gauges, history
  <1>1. \A q \in Threads : pc'[q] = IF q = p THEN "unreserve" ELSE pc[q]
    BY <1>0, GotoShape DEF SpawnThreadFails, Points
  <1>2. /\ LiveTasks' = LiveTasks /\ Reserving' = Reserving
        /\ Spawning' = Spawning \ {p} /\ p \in Spawning
        /\ OnTheBridge' = OnTheBridge
    BY <1>0, <1>1 DEF LiveTasks, Reserving, Spawning, OnTheBridge
  <1>3. Cardinality(Spawning') = Cardinality(Spawning) - 1
    BY <1>2, SetsOfThreads, Counting
  <1>4. CountInv'
    BY <1>0, <1>2, <1>3, CountsAreNat, WorkersInRange
       DEF CountInv, LiveGaugeIsExact, BridgeGaugeIsExact
  <1>5. CapInv'
    BY <1>0, <1>1, CapFrame
  <1> QED BY <1>0, <1>4, <1>5 DEF GaugeInv

LEMMA SpawnRefusedGauge ==
  ASSUME ThreadInv, GaugeInv, NEW p \in Threads, SpawnRefused(p) PROVE GaugeInv'
  <1>0. /\ ShapeOK /\ CountInv /\ CapInv /\ peak \in Nat /\ pc[p] = "unreserve"
        /\ Panic(p) /\ live' = live - 1
        /\ UNCHANGED <<workers, peak, depth, cap, slot>>
    BY DEF ThreadInv, GaugeInv, SpawnRefused, FreeSlot, history
  <1>1. CapInv' /\ (\A q \in Threads : q # p => pc'[q] = pc[q]) /\ pc'[p] \in {"drain", "exit"}
    BY <1>0, PanicCounts
  <1>2. /\ LiveTasks' = LiveTasks /\ Reserving' = Reserving \ {p} /\ p \in Reserving
        /\ Spawning' = Spawning /\ OnTheBridge' = OnTheBridge
    BY <1>0, <1>1 DEF LiveTasks, Reserving, Spawning, OnTheBridge
  <1>3. Cardinality(Reserving') = Cardinality(Reserving) - 1
    BY <1>2, SetsOfThreads, Counting
  <1>4. CountInv'
    BY <1>0, <1>2, <1>3, CountsAreNat DEF CountInv, LiveGaugeIsExact, BridgeGaugeIsExact
  <1> QED BY <1>0, <1>1, <1>4 DEF GaugeInv

LEMMA JoinDoneGauge ==
  ASSUME ThreadInv, GaugeInv, NEW p \in Threads, JoinDone(p) PROVE GaugeInv'
  <1> DEFINE t == held[p]
  <1>0. /\ ShapeOK /\ ControlInv /\ RegistryInv /\ CountInv /\ CapInv /\ peak \in Nat
        /\ pc[p] = "joined" /\ live' = live - 1
        /\ UNCHANGED <<workers, peak, depth, cap>>
    BY DEF ThreadInv, GaugeInv, JoinDone, FreeSlot
  <1>1. t \in Tasks /\ slot[t] = "live"
    BY <1>0 DEF ShapeOK, ControlInv, RegistryInv
  <1>2. slot'[t] # "live" /\ \A u \in Tasks : u # t => slot'[u] = slot[u]
    BY <1>0, <1>1 DEF JoinDone, ShapeOK
  <1>3. /\ \A q \in Threads : q # p => pc'[q] = pc[q]
        /\ pc'[p] \in {"drain", "exit", "body"}
    <2>1. CASE Panic(p)
      BY <1>0, <2>1, PanicShape
    <2>2. CASE Goto(p, IF Draining(p) THEN "drain" ELSE InBody)
      <3>1. PICK pt \in {"drain", "body"} : Goto(p, pt)
        BY <2>2 DEF InBody
      <3>2. pt \in Points
        BY DEF Points, InBody
      <3> QED BY <1>0, <3>1, <3>2, GotoShape
    <2> QED BY <2>1, <2>2 DEF JoinDone
  <1>4. LiveTasks' = LiveTasks \ {t} /\ t \in LiveTasks
    BY <1>1, <1>2 DEF LiveTasks
  <1>5. /\ Reserving' = Reserving /\ Spawning' = Spawning
        /\ OnTheBridge' = OnTheBridge
    BY <1>0, <1>3 DEF Reserving, Spawning, OnTheBridge
  <1>6. Cardinality(LiveTasks') = Cardinality(LiveTasks) - 1
    BY <1>4, SetsOfThreads, Counting
  <1>7. CountInv'
    BY <1>0, <1>5, <1>6, CountsAreNat, WorkersInRange
       DEF CountInv, LiveGaugeIsExact, BridgeGaugeIsExact
  <1>8. CapInv'
    BY <1>0, <1>3, CapFrame
  <1> QED BY <1>0, <1>7, <1>8 DEF GaugeInv

(***************************************************************************)
(* The steps that move the bridge gauge.                                   *)
(***************************************************************************)
LEMMA BridgeEnterGauge ==
  ASSUME ThreadInv, GaugeInv, NEW p \in Threads, BridgeEnter(p) PROVE GaugeInv'
  <1>0. /\ ShapeOK /\ CountInv /\ CapInv /\ peak \in Nat /\ pc[p] = "enter"
        /\ depth' = depth + 1
        /\ UNCHANGED <<workers, live, peak, slot>>
    BY DEF ThreadInv, GaugeInv, BridgeEnter, history
  <1>1. depth \in Nat /\ cap[p] \in Nat
    BY <1>0, CountsAreNat DEF CountInv, BridgeGaugeIsExact, ShapeOK
  <1>2. PICK pt \in {"rollback", "wait"} :
          Goto(p, pt) /\ (pt = "rollback" => Over(depth + 1, cap[p]))
    <2>1. CASE Over(depth + 1, cap[p])
      BY <2>1 DEF BridgeEnter
    <2>2. CASE ~ Over(depth + 1, cap[p])
      BY <2>2 DEF BridgeEnter
    <2> QED BY <2>1, <2>2
  <1>3. \A q \in Threads : pc'[q] = IF q = p THEN pt ELSE pc[q]
    BY <1>0, <1>2, GotoShape DEF Points
  <1>4. EnvWorkers = {} => pt # "rollback"
    BY <1>0, <1>1, <1>2, BridgeRoom DEF Over
  <1>5. \A q \in Threads : q # p => cap'[q] = cap[q]
    BY <1>0 DEF BridgeEnter, DropCap, ShapeOK
  <1>6. /\ LiveTasks' = LiveTasks /\ Reserving' = Reserving /\ Spawning' = Spawning
        /\ OnTheBridge' = OnTheBridge \cup {p} /\ p \notin OnTheBridge
    BY <1>0, <1>3 DEF LiveTasks, Reserving, Spawning, OnTheBridge
  <1>7. Cardinality(OnTheBridge') = Cardinality(OnTheBridge) + 1
    BY <1>6, SetsOfThreads, Counting
  <1>8. CountInv'
    BY <1>0, <1>6, <1>7, CountsAreNat DEF CountInv, LiveGaugeIsExact, BridgeGaugeIsExact
  <1>9. CapInv'
    BY <1>0, <1>3, <1>4, <1>5, CapFrame
  <1> QED BY <1>0, <1>8, <1>9 DEF GaugeInv

LEMMA BridgeLeaveGauge ==
  ASSUME ThreadInv, GaugeInv, NEW p \in Threads, pc[p] \in {"rollback", "wait"},
         Release, Panic(p) \/ Goto(p, "joined"),
         UNCHANGED <<workers, live, peak, cap, slot>>
  PROVE  GaugeInv'
  <1>0. ShapeOK /\ CountInv /\ CapInv /\ peak \in Nat /\ depth' = depth - 1
    BY DEF ThreadInv, GaugeInv, Release
  <1>1. /\ \A q \in Threads : q # p => pc'[q] = pc[q]
        /\ pc'[p] \in {"drain", "exit", "joined"}
    <2>1. CASE Panic(p)
      BY <1>0, <2>1, PanicShape
    <2>2. CASE Goto(p, "joined")
      BY <1>0, <2>2, GotoShape DEF Points
    <2> QED BY <2>1, <2>2
  <1>2. /\ LiveTasks' = LiveTasks /\ Reserving' = Reserving /\ Spawning' = Spawning
        /\ OnTheBridge' = OnTheBridge \ {p} /\ p \in OnTheBridge
    BY <1>1 DEF LiveTasks, Reserving, Spawning, OnTheBridge
  <1>3. Cardinality(OnTheBridge') = Cardinality(OnTheBridge) - 1
    BY <1>2, SetsOfThreads, Counting
  <1>4. CountInv'
    BY <1>0, <1>2, <1>3, CountsAreNat DEF CountInv, LiveGaugeIsExact, BridgeGaugeIsExact
  <1>5. CapInv'
    BY <1>0, <1>1, CapFrame
  <1> QED BY <1>0, <1>4, <1>5 DEF GaugeInv

LEMMA GaugeInvStep ==
  ASSUME ThreadInv, GaugeInv, [Next]_vars PROVE GaugeInv'
  <1>1. ASSUME NEW p \in Threads, BodyStep(p) PROVE GaugeInv'
    <2>1. CASE SpawnBegin(p)
      BY <2>1, SpawnBeginGauge
    <2>2. CASE \E id \in Ids : Await(p, id)
      BY <2>2, JoinBeginGauge DEF Await, InBody
    <2>3. CASE \E id \in Ids : Cancel(p, id)
      <3>1. /\ pc[p] = "body"
            /\ Panic(p) \/ UNCHANGED pc
            /\ UNCHANGED <<workers, gauges, cap, slot>>
        BY <2>3 DEF Cancel, InBody, history
      <3> QED BY <3>1, <1>1, PlainGauge
    <2>4. CASE \E w \in EnvWorkers : EnvSetWorkers(p, w)
      <3>1. /\ pc[p] = "body" /\ EnvWorkers # {}
            /\ UNCHANGED <<gauges, pc, cap, slot>>
        BY <2>4 DEF EnvSetWorkers, InBody, history
      <3> QED BY <3>1, <1>1, PlainGauge
    <2>5. CASE BodyEnds(p)
      <3>1. pc[p] = "body" /\ Goto(p, "exit") /\ UNCHANGED <<workers, gauges, cap, slot>>
        BY <2>5 DEF BodyEnds, InBody, history
      <3> QED BY <3>1, <1>1, PlainGauge
    <2> QED BY <1>1, <2>1, <2>2, <2>3, <2>4, <2>5 DEF BodyStep
  <1>2. ASSUME NEW p \in Threads, ExecutorStep(p) PROVE GaugeInv'
    <2>1. CASE BridgeRollback(p)
      BY <2>1, BridgeLeaveGauge DEF BridgeRollback, history
    <2>2. CASE WaitFinished(p)
      BY <2>2, BridgeLeaveGauge DEF WaitFinished, history
    <2>3. CASE WaitTimesOut(p)
      BY <2>3, BridgeLeaveGauge DEF WaitTimesOut, history
    <2> QED BY <1>2, <2>1, <2>2, <2>3, SpawnReserveGauge, SpawnThreadGauge,
               SpawnThreadFailsGauge, SpawnRefusedGauge, BridgeAdmitGauge,
               BridgeEnterGauge, JoinDoneGauge DEF ExecutorStep
  <1>3. ASSUME NEW t \in Tasks, SleepCheckpoint(t) \/ ThreadDies(t) \/ ExitCheck(t)
        PROVE  GaugeInv'
    <2>1. /\ t \in Threads /\ pc[t] \in {"body", "exit"}
          /\ Panic(t) \/ Goto(t, "done")
          /\ UNCHANGED <<workers, gauges, cap, slot>>
      BY <1>3 DEF SleepCheckpoint, ThreadDies, ExitCheck, DropInterpreter, Threads,
                  InBody, history
    <2> QED BY <2>1, PlainGauge
  <1>4. ASSUME DrainStep PROVE GaugeInv'
    <2>1. Main \in Threads
      BY DEF Threads
    <2>2. CASE \E id \in Ids : DrainNext(id)
      BY <2>1, <2>2, JoinBeginGauge DEF DrainNext
    <2>3. CASE DrainBegin \/ RunReturns
      <3>1. /\ pc[Main] \in {"exit", "drain"} /\ \E pt \in {"drain", "done"} : Goto(Main, pt)
            /\ UNCHANGED <<workers, gauges, cap, slot>>
        BY <2>3 DEF DrainBegin, RunReturns, history
      <3> QED BY <2>1, <3>1, PlainGauge
    <2> QED BY <1>4, <2>2, <2>3 DEF DrainStep
  <1> QED BY <1>1, <1>2, <1>3, <1>4, GaugeStutter DEF Next, Terminated

THEOREM InductiveInvariant == Spec => []IInv
  <1>1. Init => IInv
    BY ThreadInvInit, GaugeInvInit DEF IInv
  <1>2. IInv /\ [Next]_vars => IInv'
    BY ThreadInvStep, GaugeInvStep DEF IInv
  <1> QED BY <1>1, <1>2, PTL DEF Spec
\* What the runs check on small instances, for every value of the constants.

\* The state keeps its shape, and neither unsigned gauge ever wraps.
THEOREM TypeCorrect == Spec => []TypeOK
  <1>1. IInv => TypeOK
    <2> SUFFICES ASSUME IInv PROVE TypeOK
      OBVIOUS
    <2> QED BY CountsAreNat DEF IInv, ThreadInv, GaugeInv, CountInv, LiveGaugeIsExact,
               BridgeGaugeIsExact, TypeOK
  <1> QED BY InductiveInvariant, <1>1, PTL

\* live counts the unjoined tasks and the reservations in flight.
THEOREM LiveGauge == Spec => []LiveGaugeIsExact
  <1>1. IInv => LiveGaugeIsExact
    BY DEF IInv, GaugeInv, CountInv
  <1> QED BY InductiveInvariant, <1>1, PTL

\* depth counts the joins inside the bridge.
THEOREM BridgeGauge == Spec => []BridgeGaugeIsExact
  <1>1. IInv => BridgeGaugeIsExact
    BY DEF IInv, GaugeInv, CountInv
  <1> QED BY InductiveInvariant, <1>1, PTL

\* The check-after-reserve of spawn_task never admits a task too many.
THEOREM NoOversubscription == Spec => []LiveWithinCap
  <1>1. IInv => LiveWithinCap
    <2> SUFFICES ASSUME IInv PROVE LiveWithinCap
      OBVIOUS
    <2>1. Cardinality(LiveTasks) + Cardinality(Spawning) <= MaxWorkers /\ MaxWorkers \in Nat
      BY WorkersInRange DEF IInv, ThreadInv, GaugeInv, CountInv
    <2> QED BY <2>1, CountsAreNat DEF LiveWithinCap
  <1> QED BY InductiveInvariant, <1>1, PTL

\* A bridge as large as the pool never refuses a join.
THEOREM BridgeSizing == Spec => []BridgeNeverRefuses
  <1>1. IInv => BridgeNeverRefuses
    <2> SUFFICES ASSUME IInv, EnvWorkers = {}, NEW p \in Threads
                 PROVE  /\ pc[p] \in {"admit", "enter"} => depth < cap[p]
                        /\ pc[p] # "rollback"
      BY DEF BridgeNeverRefuses
    <2>1. pc[p] \in {"admit", "enter"} => depth < cap[p]
      BY BridgeRoom DEF IInv, GaugeInv
    <2> QED BY <2>1 DEF IInv, GaugeInv, CapInv
  <1> QED BY InductiveInvariant, <1>1, PTL

\* Both at once: the sizing rule of the executor.
THEOREM Sizing == Spec => []PoolIsSized
  <1>1. LiveWithinCap /\ BridgeNeverRefuses => PoolIsSized
    BY DEF PoolIsSized
  <1> QED BY NoOversubscription, BridgeSizing, <1>1, PTL

-----------------------------------------------------------------------------
(***************************************************************************)
(* The exit code of run.                                                   *)
(***************************************************************************)

LEMMA ExitInvInit == Init => ExitInv
  <1> SUFFICES ASSUME Init PROVE ResultInv /\ VerdictInv
    BY DEF ExitInv
  <1>1. \A t \in Tasks : t \in Threads /\ t # Main /\ parent[t] # Main /\ pc[t] = "unborn"
    BY ExecutorAssumption DEF Init, Threads
  <1>2. result[Main] = "none" /\ pc[Main] = "body"
    BY DEF Init, Threads, InBody
  <1> QED BY <1>1, <1>2 DEF ResultInv, VerdictInv

\* A step of p, whoever else it may start.
LEMMA ResultFrame ==
  ASSUME ResultInv, NEW p \in Threads,
         \A q \in Threads : q # p => /\ result'[q] = result[q]
                                     /\ (pc'[q] = pc[q] \/ (q # Main /\ pc'[q] = "body")),
         \A t \in Tasks : t # p => outcome'[t] = outcome[t],
         \A t \in Tasks : slot'[t] = "none" => slot[t] = "none" /\ parent'[t] = parent[t],
         p # Main => UNCHANGED todo,
         p = Main =>
           /\ pc'[Main] \in {"body", "reserve", "spawn", "unreserve", "unborn"} => result'[Main] = "none"
           /\ pc'[Main] \in {"exit", "drain", "done"} => result'[Main] # "none"
           /\ pc'[Main] = "done" => todo' = {},
         p \in Tasks => /\ pc'[p] = "exit" => result'[p] # "none"
                        /\ pc'[p] = "done" => outcome'[p] # "none"
  PROVE  ResultInv'
  <1>0. Main \in Threads /\ \A t \in Tasks : t \in Threads /\ t # Main
    BY ExecutorAssumption DEF Threads
  <1>1. /\ pc'[Main] \in {"body", "reserve", "spawn", "unreserve", "unborn"} => result'[Main] = "none"
        /\ pc'[Main] \in {"exit", "drain", "done"} => result'[Main] # "none"
        /\ pc'[Main] = "done" => todo' = {}
    BY <1>0 DEF ResultInv
  <1>2. ASSUME NEW t \in Tasks
        PROVE  /\ pc'[t] = "exit" => result'[t] # "none"
               /\ pc'[t] = "done" => outcome'[t] # "none"
               /\ slot'[t] = "none" => parent'[t] # Main
    <2>1. CASE t = p
      BY <2>1 DEF ResultInv
    <2>2. CASE t # p
      BY <1>0, <2>2 DEF ResultInv
    <2> QED BY <2>1, <2>2
  <1> QED BY <1>1, <1>2 DEF ResultInv

\* A panic gives main, or a task, a result; a draining main keeps its own.
LEMMA PanicResult ==
  ASSUME ShapeOK, NEW p \in Threads, Panic(p)
  PROVE  /\ \A q \in Threads : q # p => result'[q] = result[q] /\ pc'[q] = pc[q]
         /\ pc'[p] \in {"exit", "drain"} /\ result'[p] # "none"
         /\ p # Main => UNCHANGED drainFailed
         /\ drainFailed => drainFailed'
         /\ p = Main => pc'[Main] = "exit" \/ drainFailed'
         /\ p = Main /\ result[Main] # "none" => drainFailed' /\ result'[Main] = result[Main]
         /\ p = Main /\ result[Main] = "none" => result'[Main] = "error"
  <1>1. CASE Draining(p)
    BY <1>1 DEF Panic, DrainFails, Draining, Goto, ShapeOK
  <1>2. CASE ~ Draining(p)
    <2>1. Goto(p, "exit") /\ UNCHANGED drainFailed /\ result' = [result EXCEPT ![p] = "error"]
      BY <1>2 DEF Panic
    <2>2. p = Main => result[Main] = "none"
      BY <1>2 DEF Draining
    <2> QED BY <2>1, <2>2 DEF Goto, ShapeOK
  <1> QED BY <1>1, <1>2

\* A step that leaves p at its exit, or main in the drain, with a result.
LEMMA EndKeepsResult ==
  ASSUME ResultInv, NEW p \in Threads, UNCHANGED <<outcome, parent>>,
         \A q \in Threads : q # p => result'[q] = result[q] /\ pc'[q] = pc[q],
         pc'[p] \in {"exit", "drain"}, result'[p] # "none",
         \A t \in Tasks : slot'[t] = "none" => slot[t] = "none",
         p # Main => UNCHANGED todo
  PROVE  ResultInv'
  <1>0. \A t \in Tasks : t # Main
    BY ExecutorAssumption
  <1>1. \A q \in Threads : q # p =>
          /\ result'[q] = result[q]
          /\ (pc'[q] = pc[q] \/ (q # Main /\ pc'[q] = "body"))
    BY <1>0
  <1>2. /\ \A t \in Tasks : t # p => outcome'[t] = outcome[t]
        /\ \A t \in Tasks : slot'[t] = "none" => slot[t] = "none" /\ parent'[t] = parent[t]
    OBVIOUS
  <1>3. /\ p = Main =>
             /\ pc'[Main] \in {"body", "reserve", "spawn", "unreserve", "unborn"} => result'[Main] = "none"
             /\ pc'[Main] \in {"exit", "drain", "done"} => result'[Main] # "none"
             /\ pc'[Main] = "done" => todo' = {}
        /\ p \in Tasks => /\ pc'[p] = "exit" => result'[p] # "none"
                          /\ pc'[p] = "done" => outcome'[p] # "none"
    BY <1>0
  <1> QED BY <1>1, <1>2, <1>3, ResultFrame

LEMMA PanicKeepsResult ==
  ASSUME ShapeOK, ResultInv, NEW p \in Threads, Panic(p), UNCHANGED <<outcome, parent>>,
         \A t \in Tasks : slot'[t] = "none" => slot[t] = "none",
         p # Main => UNCHANGED todo
  PROVE  ResultInv'
  BY PanicResult, EndKeepsResult

\* A step of the executor's own code that does not panic.
LEMMA GotoKeepsResult ==
  ASSUME ShapeOK, ResultInv, NEW p \in Threads,
         NEW pt \in {"body", "reserve", "spawn", "unreserve", "admit", "enter", "rollback",
                     "wait", "joined", "drain"},
         Goto(p, pt), UNCHANGED <<outcome, parent, result>>,
         \A t \in Tasks : slot'[t] = "none" => slot[t] = "none",
         p # Main => UNCHANGED todo,
         p = Main /\ pt \in {"body", "reserve", "spawn", "unreserve"} => result[Main] = "none",
         p = Main /\ pt = "drain" => result[Main] # "none"
  PROVE  ResultInv'
  <1>1. \A q \in Threads : pc'[q] = IF q = p THEN pt ELSE pc[q]
    BY DEF ShapeOK, Goto
  <1>2. /\ \A q \in Threads : q # p => /\ result'[q] = result[q]
                                       /\ (pc'[q] = pc[q] \/ (q # Main /\ pc'[q] = "body"))
        /\ \A t \in Tasks : t # p => outcome'[t] = outcome[t]
        /\ \A t \in Tasks : slot'[t] = "none" => slot[t] = "none" /\ parent'[t] = parent[t]
        /\ p = Main =>
             /\ pc'[Main] \in {"body", "reserve", "spawn", "unreserve", "unborn"} => result'[Main] = "none"
             /\ pc'[Main] \in {"exit", "drain", "done"} => result'[Main] # "none"
             /\ pc'[Main] = "done" => todo' = {}
        /\ p \in Tasks => /\ pc'[p] = "exit" => result'[p] # "none"
                          /\ pc'[p] = "done" => outcome'[p] # "none"
    BY <1>1
  <1> QED BY <1>2, ResultFrame

LEMMA StayKeepsResult ==
  ASSUME ResultInv, UNCHANGED <<pc, outcome, parent, slot, result, todo>>
  PROVE  ResultInv'
  BY DEF ResultInv

LEMMA ResultStep ==
  ASSUME IInv, ResultInv, [Next]_vars PROVE ResultInv'
  <1>0. /\ ShapeOK /\ ControlInv /\ Main \in Threads
        /\ \A t \in Tasks : t \in Threads /\ t # Main
    BY ExecutorAssumption DEF IInv, ThreadInv, Threads
  <1>a. ASSUME NEW p \in Threads, NEW id \in Ids, JoinBegin(p, id), p # Main => UNCHANGED todo
        PROVE  ResultInv'
    <2>1. UNCHANGED <<outcome, parent, slot>>
      BY <1>a DEF JoinBegin, history
    <2>2. Panic(p) \/ (Goto(p, "admit") /\ UNCHANGED result)
      <3>1. CASE reg[p][id] = NoTask
        BY <1>a, <3>1 DEF JoinBegin
      <3>2. CASE reg[p][id] # NoTask
        BY <1>a, <3>2 DEF JoinBegin
      <3> QED BY <3>1, <3>2
    <2> QED BY <1>0, <1>a, <2>1, <2>2, PanicKeepsResult, GotoKeepsResult
  <1>1. ASSUME NEW p \in Threads, BodyStep(p) PROVE ResultInv'
    <2>1. CASE SpawnBegin(p)
      <3>0. UNCHANGED <<outcome, parent, slot, todo>> /\ pc[p] = "body"
        BY <2>1 DEF SpawnBegin, history, InBody
      <3>1. Panic(p) \/ (Goto(p, "reserve") /\ UNCHANGED result)
        <4>1. CASE workers = 0
          BY <2>1, <4>1 DEF SpawnBegin
        <4>2. CASE workers # 0
          BY <2>1, <4>2 DEF SpawnBegin
        <4> QED BY <4>1, <4>2
      <3>2. p = Main => result[Main] = "none"
        BY <3>0 DEF ResultInv
      <3> QED BY <1>0, <3>0, <3>1, <3>2, PanicKeepsResult, GotoKeepsResult
    <2>2. CASE \E id \in Ids : Await(p, id)
      BY <1>a, <2>2 DEF Await
    <2>3. CASE \E id \in Ids : Cancel(p, id)
      <3>1. /\ UNCHANGED <<outcome, parent, slot, todo>>
            /\ Panic(p) \/ UNCHANGED <<pc, result>>
        BY <2>3 DEF Cancel, history
      <3> QED BY <1>0, <3>1, PanicKeepsResult, StayKeepsResult
    <2>4. CASE \E w \in EnvWorkers : EnvSetWorkers(p, w)
      BY <2>4, StayKeepsResult DEF EnvSetWorkers, history
    <2>5. CASE BodyEnds(p)
      <3>1. /\ UNCHANGED <<outcome, parent, slot, todo>>
            /\ \A q \in Threads : q # p => result'[q] = result[q] /\ pc'[q] = pc[q]
            /\ pc'[p] = "exit" /\ result'[p] # "none"
        BY <1>0, <2>5 DEF BodyEnds, history, Goto, ShapeOK
      <3> QED BY <3>1, EndKeepsResult
    <2> QED BY <1>1, <2>1, <2>2, <2>3, <2>4, <2>5 DEF BodyStep
  <1>2. ASSUME NEW p \in Threads, ExecutorStep(p) PROVE ResultInv'
    <2>1. CASE SpawnReserve(p)
      <3>1. /\ UNCHANGED <<outcome, parent, slot, todo, result>> /\ pc[p] = "reserve"
            /\ Goto(p, "unreserve") \/ Goto(p, "spawn")
        BY <2>1 DEF SpawnReserve, history
      <3> QED BY <1>0, <3>1, GotoKeepsResult DEF ResultInv
    <2>2. CASE \E t \in Tasks : SpawnThread(p, t)
      <3>1. PICK t \in Tasks : SpawnThread(p, t)
        BY <2>2
      <3>2. /\ UNCHANGED <<outcome, result, todo>> /\ pc[p] = "spawn"
            /\ pc' = [pc EXCEPT ![p] = "body", ![t] = "body"]
            /\ slot' = [slot EXCEPT ![t] = "live"] /\ parent' = [parent EXCEPT ![t] = p]
        BY <3>1 DEF SpawnThread, InBody
      <3>3. /\ \A q \in Threads : q # p => /\ result'[q] = result[q]
                                           /\ (pc'[q] = pc[q] \/ (q # Main /\ pc'[q] = "body"))
            /\ pc'[p] = "body"
        BY <1>0, <3>2 DEF ShapeOK
      <3>4. /\ \A u \in Tasks : u # p => outcome'[u] = outcome[u]
            /\ \A u \in Tasks : slot'[u] = "none" => slot[u] = "none" /\ parent'[u] = parent[u]
        BY <1>0, <3>2 DEF ShapeOK
      <3>5. p = Main => result'[Main] = "none"
        BY <3>2 DEF ResultInv
      <3> QED BY <3>2, <3>3, <3>4, <3>5, ResultFrame
    <2>3. CASE SpawnThreadFails(p)
      <3>1. /\ UNCHANGED <<outcome, parent, slot, todo, result>> /\ pc[p] = "spawn"
            /\ Goto(p, "unreserve")
        BY <2>3 DEF SpawnThreadFails, history
      <3> QED BY <1>0, <3>1, GotoKeepsResult DEF ResultInv
    <2>4. CASE SpawnRefused(p) \/ BridgeRollback(p) \/ WaitTimesOut(p)
      <3>1. UNCHANGED <<outcome, parent, slot, todo>> /\ Panic(p)
        BY <2>4 DEF SpawnRefused, BridgeRollback, WaitTimesOut, history
      <3> QED BY <1>0, <3>1, PanicKeepsResult
    <2>5. CASE BridgeAdmit(p)
      <3>1. UNCHANGED <<outcome, parent, slot, todo>>
        BY <2>5 DEF BridgeAdmit, history
      <3>2. CASE depth >= cap[p]
        BY <1>0, <2>5, <3>1, <3>2, PanicKeepsResult DEF BridgeAdmit
      <3>3. CASE ~ (depth >= cap[p])
        <4>1. Goto(p, "enter") /\ UNCHANGED result
          BY <2>5, <3>3 DEF BridgeAdmit
        <4> QED BY <1>0, <3>1, <4>1, GotoKeepsResult
      <3> QED BY <3>2, <3>3
    <2>6. CASE BridgeEnter(p) \/ WaitFinished(p)
      <3>1. /\ UNCHANGED <<outcome, parent, slot, todo, result>>
            /\ Goto(p, "rollback") \/ Goto(p, "wait") \/ Goto(p, "joined")
        BY <2>6 DEF BridgeEnter, WaitFinished, history
      <3> QED BY <1>0, <3>1, GotoKeepsResult
    <2>7. CASE JoinDone(p)
      <3>1. /\ UNCHANGED <<outcome, parent, todo>>
            /\ \A t \in Tasks : slot'[t] = "none" => slot[t] = "none"
            /\ \/ Panic(p)
               \/ UNCHANGED result /\ Goto(p, IF Draining(p) THEN "drain" ELSE "body")
        BY <1>0, <2>7 DEF JoinDone, ShapeOK, InBody
      <3>2. p = Main => (Draining(p) <=> result[Main] # "none")
        BY DEF Draining
      <3>3. CASE Panic(p)
        BY <1>0, <3>1, <3>3, PanicKeepsResult
      <3>4. CASE UNCHANGED result /\ Goto(p, IF Draining(p) THEN "drain" ELSE "body")
        <4>1. CASE Draining(p)
          BY <1>0, <3>1, <3>2, <3>4, <4>1, GotoKeepsResult
        <4>2. CASE ~ Draining(p)
          BY <1>0, <3>1, <3>2, <3>4, <4>2, GotoKeepsResult
        <4> QED BY <4>1, <4>2
      <3> QED BY <3>1, <3>3, <3>4
    <2> QED BY <1>2, <2>1, <2>2, <2>3, <2>4, <2>5, <2>6, <2>7 DEF ExecutorStep
  <1>3. ASSUME NEW t \in Tasks, SleepCheckpoint(t) PROVE ResultInv'
    <2>1. UNCHANGED <<outcome, parent, slot, todo>> /\ Panic(t)
      BY <1>3 DEF SleepCheckpoint, history
    <2> QED BY <1>0, <2>1, PanicKeepsResult
  <1>4. ASSUME NEW t \in Tasks, ThreadDies(t) \/ ExitCheck(t) PROVE ResultInv'
    <2>1. /\ UNCHANGED <<parent, slot, todo>>
          /\ \A q \in Threads : q # t => result'[q] = result[q] /\ pc'[q] = pc[q]
          /\ \A u \in Tasks : u # t => outcome'[u] = outcome[u]
          /\ pc'[t] = "done"
      BY <1>0, <1>4 DEF ThreadDies, ExitCheck, DropInterpreter, Goto, history, ShapeOK
    <2>2. outcome'[t] # "none"
      BY <1>0, <1>4 DEF ThreadDies, ExitCheck, Report, ShapeOK, ResultInv
    <2>3. /\ \A q \in Threads : q # t => /\ result'[q] = result[q]
                                         /\ (pc'[q] = pc[q] \/ (q # Main /\ pc'[q] = "body"))
          /\ \A u \in Tasks : slot'[u] = "none" => slot[u] = "none" /\ parent'[u] = parent[u]
          /\ t # Main
      BY <1>0, <2>1
    <2> QED BY <1>0, <2>1, <2>2, <2>3, ResultFrame
  <1>5. ASSUME DrainStep PROVE ResultInv'
    <2>1. CASE DrainBegin
      <3>1. UNCHANGED <<outcome, parent, slot, result>> /\ Goto(Main, "drain") /\ pc[Main] = "exit"
        BY <2>1 DEF DrainBegin, history
      <3> QED BY <1>0, <3>1, GotoKeepsResult DEF ResultInv
    <2>2. CASE \E id \in Ids : DrainNext(id)
      BY <1>0, <1>a, <2>2 DEF DrainNext
    <2>3. CASE RunReturns
      <3>1. /\ UNCHANGED <<outcome, parent, slot, result, todo>> /\ pc[Main] = "drain" /\ todo = {}
            /\ pc'[Main] = "done" /\ \A q \in Threads : q # Main => pc'[q] = pc[q]
        BY <1>0, <2>3 DEF RunReturns, history, Goto, ShapeOK
      <3> QED BY <1>0, <3>1, ResultFrame DEF ResultInv
    <2> QED BY <1>5, <2>1, <2>2, <2>3 DEF DrainStep
  <1>6. CASE UNCHANGED vars
    BY <1>6, StayKeepsResult DEF vars, history
  <1> QED BY <1>1, <1>2, <1>3, <1>4, <1>5, <1>6 DEF Next, Terminated


\* A step that settles none of main's tasks.
LEMMA VerdictFrame ==
  ASSUME ThreadInv, VerdictInv,
         \A t \in Tasks : parent'[t] = Main =>
           \/ slot'[t] \in {"none", "live"}
           \/ parent[t] = Main /\ slot'[t] = slot[t],
         \A t \in Tasks : pc[t] = "done" => outcome'[t] = outcome[t],
         result[Main] = "error" => result'[Main] = "error",
         drainFailed => drainFailed',
         \A t \in Tasks : parent'[t] = Main /\ slot'[t] = "live" => InSight(t)'
  PROVE  VerdictInv'
  <1> SUFFICES ASSUME NEW t \in Tasks, parent'[t] = Main, slot'[t] \notin {"none", "live"}
               PROVE  /\ slot'[t] = "awaited" =>
                           outcome'[t] \notin {"error", "died"} \/ result'[Main] = "error"
                      /\ slot'[t] = "drained" => outcome'[t] = "value" \/ drainFailed'
    BY DEF VerdictInv
  <1>1. parent[t] = Main /\ slot'[t] = slot[t]
    OBVIOUS
  <1>2. slot[t] \in {"awaited", "drained"} => outcome'[t] = outcome[t]
    BY DEF ThreadInv, JoinedTasksHaveStopped
  <1> QED BY <1>1, <1>2 DEF VerdictInv

\* A step of another thread, or one of main's that leaves all this alone.
LEMMA OthersKeepVerdict ==
  ASSUME ThreadInv, VerdictInv,
         \A t \in Tasks : parent'[t] = Main =>
           parent[t] = Main /\ slot'[t] = slot[t] /\ ident'[t] = ident[t],
         \A t \in Tasks : pc[t] = "done" => outcome'[t] = outcome[t],
         result'[Main] = result[Main], pc'[Main] = pc[Main], held'[Main] = held[Main],
         target'[Main] = target[Main], UNCHANGED <<todo, drainFailed>>
  PROVE  VerdictInv'
  <1>1. \A t \in Tasks : parent'[t] = Main /\ slot'[t] = "live" => InSight(t)'
    <2> SUFFICES ASSUME NEW t \in Tasks, parent'[t] = Main, slot'[t] = "live" PROVE InSight(t)'
      OBVIOUS
    <2>1. ident'[t] = ident[t] /\ InSight(t)
      BY DEF VerdictInv
    <2> QED BY <2>1 DEF InSight
  <1>2. \A t \in Tasks : parent'[t] = Main => parent[t] = Main /\ slot'[t] = slot[t]
    OBVIOUS
  <1> QED BY <1>1, <1>2, VerdictFrame

\* A step of main that touches no task.
LEMMA MainKeepsVerdict ==
  ASSUME ThreadInv, VerdictInv, UNCHANGED <<parent, slot, ident, outcome>>,
         result[Main] = "error" => result'[Main] = "error",
         drainFailed => drainFailed',
         \A t \in Tasks : parent[t] = Main /\ slot[t] = "live" => InSight(t)'
  PROVE  VerdictInv'
  BY VerdictFrame

\* A panic of main, in its body or in the drain.
LEMMA PanicKeepsVerdict ==
  ASSUME ThreadInv, VerdictInv, Panic(Main), UNCHANGED <<parent, slot, ident, outcome>>
  PROVE  VerdictInv'
  <1>0. ShapeOK /\ Main \in Threads
    BY DEF ThreadInv, Threads
  <1>1. /\ drainFailed => drainFailed'
        /\ pc'[Main] = "exit" \/ drainFailed'
        /\ result[Main] = "error" => result'[Main] = "error"
    BY <1>0, PanicResult
  <1>2. \A t \in Tasks : InSight(t)'
    BY <1>1 DEF InSight
  <1> QED BY <1>1, <1>2, MainKeepsVerdict


\* A step of another thread that settles nothing.
LEMMA OtherThreadKeepsVerdict ==
  ASSUME ThreadInv, VerdictInv, NEW p \in Threads, p # Main,
         \/ Panic(p)
         \/ /\ UNCHANGED drainFailed /\ result'[Main] = result[Main]
            /\ UNCHANGED pc \/ \E pt \in Points : Goto(p, pt),
         UNCHANGED <<parent, slot, ident, outcome, todo>>,
         held'[Main] = held[Main], target'[Main] = target[Main]
  PROVE  VerdictInv'
  <1>0. ShapeOK /\ Main \in Threads
    BY DEF ThreadInv, Threads
  <1>1. pc'[Main] = pc[Main] /\ result'[Main] = result[Main] /\ UNCHANGED drainFailed
    <2>1. CASE Panic(p)
      BY <1>0, <2>1, PanicResult
    <2>2. CASE /\ UNCHANGED drainFailed /\ result'[Main] = result[Main]
               /\ UNCHANGED pc \/ \E pt \in Points : Goto(p, pt)
      BY <1>0, <2>2 DEF Goto, ShapeOK
    <2> QED BY <2>1, <2>2
  <1> QED BY <1>1, OthersKeepVerdict

\* What happens while main has no result yet, or when it gets one.
LEMMA EarlyKeepsVerdict ==
  ASSUME ThreadInv, VerdictInv, ResultInv, UNCHANGED <<parent, slot, ident, outcome>>,
         drainFailed => drainFailed', result[Main] = "none",
         result'[Main] = "none" \/ pc'[Main] = "exit"
  PROVE  VerdictInv'
  <1>1. \A t \in Tasks : InSight(t)'
    BY DEF InSight
  <1> QED BY <1>1, MainKeepsVerdict

LEMMA JoinDoneKeepsVerdict ==
  ASSUME ThreadInv, VerdictInv, ResultInv, NEW p \in Threads, JoinDone(p)
  PROVE  VerdictInv'
  <1> DEFINE h == held[p]
  <1>0. /\ ShapeOK /\ ControlInv /\ RegistryInv /\ Main \in Threads
        /\ \A t \in Tasks : t \in Threads /\ t # Main
    BY ExecutorAssumption DEF ThreadInv, Threads
  <1>1. /\ pc[p] = "joined" /\ h \in Tasks /\ pc[h] = "done" /\ slot[h] = "live"
        /\ parent[h] = p
    BY <1>0 DEF JoinDone, ShapeOK, ControlInv, RegistryInv
  <1>2. /\ slot' = [slot EXCEPT ![h] = IF Draining(p) THEN "drained" ELSE "awaited"]
        /\ UNCHANGED <<parent, ident, outcome, todo>>
        /\ target' = [target EXCEPT ![p] = 0] /\ held' = [held EXCEPT ![p] = NoTask]
    BY DEF JoinDone, DropTarget
  <1>3. CASE p # Main
    <2>1. \/ Panic(p)
          \/ /\ UNCHANGED result /\ drainFailed' = drainFailed
             /\ \E pt \in Points : Goto(p, pt)
      <3>1. CASE outcome[held[p]] \in {"error", "died"}
        BY <3>1 DEF JoinDone
      <3>2. CASE outcome[held[p]] \notin {"error", "died"}
        <4>1. ~ Draining(p)
          BY <1>3 DEF Draining
        <4>2. Goto(p, "body") /\ UNCHANGED result /\ drainFailed' = (drainFailed \/ FALSE)
          BY <3>2, <4>1 DEF JoinDone, InBody
        <4>3. drainFailed \in BOOLEAN
          BY <1>0 DEF ShapeOK
        <4> QED BY <4>2, <4>3 DEF Points, InBody
      <3> QED BY <3>1, <3>2
    <2>2. pc'[Main] = pc[Main] /\ result'[Main] = result[Main] /\ UNCHANGED drainFailed
      <3>1. CASE Panic(p)
        BY <1>0, <1>3, <3>1, PanicResult
      <3>2. CASE /\ UNCHANGED result /\ drainFailed' = drainFailed
                 /\ \E pt \in Points : Goto(p, pt)
        BY <1>0, <1>3, <3>2 DEF Goto, ShapeOK
      <3> QED BY <2>1, <3>1, <3>2
    <2>3. \A t \in Tasks : parent'[t] = Main =>
            parent[t] = Main /\ slot'[t] = slot[t] /\ ident'[t] = ident[t]
      BY <1>0, <1>1, <1>2, <1>3 DEF ShapeOK
    <2>4. held'[Main] = held[Main] /\ target'[Main] = target[Main]
      BY <1>0, <1>2, <1>3 DEF ShapeOK
    <2> QED BY <1>2, <2>2, <2>3, <2>4, OthersKeepVerdict
  <1>4. CASE p = Main
    <2>1. /\ Draining(Main) <=> result[Main] # "none"
          /\ outcome[h] \in Outcomes \ {"none"}
      BY <1>0, <1>1 DEF Draining, ShapeOK, ResultInv
    <2>2. CASE outcome[h] \in {"error", "died"}
      <3>1. Panic(Main)
        BY <1>4, <2>2 DEF JoinDone
      <3>2. /\ drainFailed => drainFailed'
            /\ pc'[Main] = "exit" \/ drainFailed'
            /\ result[Main] # "none" => drainFailed' /\ result'[Main] = result[Main]
            /\ result[Main] = "none" => result'[Main] = "error"
        BY <1>0, <3>1, PanicResult
      <3>3. ASSUME NEW t \in Tasks, parent'[t] = Main
            PROVE  /\ slot'[t] = "awaited" =>
                        outcome'[t] \notin {"error", "died"} \/ result'[Main] = "error"
                   /\ slot'[t] = "drained" => outcome'[t] = "value" \/ drainFailed'
                   /\ slot'[t] = "live" => InSight(t)'
        <4>1. InSight(t)'
          BY <3>2 DEF InSight
        <4>2. CASE t = h
          <5>1. CASE result[Main] = "none"
            BY <1>0, <1>2, <1>4, <2>1, <3>2, <4>1, <4>2, <5>1 DEF ShapeOK
          <5>2. CASE result[Main] # "none"
            BY <1>0, <1>2, <1>4, <2>1, <3>2, <4>1, <4>2, <5>2 DEF ShapeOK
          <5> QED BY <5>1, <5>2
        <4>3. CASE t # h
          <5>1. slot'[t] = slot[t] /\ outcome'[t] = outcome[t] /\ parent[t] = Main
            BY <1>0, <1>2, <3>3, <4>3 DEF ShapeOK
          <5> QED BY <3>2, <4>1, <5>1 DEF VerdictInv
        <4> QED BY <4>2, <4>3
      <3> QED BY <3>3 DEF VerdictInv
    <2>3. CASE outcome[h] \notin {"error", "died"}
      <3>1. /\ UNCHANGED result
            /\ drainFailed' = (drainFailed \/ (Draining(Main) /\ outcome[h] \in {"cancelled", "lookalike"}))
            /\ Goto(Main, IF Draining(Main) THEN "drain" ELSE "body")
        BY <1>4, <2>3 DEF JoinDone, IsCancelledValue, InBody
      <3>2. pc'[Main] = IF Draining(Main) THEN "drain" ELSE "body"
        BY <1>0, <3>1 DEF Goto, ShapeOK
      <3>3. ASSUME NEW t \in Tasks, parent'[t] = Main
            PROVE  /\ slot'[t] = "awaited" =>
                        outcome'[t] \notin {"error", "died"} \/ result'[Main] = "error"
                   /\ slot'[t] = "drained" => outcome'[t] = "value" \/ drainFailed'
                   /\ slot'[t] = "live" => InSight(t)'
        <4>2. CASE t = h
          BY <1>0, <1>2, <1>4, <2>1, <2>3, <3>1, <4>2 DEF ShapeOK, Outcomes
        <4>3. CASE t # h
          <5>1. slot'[t] = slot[t] /\ outcome'[t] = outcome[t] /\ parent[t] = Main
            BY <1>0, <1>2, <3>3, <4>3 DEF ShapeOK
          <5>2. slot[t] = "live" => InSight(t)'
            BY <1>1, <1>2, <1>4, <3>1, <3>2, <4>3, <5>1 DEF VerdictInv, InSight
          <5> QED BY <3>1, <5>1, <5>2 DEF VerdictInv
        <4> QED BY <4>2, <4>3
      <3> QED BY <3>3 DEF VerdictInv
    <2> QED BY <2>2, <2>3
  <1> QED BY <1>3, <1>4

\* The drain joins id: main's task of that handle comes into the join's sight.
LEMMA DrainNextKeepsVerdict ==
  ASSUME ThreadInv, VerdictInv, ResultInv, NEW id \in Ids, DrainNext(id)
  PROVE  VerdictInv'
  <1>0. ShapeOK /\ ControlInv /\ Main \in Threads
    BY DEF ThreadInv, Threads
  <1>1. /\ pc[Main] = "drain" /\ todo' = todo \ {id}
        /\ UNCHANGED <<parent, slot, ident, outcome, held>>
    BY DEF DrainNext, JoinBegin, history
  <1>2. CASE reg[Main][id] = NoTask
    <2>1. Panic(Main)
      BY <1>2 DEF DrainNext, JoinBegin
    <2> QED BY <1>1, <2>1, PanicKeepsVerdict
  <1>3. CASE reg[Main][id] # NoTask
    <2>1. /\ Goto(Main, "admit") /\ UNCHANGED <<result, drainFailed>>
          /\ target' = [target EXCEPT ![Main] = id]
      BY <1>3 DEF DrainNext, JoinBegin
    <2>2. pc'[Main] = "admit" /\ target'[Main] = id
      BY <1>0, <2>1 DEF Goto, ShapeOK
    <2>3. \A t \in Tasks : parent[t] = Main /\ slot[t] = "live" => InSight(t)'
      BY <1>1, <2>1, <2>2 DEF VerdictInv, InSight, ResultInv
    <2> QED BY <1>1, <2>1, <2>3, MainKeepsVerdict
  <1> QED BY <1>2, <1>3


LEMMA DrainKeepsVerdict ==
  ASSUME ThreadInv, VerdictInv, ResultInv, DrainStep
  PROVE  VerdictInv'
  <1>0. /\ ShapeOK /\ ControlInv /\ RegistryInv /\ HandleIsInOnePlace /\ Main \in Threads
        /\ \A t \in Tasks : t # NoTask
    BY ExecutorAssumption DEF ThreadInv, Threads
  <1>1. CASE DrainBegin
    <2>1. /\ UNCHANGED <<parent, slot, ident, outcome, result, drainFailed, held>>
          /\ pc[Main] = "exit" /\ todo' = Registered(Main)
      BY <1>1 DEF DrainBegin, private, history
    <2>2. held[Main] = NoTask
      BY <1>0, <2>1 DEF ControlInv
    <2>3. ASSUME NEW t \in Tasks, parent[t] = Main, slot[t] = "live"
          PROVE  InSight(t)'
      <3>1. ident[t] \in Ids /\ Placed(t, Main, ident[t])
        BY <1>0, <2>3 DEF RegistryInv, HandleIsInOnePlace, Alive
      <3>2. reg[Main][ident[t]] = t
        BY <1>0, <2>2, <2>3, <3>1 DEF Placed
      <3>3. ident[t] \in todo'
        BY <1>0, <2>1, <3>1, <3>2 DEF Registered
      <3> QED BY <2>1, <3>3 DEF InSight
    <2> QED BY <2>1, <2>3, MainKeepsVerdict
  <1>2. CASE \E id \in Ids : DrainNext(id)
    BY <1>2, DrainNextKeepsVerdict
  <1>3. CASE RunReturns
    <2>1. /\ UNCHANGED <<parent, slot, ident, outcome, result, drainFailed, held, todo, target>>
          /\ pc[Main] = "drain"
      BY <1>3 DEF RunReturns, private, history
    <2>2. \A t \in Tasks : parent[t] = Main /\ slot[t] = "live" => InSight(t)'
      BY <2>1 DEF VerdictInv, InSight, ResultInv
    <2> QED BY <2>1, <2>2, MainKeepsVerdict
  <1> QED BY <1>1, <1>2, <1>3 DEF DrainStep

LEMMA BodyKeepsVerdict ==
  ASSUME ThreadInv, VerdictInv, ResultInv, NEW p \in Threads, BodyStep(p)
  PROVE  VerdictInv'
  <1>0. ShapeOK /\ Main \in Threads
    BY DEF ThreadInv, Threads
  <1>1. /\ UNCHANGED <<parent, slot, ident, outcome, todo, held>> /\ pc[p] = "body"
        /\ \A q \in Threads : q # p => target'[q] = target[q]
    BY <1>0 DEF BodyStep, SpawnBegin, Await, JoinBegin, Cancel, EnvSetWorkers, BodyEnds,
                private, history, InBody, ShapeOK
  <1>2. \/ Panic(p)
        \/ /\ UNCHANGED <<drainFailed, result>>
           /\ UNCHANGED pc \/ \E pt \in {"reserve", "admit"} : Goto(p, pt)
        \/ BodyEnds(p)
    <2>1. CASE SpawnBegin(p)
      BY <2>1 DEF SpawnBegin
    <2>2. CASE \E id \in Ids : Await(p, id)
      BY <2>2 DEF Await, JoinBegin
    <2>3. CASE \E id \in Ids : Cancel(p, id)
      BY <2>3 DEF Cancel
    <2>4. CASE \E w \in EnvWorkers : EnvSetWorkers(p, w)
      BY <2>4 DEF EnvSetWorkers
    <2> QED BY <2>1, <2>2, <2>3, <2>4 DEF BodyStep
  <1>3. CASE p # Main
    <2>1. BodyEnds(p) => /\ UNCHANGED drainFailed /\ result'[Main] = result[Main]
                         /\ Goto(p, "exit")
      BY <1>0, <1>3 DEF BodyEnds, ShapeOK
    <2>2. \/ Panic(p)
          \/ /\ UNCHANGED drainFailed /\ result'[Main] = result[Main]
             /\ UNCHANGED pc \/ \E pt \in Points : Goto(p, pt)
      BY <1>2, <2>1 DEF Points
    <2> QED BY <1>0, <1>1, <1>3, <2>2, OtherThreadKeepsVerdict
  <1>4. CASE p = Main
    <2>1. result[Main] = "none"
      BY <1>1, <1>4 DEF ResultInv
    <2>2. CASE Panic(p)
      BY <1>1, <1>4, <2>2, PanicKeepsVerdict
    <2>3. CASE UNCHANGED <<drainFailed, result>>
      BY <1>1, <2>1, <2>3, EarlyKeepsVerdict
    <2>4. CASE BodyEnds(p)
      <3>1. UNCHANGED drainFailed /\ pc'[Main] = "exit"
        BY <1>0, <1>4, <2>4 DEF BodyEnds, Goto, ShapeOK
      <3> QED BY <1>1, <2>1, <3>1, EarlyKeepsVerdict
    <2> QED BY <1>2, <2>2, <2>3, <2>4
  <1> QED BY <1>3, <1>4

LEMMA ExecutorKeepsVerdict ==
  ASSUME ThreadInv, VerdictInv, ResultInv, NEW p \in Threads, ExecutorStep(p)
  PROVE  VerdictInv'
  <1>0. /\ ShapeOK /\ ControlInv /\ RegistryInv /\ HandleIsInOnePlace /\ Main \in Threads
        /\ \A t \in Tasks : t # NoTask
    BY ExecutorAssumption DEF ThreadInv, Threads
  <1>1. CASE SpawnReserve(p) \/ SpawnThreadFails(p)
    <2>1. /\ UNCHANGED <<parent, slot, ident, outcome, todo, held, target, result, drainFailed>>
          /\ Goto(p, "unreserve") \/ Goto(p, "spawn")
          /\ pc[p] \in {"reserve", "spawn"}
      BY <1>1 DEF SpawnReserve, SpawnThreadFails, private, history
    <2>2. CASE p # Main
      BY <2>1, <2>2, OtherThreadKeepsVerdict DEF Points
    <2>3. CASE p = Main
      BY <2>1, <2>3, EarlyKeepsVerdict DEF ResultInv
    <2> QED BY <2>2, <2>3
  <1>2. CASE \E t \in Tasks : SpawnThread(p, t)
    <2>1. PICK t \in Tasks : SpawnThread(p, t)
      BY <1>2
    <2>2. /\ UNCHANGED <<outcome, todo, held, target, result, drainFailed>>
          /\ pc[p] = "spawn" /\ pc[t] = "unborn"
          /\ slot' = [slot EXCEPT ![t] = "live"] /\ parent' = [parent EXCEPT ![t] = p]
          /\ ident' = [ident EXCEPT ![t] = nextId[p]]
          /\ pc' = [pc EXCEPT ![p] = "body", ![t] = "body"]
      BY <2>1 DEF SpawnThread, InBody
    <2>3. CASE p # Main
      <3>1. \A u \in Tasks : parent'[u] = Main =>
              parent[u] = Main /\ slot'[u] = slot[u] /\ ident'[u] = ident[u]
        BY <1>0, <2>2, <2>3 DEF ShapeOK
      <3>2. pc'[Main] = pc[Main]
        BY <1>0, <2>2, <2>3, ExecutorAssumption DEF ShapeOK
      <3> QED BY <2>2, <3>1, <3>2, OthersKeepVerdict
    <2>4. CASE p = Main
      <3>1. \A u \in Tasks : parent'[u] = Main =>
              slot'[u] \in {"none", "live"} \/ (parent[u] = Main /\ slot'[u] = slot[u])
        BY <1>0, <2>2 DEF ShapeOK
      <3>2. \A u \in Tasks : InSight(u)'
        BY <2>2, <2>4 DEF InSight, ResultInv
      <3> QED BY <2>2, <3>1, <3>2, VerdictFrame
    <2> QED BY <2>3, <2>4
  <1>3. CASE SpawnRefused(p) \/ BridgeRollback(p) \/ WaitTimesOut(p)
    <2>1. /\ UNCHANGED <<parent, slot, ident, outcome, todo>> /\ Panic(p)
          /\ p # Main => held'[Main] = held[Main] /\ target'[Main] = target[Main]
      BY <1>0, <1>3 DEF SpawnRefused, BridgeRollback, WaitTimesOut, DropTarget, private, history, ShapeOK
    <2>2. CASE p # Main
      BY <2>1, <2>2, OtherThreadKeepsVerdict
    <2>3. CASE p = Main
      BY <2>1, <2>3, PanicKeepsVerdict
    <2> QED BY <2>2, <2>3
  <1>4. CASE BridgeAdmit(p)
    <2>1. /\ UNCHANGED <<parent, slot, ident, outcome, todo, held>> /\ pc[p] = "admit"
          /\ p # Main => target'[Main] = target[Main]
      BY <1>0, <1>4 DEF BridgeAdmit, DropTarget, history, ShapeOK
    <2>2. \/ Panic(p)
          \/ Goto(p, "enter") /\ UNCHANGED <<result, drainFailed, target>>
      BY <1>4 DEF BridgeAdmit
    <2>3. CASE p # Main
      <3>1. \/ Panic(p)
            \/ /\ UNCHANGED drainFailed /\ result'[Main] = result[Main]
               /\ UNCHANGED pc \/ \E pt \in Points : Goto(p, pt)
        BY <2>2 DEF Points
      <3> QED BY <2>1, <2>3, <3>1, OtherThreadKeepsVerdict
    <2>4. CASE p = Main
      <3>1. CASE Panic(p)
        BY <2>1, <2>4, <3>1, PanicKeepsVerdict
      <3>2. CASE Goto(p, "enter") /\ UNCHANGED <<result, drainFailed, target>>
        <4>1. pc'[Main] = "enter"
          BY <1>0, <2>4, <3>2 DEF Goto, ShapeOK
        <4>2. \A t \in Tasks : parent[t] = Main /\ slot[t] = "live" => InSight(t)'
          BY <2>1, <2>4, <3>2, <4>1 DEF VerdictInv, InSight
        <4> QED BY <2>1, <3>2, <4>2, MainKeepsVerdict
      <3> QED BY <2>2, <3>1, <3>2
    <2> QED BY <2>3, <2>4
  <1>5. CASE BridgeEnter(p)
    <2>1. /\ UNCHANGED <<parent, slot, ident, outcome, todo, result, drainFailed, target>>
          /\ pc[p] = "enter"
      BY <1>5 DEF BridgeEnter, history
    <2>2. \/ Goto(p, "rollback") /\ UNCHANGED held
          \/ Goto(p, "wait") /\ held' = [held EXCEPT ![p] = reg[p][target[p]]]
      BY <1>5 DEF BridgeEnter
    <2>3. CASE p # Main
      <3>1. held'[Main] = held[Main] /\ \E pt \in Points : Goto(p, pt)
        BY <1>0, <2>2, <2>3 DEF ShapeOK, Points
      <3> QED BY <2>1, <2>3, <3>1, OtherThreadKeepsVerdict
    <2>4. CASE p = Main
      <3>1. ASSUME NEW t \in Tasks, parent[t] = Main, slot[t] = "live"
            PROVE  InSight(t)'
        <4>1. InSight(t) /\ held[Main] # t
          BY <1>0, <2>1, <2>4, <3>1 DEF VerdictInv, ControlInv
        <4>2. CASE Goto(p, "rollback") /\ UNCHANGED held
          <5>1. pc'[Main] = "rollback"
            BY <1>0, <2>4, <4>2 DEF Goto, ShapeOK
          <5> QED BY <2>1, <2>4, <4>1, <5>1 DEF InSight
        <4>3. CASE Goto(p, "wait") /\ held' = [held EXCEPT ![p] = reg[p][target[p]]]
          <5>1. target[Main] = ident[t] => held'[Main] = t
            <6>1. ident[t] \in Ids /\ Placed(t, Main, ident[t])
              BY <1>0, <3>1 DEF RegistryInv, HandleIsInOnePlace, Alive
            <6>2. reg[Main][ident[t]] = t
              BY <3>1, <4>1, <6>1 DEF Placed
            <6> QED BY <1>0, <2>4, <4>3, <6>2 DEF ShapeOK
          <5> QED BY <2>1, <2>4, <4>1, <5>1 DEF InSight
        <4> QED BY <2>2, <4>2, <4>3
      <3> QED BY <2>1, <3>1, MainKeepsVerdict
    <2> QED BY <2>3, <2>4
  <1>6. CASE WaitFinished(p)
    <2>1. /\ UNCHANGED <<parent, slot, ident, outcome, todo, result, drainFailed, held, target>>
          /\ pc[p] = "wait" /\ Goto(p, "joined")
      BY <1>6 DEF WaitFinished, private, history
    <2>2. CASE p # Main
      BY <2>1, <2>2, OtherThreadKeepsVerdict DEF Points
    <2>3. CASE p = Main
      <3>1. \A t \in Tasks : parent[t] = Main /\ slot[t] = "live" => InSight(t)'
        BY <2>1, <2>3 DEF VerdictInv, InSight
      <3> QED BY <2>1, <3>1, MainKeepsVerdict
    <2> QED BY <2>2, <2>3
  <1>7. CASE JoinDone(p)
    BY <1>7, JoinDoneKeepsVerdict
  <1> QED BY <1>1, <1>2, <1>3, <1>4, <1>5, <1>6, <1>7 DEF ExecutorStep

LEMMA VerdictStep ==
  ASSUME ThreadInv, VerdictInv, ResultInv, [Next]_vars PROVE VerdictInv'
  <1>0. /\ ShapeOK /\ Main \in Threads
        /\ \A t \in Tasks : t \in Threads /\ t # Main
    BY ExecutorAssumption DEF ThreadInv, Threads
  <1>1. ASSUME NEW t \in Tasks, SleepCheckpoint(t) PROVE VerdictInv'
    <2>1. Panic(t) /\ UNCHANGED <<parent, slot, ident, outcome, todo, held, target>>
      BY <1>1 DEF SleepCheckpoint, private, history
    <2> QED BY <1>0, <2>1, OtherThreadKeepsVerdict
  <1>2. ASSUME NEW t \in Tasks, ThreadDies(t) \/ ExitCheck(t) PROVE VerdictInv'
    <2>1. /\ UNCHANGED <<parent, slot, ident, todo, held, target, drainFailed>>
          /\ pc[t] # "done" /\ pc' = [pc EXCEPT ![t] = "done"]
          /\ result'[Main] = result[Main]
      BY <1>0, <1>2 DEF ThreadDies, ExitCheck, DropInterpreter, Goto, history, InBody, ShapeOK
    <2>2. \A u \in Tasks : u # t => outcome'[u] = outcome[u]
      BY <1>0, <1>2 DEF ThreadDies, ExitCheck, ShapeOK
    <2>3. pc'[Main] = pc[Main]
      BY <1>0, <2>1 DEF ShapeOK
    <2> QED BY <2>1, <2>2, <2>3, OthersKeepVerdict
  <1>3. CASE UNCHANGED vars
    BY <1>3, OthersKeepVerdict DEF vars, private, history
  <1> QED BY <1>1, <1>2, <1>3, BodyKeepsVerdict, ExecutorKeepsVerdict, DrainKeepsVerdict
       DEF Next, Terminated

\* Exit code 0 means that every task of main was joined, none failed unseen,
\* and a cancelled one was awaited by the program itself.
THEOREM ExitZero == Spec => []ExitZeroIsClean
  <1>1. IInv /\ ExitInv /\ [Next]_vars => ExitInv'
    BY ResultStep, VerdictStep DEF IInv, ExitInv
  <1>2. IInv /\ ExitInv => ExitZeroIsClean
    <2> SUFFICES ASSUME IInv, ExitInv, pc[Main] = "done", ExitCode = 0,
                        NEW t \in Tasks, parent[t] = Main
                 PROVE  /\ slot[t] \in {"awaited", "drained"}
                        /\ outcome[t] \notin {"error", "died"}
                        /\ slot[t] = "drained" => outcome[t] = "value"
      BY DEF ExitZeroIsClean
    <2>1. /\ ShapeOK /\ ControlInv /\ ResultInv /\ VerdictInv /\ Main \in Threads /\ t # NoTask
      BY ExecutorAssumption DEF IInv, ThreadInv, ExitInv, Threads
    <2>2. result[Main] \notin {"error", "none"} /\ ~ drainFailed
      BY <2>1 DEF ExitCode, ResultInv
    <2>3. held[Main] = NoTask /\ todo = {}
      BY <2>1 DEF ControlInv, ResultInv
    <2>4. ~ InSight(t)
      BY <2>1, <2>2, <2>3 DEF InSight
    <2>5. slot[t] \in {"awaited", "drained"}
      BY <2>1, <2>4 DEF ShapeOK, Slots, VerdictInv, ResultInv
    <2> QED BY <2>1, <2>2, <2>5 DEF VerdictInv
  <1> QED BY ExitInvInit, <1>1, <1>2, InductiveInvariant, PTL DEF Spec

-----------------------------------------------------------------------------
(***************************************************************************)
(* The refinement of TaskPool.  Beside IInv it needs to know that a thread *)
(* at its exit has a result to report (ResultInv) and that no task is born *)
(* with its flag up.                                                       *)
(***************************************************************************)
FlagInv == \A t \in Tasks : slot[t] = "none" => ~ flag[t]

\* Only task_cancel raises a flag, only a thread's end settles an outcome.
LEMMA OnlyCancelFlags ==
  ASSUME [Next]_vars
  PROVE  UNCHANGED flag \/ \E p \in Threads, id \in Ids : Cancel(p, id)
  <1>1. ASSUME NEW p \in Threads, BodyStep(p)
        PROVE  UNCHANGED flag \/ \E id \in Ids : Cancel(p, id)
    BY <1>1 DEF BodyStep, SpawnBegin, Await, JoinBegin, EnvSetWorkers, BodyEnds
  <1>2. ASSUME NEW p \in Threads, ExecutorStep(p) PROVE UNCHANGED flag
    BY <1>2 DEF ExecutorStep, SpawnReserve, SpawnThread, SpawnThreadFails, SpawnRefused,
                BridgeAdmit, BridgeEnter, BridgeRollback, WaitFinished, WaitTimesOut, JoinDone
  <1>3. ASSUME NEW t \in Tasks, SleepCheckpoint(t) \/ ThreadDies(t) \/ ExitCheck(t)
        PROVE  UNCHANGED flag
    BY <1>3 DEF SleepCheckpoint, ThreadDies, ExitCheck
  <1>4. ASSUME DrainStep PROVE UNCHANGED flag
    BY <1>4 DEF DrainStep, DrainBegin, DrainNext, JoinBegin, RunReturns
  <1>5. ASSUME UNCHANGED vars PROVE UNCHANGED flag
    BY <1>5 DEF vars
  <1> QED BY <1>1, <1>2, <1>3, <1>4, <1>5 DEF Next, Terminated

\* A task that was born stays born.
LEMMA NobodyIsUnborn ==
  ASSUME IInv, [Next]_vars, NEW t \in Tasks, slot'[t] = "none"
  PROVE  slot[t] = "none"
  <1>0. ShapeOK
    BY DEF IInv, ThreadInv
  <1>1. ASSUME NEW p \in Threads, BodyStep(p) PROVE UNCHANGED slot
    BY <1>1 DEF BodyStep, SpawnBegin, Await, JoinBegin, Cancel, EnvSetWorkers, BodyEnds, history
  <1>2. ASSUME NEW p \in Threads, ExecutorStep(p) PROVE slot[t] = "none"
    <2>1. \/ UNCHANGED slot
          \/ \E u : \E x \in {"live", "awaited", "drained"} : slot' = [slot EXCEPT ![u] = x]
      BY <1>2 DEF ExecutorStep, SpawnReserve, SpawnThread, SpawnThreadFails, SpawnRefused,
                  BridgeAdmit, BridgeEnter, BridgeRollback, WaitFinished, WaitTimesOut,
                  JoinDone, history
    <2> QED BY <1>0, <2>1 DEF ShapeOK
  <1>3. ASSUME NEW u \in Tasks, SleepCheckpoint(u) \/ ThreadDies(u) \/ ExitCheck(u)
        PROVE  UNCHANGED slot
    BY <1>3 DEF SleepCheckpoint, ThreadDies, ExitCheck, history
  <1>4. ASSUME DrainStep PROVE UNCHANGED slot
    BY <1>4 DEF DrainStep, DrainBegin, DrainNext, JoinBegin, RunReturns, history
  <1>5. ASSUME UNCHANGED vars PROVE UNCHANGED slot
    BY <1>5 DEF vars, history
  <1> QED BY <1>1, <1>2, <1>3, <1>4, <1>5 DEF Next, Terminated

LEMMA FlagStep ==
  ASSUME IInv, FlagInv, [Next]_vars PROVE FlagInv'
  <1>0. ShapeOK /\ RegistryInv
    BY DEF IInv, ThreadInv
  <1> SUFFICES ASSUME NEW t \in Tasks, slot'[t] = "none" PROVE ~ flag'[t]
    BY DEF FlagInv
  <1>1. slot[t] = "none" /\ ~ flag[t]
    BY NobodyIsUnborn DEF FlagInv
  <1>2. ASSUME NEW p \in Threads, NEW id \in Ids, Cancel(p, id) PROVE flag'[t] = flag[t]
    <2>1. CASE reg[p][id] = NoTask
      BY <1>2, <2>1 DEF Cancel
    <2>2. CASE reg[p][id] # NoTask
      <3>1. flag' = [flag EXCEPT ![reg[p][id]] = TRUE] /\ slot[reg[p][id]] = "live"
        BY <1>0, <1>2, <2>2 DEF Cancel, RegistryInv
      <3>2. reg[p][id] # t
        BY <1>1, <3>1
      <3> QED BY <1>0, <3>1, <3>2 DEF ShapeOK
    <2> QED BY <2>1, <2>2
  <1> QED BY <1>1, <1>2, OnlyCancelFlags

PhaseMap == [t \in Tasks |-> Phase(t)]
PoolMap  == <<PhaseMap, outcome>>

LEMMA InSlotIsLive ==
  ASSUME ShapeOK PROVE Pool!InSlot = LiveTasks
  <1>1. \A t \in Tasks : Phase(t) \in {"running", "doomed", "ended"} <=> slot[t] = "live"
    BY DEF ShapeOK, Slots, Phase
  <1> QED BY <1>1 DEF Pool!InSlot, LiveTasks

\* A step that joins, cancels and ends nobody is invisible in the pool.
LEMMA InvisibleStep ==
  ASSUME UNCHANGED <<slot, flag, outcome>>,
         \A t \in Tasks : pc'[t] = "done" <=> pc[t] = "done"
  PROVE  UNCHANGED PoolMap
  <1>1. \A t \in Tasks : Phase(t)' = Phase(t)
    BY DEF Phase
  <1> QED BY <1>1 DEF PhaseMap, PoolMap

\* One task changes phase; the others keep theirs.
LEMMA VisibleStep ==
  ASSUME NEW t \in Tasks, NEW to, Phase(t)' = to,
         \A u \in Tasks : u # t => Phase(u)' = Phase(u)
  PROVE  PhaseMap' = [PhaseMap EXCEPT ![t] = to]
  BY DEF PhaseMap

LEMMA RefineInit == Init => Pool!Init
  <1> SUFFICES ASSUME Init PROVE \A t \in Tasks : Phase(t) = "none"
    BY DEF Pool!Init, Init
  <1> QED BY DEF Init, Phase

LEMMA SpawnRefines ==
  ASSUME IInv, FlagInv, NEW p \in Threads, NEW t \in Tasks, SpawnThread(p, t)
  PROVE  Pool!Start(t)
  <1>0. ShapeOK /\ ControlInv /\ CountInv
    BY DEF IInv, ThreadInv, GaugeInv
  <1>1. /\ pc[p] = "spawn" /\ pc[t] = "unborn" /\ t \in Threads
        /\ UNCHANGED <<flag, outcome>>
        /\ \A q \in Threads : pc'[q] = IF q \in {p, t} THEN "body" ELSE pc[q]
    BY <1>0 DEF ShapeOK, SpawnThread, InBody, Threads
  <1>2. slot[t] = "none" /\ ~ flag[t] /\ \A u \in Tasks : slot'[u] = IF u = t THEN "live" ELSE slot[u]
    BY <1>0, <1>1 DEF ShapeOK, SpawnThread, ControlInv, FlagInv
  <1>3. Phase(t) = "none" /\ Phase(t)' = "running"
    BY <1>1, <1>2 DEF Phase
  <1>4. \A u \in Tasks : u # t => Phase(u)' = Phase(u)
    BY <1>1, <1>2 DEF Phase, Threads
  <1>5. p \in Spawning /\ Spawning \in SUBSET Threads
    BY <1>1 DEF Spawning
  <1>6. Cardinality(Spawning) >= 1
    <2>1. {p} \in SUBSET Spawning /\ Cardinality({p}) = 1
      BY <1>5, FS_Singleton
    <2> QED BY <1>5, <2>1, Counting
  <1>7. Cardinality(LiveTasks) < MaxWorkers
    BY <1>0, <1>6, CountsAreNat, WorkersInRange DEF CountInv
  <1>8. PhaseMap' = [PhaseMap EXCEPT ![t] = "running"] /\ PhaseMap[t] = "none"
    BY <1>3, <1>4, VisibleStep DEF PhaseMap
  <1>9. Pool!InSlot = LiveTasks
    BY <1>0, InSlotIsLive
  <1> QED BY <1>1, <1>7, <1>8, <1>9 DEF Pool!Start, Pool!Cardinality, Cardinality, PhaseMap

\* A thread's end answers: "cancelled" for a flagged task, unless it died.
LEMMA EndRefines ==
  ASSUME IInv, ResultInv, NEW t \in Tasks, ThreadDies(t) \/ ExitCheck(t)
  PROVE  Pool!End(t)
  <1>0. ShapeOK /\ ControlInv /\ JoinedTasksHaveStopped
    BY DEF IInv, ThreadInv
  <1>1. /\ pc[t] \in {"body", "exit"} /\ UNCHANGED <<slot, flag>>
        /\ \A q \in Threads : pc'[q] = IF q = t THEN "done" ELSE pc[q]
    BY <1>0 DEF ShapeOK, ThreadDies, ExitCheck, DropInterpreter, Goto, InBody, history
  <1>2. slot[t] = "live" /\ t \in Threads
    BY <1>0, <1>1 DEF ShapeOK, Slots, ControlInv, JoinedTasksHaveStopped, Threads
  <1>3. Phase(t) = (IF flag[t] THEN "doomed" ELSE "running") /\ Phase(t)' = "ended"
    BY <1>1, <1>2 DEF Phase
  <1>4. \A u \in Tasks : u # t => Phase(u)' = Phase(u)
    BY <1>1 DEF Phase, Threads
  <1>5. PhaseMap' = [PhaseMap EXCEPT ![t] = "ended"] /\ PhaseMap[t] = Phase(t)
    BY <1>3, <1>4, VisibleStep DEF PhaseMap
  <1>6. \E a \in Pool!Answers(Phase(t)) : outcome' = [outcome EXCEPT ![t] = a]
    <2>1. CASE ThreadDies(t)
      <3>1. "died" \in Pool!Answers(Phase(t))
        BY <1>3 DEF Pool!Answers
      <3> QED BY <2>1, <3>1 DEF ThreadDies
    <2>2. CASE ExitCheck(t)
      <3>1. Report(t) \in Pool!Answers(Phase(t))
        <4>1. CASE flag[t]
          BY <1>3, <4>1 DEF Report, Pool!Answers
        <4>2. CASE ~ flag[t]
          <5>1. result[t] \in {"value", "lookalike", "error"}
            BY <1>0, <1>2, <2>2 DEF ShapeOK, Results, ExitCheck, ResultInv
          <5> QED BY <1>3, <4>2, <5>1 DEF Report, Pool!Answers
        <4> QED BY <4>1, <4>2
      <3> QED BY <2>2, <3>1 DEF ExitCheck
    <2> QED BY <2>1, <2>2
  <1>7. PhaseMap[t] \in {"running", "doomed"}
    BY <1>3, <1>5
  <1> QED BY <1>5, <1>6, <1>7 DEF Pool!End, PhaseMap

LEMMA JoinRefines ==
  ASSUME IInv, NEW p \in Threads, JoinDone(p)
  PROVE  Pool!Next
  <1>0. ShapeOK /\ ControlInv /\ RegistryInv
    BY DEF IInv, ThreadInv
  <1>a. PICK t \in Tasks : t = held[p]
    BY <1>0 DEF JoinDone, ShapeOK, ControlInv
  <1>1. pc[p] = "joined" /\ slot[t] = "live" /\ pc[t] = "done" /\ t \in Threads
    BY <1>0, <1>a, ExecutorAssumption DEF JoinDone, ControlInv, RegistryInv, Threads
  <1>2. /\ slot'[t] \in {"awaited", "drained"} /\ UNCHANGED <<flag, outcome>>
        /\ \A u \in Tasks : u # t => slot'[u] = slot[u]
    BY <1>0, <1>a DEF JoinDone, ShapeOK
  <1>3. /\ pc'[p] # "done" /\ \A q \in Threads : q # p => pc'[q] = pc[q]
    <2>1. CASE Panic(p)
      BY <1>0, <2>1, PanicShape
    <2>2. CASE Goto(p, IF Draining(p) THEN "drain" ELSE InBody)
      BY <1>0, <2>2 DEF Goto, ShapeOK, InBody
    <2> QED BY <2>1, <2>2 DEF JoinDone
  <1>4. Phase(t) = "ended" /\ Phase(t)' = "joined"
    BY <1>1, <1>2 DEF Phase
  <1>5. \A u \in Tasks : u # t => Phase(u)' = Phase(u)
    BY <1>1, <1>2, <1>3 DEF Phase, Threads
  <1>6. PhaseMap' = [PhaseMap EXCEPT ![t] = "joined"] /\ PhaseMap[t] = "ended"
    BY <1>4, <1>5, VisibleStep DEF PhaseMap
  <1> QED BY <1>2, <1>6 DEF Pool!Next, Pool!Join, PhaseMap

\* A cancel dooms a task that runs; one that comes too late is invisible.
LEMMA CancelRefines ==
  ASSUME IInv, NEW p \in Threads, NEW id \in Ids, Cancel(p, id)
  PROVE  Pool!Next \/ UNCHANGED PoolMap
  <1>0. ShapeOK /\ RegistryInv /\ p # NoTask
    BY ExecutorAssumption DEF IInv, ThreadInv, Threads
  <1>1. UNCHANGED <<slot, outcome>> /\ pc[p] = "body"
    BY DEF Cancel, history, InBody
  <1>2. CASE reg[p][id] = NoTask
    <2>1. Panic(p) /\ UNCHANGED flag
      BY <1>2 DEF Cancel
    <2>2. \A t \in Tasks : pc'[t] = "done" <=> pc[t] = "done"
      BY <1>0, <1>1, <2>1, PanicShape DEF Threads
    <2> QED BY <1>1, <2>1, <2>2, InvisibleStep
  <1>3. CASE reg[p][id] # NoTask
    <2>0. PICK t \in Tasks : t = reg[p][id]
      BY <1>0, <1>3 DEF ShapeOK
    <2>1. slot[t] = "live" /\ UNCHANGED pc /\ \A u \in Tasks : flag'[u] = (IF u = t THEN TRUE ELSE flag[u])
      <3>1. slot[t] = "live"
        BY <1>0, <1>3, <2>0 DEF RegistryInv
      <3>2. UNCHANGED pc /\ flag' = [flag EXCEPT ![t] = TRUE]
        BY <1>3, <2>0 DEF Cancel
      <3> QED BY <1>0, <3>1, <3>2 DEF ShapeOK
    <2>2. \A u \in Tasks : u # t => Phase(u)' = Phase(u)
      BY <1>1, <2>1 DEF Phase
    <2>3. CASE pc[t] = "done" \/ flag[t]
      <3>1. Phase(t)' = Phase(t)
        BY <1>1, <2>1, <2>3 DEF Phase
      <3> QED BY <1>1, <2>2, <3>1 DEF PoolMap, PhaseMap
    <2>4. CASE pc[t] # "done" /\ ~ flag[t]
      <3>1. Phase(t) = "running" /\ Phase(t)' = "doomed"
        BY <1>1, <2>1, <2>4 DEF Phase
      <3>2. PhaseMap' = [PhaseMap EXCEPT ![t] = "doomed"] /\ PhaseMap[t] = "running"
        BY <2>2, <3>1, VisibleStep DEF PhaseMap
      <3> QED BY <1>1, <3>2 DEF Pool!Next, Pool!Cancel, PhaseMap
    <2> QED BY <2>3, <2>4
  <1> QED BY <1>2, <1>3

LEMMA RefineStep ==
  ASSUME IInv, ResultInv, FlagInv, [Next]_vars
  PROVE  Pool!Next \/ UNCHANGED PoolMap
  <1>0. ShapeOK
    BY DEF IInv, ThreadInv
  <1>1. ASSUME NEW p \in Threads, pc[p] # "done", UNCHANGED <<slot, flag, outcome>>,
               Panic(p) \/ UNCHANGED pc \/ \E pt \in Points \ {"done"} : Goto(p, pt)
        PROVE  UNCHANGED PoolMap
    <2>1. /\ \A q \in Threads : q # p => pc'[q] = pc[q]
          /\ pc'[p] # "done"
      <3>1. CASE Panic(p)
        BY <1>0, <3>1, PanicShape
      <3>2. CASE UNCHANGED pc
        BY <1>1, <3>2
      <3>3. CASE \E pt \in Points \ {"done"} : Goto(p, pt)
        BY <1>0, <3>3, GotoShape
      <3> QED BY <1>1, <3>1, <3>2, <3>3
    <2> QED BY <1>1, <2>1, InvisibleStep DEF Threads
  <1>2. ASSUME NEW p \in Threads, BodyStep(p) PROVE Pool!Next \/ UNCHANGED PoolMap
    <2>1. CASE SpawnBegin(p) \/ (\E id \in Ids : Await(p, id))
               \/ (\E w \in EnvWorkers : EnvSetWorkers(p, w)) \/ BodyEnds(p)
      <3>1. /\ pc[p] = "body" /\ UNCHANGED <<slot, flag, outcome>>
            /\ Panic(p) \/ UNCHANGED pc \/ Goto(p, "reserve") \/ Goto(p, "admit") \/ Goto(p, "exit")
        BY <2>1 DEF SpawnBegin, Await, JoinBegin, EnvSetWorkers, BodyEnds, InBody, history
      <3> QED BY <1>1, <3>1 DEF Points
    <2> QED BY <1>2, <2>1, CancelRefines DEF BodyStep
  <1>3. ASSUME NEW p \in Threads, ExecutorStep(p) PROVE Pool!Next \/ UNCHANGED PoolMap
    <2>1. CASE \/ SpawnReserve(p) \/ SpawnThreadFails(p) \/ SpawnRefused(p)
               \/ BridgeAdmit(p) \/ BridgeEnter(p) \/ BridgeRollback(p)
               \/ WaitFinished(p) \/ WaitTimesOut(p)
      <3>1. /\ pc[p] # "done" /\ UNCHANGED <<slot, flag, outcome>>
            /\ \/ Panic(p)
               \/ Goto(p, "unreserve") \/ Goto(p, "spawn") \/ Goto(p, "enter")
               \/ Goto(p, "rollback") \/ Goto(p, "wait") \/ Goto(p, "joined")
        BY <2>1 DEF SpawnReserve, SpawnThreadFails, SpawnRefused, BridgeAdmit, BridgeEnter,
                    BridgeRollback, WaitFinished, WaitTimesOut, history
      <3> QED BY <1>1, <3>1 DEF Points
    <2> QED BY <1>3, <2>1, SpawnRefines, JoinRefines DEF ExecutorStep, Pool!Next
  <1>4. ASSUME NEW t \in Tasks, SleepCheckpoint(t) PROVE UNCHANGED PoolMap
    <2>1. t \in Threads /\ pc[t] = "body" /\ UNCHANGED <<slot, flag, outcome>> /\ Panic(t)
      BY <1>4 DEF SleepCheckpoint, InBody, history, Threads
    <2> QED BY <1>1, <2>1
  <1>5. ASSUME DrainStep PROVE UNCHANGED PoolMap
    <2>1. Main \in Threads /\ Main \notin Tasks /\ UNCHANGED <<slot, flag, outcome>>
      BY <1>5, ExecutorAssumption DEF DrainStep, DrainBegin, DrainNext, JoinBegin, RunReturns,
                                      Threads, history
    <2>2. \A t \in Tasks : pc'[t] = pc[t]
      <3>1. Panic(Main) \/ \E pt \in {"admit", "drain", "done"} : Goto(Main, pt)
        BY <1>5 DEF DrainStep, DrainBegin, DrainNext, JoinBegin, RunReturns
      <3>2. CASE Panic(Main)
        BY <1>0, <2>1, <3>2, PanicShape DEF Threads
      <3>3. CASE \E pt \in {"admit", "drain", "done"} : Goto(Main, pt)
        BY <1>0, <2>1, <3>3 DEF Goto, ShapeOK, Threads
      <3> QED BY <3>1, <3>2, <3>3
    <2> QED BY <2>1, <2>2, InvisibleStep
  <1>6. ASSUME UNCHANGED vars PROVE UNCHANGED PoolMap
    <2>1. UNCHANGED <<pc, slot, flag, outcome>>
      BY <1>6 DEF vars, history
    <2> QED BY <2>1, InvisibleStep
  <1>7. ASSUME NEW t \in Tasks, ThreadDies(t) \/ ExitCheck(t) PROVE Pool!Next
    BY <1>7, EndRefines DEF Pool!Next
  <1> QED BY <1>2, <1>3, <1>4, <1>5, <1>6, <1>7 DEF Next, Terminated

\* The executor is an implementation of the abstract task pool: slots, joins,
\* and which cancels decide an answer.
THEOREM Refinement == Spec => ImplementsTaskPool
  <1>1. IInv /\ ExitInv /\ [Next]_vars => ExitInv'
    BY ResultStep, VerdictStep DEF IInv, ExitInv
  <1>2. Init => FlagInv
    BY DEF Init, FlagInv
  <1>3. IInv /\ FlagInv /\ [Next]_vars => FlagInv'
    BY FlagStep
  <1>4. IInv /\ ExitInv /\ FlagInv /\ [Next]_vars => [Pool!Next]_PoolMap
    BY RefineStep DEF ExitInv
  <1> QED BY RefineInit, ExitInvInit, <1>1, <1>2, <1>3, <1>4, InductiveInvariant, PTL
       DEF Spec, ImplementsTaskPool, Pool!Spec, Pool!vars, PoolMap, PhaseMap

-----------------------------------------------------------------------------
(***************************************************************************)
(* Who spawned whom is a forest: a task has a spawner before it can spawn, *)
(* and only its spawner can await it.                                      *)
(***************************************************************************)
ForestInv ==
  /\ \A t \in Tasks : slot[t] = "none" => parent[t] = NoTask /\ \A u \in Tasks : parent[u] # t
  /\ \A group \in SUBSET Threads :
       (\A p \in group : \E t \in group \cap Tasks : parent[t] = p) => group = {}

LEMMA ForestInvNext == IInv /\ ForestInv /\ [Next]_vars => ForestInv'
  <1> SUFFICES ASSUME IInv, ForestInv, [Next]_vars PROVE ForestInv'
    OBVIOUS
  <1>0. ShapeOK /\ ControlInv
    BY DEF IInv, ThreadInv
  <1>1. ASSUME UNCHANGED parent, \A t \in Tasks : slot'[t] = "none" => slot[t] = "none"
        PROVE  ForestInv'
    BY <1>1 DEF ForestInv
  <1>2. ASSUME NEW p \in Threads, NEW t \in Tasks, SpawnThread(p, t)
        PROVE  ForestInv'
    <2>1. /\ pc[p] = "spawn" /\ pc[t] = "unborn" /\ t \in Threads /\ p # t
          /\ \A u \in Tasks : parent'[u] = IF u = t THEN p ELSE parent[u]
          /\ \A u \in Tasks : slot'[u] = IF u = t THEN "live" ELSE slot[u]
      BY <1>0, <1>2 DEF ShapeOK, SpawnThread, Threads
    <2>2. slot[t] = "none" /\ (p \in Tasks => slot[p] # "none")
      BY <1>0, <2>1 DEF ControlInv
    <2>3. \A u \in Tasks : parent'[u] # t
      BY <2>1, <2>2 DEF ForestInv
    <2>4. ASSUME NEW group \in SUBSET Threads,
                 \A q \in group : \E u \in group \cap Tasks : parent'[u] = q
          PROVE  group = {}
      <3>1. t \notin group
        BY <2>3, <2>4
      <3>2. \A q \in group : \E u \in group \cap Tasks : parent[u] = q
        BY <2>1, <2>4, <3>1
      <3> QED BY <3>2 DEF ForestInv
    <2>5. ASSUME NEW u \in Tasks, slot'[u] = "none"
          PROVE  parent'[u] = NoTask /\ \A w \in Tasks : parent'[w] # u
      <3>1. u # t /\ slot[u] = "none" /\ u # p
        BY <2>1, <2>2, <2>5
      <3> QED BY <2>1, <3>1 DEF ForestInv
    <2> QED BY <2>4, <2>5 DEF ForestInv
  <1>3. ASSUME NEW p \in Threads, JoinDone(p)
        PROVE  UNCHANGED parent /\ \A t \in Tasks : slot'[t] = "none" => slot[t] = "none"
    BY <1>0, <1>3 DEF JoinDone, ShapeOK
  <1>4. \/ \E p \in Threads, t \in Tasks : SpawnThread(p, t)
        \/ \E p \in Threads : JoinDone(p)
        \/ UNCHANGED <<parent, slot>>
    BY DEF Next, BodyStep, ExecutorStep, DrainStep, Terminated, vars, history,
           SpawnBegin, Await, JoinBegin, Cancel, EnvSetWorkers, BodyEnds, SpawnReserve, SpawnThreadFails,
           SpawnRefused, BridgeAdmit, BridgeEnter, BridgeRollback, WaitFinished, WaitTimesOut,
           SleepCheckpoint, ThreadDies, ExitCheck, DrainBegin, DrainNext, RunReturns
  <1> QED BY <1>1, <1>2, <1>3, <1>4

(***************************************************************************)
(* However tasks spawn and await one another, no circle of awaits arises:  *)
(* a deadlock of awaits is no behaviour of the executor, with or without   *)
(* its watchdog.                                                           *)
(***************************************************************************)
THEOREM AwaitsEnd == Spec => []NoCircularAwait
  <1>1. Init => ForestInv
    <2> SUFFICES ASSUME Init PROVE ForestInv
      OBVIOUS
    <2>1. \A t \in Tasks : parent[t] = NoTask /\ t # NoTask
      BY ExecutorAssumption DEF Init
    <2>2. ASSUME NEW group \in SUBSET Threads,
                 \A p \in group : \E t \in group \cap Tasks : parent[t] = p
          PROVE  group = {}
      BY <2>1, <2>2, ExecutorAssumption DEF Threads
    <2> QED BY <2>1, <2>2 DEF ForestInv
  <1>2. IInv /\ ForestInv /\ [Next]_vars => ForestInv'
    BY ForestInvNext
  <1>3. IInv /\ ForestInv => NoCircularAwait
    <2> SUFFICES ASSUME IInv, ForestInv, NEW group \in (SUBSET Threads) \ {{}},
                        \A p \in group : pc[p] = "wait" /\ held[p] \in group
                 PROVE  FALSE
      BY DEF NoCircularAwait
    <2>1. ASSUME NEW p \in group PROVE \E t \in group \cap Tasks : parent[t] = p
      <3>1. held[p] # NoTask /\ held[p] \in group
        BY ExecutorAssumption DEF Threads
      <3>2. held[p] \in Tasks /\ parent[held[p]] = p
        BY <3>1 DEF IInv, ThreadInv, ShapeOK, RegistryInv
      <3> QED BY <3>1, <3>2
    <2>2. group \in SUBSET Threads /\ group # {}
      OBVIOUS
    <2>3. group = {}
      BY <2>1, <2>2 DEF ForestInv
    <2> QED BY <2>2, <2>3
  <1> QED BY <1>1, <1>2, <1>3, InductiveInvariant, PTL DEF Spec

=============================================================================

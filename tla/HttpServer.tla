----------------------------- MODULE HttpServer -----------------------------
(***************************************************************************)
(* The HTTP server behind the `http_server_*` built-ins of the interpreter *)
(* (interp/src/lib.rs; the virtual machine, nir/vm.rs, has the same one).  *)
(*                                                                         *)
(* A process-wide registry, behind one mutex, maps a handle to its         *)
(* listener, its routes and a shutdown flag.  `serve_loop` clones listener *)
(* and flag, accepts without blocking, takes a snapshot of the routes for  *)
(* each connection and gives it to an OS thread of its own; shutdown sets  *)
(* the flag and forgets the handle; the loop then joins its threads.       *)
(*                                                                         *)
(* Program threads and running handlers call the built-ins; peers connect. *)
(* A connection's worker thread is named by the connection.  The bytes of  *)
(* a request and of a response are left out: a request has a route key, or *)
(* cannot be read.                                                         *)
(***************************************************************************)
EXTENDS Integers, FiniteSets, Sequences

CONSTANTS
  Threads,    \* threads that run program code (main and tasks)
  Conns,      \* connections peers may open in a behaviour
  Keys,       \* (method, path) pairs
  Handlers,   \* handler functions
  Nobody,     \* absence of a connection or of a handler
  Unreadable, \* bound: the kinds of unreadable requests peers send
  Callers,    \* bound: threads whose code calls the server built-ins
  MaxServers, \* bound: servers ever listened
  MaxRoutes   \* bound: routes of one server

ASSUME HttpServerAssumption ==
  /\ Threads \cap Conns = {}
  /\ Nobody \notin Threads \cup Conns \cup Handlers
  /\ IsFiniteSet(Conns)
  /\ MaxServers \in Nat /\ MaxRoutes \in Nat
  /\ Unreadable \subseteq {"overcap", "malformed", "stalled"}
  /\ Keys \cap Unreadable = {}
  /\ Callers \subseteq Threads \cup Conns

Actors   == Threads \cup Conns
Servers  == 1 .. MaxServers
Requests == Keys \cup Unreadable
Routes   == [key : Keys, handler : Handlers]

VARIABLES
  up, next,     \* keys of INTERP_SERVER_REGISTRY, INTERP_SERVER_COUNTER
  routes, flag, \* ServerState.routes and .shutdown of each server
  pc,           \* where each thread is
  serving,      \* the handle of the serve_loop a thread is in, else 0
  hand, crew,   \* its accepted connection; its worker threads not yet joined
  conn, target, \* how far each connection is, and to which server
  request,      \* what the peer sent
  snap, chosen, \* routes snapshot of the worker, handler it ran
  status,       \* status code of the response, 0 before
  live, peak,   \* INTERP_CONN_THREADS, INTERP_CONN_PEAK
  seen,         \* track_up's `now` of each worker
  highest,      \* history: the largest value of live
  late,         \* history: connections accepted after their server's shutdown
  unwound       \* history: connections a failed spawn lost or detached

registry == <<up, next, routes, flag>>
loop     == <<serving, hand, crew>>
peer     == <<target, request>>
worker   == <<snap, chosen, status>>
gauge    == <<live, peak, seen>>
history  == <<highest, late, unwound>>
vars == <<registry, pc, loop, conn, peer, worker, gauge, history>>

Points == {"unborn", "body", "check", "accept", "snapshot", "spawn", "drain",
           "count", "mark", "read", "write", "uncount", "dead"}
Stages == {"out", "queued", "accepted", "answered", "dropped", "refused"}
Codes  == {0, 200, 400, 404, 413, 500}

Init ==
  /\ up = {} /\ next = 1
  /\ routes = [h \in Servers |-> <<>>]
  /\ flag = [h \in Servers |-> FALSE]
  /\ pc = [a \in Actors |-> IF a \in Threads THEN "body" ELSE "unborn"]
  /\ serving = [a \in Actors |-> 0]
  /\ hand = [a \in Actors |-> Nobody]
  /\ crew = [a \in Actors |-> {}]
  /\ conn = [c \in Conns |-> "out"]
  /\ target = [c \in Conns |-> 0]
  /\ request = [c \in Conns |-> Nobody]
  /\ snap = [c \in Conns |-> <<>>]
  /\ chosen = [c \in Conns |-> Nobody]
  /\ status = [c \in Conns |-> 0]
  /\ live = 0 /\ peak = 0
  /\ seen = [c \in Conns |-> 0]
  /\ highest = 0
  /\ late = {} /\ unwound = {}

Goto(a, point) == pc' = [pc EXCEPT ![a] = point]

\* The socket lives while the registry or a serve loop has a descriptor of it.
Open(h) == h \in up \/ \E a \in Actors : serving[a] = h

-----------------------------------------------------------------------------
(***************************************************************************)
(* Peers.                                                                  *)
(***************************************************************************)
Connect(c, h, r) ==
  /\ conn[c] = "out"
  /\ Open(h)
  /\ conn' = [conn EXCEPT ![c] = "queued"]
  /\ target' = [target EXCEPT ![c] = h]
  /\ request' = [request EXCEPT ![c] = r]
  /\ UNCHANGED <<registry, pc, loop, worker, gauge, history>>

\* The last descriptor is closed: the kernel resets what nobody accepted.
Refuse(c) ==
  /\ conn[c] = "queued"
  /\ ~Open(target[c])
  /\ conn' = [conn EXCEPT ![c] = "refused"]
  /\ UNCHANGED <<registry, pc, loop, peer, worker, gauge, history>>

-----------------------------------------------------------------------------
(***************************************************************************)
(* The built-ins a program thread or a running handler calls.  A call with *)
(* an unknown handle changes nothing.                                      *)
(***************************************************************************)
Fresh == next

Listen(a) ==
  /\ pc[a] = "body"
  /\ next \in Servers
  /\ up' = up \cup {Fresh}
  /\ routes' = [routes EXCEPT ![Fresh] = <<>>]
  /\ flag' = [flag EXCEPT ![Fresh] = FALSE]
  /\ next' = next + 1
  /\ UNCHANGED <<pc, loop, conn, peer, worker, gauge, history>>

RegisterRoute(a, h, r) ==
  /\ pc[a] = "body"
  /\ h \in up
  /\ Len(routes[h]) < MaxRoutes
  /\ routes' = [routes EXCEPT ![h] = Append(@, r)]
  /\ UNCHANGED <<up, next, flag, pc, loop, conn, peer, worker, gauge, history>>

Forget(h) == up' = up \ {h}

Raise(h) == flag' = [flag EXCEPT ![h] = TRUE]

Shutdown(a, h) ==
  /\ pc[a] = "body"
  /\ h \in up
  /\ Raise(h)
  /\ Forget(h)
  /\ UNCHANGED <<next, routes, pc, loop, conn, peer, worker, gauge, history>>

ServeBegin(a, h) ==
  /\ pc[a] = "body"
  /\ serving[a] = 0
  /\ h \in up
  /\ serving' = [serving EXCEPT ![a] = h]
  /\ Goto(a, "check")
  /\ UNCHANGED <<registry, hand, crew, conn, peer, worker, gauge, history>>

-----------------------------------------------------------------------------
(***************************************************************************)
(* serve_loop.                                                             *)
(***************************************************************************)
SeenFlagNever(a) == FALSE
SeenFlag(a)      == flag[serving[a]]

LoopCheck(a) ==
  /\ pc[a] = "check"
  /\ Goto(a, IF SeenFlag(a) THEN "drain" ELSE "accept")
  /\ UNCHANGED <<registry, loop, conn, peer, worker, gauge, history>>

Waiting(h) == {c \in Conns : conn[c] = "queued" /\ target[c] = h}

Accept(a, c) ==
  /\ pc[a] = "accept"
  /\ c \in Waiting(serving[a])
  /\ conn' = [conn EXCEPT ![c] = "accepted"]
  /\ hand' = [hand EXCEPT ![a] = c]
  /\ late' = IF flag[serving[a]] THEN late \cup {c} ELSE late
  /\ Goto(a, "snapshot")
  /\ UNCHANGED <<registry, serving, crew, peer, worker, gauge, highest,
                 unwound>>

\* WouldBlock: sleep 10 ms and look at the flag again.
AcceptNothing(a) ==
  /\ pc[a] = "accept"
  /\ Waiting(serving[a]) = {}
  /\ Goto(a, "check")
  /\ UNCHANGED <<registry, loop, conn, peer, worker, gauge, history>>

\* Any other error of accept(2) ends the loop; the handle stays registered.
AcceptFails(a) ==
  /\ pc[a] = "accept"
  /\ Goto(a, "drain")
  /\ UNCHANGED <<registry, loop, conn, peer, worker, gauge, history>>

\* The routes are read under the lock; without an entry the socket is dropped.
Snapshot(a) ==
  /\ pc[a] = "snapshot"
  /\ serving[a] \in up
  /\ snap' = [snap EXCEPT ![hand[a]] = routes[serving[a]]]
  /\ Goto(a, "spawn")
  /\ UNCHANGED <<registry, loop, conn, peer, chosen, status, gauge, history>>

SnapshotGone(a) ==
  /\ pc[a] = "snapshot"
  /\ serving[a] \notin up
  /\ conn' = [conn EXCEPT ![hand[a]] = "dropped"]
  /\ hand' = [hand EXCEPT ![a] = Nobody]
  /\ Goto(a, "drain")
  /\ UNCHANGED <<registry, serving, crew, peer, worker, gauge, history>>

Enlist(a) == crew' = [crew EXCEPT ![a] = @ \cup {hand[a]}]

Spawn(a) ==
  /\ pc[a] = "spawn"
  /\ pc' = [pc EXCEPT ![a] = "check", ![hand[a]] = "count"]
  /\ Enlist(a)
  /\ hand' = [hand EXCEPT ![a] = Nobody]
  /\ UNCHANGED <<registry, serving, conn, peer, worker, gauge, history>>

(***************************************************************************)
(* `.expect("spawn connection worker")`: no thread could be created.  The  *)
(* panic unwinds the loop: its workers are detached, the connection is     *)
(* dropped.  A program thread ends; a handler is caught and answers 500.   *)
(***************************************************************************)
SpawnFails(a) ==
  /\ pc[a] = "spawn"
  /\ conn' = [conn EXCEPT ![hand[a]] = "dropped"]
  /\ hand' = [hand EXCEPT ![a] = Nobody]
  /\ crew' = [crew EXCEPT ![a] = {}]
  /\ unwound' = unwound \cup crew[a] \cup {hand[a]}
  /\ serving' = [serving EXCEPT ![a] = 0]
  /\ IF a \in Threads
     THEN Goto(a, "dead") /\ UNCHANGED status
     ELSE Goto(a, "write") /\ status' = [status EXCEPT ![a] = 500]
  /\ UNCHANGED <<registry, peer, snap, chosen, gauge, highest, late>>

EndedOrNot(c) == TRUE
Ended(c)      == pc[c] = "dead"

Join(a, c) ==
  /\ pc[a] = "drain"
  /\ c \in crew[a]
  /\ Ended(c)
  /\ crew' = [crew EXCEPT ![a] = @ \ {c}]
  /\ UNCHANGED <<registry, pc, serving, hand, conn, peer, worker, gauge, history>>

ServeReturns(a) ==
  /\ pc[a] = "drain"
  /\ crew[a] = {}
  /\ serving' = [serving EXCEPT ![a] = 0]
  /\ Goto(a, "body")
  /\ UNCHANGED <<registry, hand, crew, conn, peer, worker, gauge, history>>

-----------------------------------------------------------------------------
(***************************************************************************)
(* The connection worker: track_up, serve_one_connection, fetch_sub.       *)
(***************************************************************************)
Bigger(a, b) == IF a > b THEN a ELSE b

Count(c) ==
  /\ pc[c] = "count"
  /\ live' = live + 1
  /\ seen' = [seen EXCEPT ![c] = live + 1]
  /\ highest' = Bigger(highest, live + 1)
  /\ Goto(c, "mark")
  /\ UNCHANGED <<registry, loop, conn, peer, worker, peak, late, unwound>>

\* fetch_max; mutant: a plain store.
MarkByStore(p, n) == peak' = n
Mark(p, n)        == peak' = Bigger(p, n)

TrackUp(c) ==
  /\ pc[c] = "mark"
  /\ Mark(peak, seen[c])
  /\ Goto(c, "read")
  /\ UNCHANGED <<registry, loop, conn, peer, worker, live, seen, history>>

\* The request cannot be read: no handler runs.
ReadFails(c) ==
  /\ pc[c] = "read"
  /\ request[c] \notin Keys
  /\ status' = [status EXCEPT ![c] = IF request[c] = "overcap" THEN 413 ELSE 400]
  /\ Goto(c, "write")
  /\ UNCHANGED <<registry, loop, conn, peer, snap, chosen, gauge, history>>

\* Indices of the routes for a key; the first one wins.  Mutant: the last one.
Matching(c) == {i \in 1 .. Len(snap[c]) : snap[c][i].key = request[c]}
WinnerLast(c) == CHOOSE i \in Matching(c) : \A j \in Matching(c) : i >= j
Winner(c)     == CHOOSE i \in Matching(c) : \A j \in Matching(c) : i <= j

NoRoute(c) ==
  /\ pc[c] = "read"
  /\ request[c] \in Keys
  /\ Matching(c) = {}
  /\ status' = [status EXCEPT ![c] = 404]
  /\ Goto(c, "write")
  /\ UNCHANGED <<registry, loop, conn, peer, snap, chosen, gauge, history>>

CallHandler(c) ==
  /\ pc[c] = "read"
  /\ request[c] \in Keys
  /\ Matching(c) # {}
  /\ chosen' = [chosen EXCEPT ![c] = snap[c][Winner(c)].handler]
  /\ Goto(c, "body")
  /\ UNCHANGED <<registry, loop, conn, peer, snap, status, gauge, history>>

\* A String or a good HttpResponse; anything else, an error or a panic: 500.
HandlerEnds(c, code) ==
  /\ c \in Conns
  /\ pc[c] = "body"
  /\ status' = [status EXCEPT ![c] = code]
  /\ Goto(c, "write")
  /\ UNCHANGED <<registry, loop, conn, peer, snap, chosen, gauge, history>>

\* write_bytes ignores late failures; the socket is closed after it (mutant:
\* kept alive).
KeepAlive(c) == UNCHANGED conn
Close(c)     == conn' = [conn EXCEPT ![c] = "answered"]

Write(c) ==
  /\ pc[c] = "write"
  /\ Close(c)
  /\ Goto(c, "uncount")
  /\ UNCHANGED <<registry, loop, peer, worker, gauge, history>>

Leave == live' = live - 1

Uncount(c) ==
  /\ pc[c] = "uncount"
  /\ Leave
  /\ Goto(c, "dead")
  /\ UNCHANGED <<registry, loop, conn, peer, worker, peak, seen, history>>

-----------------------------------------------------------------------------
Builtin(a) ==
  \/ Listen(a)
  \/ \E h \in Servers : \/ \E r \in Routes : RegisterRoute(a, h, r)
                        \/ Shutdown(a, h)
                        \/ ServeBegin(a, h)

ServeStep(a) ==
  \/ LoopCheck(a) \/ AcceptNothing(a) \/ AcceptFails(a)
  \/ \E c \in Conns : Accept(a, c) \/ Join(a, c)
  \/ Snapshot(a) \/ SnapshotGone(a) \/ Spawn(a) \/ SpawnFails(a)
  \/ ServeReturns(a)

WorkerStep(c) ==
  \/ Count(c) \/ TrackUp(c) \/ ReadFails(c) \/ NoRoute(c) \/ CallHandler(c)
  \/ Write(c) \/ Uncount(c)
  \/ \E code \in {200, 500} : HandlerEnds(c, code)

PeerStep ==
  \E c \in Conns : \/ Refuse(c)
                   \/ \E h \in Servers, r \in Requests : Connect(c, h, r)

Next ==
  \/ PeerStep
  \/ \E a \in Callers : Builtin(a)
  \/ \E a \in Actors : ServeStep(a)
  \/ \E c \in Conns : WorkerStep(c)

Spec == Init /\ [][Next]_vars

(***************************************************************************)
(* Threads are scheduled: every step a serve loop or a worker can take is  *)
(* taken.  Handlers end (an assumption about programs), reads end because  *)
(* each has a timeout and the request is bounded.                          *)
(***************************************************************************)
Fairness ==
  /\ \A a \in Actors : WF_vars(ServeStep(a))
  /\ \A c \in Conns : WF_vars(WorkerStep(c))

FairSpec == Spec /\ Fairness

-----------------------------------------------------------------------------
(***************************************************************************)
(* Properties.                                                             *)
(***************************************************************************)
TypeOK ==
  /\ up \subseteq Servers /\ next \in 1 .. MaxServers + 1
  /\ routes \in [Servers -> Seq(Routes)]
  /\ flag \in [Servers -> BOOLEAN]
  /\ pc \in [Actors -> Points]
  /\ serving \in [Actors -> 0 .. MaxServers]
  /\ hand \in [Actors -> Conns \cup {Nobody}]
  /\ crew \in [Actors -> SUBSET Conns]
  /\ conn \in [Conns -> Stages]
  /\ target \in [Conns -> 0 .. MaxServers]
  /\ request \in [Conns -> Requests \cup {Nobody}]
  /\ snap \in [Conns -> Seq(Routes)]
  /\ chosen \in [Conns -> Handlers \cup {Nobody}]
  /\ status \in [Conns -> Codes]
  /\ live \in Nat /\ peak \in Nat /\ seen \in [Conns -> Nat]
  /\ highest \in Nat /\ late \subseteq Conns /\ unwound \subseteq Conns

\* The threads the gauge should count.
Alive == {c \in Conns : pc[c] \in {"mark", "read", "body", "write", "uncount",
                                   "check", "accept", "snapshot", "spawn", "drain"}}

(***************************************************************************)
(* The live-threads gauge the load test reads is exact at every instant.   *)
(* track_up is two atomics: once no thread is between them, the recorded   *)
(* mark is the true maximum, whatever the order in which they ran.         *)
(***************************************************************************)
GaugesAreExact ==
  /\ live = Cardinality(Alive)
  /\ (\A c \in Conns : pc[c] # "mark") => peak = highest

(***************************************************************************)
(* An accepted connection without a final fate is in the hand or in the    *)
(* crew of exactly one thread that is still inside serve_loop for that     *)
(* server, unless a failed spawn unwound the loop: serve does not return   *)
(* before its connections have their responses (the drain).                *)
(***************************************************************************)
Owners(c) == {a \in Actors : hand[a] = c \/ c \in crew[a]}

OwnedOnce ==
  \A c \in Conns : conn[c] = "accepted" =>
    IF c \in unwound THEN Owners(c) = {}
    ELSE \E a \in Actors : Owners(c) = {a} /\ serving[a] = target[c]

\* A connection accepted after its server's shutdown (the flag was read just
\* before) never reaches a worker: the snapshot finds the entry gone.
LateIsNeverHandled == \A c \in late : pc[c] = "unborn"

\* Whose an accepted connection is, from accept to its fate: one thread's that
\* is still serving, and never a worker's if the server was gone by then.
AcceptedIsOwned == OwnedOnce /\ LateIsNeverHandled

\* The joins of the drains never close a circle, through handlers that serve in
\* turn: in any group of threads one does not wait for another of the group.
NoCircularJoin ==
  \A group \in (SUBSET Actors) \ {{}} :
    \E a \in group : ~(pc[a] = "drain" /\ crew[a] \cap group # {})

\* First registration wins, for good: two requests for one key of one server
\* never run different handlers, however routes and connections interleave.
RoutingIsStable ==
  \A c, d \in Conns :
    /\ target[c] = target[d] /\ request[c] = request[d]
    /\ chosen[c] # Nobody /\ chosen[d] # Nobody
    => chosen[c] = chosen[d]

\* When every server has been shut down, every serve_loop returns.
ServeReturnsAfterShutdown ==
  \A a \in Actors :
    (serving[a] # 0 /\ \A h \in Servers : flag[h]) ~> (serving[a] = 0)

\* An accepted connection gets its fate, unless its handler becomes a server.
AcceptedIsSettled ==
  \A c \in Conns : conn[c] = "accepted" ~> conn[c] # "accepted" \/ serving[c] # 0

\* docs/PHASE5_PRODUCTION.md: "already-accepted connections run to response
\* completion".  Violated: a shutdown between accept and the route snapshot.
AcceptedRunToResponse == \A c \in Conns : conn[c] = "dropped" => c \in unwound

\* http_wire.rs: "a peer that never finishes its request is not owed a
\* response".  Violated: the timeout is answered with 400.
StalledPeerIsNotAnswered ==
  \A c \in Conns : conn[c] = "answered" => request[c] # "stalled"

(***************************************************************************)
(* The server implements HttpService.  A connection is taken when its loop *)
(* has the routes and not when it is accepted; of the routes for a key the *)
(* first is the table's; the loops, the gauges, the joins and what is      *)
(* between a verdict and its reply are invisible there.                    *)
(***************************************************************************)
With(list, key) == {i \in 1 .. Len(list) : list[i].key = key}
First(list, key) ==
  IF With(list, key) = {} THEN Nobody
  ELSE list[CHOOSE i \in With(list, key) : \A j \in With(list, key) : i <= j].handler

Stage(c) ==
  IF conn[c] # "accepted" THEN conn[c]
  ELSE IF pc[c] # "unborn" THEN "working"
  ELSE IF \E a \in Actors : hand[a] = c /\ pc[a] = "spawn" THEN "taken" ELSE "accepted"

Service == INSTANCE HttpService WITH
  born <- 1 .. next - 1,
  open <- up,
  table <- [h \in Servers |-> [k \in Keys |-> First(routes[h], k)]],
  stage <- [c \in Conns |-> Stage(c)],
  plan <- [c \in Conns |-> First(snap[c], request[c])],
  ran <- chosen,
  reply <- [c \in Conns |-> IF conn[c] = "answered" THEN status[c] ELSE 0]

ImplementsService == Service!Spec
=============================================================================

-------------------------- MODULE HttpServerProofs --------------------------
(***************************************************************************)
(* The safety of the HTTP server for any number of threads, connections,   *)
(* routes and servers: who owns an accepted connection, which handler      *)
(* answers it, what the two gauges count, and that all of it together is   *)
(* the service HttpService promises.                                       *)
(***************************************************************************)
EXTENDS HttpServer, FiniteSetTheorems, WellFoundedInduction, TLAPS

-----------------------------------------------------------------------------
(***************************************************************************)
(* The inductive invariant, in parts.                                      *)
(***************************************************************************)

\* Handles are handed out upwards; one that is not yet handed out is unused,
\* and one that was shut down is no longer in the registry.
RegistryInv ==
  /\ \A h \in up : h < next /\ ~flag[h]
  /\ \A a \in Actors : serving[a] < next
  /\ \A c \in Conns : /\ target[c] < next
                      /\ target[c] = 0 <=> conn[c] = "out"

\* Where a thread is tells what it holds.
InLoop == {"check", "accept", "snapshot", "spawn", "drain"}

LoopInv ==
  \A a \in Actors :
    /\ pc[a] \in InLoop <=> serving[a] # 0
    /\ hand[a] # Nobody <=> pc[a] \in {"snapshot", "spawn"}
    /\ serving[a] = 0 => crew[a] = {}

\* A connection not yet accepted, or refused, is nobody's.
Waits(c) == conn[c] \in {"out", "queued", "refused"}

ConnInv ==
  \A c \in Conns :
    /\ Waits(c) \/ conn[c] = "dropped" => pc[c] = "unborn"
    /\ Waits(c) => c \notin unwound /\ c \notin late
    /\ conn[c] = "answered" <=> pc[c] \in {"uncount", "dead"}

HandInv ==
  \A a \in Actors, c \in Conns :
    /\ hand[a] = c => /\ conn[c] = "accepted" /\ pc[c] = "unborn"
                      /\ target[c] = serving[a]
    /\ c \in crew[a] => pc[c] # "unborn" /\ target[c] = serving[a]

\* It has at most one owner, and one as long as it is accepted and its loop
\* has not been unwound.
OwnerInv ==
  /\ \A c \in Conns, a, b \in Actors : a \in Owners(c) /\ b \in Owners(c) => a = b
  /\ \A c \in Conns : c \in unwound => Owners(c) = {}
  /\ \A c \in Conns : conn[c] = "accepted" /\ c \notin unwound => Owners(c) # {}

LateInv ==
  \A c \in late :
    /\ pc[c] = "unborn" /\ flag[target[c]]
    /\ \A a \in Actors : hand[a] = c => pc[a] = "snapshot"

\* The routes a worker looks at are the first of its server's.
Starts(s, t) == Len(s) <= Len(t) /\ \A i \in 1 .. Len(s) : s[i] = t[i]

\* The handler a list of routes has for a key.
Answers(list, key, handler) ==
  \E i \in 1 .. Len(list) :
    /\ list[i].key = key /\ list[i].handler = handler
    /\ \A j \in 1 .. i - 1 : list[j].key # key

RouteInv ==
  /\ \A a \in Actors : pc[a] = "spawn" => Starts(snap[hand[a]], routes[serving[a]])
  /\ \A c \in Conns : /\ pc[c] \in {"unborn", "count", "mark", "read"} => chosen[c] = Nobody
                      /\ pc[c] \in {"count", "mark", "read"} =>
                           Starts(snap[c], routes[target[c]])
                      /\ chosen[c] # Nobody =>
                           Answers(routes[target[c]], request[c], chosen[c])

\* The mark is the maximum, but for the threads about to raise it.
GaugeInv ==
  /\ live = Cardinality(Alive)
  /\ peak <= highest /\ live <= highest
  /\ \A c \in Conns : pc[c] = "mark" => seen[c] <= highest
  /\ peak = highest \/ \E c \in Conns : pc[c] = "mark" /\ seen[c] = highest

OwnInv == TypeOK /\ RegistryInv /\ LoopInv /\ ConnInv /\ HandInv /\ OwnerInv /\ LateInv
IInv == OwnInv /\ RouteInv /\ GaugeInv

-----------------------------------------------------------------------------
LEMMA Facts ==
  /\ Conns \subseteq Actors /\ Threads \subseteq Actors /\ Callers \subseteq Actors
  /\ Nobody \notin Actors /\ Nobody \notin Handlers /\ Nobody \notin Conns
  /\ MaxServers \in Nat /\ Servers \subseteq Nat /\ Servers \subseteq 0 .. MaxServers
  /\ \A h \in Servers : h # 0
  BY HttpServerAssumption DEF Actors, Servers

LEMMA TypeInit == Init => TypeOK
  <1> SUFFICES ASSUME Init PROVE TypeOK
    OBVIOUS
  <1>1. up \subseteq Servers /\ next \in 1 .. MaxServers + 1
    BY Facts DEF Init
  <1>2. routes \in [Servers -> Seq(Routes)] /\ flag \in [Servers -> BOOLEAN]
    BY DEF Init
  <1>3. pc \in [Actors -> Points]
    BY DEF Init, Points
  <1>4. /\ serving \in [Actors -> 0 .. MaxServers]
        /\ hand \in [Actors -> Conns \cup {Nobody}] /\ crew \in [Actors -> SUBSET Conns]
    BY Facts DEF Init
  <1>5. /\ conn \in [Conns -> Stages] /\ target \in [Conns -> 0 .. MaxServers]
        /\ request \in [Conns -> Requests \cup {Nobody}]
    BY Facts DEF Init, Stages
  <1>6. /\ snap \in [Conns -> Seq(Routes)] /\ chosen \in [Conns -> Handlers \cup {Nobody}]
        /\ status \in [Conns -> Codes]
    BY DEF Init, Codes
  <1>7. /\ live \in Nat /\ peak \in Nat /\ seen \in [Conns -> Nat] /\ highest \in Nat
        /\ late \subseteq Conns /\ unwound \subseteq Conns
    BY DEF Init
  <1> QED BY <1>1, <1>2, <1>3, <1>4, <1>5, <1>6, <1>7 DEF TypeOK

\* Which threads hold a connection or serve, in a state of the invariant.
LEMMA InHand ==
  ASSUME TypeOK, LoopInv, NEW a \in Actors
  PROVE  /\ pc[a] \in {"snapshot", "spawn"} => hand[a] \in Conns
         /\ pc[a] \in InLoop => serving[a] \in Servers
  BY Facts DEF TypeOK, LoopInv, InLoop, Servers

LEMMA AliveCount ==
  ASSUME TypeOK, live = Cardinality(Alive)
  PROVE  /\ IsFiniteSet(Alive)
         /\ Alive # {} => live >= 1
  <1>1. IsFiniteSet(Alive)
    BY HttpServerAssumption, FS_Subset DEF Alive
  <1> QED BY <1>1, FS_EmptySet, FS_CardinalityType DEF TypeOK

LEMMA Least ==
  ASSUME NEW S \in SUBSET Nat, S # {}
  PROVE  \E m \in S : \A n \in S : m <= n
  <1>1. IsWellFoundedOn(OpToRel(<, Nat), Nat)
    BY NatLessThanWellFounded
  <1>2. PICK m \in S : \A n \in S : ~ (<<n, m>> \in OpToRel(<, Nat))
    BY <1>1, WFMin
  <1>3. \A n \in S : ~(n < m)
    BY <1>2 DEF OpToRel
  <1> QED BY <1>3

\* The route a worker picks is the first of its key in the list it looks at.
LEMMA WinnerIsFirst ==
  ASSUME TypeOK, NEW c \in Conns, Matching(c) # {}
  PROVE  /\ Winner(c) \in 1 .. Len(snap[c])
         /\ snap[c][Winner(c)].key = request[c]
         /\ snap[c][Winner(c)].handler \in Handlers
         /\ \A i \in 1 .. Winner(c) - 1 : snap[c][i].key # request[c]
  <1>1. snap[c] \in Seq(Routes) /\ Len(snap[c]) \in Nat
    BY DEF TypeOK
  <1>2. Matching(c) \subseteq Nat
    BY <1>1 DEF Matching
  <1>3. \E i \in Matching(c) : \A j \in Matching(c) : i <= j
    BY <1>2, Least
  <1>4. Winner(c) \in Matching(c) /\ \A j \in Matching(c) : Winner(c) <= j
    BY <1>3 DEF Winner
  <1>5. Winner(c) \in 1 .. Len(snap[c]) /\ snap[c][Winner(c)].key = request[c]
    BY <1>4 DEF Matching
  <1>6. \A i \in 1 .. Winner(c) - 1 : i \notin Matching(c)
    BY <1>4, <1>5, <1>1
  <1>7. \A i \in 1 .. Winner(c) - 1 : i \in 1 .. Len(snap[c])
    BY <1>5, <1>1
  <1>8. snap[c][Winner(c)] \in Routes
    BY <1>1, <1>5
  <1>9. \A i \in 1 .. Winner(c) - 1 : snap[c][i].key # request[c]
    BY <1>6, <1>7 DEF Matching
  <1> QED BY <1>5, <1>8, <1>9 DEF Routes

(***************************************************************************)
(* What the three steps do that move a connection out of a loop's hand,    *)
(* variable by variable.                                                   *)
(***************************************************************************)
LEMMA SpawnIs ==
  ASSUME OwnInv, NEW a \in Actors, Spawn(a)
  PROVE  \E x \in Conns :
           /\ hand[a] = x /\ pc[a] = "spawn" /\ x # a
           /\ pc[x] = "unborn" /\ conn[x] = "accepted" /\ target[x] = serving[a]
           /\ pc'[a] = "check" /\ pc'[x] = "count"
           /\ \A b \in Actors : b # a /\ b # x => pc'[b] = pc[b]
           /\ hand'[a] = Nobody /\ crew'[a] = crew[a] \cup {x}
           /\ \A b \in Actors : b # a => hand'[b] = hand[b] /\ crew'[b] = crew[b]
           /\ UNCHANGED <<registry, serving, conn, peer, worker, gauge, history>>
  <1>1. PICK x \in Conns : hand[a] = x
    BY InHand DEF OwnInv, Spawn
  <1>2. pc[x] = "unborn" /\ conn[x] = "accepted" /\ target[x] = serving[a]
    BY <1>1 DEF OwnInv, HandInv
  <1>3. pc[a] = "spawn" /\ x # a
    BY <1>2 DEF Spawn
  <1> QED BY <1>1, <1>2, <1>3, Facts DEF OwnInv, TypeOK, Spawn, Enlist

LEMMA SpawnFailsIs ==
  ASSUME OwnInv, NEW a \in Actors, SpawnFails(a)
  PROVE  \E x \in Conns :
           /\ hand[a] = x /\ pc[a] = "spawn" /\ x # a
           /\ pc[x] = "unborn" /\ conn[x] = "accepted"
           /\ conn'[x] = "dropped"
           /\ \A c \in Conns : c # x => conn'[c] = conn[c]
           /\ pc'[a] \in {"dead", "write"} /\ (pc'[a] = "dead" <=> a \in Threads)
           /\ hand'[a] = Nobody /\ crew'[a] = {} /\ serving'[a] = 0
           /\ \A b \in Actors : b # a => /\ hand'[b] = hand[b] /\ crew'[b] = crew[b]
                                         /\ serving'[b] = serving[b] /\ pc'[b] = pc[b]
           /\ unwound' = unwound \cup crew[a] \cup {x}
           /\ UNCHANGED <<registry, peer, snap, chosen, gauge, highest, late>>
  <1>1. PICK x \in Conns : hand[a] = x
    BY InHand DEF OwnInv, SpawnFails
  <1>2. pc[x] = "unborn" /\ conn[x] = "accepted"
    BY <1>1 DEF OwnInv, HandInv
  <1>3. pc[a] = "spawn" /\ x # a
    BY <1>2 DEF SpawnFails
  <1>4. pc' = [pc EXCEPT ![a] = IF a \in Threads THEN "dead" ELSE "write"]
    BY DEF SpawnFails, Goto
  <1>5. pc'[a] = (IF a \in Threads THEN "dead" ELSE "write")
        /\ \A b \in Actors : b # a => pc'[b] = pc[b]
    BY <1>4 DEF OwnInv, TypeOK
  <1> QED BY <1>1, <1>2, <1>3, <1>5, Facts DEF OwnInv, TypeOK, SpawnFails

LEMMA SnapshotGoneIs ==
  ASSUME OwnInv, NEW a \in Actors, SnapshotGone(a)
  PROVE  \E x \in Conns :
           /\ hand[a] = x /\ pc[a] = "snapshot" /\ x # a
           /\ pc[x] = "unborn" /\ conn[x] = "accepted"
           /\ conn'[x] = "dropped"
           /\ \A c \in Conns : c # x => conn'[c] = conn[c]
           /\ pc'[a] = "drain" /\ hand'[a] = Nobody
           /\ \A b \in Actors : b # a => hand'[b] = hand[b] /\ pc'[b] = pc[b]
           /\ UNCHANGED <<registry, serving, crew, peer, worker, gauge, history>>
  <1>1. PICK x \in Conns : hand[a] = x
    BY InHand DEF OwnInv, SnapshotGone
  <1>2. pc[x] = "unborn" /\ conn[x] = "accepted"
    BY <1>1 DEF OwnInv, HandInv
  <1>3. pc[a] = "snapshot" /\ x # a
    BY <1>2 DEF SnapshotGone
  <1> QED BY <1>1, <1>2, <1>3, Facts DEF OwnInv, TypeOK, SnapshotGone, Goto

(* Routes are only ever added at the end. *)
LEMMA StartsLonger ==
  ASSUME NEW s \in Seq(Routes), NEW t \in Seq(Routes), NEW r \in Routes, Starts(s, t)
  PROVE  Starts(s, Append(t, r))
  BY DEF Starts

LEMMA AnswersLonger ==
  ASSUME NEW s \in Seq(Routes), NEW t \in Seq(Routes), Starts(s, t),
         NEW key, NEW handler, Answers(s, key, handler)
  PROVE  Answers(t, key, handler)
  <1>1. PICK i \in 1 .. Len(s) : /\ s[i].key = key /\ s[i].handler = handler
                                 /\ \A j \in 1 .. i - 1 : s[j].key # key
    BY DEF Answers
  <1>2. /\ i \in 1 .. Len(t) /\ t[i] = s[i]
        /\ \A j \in 1 .. i - 1 : t[j] = s[j]
    BY <1>1 DEF Starts
  <1> QED BY <1>1, <1>2 DEF Answers

LEMMA StartsItself ==
  ASSUME NEW s \in Seq(Routes)
  PROVE  /\ Starts(s, s)
         /\ \A r \in Routes : Append(s, r) \in Seq(Routes) /\ Starts(s, Append(s, r))
  BY DEF Starts

(* A step that neither starts nor ends a worker leaves the gauges right. *)
Busy == {"mark", "read", "body", "write", "uncount",
         "check", "accept", "snapshot", "spawn", "drain"}

SameBusy ==
  \A c \in Conns : /\ pc'[c] \in Busy <=> pc[c] \in Busy
                   /\ pc'[c] = "mark" <=> pc[c] = "mark"

LEMMA GaugeKept ==
  ASSUME GaugeInv, SameBusy, UNCHANGED <<live, peak, seen, highest>>
  PROVE  GaugeInv'
  <1>1. Alive' = Alive
    BY DEF SameBusy, Alive, Busy
  <1> QED BY <1>1 DEF GaugeInv, SameBusy

LEMMA TypeOKNext == TypeOK /\ LoopInv /\ GaugeInv /\ [Next]_vars => TypeOK'
  <1> SUFFICES ASSUME TypeOK /\ LoopInv /\ GaugeInv, [Next]_vars PROVE TypeOK'
    OBVIOUS
  <1>0. CASE UNCHANGED vars
    BY <1>0
       DEF TypeOK, Points, Stages, Codes, vars, registry, loop, peer, worker,
           gauge, history
  <1>1. CASE \E c \in Conns, h \in Servers, r \in Requests : Connect(c, h, r)
    BY <1>1, Facts
       DEF TypeOK, Points, Stages, Codes, Connect, registry, loop, peer,
           worker, gauge, history
  <1>2. CASE \E c \in Conns : Refuse(c)
    BY <1>2, Facts
       DEF TypeOK, Points, Stages, Codes, Refuse, registry, loop, peer, worker,
           gauge, history
  <1>3. CASE \E a \in Callers : Listen(a)
    BY <1>3, Facts
       DEF TypeOK, Points, Stages, Codes, Listen, Fresh, registry, loop, peer,
           worker, gauge, history
  <1>4. CASE \E a \in Callers, h \in Servers, r \in Routes : RegisterRoute(a, h, r)
    BY <1>4, Facts
       DEF TypeOK, Points, Stages, Codes, RegisterRoute, registry, loop, peer,
           worker, gauge, history
  <1>5. CASE \E a \in Callers, h \in Servers : Shutdown(a, h)
    BY <1>5, Facts
       DEF TypeOK, Points, Stages, Codes, Shutdown, Raise, Forget, registry,
           loop, peer, worker, gauge, history
  <1>6. CASE \E a \in Callers, h \in Servers : ServeBegin(a, h)
    <2>0. PICK a \in Actors, h \in Servers : ServeBegin(a, h)
      BY <1>6, Facts
    <2>1. /\ pc' \in [Actors -> Points] /\ serving' \in [Actors -> 0 .. MaxServers]
      BY <2>0, Facts, InHand
         DEF TypeOK, Points, Stages, Codes, ServeBegin, Goto, registry, loop,
             peer, worker, gauge, history
    <2> QED BY <2>0, <2>1
           DEF TypeOK, Points, Stages, Codes, ServeBegin, Goto, registry, loop,
               peer, worker, gauge, history
  <1>7. CASE \E a \in Actors : LoopCheck(a)
    BY <1>7, Facts
       DEF TypeOK, Points, Stages, Codes, LoopCheck, Goto, registry, loop,
           peer, worker, gauge, history
  <1>8. CASE \E a \in Actors : AcceptNothing(a) \/ AcceptFails(a)
    <2>0. PICK a \in Actors : AcceptNothing(a) \/ AcceptFails(a)
      BY <1>8
    <2>1. pc' \in [Actors -> Points]
      BY <2>0 DEF TypeOK, Points, AcceptNothing, AcceptFails, Goto
    <2> QED BY <2>0, <2>1
           DEF TypeOK, AcceptNothing, AcceptFails, registry, loop, peer,
               worker, gauge, history
  <1>9. CASE \E a \in Actors, c \in Conns : Accept(a, c)
    BY <1>9, Facts
       DEF TypeOK, Points, Stages, Codes, Accept, Waiting, Goto, registry,
           loop, peer, worker, gauge, history
  <1>10. CASE \E a \in Actors, c \in Conns : Join(a, c)
    BY <1>10, Facts
       DEF TypeOK, Points, Stages, Codes, Join, Ended, registry, loop, peer,
           worker, gauge, history
  <1>11. CASE \E a \in Actors : Snapshot(a)
    <2>0. PICK a \in Actors : Snapshot(a)
      BY <1>11, Facts
    <2>1. hand[a] \in Conns /\ serving[a] \in Servers
      BY <2>0, InHand DEF Snapshot, InLoop
    <2>2. /\ pc' \in [Actors -> Points] /\ snap' \in [Conns -> Seq(Routes)]
      BY <2>0, <2>1 DEF TypeOK, Points, Snapshot, Goto
    <2> QED BY <2>0, <2>1, <2>2
           DEF TypeOK, Points, Stages, Codes, Snapshot, Goto, registry, loop,
               peer, worker, gauge, history
  <1>12. CASE \E a \in Actors : SnapshotGone(a)
    <2>0. PICK a \in Actors : SnapshotGone(a)
      BY <1>12, Facts
    <2>1. hand[a] \in Conns
      BY <2>0, InHand DEF SnapshotGone
    <2>2. /\ pc' \in [Actors -> Points]
          /\ conn' \in [Conns -> Stages] /\ hand' \in [Actors -> Conns \cup {Nobody}]
      BY <2>0, <2>1 DEF TypeOK, Points, Stages, SnapshotGone, Goto
    <2> QED BY <2>0, <2>1, <2>2
           DEF TypeOK, Points, Stages, Codes, SnapshotGone, Goto, registry,
               loop, peer, worker, gauge, history
  <1>13. CASE \E a \in Actors : Spawn(a)
    <2>0. PICK a \in Actors : Spawn(a)
      BY <1>13, Facts
    <2>1. hand[a] \in Conns
      BY <2>0, InHand DEF Spawn
    <2>2. pc' \in [Actors -> Points]
      BY <2>0, <2>1, Facts DEF TypeOK, Points, Spawn
    <2>3. /\ hand' \in [Actors -> Conns \cup {Nobody}] /\ crew' \in [Actors -> SUBSET Conns]
      BY <2>0, <2>1 DEF TypeOK, Spawn, Enlist
    <2> QED BY <2>0, <2>1, <2>2, <2>3
           DEF TypeOK, Points, Stages, Codes, Spawn, Enlist, registry, loop,
               peer, worker, gauge, history
  <1>14. CASE \E a \in Actors : SpawnFails(a)
    <2>0. PICK a \in Actors : SpawnFails(a)
      BY <1>14
    <2>1. hand[a] \in Conns /\ crew[a] \subseteq Conns
      BY <2>0, InHand DEF SpawnFails, TypeOK
    <2>2. pc' \in [Actors -> Points] /\ status' \in [Conns -> Codes]
      <3>1. CASE a \in Threads
        BY <2>0, <3>1 DEF TypeOK, Points, SpawnFails, Goto
      <3>2. CASE a \notin Threads
        <4>1. a \in Conns
          BY <3>2 DEF Actors
        <4>2. pc' = [pc EXCEPT ![a] = "write"] /\ status' = [status EXCEPT ![a] = 500]
          BY <2>0, <3>2 DEF SpawnFails, Goto
        <4>3. pc' \in [Actors -> Points] /\ status' \in [Conns -> Codes]
          BY <4>1, <4>2 DEF TypeOK, Codes, Points
        <4> QED BY <4>3
      <3> QED BY <3>1, <3>2
    <2>3. /\ conn' \in [Conns -> Stages] /\ hand' \in [Actors -> Conns \cup {Nobody}]
          /\ crew' \in [Actors -> SUBSET Conns] /\ unwound' \subseteq Conns
          /\ serving' \in [Actors -> 0 .. MaxServers]
      BY <2>0, <2>1, Facts DEF TypeOK, Stages, SpawnFails
    <2> QED BY <2>0, <2>2, <2>3 DEF TypeOK, SpawnFails, registry, peer, gauge
  <1>15. CASE \E a \in Actors : ServeReturns(a)
    BY <1>15, Facts
       DEF TypeOK, Points, Stages, Codes, ServeReturns, Goto, registry, loop,
           peer, worker, gauge, history
  <1>16. CASE \E c \in Conns : Count(c)
    BY <1>16, Facts
       DEF TypeOK, Points, Stages, Codes, Count, Bigger, Goto, registry, loop,
           peer, worker, gauge, history
  <1>17. CASE \E c \in Conns : TrackUp(c)
    BY <1>17, Facts
       DEF TypeOK, Points, Stages, Codes, TrackUp, Mark, Bigger, Goto,
           registry, loop, peer, worker, gauge, history
  <1>18. CASE \E c \in Conns : ReadFails(c)
    BY <1>18, Facts
       DEF TypeOK, Points, Stages, Codes, ReadFails, Goto, registry, loop,
           peer, worker, gauge, history
  <1>19. CASE \E c \in Conns : NoRoute(c)
    BY <1>19, Facts
       DEF TypeOK, Points, Stages, Codes, NoRoute, Goto, registry, loop, peer,
           worker, gauge, history
  <1>20. CASE \E c \in Conns : CallHandler(c)
    <2>0. PICK c \in Conns : CallHandler(c)
      BY <1>20, Facts
    <2>1. snap[c][Winner(c)].handler \in Handlers
      BY <2>0, WinnerIsFirst DEF CallHandler
    <2>2. /\ pc' \in [Actors -> Points] /\ chosen' \in [Conns -> Handlers \cup {Nobody}]
      BY <2>0, <2>1, Facts DEF TypeOK, Points, CallHandler, Goto
    <2> QED BY <2>0, <2>1, <2>2
           DEF TypeOK, Points, Stages, Codes, CallHandler, Goto, registry,
               loop, peer, worker, gauge, history
  <1>21. CASE \E c \in Conns, code \in {200, 500} : HandlerEnds(c, code)
    BY <1>21, Facts
       DEF TypeOK, Points, Stages, Codes, HandlerEnds, Goto, registry, loop,
           peer, worker, gauge, history
  <1>22. CASE \E c \in Conns : Write(c)
    BY <1>22, Facts
       DEF TypeOK, Points, Stages, Codes, Write, Close, Goto, registry, loop,
           peer, worker, gauge, history
  <1>23. CASE \E c \in Conns : Uncount(c)
    <2>0. PICK c \in Conns : Uncount(c)
      BY <1>23, Facts
    <2>1. live >= 1
      BY <2>0, AliveCount DEF GaugeInv, Alive, Uncount
    <2>2. /\ pc' \in [Actors -> Points] /\ live' \in Nat
      BY <2>0, <2>1, Facts DEF TypeOK, Points, Uncount, Leave, Goto
    <2> QED BY <2>0, <2>1, <2>2
           DEF TypeOK, Points, Stages, Codes, Uncount, Leave, Goto, registry,
               loop, peer, worker, gauge, history
  <1> QED
    BY <1>0, <1>1, <1>2, <1>3, <1>4, <1>5, <1>6, <1>7, <1>8, <1>9, <1>10,
       <1>11, <1>12, <1>13, <1>14, <1>15, <1>16, <1>17, <1>18, <1>19, <1>20,
       <1>21, <1>22, <1>23
       DEF Next, PeerStep, Builtin, ServeStep, WorkerStep

LEMMA RegistryInvNext == OwnInv /\ [Next]_vars => RegistryInv'
  <1> SUFFICES ASSUME OwnInv, [Next]_vars PROVE RegistryInv'
    OBVIOUS
  <1>0. CASE UNCHANGED vars
    BY <1>0
       DEF OwnInv, TypeOK, RegistryInv, Open, vars, registry, loop, peer,
           worker, gauge, history
  <1>1. CASE \E c \in Conns, h \in Servers, r \in Requests : Connect(c, h, r)
    BY <1>1, Facts
       DEF OwnInv, TypeOK, RegistryInv, Open, Connect, registry, loop, peer,
           worker, gauge, history
  <1>2. CASE \E c \in Conns : Refuse(c)
    BY <1>2, Facts
       DEF OwnInv, TypeOK, RegistryInv, Open, Refuse, registry, loop, peer,
           worker, gauge, history
  <1>3. CASE \E a \in Callers : Listen(a)
    BY <1>3, Facts
       DEF OwnInv, TypeOK, RegistryInv, Open, Listen, Fresh, registry, loop,
           peer, worker, gauge, history
  <1>4. CASE \E a \in Callers, h \in Servers, r \in Routes : RegisterRoute(a, h, r)
    BY <1>4, Facts
       DEF OwnInv, TypeOK, RegistryInv, Open, RegisterRoute, registry, loop,
           peer, worker, gauge, history
  <1>5. CASE \E a \in Callers, h \in Servers : Shutdown(a, h)
    BY <1>5, Facts
       DEF OwnInv, TypeOK, RegistryInv, Open, Shutdown, Raise, Forget,
           registry, loop, peer, worker, gauge, history
  <1>6. CASE \E a \in Callers, h \in Servers : ServeBegin(a, h)
    BY <1>6, Facts
       DEF OwnInv, TypeOK, RegistryInv, Open, ServeBegin, Goto, registry, loop,
           peer, worker, gauge, history
  <1>7. CASE \E a \in Actors : LoopCheck(a)
    BY <1>7, Facts
       DEF OwnInv, TypeOK, RegistryInv, Open, LoopCheck, Goto, registry, loop,
           peer, worker, gauge, history
  <1>8. CASE \E a \in Actors : AcceptNothing(a) \/ AcceptFails(a)
    <2>1. UNCHANGED <<up, next, flag, serving, target, conn>>
      BY <1>8 DEF AcceptNothing, AcceptFails, registry, loop, peer
    <2> QED BY <2>1 DEF OwnInv, RegistryInv
  <1>9. CASE \E a \in Actors, c \in Conns : Accept(a, c)
    BY <1>9, Facts
       DEF OwnInv, TypeOK, RegistryInv, Open, Accept, Waiting, Goto, registry,
           loop, peer, worker, gauge, history
  <1>10. CASE \E a \in Actors, c \in Conns : Join(a, c)
    BY <1>10, Facts
       DEF OwnInv, TypeOK, RegistryInv, Open, Join, Ended, registry, loop,
           peer, worker, gauge, history
  <1>11. CASE \E a \in Actors : Snapshot(a)
    BY <1>11, Facts
       DEF OwnInv, TypeOK, RegistryInv, Open, Snapshot, Goto, registry, loop,
           peer, worker, gauge, history
  <1>12. CASE \E a \in Actors : SnapshotGone(a)
    <2>0. PICK a \in Actors : SnapshotGone(a)
      BY <1>12, Facts
    <2>1. hand[a] \in Conns /\ conn[hand[a]] = "accepted"
      BY <2>0, InHand DEF OwnInv, HandInv, SnapshotGone
    <2>2. \A c \in Conns : conn'[c] = "out" <=> conn[c] = "out"
      BY <2>0, <2>1 DEF OwnInv, TypeOK, SnapshotGone
    <2> QED BY <2>0, <2>1, <2>2
           DEF RegistryInv, OwnInv, SnapshotGone, registry, loop, peer, worker,
               gauge, history
  <1>13. CASE \E a \in Actors : Spawn(a)
    BY <1>13, Facts
       DEF OwnInv, TypeOK, RegistryInv, Open, Spawn, Enlist, registry, loop,
           peer, worker, gauge, history
  <1>14. CASE \E a \in Actors : SpawnFails(a)
    <2>0. PICK a \in Actors : SpawnFails(a)
      BY <1>14, Facts
    <2>1. hand[a] \in Conns /\ conn[hand[a]] = "accepted"
      BY <2>0, InHand DEF OwnInv, HandInv, SpawnFails
    <2>2. \A c \in Conns : conn'[c] = "out" <=> conn[c] = "out"
      BY <2>0, <2>1 DEF OwnInv, TypeOK, SpawnFails
    <2>3. next \in Nat /\ next > 0 /\ \A b \in Actors : serving'[b] = serving[b] \/ serving'[b] = 0
      BY <2>0, Facts DEF OwnInv, TypeOK, SpawnFails
    <2> QED BY <2>0, <2>1, <2>2, <2>3
           DEF RegistryInv, OwnInv, SpawnFails, registry, loop, peer, worker,
               gauge, history
  <1>15. CASE \E a \in Actors : ServeReturns(a)
    BY <1>15, Facts
       DEF OwnInv, TypeOK, RegistryInv, Open, ServeReturns, Goto, registry,
           loop, peer, worker, gauge, history
  <1>16. CASE \E c \in Conns : Count(c)
    BY <1>16, Facts
       DEF OwnInv, TypeOK, RegistryInv, Open, Count, Bigger, Goto, registry,
           loop, peer, worker, gauge, history
  <1>17. CASE \E c \in Conns : TrackUp(c)
    BY <1>17, Facts
       DEF OwnInv, TypeOK, RegistryInv, Open, TrackUp, Mark, Bigger, Goto,
           registry, loop, peer, worker, gauge, history
  <1>18. CASE \E c \in Conns : ReadFails(c)
    BY <1>18, Facts
       DEF OwnInv, TypeOK, RegistryInv, Open, ReadFails, Goto, registry, loop,
           peer, worker, gauge, history
  <1>19. CASE \E c \in Conns : NoRoute(c)
    BY <1>19, Facts
       DEF OwnInv, TypeOK, RegistryInv, Open, NoRoute, Goto, registry, loop,
           peer, worker, gauge, history
  <1>20. CASE \E c \in Conns : CallHandler(c)
    BY <1>20, Facts
       DEF OwnInv, TypeOK, RegistryInv, Open, CallHandler, Goto, registry,
           loop, peer, worker, gauge, history
  <1>21. CASE \E c \in Conns, code \in {200, 500} : HandlerEnds(c, code)
    BY <1>21, Facts
       DEF OwnInv, TypeOK, RegistryInv, Open, HandlerEnds, Goto, registry,
           loop, peer, worker, gauge, history
  <1>22. CASE \E c \in Conns : Write(c)
    <2>0. PICK c \in Conns : Write(c)
      BY <1>22, Facts
    <2>1. conn[c] # "out"
      BY <2>0 DEF OwnInv, ConnInv, Waits, Write
    <2>2. \A d \in Conns : conn'[d] = "out" <=> conn[d] = "out"
      BY <2>0, <2>1 DEF OwnInv, TypeOK, Write, Close
    <2> QED BY <2>0, <2>1, <2>2
           DEF RegistryInv, OwnInv, Write, Close, registry, loop, peer, worker,
               gauge, history
  <1>23. CASE \E c \in Conns : Uncount(c)
    BY <1>23, Facts
       DEF OwnInv, TypeOK, RegistryInv, Open, Uncount, Leave, Goto, registry,
           loop, peer, worker, gauge, history
  <1> QED
    BY <1>0, <1>1, <1>2, <1>3, <1>4, <1>5, <1>6, <1>7, <1>8, <1>9, <1>10,
       <1>11, <1>12, <1>13, <1>14, <1>15, <1>16, <1>17, <1>18, <1>19, <1>20,
       <1>21, <1>22, <1>23
       DEF Next, PeerStep, Builtin, ServeStep, WorkerStep

LEMMA LoopInvNext == OwnInv /\ [Next]_vars => LoopInv'
  <1> SUFFICES ASSUME OwnInv, [Next]_vars PROVE LoopInv'
    OBVIOUS
  <1>0. CASE UNCHANGED vars
    BY <1>0
       DEF OwnInv, TypeOK, LoopInv, HandInv, ConnInv, InLoop, vars, registry,
           loop, peer, worker, gauge, history
  <1>1. CASE \E c \in Conns, h \in Servers, r \in Requests : Connect(c, h, r)
    BY <1>1, Facts
       DEF OwnInv, TypeOK, LoopInv, HandInv, ConnInv, InLoop, Connect,
           registry, loop, peer, worker, gauge, history
  <1>2. CASE \E c \in Conns : Refuse(c)
    BY <1>2, Facts
       DEF OwnInv, TypeOK, LoopInv, HandInv, ConnInv, InLoop, Refuse, registry,
           loop, peer, worker, gauge, history
  <1>3. CASE \E a \in Callers : Listen(a)
    BY <1>3, Facts
       DEF OwnInv, TypeOK, LoopInv, HandInv, ConnInv, InLoop, Listen, Fresh,
           registry, loop, peer, worker, gauge, history
  <1>4. CASE \E a \in Callers, h \in Servers, r \in Routes : RegisterRoute(a, h, r)
    BY <1>4, Facts
       DEF OwnInv, TypeOK, LoopInv, HandInv, ConnInv, InLoop, RegisterRoute,
           registry, loop, peer, worker, gauge, history
  <1>5. CASE \E a \in Callers, h \in Servers : Shutdown(a, h)
    BY <1>5, Facts
       DEF OwnInv, TypeOK, LoopInv, HandInv, ConnInv, InLoop, Shutdown, Raise,
           Forget, registry, loop, peer, worker, gauge, history
  <1>6. CASE \E a \in Callers, h \in Servers : ServeBegin(a, h)
    BY <1>6, Facts
       DEF OwnInv, TypeOK, LoopInv, HandInv, ConnInv, InLoop, ServeBegin, Goto,
           registry, loop, peer, worker, gauge, history
  <1>7. CASE \E a \in Actors : LoopCheck(a)
    BY <1>7, Facts
       DEF OwnInv, TypeOK, LoopInv, HandInv, ConnInv, InLoop, LoopCheck, Goto,
           registry, loop, peer, worker, gauge, history
  <1>8. CASE \E a \in Actors : AcceptNothing(a) \/ AcceptFails(a)
    BY <1>8, Facts
       DEF OwnInv, TypeOK, LoopInv, HandInv, ConnInv, InLoop, AcceptNothing,
           AcceptFails, Goto, registry, loop, peer, worker, gauge, history
  <1>9. CASE \E a \in Actors, c \in Conns : Accept(a, c)
    BY <1>9, Facts
       DEF OwnInv, TypeOK, LoopInv, HandInv, ConnInv, InLoop, Accept, Waiting,
           Goto, registry, loop, peer, worker, gauge, history
  <1>10. CASE \E a \in Actors, c \in Conns : Join(a, c)
    BY <1>10, Facts
       DEF OwnInv, TypeOK, LoopInv, HandInv, ConnInv, InLoop, Join, Ended,
           registry, loop, peer, worker, gauge, history
  <1>11. CASE \E a \in Actors : Snapshot(a)
    BY <1>11, Facts
       DEF OwnInv, TypeOK, LoopInv, HandInv, ConnInv, InLoop, Snapshot, Goto,
           registry, loop, peer, worker, gauge, history
  <1>12. CASE \E a \in Actors : SnapshotGone(a)
    BY <1>12, Facts
       DEF OwnInv, TypeOK, LoopInv, HandInv, ConnInv, InLoop, SnapshotGone,
           Goto, registry, loop, peer, worker, gauge, history
  <1>13. CASE \E a \in Actors : Spawn(a)
    BY <1>13, Facts
       DEF OwnInv, TypeOK, LoopInv, HandInv, ConnInv, InLoop, Spawn, Enlist,
           registry, loop, peer, worker, gauge, history
  <1>14. CASE \E a \in Actors : SpawnFails(a)
    BY <1>14, Facts
       DEF OwnInv, TypeOK, LoopInv, HandInv, ConnInv, InLoop, SpawnFails, Goto,
           registry, loop, peer, worker, gauge, history
  <1>15. CASE \E a \in Actors : ServeReturns(a)
    BY <1>15, Facts
       DEF OwnInv, TypeOK, LoopInv, HandInv, ConnInv, InLoop, ServeReturns,
           Goto, registry, loop, peer, worker, gauge, history
  <1>16. CASE \E c \in Conns : Count(c)
    BY <1>16, Facts
       DEF OwnInv, TypeOK, LoopInv, HandInv, ConnInv, InLoop, Count, Bigger,
           Goto, registry, loop, peer, worker, gauge, history
  <1>17. CASE \E c \in Conns : TrackUp(c)
    BY <1>17, Facts
       DEF OwnInv, TypeOK, LoopInv, HandInv, ConnInv, InLoop, TrackUp, Mark,
           Bigger, Goto, registry, loop, peer, worker, gauge, history
  <1>18. CASE \E c \in Conns : ReadFails(c)
    BY <1>18, Facts
       DEF OwnInv, TypeOK, LoopInv, HandInv, ConnInv, InLoop, ReadFails, Goto,
           registry, loop, peer, worker, gauge, history
  <1>19. CASE \E c \in Conns : NoRoute(c)
    BY <1>19, Facts
       DEF OwnInv, TypeOK, LoopInv, HandInv, ConnInv, InLoop, NoRoute, Goto,
           registry, loop, peer, worker, gauge, history
  <1>20. CASE \E c \in Conns : CallHandler(c)
    BY <1>20, Facts
       DEF OwnInv, TypeOK, LoopInv, HandInv, ConnInv, InLoop, CallHandler,
           Goto, registry, loop, peer, worker, gauge, history
  <1>21. CASE \E c \in Conns, code \in {200, 500} : HandlerEnds(c, code)
    BY <1>21, Facts
       DEF OwnInv, TypeOK, LoopInv, HandInv, ConnInv, InLoop, HandlerEnds,
           Goto, registry, loop, peer, worker, gauge, history
  <1>22. CASE \E c \in Conns : Write(c)
    BY <1>22, Facts
       DEF OwnInv, TypeOK, LoopInv, HandInv, ConnInv, InLoop, Write, Close,
           Goto, registry, loop, peer, worker, gauge, history
  <1>23. CASE \E c \in Conns : Uncount(c)
    BY <1>23, Facts
       DEF OwnInv, TypeOK, LoopInv, HandInv, ConnInv, InLoop, Uncount, Leave,
           Goto, registry, loop, peer, worker, gauge, history
  <1> QED
    BY <1>0, <1>1, <1>2, <1>3, <1>4, <1>5, <1>6, <1>7, <1>8, <1>9, <1>10,
       <1>11, <1>12, <1>13, <1>14, <1>15, <1>16, <1>17, <1>18, <1>19, <1>20,
       <1>21, <1>22, <1>23
       DEF Next, PeerStep, Builtin, ServeStep, WorkerStep

LEMMA ConnInvNext == OwnInv /\ [Next]_vars => ConnInv'
  <1> SUFFICES ASSUME OwnInv, [Next]_vars PROVE ConnInv'
    OBVIOUS
  <1>0. CASE UNCHANGED vars
    BY <1>0
       DEF OwnInv, TypeOK, ConnInv, HandInv, LoopInv, Waits, InLoop, vars,
           registry, loop, peer, worker, gauge, history
  <1>1. CASE \E c \in Conns, h \in Servers, r \in Requests : Connect(c, h, r)
    BY <1>1, Facts
       DEF OwnInv, TypeOK, ConnInv, HandInv, LoopInv, Waits, InLoop, Connect,
           registry, loop, peer, worker, gauge, history
  <1>2. CASE \E c \in Conns : Refuse(c)
    BY <1>2, Facts
       DEF OwnInv, TypeOK, ConnInv, HandInv, LoopInv, Waits, InLoop, Refuse,
           registry, loop, peer, worker, gauge, history
  <1>3. CASE \E a \in Callers : Listen(a)
    BY <1>3, Facts
       DEF OwnInv, TypeOK, ConnInv, HandInv, LoopInv, Waits, InLoop, Listen,
           Fresh, registry, loop, peer, worker, gauge, history
  <1>4. CASE \E a \in Callers, h \in Servers, r \in Routes : RegisterRoute(a, h, r)
    BY <1>4, Facts
       DEF OwnInv, TypeOK, ConnInv, HandInv, LoopInv, Waits, InLoop,
           RegisterRoute, registry, loop, peer, worker, gauge, history
  <1>5. CASE \E a \in Callers, h \in Servers : Shutdown(a, h)
    BY <1>5, Facts
       DEF OwnInv, TypeOK, ConnInv, HandInv, LoopInv, Waits, InLoop, Shutdown,
           Raise, Forget, registry, loop, peer, worker, gauge, history
  <1>6. CASE \E a \in Callers, h \in Servers : ServeBegin(a, h)
    BY <1>6, Facts
       DEF OwnInv, TypeOK, ConnInv, HandInv, LoopInv, Waits, InLoop,
           ServeBegin, Goto, registry, loop, peer, worker, gauge, history
  <1>7. CASE \E a \in Actors : LoopCheck(a)
    BY <1>7, Facts
       DEF OwnInv, TypeOK, ConnInv, HandInv, LoopInv, Waits, InLoop, LoopCheck,
           Goto, registry, loop, peer, worker, gauge, history
  <1>8. CASE \E a \in Actors : AcceptNothing(a) \/ AcceptFails(a)
    <2>1. PICK a \in Actors : AcceptNothing(a) \/ AcceptFails(a)
      BY <1>8
    <2>2. /\ pc[a] = "accept" /\ pc'[a] \in {"check", "drain"}
          /\ \A b \in Actors : b # a => pc'[b] = pc[b]
          /\ UNCHANGED <<conn, unwound, late>>
      BY <2>1 DEF OwnInv, TypeOK, AcceptNothing, AcceptFails, Goto, history
    <2> QED BY <2>2, Facts DEF OwnInv, ConnInv, Waits
  <1>9. CASE \E a \in Actors, c \in Conns : Accept(a, c)
    BY <1>9, Facts
       DEF OwnInv, TypeOK, ConnInv, HandInv, LoopInv, Waits, InLoop, Accept,
           Waiting, Goto, registry, loop, peer, worker, gauge, history
  <1>10. CASE \E a \in Actors, c \in Conns : Join(a, c)
    BY <1>10, Facts
       DEF OwnInv, TypeOK, ConnInv, HandInv, LoopInv, Waits, InLoop, Join,
           Ended, registry, loop, peer, worker, gauge, history
  <1>11. CASE \E a \in Actors : Snapshot(a)
    BY <1>11, Facts
       DEF OwnInv, TypeOK, ConnInv, HandInv, LoopInv, Waits, InLoop, Snapshot,
           Goto, registry, loop, peer, worker, gauge, history
  <1>12. CASE \E a \in Actors : SnapshotGone(a)
    BY <1>12, Facts
       DEF OwnInv, TypeOK, ConnInv, HandInv, LoopInv, Waits, InLoop,
           SnapshotGone, Goto, registry, loop, peer, worker, gauge, history
  <1>13. CASE \E a \in Actors : Spawn(a)
    <2>1. PICK a \in Actors : Spawn(a)
      BY <1>13
    <2> QED BY <2>1, SpawnIs, Facts DEF OwnInv, ConnInv, Waits, history
  <1>14. CASE \E a \in Actors : SpawnFails(a)
    <2>1. PICK a \in Actors : SpawnFails(a)
      BY <1>14
    <2>2. \A c \in Conns : c \in crew[a] => ~Waits(c)
      BY <2>1 DEF OwnInv, HandInv, ConnInv
    <2> QED BY <2>1, <2>2, SpawnFailsIs, Facts, HttpServerAssumption
           DEF OwnInv, ConnInv, Waits
  <1>15. CASE \E a \in Actors : ServeReturns(a)
    BY <1>15, Facts
       DEF OwnInv, TypeOK, ConnInv, HandInv, LoopInv, Waits, InLoop,
           ServeReturns, Goto, registry, loop, peer, worker, gauge, history
  <1>16. CASE \E c \in Conns : Count(c)
    BY <1>16, Facts
       DEF OwnInv, TypeOK, ConnInv, HandInv, LoopInv, Waits, InLoop, Count,
           Bigger, Goto, registry, loop, peer, worker, gauge, history
  <1>17. CASE \E c \in Conns : TrackUp(c)
    BY <1>17, Facts
       DEF OwnInv, TypeOK, ConnInv, HandInv, LoopInv, Waits, InLoop, TrackUp,
           Mark, Bigger, Goto, registry, loop, peer, worker, gauge, history
  <1>18. CASE \E c \in Conns : ReadFails(c)
    BY <1>18, Facts
       DEF OwnInv, TypeOK, ConnInv, HandInv, LoopInv, Waits, InLoop, ReadFails,
           Goto, registry, loop, peer, worker, gauge, history
  <1>19. CASE \E c \in Conns : NoRoute(c)
    BY <1>19, Facts
       DEF OwnInv, TypeOK, ConnInv, HandInv, LoopInv, Waits, InLoop, NoRoute,
           Goto, registry, loop, peer, worker, gauge, history
  <1>20. CASE \E c \in Conns : CallHandler(c)
    BY <1>20, Facts
       DEF OwnInv, TypeOK, ConnInv, HandInv, LoopInv, Waits, InLoop,
           CallHandler, Goto, registry, loop, peer, worker, gauge, history
  <1>21. CASE \E c \in Conns, code \in {200, 500} : HandlerEnds(c, code)
    BY <1>21, Facts
       DEF OwnInv, TypeOK, ConnInv, HandInv, LoopInv, Waits, InLoop,
           HandlerEnds, Goto, registry, loop, peer, worker, gauge, history
  <1>22. CASE \E c \in Conns : Write(c)
    BY <1>22, Facts
       DEF OwnInv, TypeOK, ConnInv, HandInv, LoopInv, Waits, InLoop, Write,
           Close, Goto, registry, loop, peer, worker, gauge, history
  <1>23. CASE \E c \in Conns : Uncount(c)
    BY <1>23, Facts
       DEF OwnInv, TypeOK, ConnInv, HandInv, LoopInv, Waits, InLoop, Uncount,
           Leave, Goto, registry, loop, peer, worker, gauge, history
  <1> QED
    BY <1>0, <1>1, <1>2, <1>3, <1>4, <1>5, <1>6, <1>7, <1>8, <1>9, <1>10,
       <1>11, <1>12, <1>13, <1>14, <1>15, <1>16, <1>17, <1>18, <1>19, <1>20,
       <1>21, <1>22, <1>23
       DEF Next, PeerStep, Builtin, ServeStep, WorkerStep

LEMMA HandInvNext == OwnInv /\ [Next]_vars => HandInv'
  <1> SUFFICES ASSUME OwnInv, [Next]_vars PROVE HandInv'
    OBVIOUS
  <1>0. CASE UNCHANGED vars
    BY <1>0
       DEF OwnInv, TypeOK, ConnInv, HandInv, LoopInv, Waits, InLoop, vars,
           registry, loop, peer, worker, gauge, history
  <1>1. CASE \E c \in Conns, h \in Servers, r \in Requests : Connect(c, h, r)
    BY <1>1, Facts
       DEF OwnInv, TypeOK, ConnInv, HandInv, LoopInv, Waits, InLoop, Connect,
           registry, loop, peer, worker, gauge, history
  <1>2. CASE \E c \in Conns : Refuse(c)
    BY <1>2, Facts
       DEF OwnInv, TypeOK, ConnInv, HandInv, LoopInv, Waits, InLoop, Refuse,
           registry, loop, peer, worker, gauge, history
  <1>3. CASE \E a \in Callers : Listen(a)
    BY <1>3, Facts
       DEF OwnInv, TypeOK, ConnInv, HandInv, LoopInv, Waits, InLoop, Listen,
           Fresh, registry, loop, peer, worker, gauge, history
  <1>4. CASE \E a \in Callers, h \in Servers, r \in Routes : RegisterRoute(a, h, r)
    BY <1>4, Facts
       DEF OwnInv, TypeOK, ConnInv, HandInv, LoopInv, Waits, InLoop,
           RegisterRoute, registry, loop, peer, worker, gauge, history
  <1>5. CASE \E a \in Callers, h \in Servers : Shutdown(a, h)
    BY <1>5, Facts
       DEF OwnInv, TypeOK, ConnInv, HandInv, LoopInv, Waits, InLoop, Shutdown,
           Raise, Forget, registry, loop, peer, worker, gauge, history
  <1>6. CASE \E a \in Callers, h \in Servers : ServeBegin(a, h)
    BY <1>6, Facts
       DEF OwnInv, TypeOK, ConnInv, HandInv, LoopInv, Waits, InLoop,
           ServeBegin, Goto, registry, loop, peer, worker, gauge, history
  <1>7. CASE \E a \in Actors : LoopCheck(a)
    BY <1>7, Facts
       DEF OwnInv, TypeOK, ConnInv, HandInv, LoopInv, Waits, InLoop, LoopCheck,
           Goto, registry, loop, peer, worker, gauge, history
  <1>8. CASE \E a \in Actors : AcceptNothing(a) \/ AcceptFails(a)
    BY <1>8, Facts
       DEF OwnInv, TypeOK, ConnInv, HandInv, LoopInv, Waits, InLoop,
           AcceptNothing, AcceptFails, Goto, registry, loop, peer, worker,
           gauge, history
  <1>9. CASE \E a \in Actors, c \in Conns : Accept(a, c)
    BY <1>9, Facts
       DEF OwnInv, TypeOK, ConnInv, HandInv, LoopInv, Waits, InLoop, Accept,
           Waiting, Goto, registry, loop, peer, worker, gauge, history
  <1>10. CASE \E a \in Actors, c \in Conns : Join(a, c)
    BY <1>10, Facts
       DEF OwnInv, TypeOK, ConnInv, HandInv, LoopInv, Waits, InLoop, Join,
           Ended, registry, loop, peer, worker, gauge, history
  <1>11. CASE \E a \in Actors : Snapshot(a)
    BY <1>11, Facts
       DEF OwnInv, TypeOK, ConnInv, HandInv, LoopInv, Waits, InLoop, Snapshot,
           Goto, registry, loop, peer, worker, gauge, history
  <1>12. CASE \E a \in Actors : SnapshotGone(a)
    <2>1. PICK a \in Actors : SnapshotGone(a)
      BY <1>12
    <2> QED BY <2>1, SnapshotGoneIs, Facts
           DEF OwnInv, OwnerInv, Owners, HandInv, peer
  <1>13. CASE \E a \in Actors : Spawn(a)
    <2>1. PICK a \in Actors : Spawn(a)
      BY <1>13
    <2> QED BY <2>1, SpawnIs, Facts DEF OwnInv, OwnerInv, Owners, HandInv, peer
  <1>14. CASE \E a \in Actors : SpawnFails(a)
    <2>1. PICK a \in Actors : SpawnFails(a)
      BY <1>14
    <2> QED BY <2>1, SpawnFailsIs, Facts
           DEF OwnInv, OwnerInv, Owners, HandInv, peer
  <1>15. CASE \E a \in Actors : ServeReturns(a)
    <2>1. PICK a \in Actors : ServeReturns(a)
      BY <1>15
    <2>2. /\ pc[a] = "drain" /\ pc'[a] = "body" /\ hand[a] = Nobody /\ crew[a] = {}
          /\ \A b \in Actors : b # a => pc'[b] = pc[b] /\ serving'[b] = serving[b]
          /\ UNCHANGED <<hand, crew, conn, peer>>
      BY <2>1 DEF OwnInv, TypeOK, LoopInv, ServeReturns, Goto
    <2> QED BY <2>2, Facts DEF OwnInv, HandInv, peer
  <1>16. CASE \E c \in Conns : Count(c)
    BY <1>16, Facts
       DEF OwnInv, TypeOK, ConnInv, HandInv, LoopInv, Waits, InLoop, Count,
           Bigger, Goto, registry, loop, peer, worker, gauge, history
  <1>17. CASE \E c \in Conns : TrackUp(c)
    BY <1>17, Facts
       DEF OwnInv, TypeOK, ConnInv, HandInv, LoopInv, Waits, InLoop, TrackUp,
           Mark, Bigger, Goto, registry, loop, peer, worker, gauge, history
  <1>18. CASE \E c \in Conns : ReadFails(c)
    BY <1>18, Facts
       DEF OwnInv, TypeOK, ConnInv, HandInv, LoopInv, Waits, InLoop, ReadFails,
           Goto, registry, loop, peer, worker, gauge, history
  <1>19. CASE \E c \in Conns : NoRoute(c)
    BY <1>19, Facts
       DEF OwnInv, TypeOK, ConnInv, HandInv, LoopInv, Waits, InLoop, NoRoute,
           Goto, registry, loop, peer, worker, gauge, history
  <1>20. CASE \E c \in Conns : CallHandler(c)
    BY <1>20, Facts
       DEF OwnInv, TypeOK, ConnInv, HandInv, LoopInv, Waits, InLoop,
           CallHandler, Goto, registry, loop, peer, worker, gauge, history
  <1>21. CASE \E c \in Conns, code \in {200, 500} : HandlerEnds(c, code)
    BY <1>21, Facts
       DEF OwnInv, TypeOK, ConnInv, HandInv, LoopInv, Waits, InLoop,
           HandlerEnds, Goto, registry, loop, peer, worker, gauge, history
  <1>22. CASE \E c \in Conns : Write(c)
    BY <1>22, Facts
       DEF OwnInv, TypeOK, ConnInv, HandInv, LoopInv, Waits, InLoop, Write,
           Close, Goto, registry, loop, peer, worker, gauge, history
  <1>23. CASE \E c \in Conns : Uncount(c)
    BY <1>23, Facts
       DEF OwnInv, TypeOK, ConnInv, HandInv, LoopInv, Waits, InLoop, Uncount,
           Leave, Goto, registry, loop, peer, worker, gauge, history
  <1> QED
    BY <1>0, <1>1, <1>2, <1>3, <1>4, <1>5, <1>6, <1>7, <1>8, <1>9, <1>10,
       <1>11, <1>12, <1>13, <1>14, <1>15, <1>16, <1>17, <1>18, <1>19, <1>20,
       <1>21, <1>22, <1>23
       DEF Next, PeerStep, Builtin, ServeStep, WorkerStep

LEMMA LateInvNext == OwnInv /\ [Next]_vars => LateInv'
  <1> SUFFICES ASSUME OwnInv, [Next]_vars PROVE LateInv'
    OBVIOUS
  <1>0. CASE UNCHANGED vars
    BY <1>0
       DEF OwnInv, TypeOK, RegistryInv, ConnInv, HandInv, LateInv, LoopInv,
           Waits, vars, registry, loop, peer, worker, gauge, history
  <1>1. CASE \E c \in Conns, h \in Servers, r \in Requests : Connect(c, h, r)
    BY <1>1, Facts
       DEF OwnInv, TypeOK, RegistryInv, ConnInv, HandInv, LateInv, LoopInv,
           Waits, Connect, registry, loop, peer, worker, gauge, history
  <1>2. CASE \E c \in Conns : Refuse(c)
    BY <1>2, Facts
       DEF OwnInv, TypeOK, RegistryInv, ConnInv, HandInv, LateInv, LoopInv,
           Waits, Refuse, registry, loop, peer, worker, gauge, history
  <1>3. CASE \E a \in Callers : Listen(a)
    BY <1>3, Facts
       DEF OwnInv, TypeOK, RegistryInv, ConnInv, HandInv, LateInv, LoopInv,
           Waits, Listen, Fresh, registry, loop, peer, worker, gauge, history
  <1>4. CASE \E a \in Callers, h \in Servers, r \in Routes : RegisterRoute(a, h, r)
    BY <1>4, Facts
       DEF OwnInv, TypeOK, RegistryInv, ConnInv, HandInv, LateInv, LoopInv,
           Waits, RegisterRoute, registry, loop, peer, worker, gauge, history
  <1>5. CASE \E a \in Callers, h \in Servers : Shutdown(a, h)
    BY <1>5, Facts
       DEF OwnInv, TypeOK, RegistryInv, ConnInv, HandInv, LateInv, LoopInv,
           Waits, Shutdown, Raise, Forget, registry, loop, peer, worker, gauge,
           history
  <1>6. CASE \E a \in Callers, h \in Servers : ServeBegin(a, h)
    BY <1>6, Facts
       DEF OwnInv, TypeOK, RegistryInv, ConnInv, HandInv, LateInv, LoopInv,
           Waits, ServeBegin, Goto, registry, loop, peer, worker, gauge,
           history
  <1>7. CASE \E a \in Actors : LoopCheck(a)
    BY <1>7, Facts
       DEF OwnInv, TypeOK, RegistryInv, ConnInv, HandInv, LateInv, LoopInv,
           Waits, LoopCheck, Goto, registry, loop, peer, worker, gauge, history
  <1>8. CASE \E a \in Actors : AcceptNothing(a) \/ AcceptFails(a)
    BY <1>8, Facts
       DEF OwnInv, TypeOK, RegistryInv, ConnInv, HandInv, LateInv, LoopInv,
           Waits, AcceptNothing, AcceptFails, Goto, registry, loop, peer,
           worker, gauge, history
  <1>9. CASE \E a \in Actors, c \in Conns : Accept(a, c)
    BY <1>9, Facts
       DEF OwnInv, TypeOK, RegistryInv, ConnInv, HandInv, LateInv, LoopInv,
           Waits, Accept, Waiting, Goto, registry, loop, peer, worker, gauge,
           history
  <1>10. CASE \E a \in Actors, c \in Conns : Join(a, c)
    BY <1>10, Facts
       DEF OwnInv, TypeOK, RegistryInv, ConnInv, HandInv, LateInv, LoopInv,
           Waits, Join, Ended, registry, loop, peer, worker, gauge, history
  <1>11. CASE \E a \in Actors : Snapshot(a)
    BY <1>11, Facts
       DEF OwnInv, TypeOK, RegistryInv, ConnInv, HandInv, LateInv, LoopInv,
           Waits, Snapshot, Goto, registry, loop, peer, worker, gauge, history
  <1>12. CASE \E a \in Actors : SnapshotGone(a)
    BY <1>12, Facts
       DEF OwnInv, TypeOK, RegistryInv, ConnInv, HandInv, LateInv, LoopInv,
           Waits, SnapshotGone, Goto, registry, loop, peer, worker, gauge,
           history
  <1>13. CASE \E a \in Actors : Spawn(a)
    BY <1>13, Facts
       DEF OwnInv, TypeOK, RegistryInv, ConnInv, HandInv, LateInv, LoopInv,
           Waits, Spawn, Enlist, registry, loop, peer, worker, gauge, history
  <1>14. CASE \E a \in Actors : SpawnFails(a)
    BY <1>14, Facts
       DEF OwnInv, TypeOK, RegistryInv, ConnInv, HandInv, LateInv, LoopInv,
           Waits, SpawnFails, Goto, registry, loop, peer, worker, gauge,
           history
  <1>15. CASE \E a \in Actors : ServeReturns(a)
    BY <1>15, Facts
       DEF OwnInv, TypeOK, RegistryInv, ConnInv, HandInv, LateInv, LoopInv,
           Waits, ServeReturns, Goto, registry, loop, peer, worker, gauge,
           history
  <1>16. CASE \E c \in Conns : Count(c)
    BY <1>16, Facts
       DEF OwnInv, TypeOK, RegistryInv, ConnInv, HandInv, LateInv, LoopInv,
           Waits, Count, Bigger, Goto, registry, loop, peer, worker, gauge,
           history
  <1>17. CASE \E c \in Conns : TrackUp(c)
    BY <1>17, Facts
       DEF OwnInv, TypeOK, RegistryInv, ConnInv, HandInv, LateInv, LoopInv,
           Waits, TrackUp, Mark, Bigger, Goto, registry, loop, peer, worker,
           gauge, history
  <1>18. CASE \E c \in Conns : ReadFails(c)
    BY <1>18, Facts
       DEF OwnInv, TypeOK, RegistryInv, ConnInv, HandInv, LateInv, LoopInv,
           Waits, ReadFails, Goto, registry, loop, peer, worker, gauge, history
  <1>19. CASE \E c \in Conns : NoRoute(c)
    BY <1>19, Facts
       DEF OwnInv, TypeOK, RegistryInv, ConnInv, HandInv, LateInv, LoopInv,
           Waits, NoRoute, Goto, registry, loop, peer, worker, gauge, history
  <1>20. CASE \E c \in Conns : CallHandler(c)
    BY <1>20, Facts
       DEF OwnInv, TypeOK, RegistryInv, ConnInv, HandInv, LateInv, LoopInv,
           Waits, CallHandler, Goto, registry, loop, peer, worker, gauge,
           history
  <1>21. CASE \E c \in Conns, code \in {200, 500} : HandlerEnds(c, code)
    BY <1>21, Facts
       DEF OwnInv, TypeOK, RegistryInv, ConnInv, HandInv, LateInv, LoopInv,
           Waits, HandlerEnds, Goto, registry, loop, peer, worker, gauge,
           history
  <1>22. CASE \E c \in Conns : Write(c)
    BY <1>22, Facts
       DEF OwnInv, TypeOK, RegistryInv, ConnInv, HandInv, LateInv, LoopInv,
           Waits, Write, Close, Goto, registry, loop, peer, worker, gauge,
           history
  <1>23. CASE \E c \in Conns : Uncount(c)
    BY <1>23, Facts
       DEF OwnInv, TypeOK, RegistryInv, ConnInv, HandInv, LateInv, LoopInv,
           Waits, Uncount, Leave, Goto, registry, loop, peer, worker, gauge,
           history
  <1> QED
    BY <1>0, <1>1, <1>2, <1>3, <1>4, <1>5, <1>6, <1>7, <1>8, <1>9, <1>10,
       <1>11, <1>12, <1>13, <1>14, <1>15, <1>16, <1>17, <1>18, <1>19, <1>20,
       <1>21, <1>22, <1>23
       DEF Next, PeerStep, Builtin, ServeStep, WorkerStep

LEMMA RouteInvNext == OwnInv /\ RouteInv /\ [Next]_vars => RouteInv'
  <1> SUFFICES ASSUME OwnInv /\ RouteInv, [Next]_vars PROVE RouteInv'
    OBVIOUS
  <1>0. CASE UNCHANGED vars
    BY <1>0
       DEF OwnInv, TypeOK, RegistryInv, ConnInv, HandInv, LoopInv, RouteInv,
           Waits, InLoop, vars, registry, loop, peer, worker, gauge, history
  <1>1. CASE \E c \in Conns, h \in Servers, r \in Requests : Connect(c, h, r)
    BY <1>1, Facts
       DEF OwnInv, TypeOK, RegistryInv, ConnInv, HandInv, LoopInv, RouteInv,
           Waits, InLoop, Connect, registry, loop, peer, worker, gauge, history
  <1>2. CASE \E c \in Conns : Refuse(c)
    BY <1>2, Facts
       DEF OwnInv, TypeOK, RegistryInv, ConnInv, HandInv, LoopInv, RouteInv,
           Waits, InLoop, Refuse, registry, loop, peer, worker, gauge, history
  <1>3. CASE \E a \in Callers : Listen(a)
    BY <1>3, Facts
       DEF OwnInv, TypeOK, RegistryInv, ConnInv, HandInv, LoopInv, RouteInv,
           Waits, InLoop, Listen, Fresh, registry, loop, peer, worker, gauge,
           history
  <1>4. CASE \E a \in Callers, h \in Servers, r \in Routes : RegisterRoute(a, h, r)
    <2>1. PICK a \in Callers, h \in Servers, r \in Routes : RegisterRoute(a, h, r)
      BY <1>4
    <2>2. \A g \in Servers : /\ routes[g] \in Seq(Routes) /\ routes'[g] \in Seq(Routes)
                             /\ routes'[g] = routes[g] \/ routes'[g] = Append(routes[g], r)
      BY <2>1, StartsItself DEF OwnInv, TypeOK, RegisterRoute
    <2>3. UNCHANGED <<pc, snap, hand, serving, chosen, target, request>>
      BY <2>1 DEF RegisterRoute, loop, peer, worker
    <2>4. ASSUME NEW s \in Seq(Routes), NEW g \in Servers, Starts(s, routes[g])
          PROVE  Starts(s, routes'[g])
      <3>1. Starts(s, Append(routes[g], r))
        BY <2>2, <2>4, StartsLonger
      <3> QED BY <2>2, <2>4, <3>1
    <2>5. ASSUME NEW b \in Actors, pc[b] = "spawn"
          PROVE  Starts(snap[hand[b]], routes'[serving[b]])
      <3>1. hand[b] \in Conns /\ serving[b] \in Servers
        BY <2>5, InHand DEF OwnInv, InLoop
      <3>2. snap[hand[b]] \in Seq(Routes) /\ Starts(snap[hand[b]], routes[serving[b]])
        BY <3>1, <2>5 DEF OwnInv, TypeOK, RouteInv
      <3> QED BY <3>1, <3>2, <2>4
    <2>6. \A c \in Conns : pc[c] # "unborn" \/ chosen[c] # Nobody => target[c] \in Servers
      BY DEF OwnInv, RouteInv, RegistryInv, ConnInv, Waits, TypeOK, Servers
    <2>7. ASSUME NEW c \in Conns, pc[c] \in {"count", "mark", "read"}
          PROVE  Starts(snap[c], routes'[target[c]])
      <3>1. /\ target[c] \in Servers /\ snap[c] \in Seq(Routes)
            /\ Starts(snap[c], routes[target[c]])
        BY <2>6, <2>7 DEF OwnInv, TypeOK, RouteInv
      <3> QED BY <3>1, <2>4
    <2>8. ASSUME NEW c \in Conns, chosen[c] # Nobody
          PROVE  Answers(routes'[target[c]], request[c], chosen[c])
      <3>1. target[c] \in Servers /\ Answers(routes[target[c]], request[c], chosen[c])
        BY <2>6, <2>8 DEF RouteInv
      <3>2. Starts(routes[target[c]], routes'[target[c]])
        BY <2>2, <3>1, StartsItself
      <3> QED BY <3>1, <3>2, <2>2, AnswersLonger
    <2> QED BY <2>3, <2>5, <2>7, <2>8 DEF RouteInv
  <1>5. CASE \E a \in Callers, h \in Servers : Shutdown(a, h)
    BY <1>5, Facts
       DEF OwnInv, TypeOK, RegistryInv, ConnInv, HandInv, LoopInv, RouteInv,
           Waits, InLoop, Shutdown, Raise, Forget, registry, loop, peer,
           worker, gauge, history
  <1>6. CASE \E a \in Callers, h \in Servers : ServeBegin(a, h)
    BY <1>6, Facts
       DEF OwnInv, TypeOK, RegistryInv, ConnInv, HandInv, LoopInv, RouteInv,
           Waits, InLoop, ServeBegin, Goto, registry, loop, peer, worker,
           gauge, history
  <1>7. CASE \E a \in Actors : LoopCheck(a)
    BY <1>7, Facts
       DEF OwnInv, TypeOK, RegistryInv, ConnInv, HandInv, LoopInv, RouteInv,
           Waits, InLoop, LoopCheck, Goto, registry, loop, peer, worker, gauge,
           history
  <1>8. CASE \E a \in Actors : AcceptNothing(a) \/ AcceptFails(a)
    <2>1. PICK a \in Actors : AcceptNothing(a) \/ AcceptFails(a)
      BY <1>8
    <2>2. /\ pc[a] = "accept" /\ pc'[a] \in {"check", "drain"}
          /\ \A b \in Actors : b # a => pc'[b] = pc[b]
          /\ UNCHANGED <<routes, snap, hand, serving, chosen, target, request>>
      BY <2>1
         DEF OwnInv, TypeOK, AcceptNothing, AcceptFails, Goto, registry, loop,
             peer, worker
    <2> QED BY <2>2, Facts DEF RouteInv
  <1>9. CASE \E a \in Actors, c \in Conns : Accept(a, c)
    BY <1>9, Facts
       DEF OwnInv, TypeOK, RegistryInv, ConnInv, HandInv, LoopInv, RouteInv,
           Waits, InLoop, Accept, Waiting, Goto, registry, loop, peer, worker,
           gauge, history
  <1>10. CASE \E a \in Actors, c \in Conns : Join(a, c)
    BY <1>10, Facts
       DEF OwnInv, TypeOK, RegistryInv, ConnInv, HandInv, LoopInv, RouteInv,
           Waits, InLoop, Join, Ended, registry, loop, peer, worker, gauge,
           history
  <1>11. CASE \E a \in Actors : Snapshot(a)
    <2>1. PICK a \in Actors : Snapshot(a)
      BY <1>11
    <2>2. PICK x \in Conns : x = hand[a] /\ pc[x] = "unborn" /\ x # a
      BY <2>1, InHand DEF OwnInv, HandInv, Snapshot
    <2>3. /\ pc[a] = "snapshot" /\ pc'[a] = "spawn"
          /\ \A b \in Actors : b # a => pc'[b] = pc[b]
          /\ serving[a] \in Servers /\ snap'[x] = routes[serving[a]]
          /\ \A c \in Conns : c # x => snap'[c] = snap[c]
          /\ UNCHANGED <<routes, hand, serving, chosen, target, request>>
      BY <2>1, <2>2, InHand
         DEF OwnInv, TypeOK, Snapshot, Goto, InLoop, registry, loop, peer
    <2>4. Starts(snap'[x], routes[serving[a]])
      BY <2>3, StartsItself DEF OwnInv, TypeOK
    <2>5. \A b \in Actors : pc'[b] = "spawn" => Starts(snap'[hand[b]], routes[serving[b]])
      BY <2>2, <2>3, <2>4, InHand DEF OwnInv, HandInv, RouteInv
    <2> QED BY <2>2, <2>3, <2>5, Facts DEF RouteInv
  <1>12. CASE \E a \in Actors : SnapshotGone(a)
    BY <1>12, Facts
       DEF OwnInv, TypeOK, RegistryInv, ConnInv, HandInv, LoopInv, RouteInv,
           Waits, InLoop, SnapshotGone, Goto, registry, loop, peer, worker,
           gauge, history
  <1>13. CASE \E a \in Actors : Spawn(a)
    BY <1>13, Facts
       DEF OwnInv, TypeOK, RegistryInv, ConnInv, HandInv, LoopInv, RouteInv,
           Waits, InLoop, Spawn, Enlist, registry, loop, peer, worker, gauge,
           history
  <1>14. CASE \E a \in Actors : SpawnFails(a)
    BY <1>14, Facts
       DEF OwnInv, TypeOK, RegistryInv, ConnInv, HandInv, LoopInv, RouteInv,
           Waits, InLoop, SpawnFails, Goto, registry, loop, peer, worker,
           gauge, history
  <1>15. CASE \E a \in Actors : ServeReturns(a)
    BY <1>15, Facts
       DEF OwnInv, TypeOK, RegistryInv, ConnInv, HandInv, LoopInv, RouteInv,
           Waits, InLoop, ServeReturns, Goto, registry, loop, peer, worker,
           gauge, history
  <1>16. CASE \E c \in Conns : Count(c)
    BY <1>16, Facts
       DEF OwnInv, TypeOK, RegistryInv, ConnInv, HandInv, LoopInv, RouteInv,
           Waits, InLoop, Count, Bigger, Goto, registry, loop, peer, worker,
           gauge, history
  <1>17. CASE \E c \in Conns : TrackUp(c)
    BY <1>17, Facts
       DEF OwnInv, TypeOK, RegistryInv, ConnInv, HandInv, LoopInv, RouteInv,
           Waits, InLoop, TrackUp, Mark, Bigger, Goto, registry, loop, peer,
           worker, gauge, history
  <1>18. CASE \E c \in Conns : ReadFails(c)
    BY <1>18, Facts
       DEF OwnInv, TypeOK, RegistryInv, ConnInv, HandInv, LoopInv, RouteInv,
           Waits, InLoop, ReadFails, Goto, registry, loop, peer, worker, gauge,
           history
  <1>19. CASE \E c \in Conns : NoRoute(c)
    BY <1>19, Facts
       DEF OwnInv, TypeOK, RegistryInv, ConnInv, HandInv, LoopInv, RouteInv,
           Waits, InLoop, NoRoute, Goto, registry, loop, peer, worker, gauge,
           history
  <1>20. CASE \E c \in Conns : CallHandler(c)
    <2>1. PICK c \in Conns : CallHandler(c)
      BY <1>20
    <2>2. /\ Matching(c) # {} /\ pc[c] = "read" /\ pc'[c] = "body"
          /\ \A b \in Actors : b # c => pc'[b] = pc[b]
          /\ chosen'[c] = snap[c][Winner(c)].handler
          /\ \A d \in Conns : d # c => chosen'[d] = chosen[d]
          /\ UNCHANGED <<routes, snap, hand, serving, target, request>>
      BY <2>1, Facts DEF OwnInv, TypeOK, CallHandler, Goto, registry, loop, peer
    <2>3. Answers(snap[c], request[c], chosen'[c])
      BY <2>2, WinnerIsFirst DEF OwnInv, Answers
    <2>4. target[c] \in Servers /\ Starts(snap[c], routes[target[c]])
      BY <2>2 DEF OwnInv, RouteInv, RegistryInv, ConnInv, Waits, TypeOK, Servers
    <2>5. Answers(routes[target[c]], request[c], chosen'[c])
      BY <2>3, <2>4, AnswersLonger DEF OwnInv, TypeOK
    <2> QED BY <2>2, <2>5, Facts DEF RouteInv
  <1>21. CASE \E c \in Conns, code \in {200, 500} : HandlerEnds(c, code)
    BY <1>21, Facts
       DEF OwnInv, TypeOK, RegistryInv, ConnInv, HandInv, LoopInv, RouteInv,
           Waits, InLoop, HandlerEnds, Goto, registry, loop, peer, worker,
           gauge, history
  <1>22. CASE \E c \in Conns : Write(c)
    BY <1>22, Facts
       DEF OwnInv, TypeOK, RegistryInv, ConnInv, HandInv, LoopInv, RouteInv,
           Waits, InLoop, Write, Close, Goto, registry, loop, peer, worker,
           gauge, history
  <1>23. CASE \E c \in Conns : Uncount(c)
    BY <1>23, Facts
       DEF OwnInv, TypeOK, RegistryInv, ConnInv, HandInv, LoopInv, RouteInv,
           Waits, InLoop, Uncount, Leave, Goto, registry, loop, peer, worker,
           gauge, history
  <1> QED
    BY <1>0, <1>1, <1>2, <1>3, <1>4, <1>5, <1>6, <1>7, <1>8, <1>9, <1>10,
       <1>11, <1>12, <1>13, <1>14, <1>15, <1>16, <1>17, <1>18, <1>19, <1>20,
       <1>21, <1>22, <1>23
       DEF Next, PeerStep, Builtin, ServeStep, WorkerStep

LEMMA GaugeInvNext == OwnInv /\ GaugeInv /\ [Next]_vars => GaugeInv'
  <1> SUFFICES ASSUME OwnInv /\ GaugeInv, [Next]_vars PROVE GaugeInv'
    OBVIOUS
  <1>0. CASE UNCHANGED vars
    BY <1>0
       DEF OwnInv, TypeOK, LoopInv, GaugeInv, Alive, vars, registry, loop,
           peer, worker, gauge, history
  <1>1. CASE \E c \in Conns, h \in Servers, r \in Requests : Connect(c, h, r)
    <2>0. PICK c \in Conns, h \in Servers, r \in Requests : Connect(c, h, r)
      BY <1>1
    <2>1. SameBusy
      BY <2>0, Facts
         DEF OwnInv, TypeOK, SameBusy, Busy, Connect, loop, peer, worker,
             gauge, registry
    <2>2. UNCHANGED <<live, peak, seen, highest>>
      BY <2>0 DEF Connect, gauge, history
    <2> QED BY <2>1, <2>2, GaugeKept
  <1>2. CASE \E c \in Conns : Refuse(c)
    <2>0. PICK c \in Conns : Refuse(c)
      BY <1>2
    <2>1. SameBusy
      BY <2>0, Facts
         DEF OwnInv, TypeOK, SameBusy, Busy, Refuse, loop, peer, worker, gauge,
             registry
    <2>2. UNCHANGED <<live, peak, seen, highest>>
      BY <2>0 DEF Refuse, gauge, history
    <2> QED BY <2>1, <2>2, GaugeKept
  <1>3. CASE \E a \in Callers : Listen(a)
    <2>0. PICK a \in Callers : Listen(a)
      BY <1>3
    <2>1. SameBusy
      BY <2>0, Facts
         DEF OwnInv, TypeOK, SameBusy, Busy, Listen, Fresh, loop, peer, worker,
             gauge, registry
    <2>2. UNCHANGED <<live, peak, seen, highest>>
      BY <2>0 DEF Listen, Fresh, gauge, history
    <2> QED BY <2>1, <2>2, GaugeKept
  <1>4. CASE \E a \in Callers, h \in Servers, r \in Routes : RegisterRoute(a, h, r)
    <2>0. PICK a \in Callers, h \in Servers, r \in Routes : RegisterRoute(a, h, r)
      BY <1>4
    <2>1. SameBusy
      BY <2>0, Facts
         DEF OwnInv, TypeOK, SameBusy, Busy, RegisterRoute, loop, peer, worker,
             gauge, registry
    <2>2. UNCHANGED <<live, peak, seen, highest>>
      BY <2>0 DEF RegisterRoute, gauge, history
    <2> QED BY <2>1, <2>2, GaugeKept
  <1>5. CASE \E a \in Callers, h \in Servers : Shutdown(a, h)
    <2>0. PICK a \in Callers, h \in Servers : Shutdown(a, h)
      BY <1>5
    <2>1. SameBusy
      BY <2>0, Facts
         DEF OwnInv, TypeOK, SameBusy, Busy, Shutdown, Raise, Forget, loop,
             peer, worker, gauge, registry
    <2>2. UNCHANGED <<live, peak, seen, highest>>
      BY <2>0 DEF Shutdown, Raise, Forget, gauge, history
    <2> QED BY <2>1, <2>2, GaugeKept
  <1>6. CASE \E a \in Callers, h \in Servers : ServeBegin(a, h)
    <2>0. PICK a \in Callers, h \in Servers : ServeBegin(a, h)
      BY <1>6
    <2>1. SameBusy
      BY <2>0, Facts
         DEF OwnInv, TypeOK, SameBusy, Busy, ServeBegin, Goto, loop, peer,
             worker, gauge, registry
    <2>2. UNCHANGED <<live, peak, seen, highest>>
      BY <2>0 DEF ServeBegin, Goto, gauge, history
    <2> QED BY <2>1, <2>2, GaugeKept
  <1>7. CASE \E a \in Actors : LoopCheck(a)
    <2>0. PICK a \in Actors : LoopCheck(a)
      BY <1>7
    <2>1. SameBusy
      BY <2>0, Facts
         DEF OwnInv, TypeOK, SameBusy, Busy, LoopCheck, Goto, loop, peer,
             worker, gauge, registry
    <2>2. UNCHANGED <<live, peak, seen, highest>>
      BY <2>0 DEF LoopCheck, Goto, gauge, history
    <2> QED BY <2>1, <2>2, GaugeKept
  <1>8. CASE \E a \in Actors : AcceptNothing(a) \/ AcceptFails(a)
    <2>0. PICK a \in Actors : AcceptNothing(a) \/ AcceptFails(a)
      BY <1>8
    <2>1. SameBusy
      BY <2>0, Facts
         DEF OwnInv, TypeOK, SameBusy, Busy, AcceptNothing, AcceptFails, Goto,
             loop, peer, worker, gauge, registry
    <2>2. UNCHANGED <<live, peak, seen, highest>>
      BY <2>0 DEF AcceptNothing, AcceptFails, Goto, gauge, history
    <2> QED BY <2>1, <2>2, GaugeKept
  <1>9. CASE \E a \in Actors, c \in Conns : Accept(a, c)
    <2>0. PICK a \in Actors, c \in Conns : Accept(a, c)
      BY <1>9
    <2>1. SameBusy
      BY <2>0, Facts
         DEF OwnInv, TypeOK, SameBusy, Busy, Accept, Waiting, Goto, loop, peer,
             worker, gauge, registry
    <2>2. UNCHANGED <<live, peak, seen, highest>>
      BY <2>0 DEF Accept, Waiting, Goto, gauge, history
    <2> QED BY <2>1, <2>2, GaugeKept
  <1>10. CASE \E a \in Actors, c \in Conns : Join(a, c)
    <2>0. PICK a \in Actors, c \in Conns : Join(a, c)
      BY <1>10
    <2>1. SameBusy
      BY <2>0, Facts
         DEF OwnInv, TypeOK, SameBusy, Busy, Join, Ended, loop, peer, worker,
             gauge, registry
    <2>2. UNCHANGED <<live, peak, seen, highest>>
      BY <2>0 DEF Join, Ended, gauge, history
    <2> QED BY <2>1, <2>2, GaugeKept
  <1>11. CASE \E a \in Actors : Snapshot(a)
    <2>0. PICK a \in Actors : Snapshot(a)
      BY <1>11
    <2>1. SameBusy
      BY <2>0, InHand, Facts
         DEF OwnInv, TypeOK, SameBusy, Busy, Snapshot, Goto, loop, peer,
             worker, gauge, registry
    <2>2. UNCHANGED <<live, peak, seen, highest>>
      BY <2>0 DEF Snapshot, Goto, gauge, history
    <2> QED BY <2>1, <2>2, GaugeKept
  <1>12. CASE \E a \in Actors : SnapshotGone(a)
    <2>0. PICK a \in Actors : SnapshotGone(a)
      BY <1>12
    <2>1. SameBusy
      BY <2>0, SnapshotGoneIs, Facts
         DEF OwnInv, TypeOK, SameBusy, Busy, loop, peer, worker, gauge,
             registry
    <2>2. UNCHANGED <<live, peak, seen, highest>>
      BY <2>0 DEF SnapshotGone, Goto, gauge, history
    <2> QED BY <2>1, <2>2, GaugeKept
  <1>13. CASE \E a \in Actors : Spawn(a)
    <2>0. PICK a \in Actors : Spawn(a)
      BY <1>13
    <2>1. SameBusy
      <3>1. PICK x \in Conns :
              /\ pc[a] = "spawn" /\ pc'[a] = "check" /\ pc[x] = "unborn" /\ pc'[x] = "count"
              /\ \A b \in Actors : b # a /\ b # x => pc'[b] = pc[b]
        BY <2>0, SpawnIs
      <3> QED BY <3>1, Facts DEF SameBusy, Busy
    <2>2. UNCHANGED <<live, peak, seen, highest>>
      BY <2>0 DEF Spawn, Enlist, gauge, history
    <2> QED BY <2>1, <2>2, GaugeKept
  <1>14. CASE \E a \in Actors : SpawnFails(a)
    <2>0. PICK a \in Actors : SpawnFails(a)
      BY <1>14
    <2>1. SameBusy
      <3>1. /\ pc[a] = "spawn" /\ pc'[a] \in {"dead", "write"}
            /\ pc'[a] = "dead" <=> a \in Threads
            /\ \A b \in Actors : b # a => pc'[b] = pc[b]
        BY <2>0, SpawnFailsIs
      <3>2. a \in Conns => pc'[a] = "write"
        BY <3>1, HttpServerAssumption
      <3> QED BY <3>1, <3>2, Facts DEF SameBusy, Busy
    <2>2. UNCHANGED <<live, peak, seen, highest>>
      BY <2>0 DEF SpawnFails, Goto, gauge, history
    <2> QED BY <2>1, <2>2, GaugeKept
  <1>15. CASE \E a \in Actors : ServeReturns(a)
    <2>0. PICK a \in Actors : ServeReturns(a)
      BY <1>15
    <2>1. SameBusy
      BY <2>0, Facts
         DEF OwnInv, TypeOK, SameBusy, Busy, ServeReturns, Goto, loop, peer,
             worker, gauge, registry
    <2>2. UNCHANGED <<live, peak, seen, highest>>
      BY <2>0 DEF ServeReturns, Goto, gauge, history
    <2> QED BY <2>1, <2>2, GaugeKept
  <1>16. CASE \E c \in Conns : Count(c)
    <2>0. PICK c \in Conns : Count(c)
      BY <1>16
    <2>1. /\ pc[c] = "count" /\ pc'[c] = "mark"
          /\ \A d \in Conns : d # c => pc'[d] = pc[d] /\ seen'[d] = seen[d]
          /\ live' = live + 1 /\ seen'[c] = live + 1 /\ peak' = peak
          /\ highest' = IF highest > live + 1 THEN highest ELSE live + 1
      BY <2>0, Facts DEF OwnInv, TypeOK, Count, Bigger, Goto
    <2>2. c \notin Alive /\ Alive' = Alive \cup {c}
      BY <2>1 DEF Alive
    <2>3. live' = Cardinality(Alive')
      BY <2>1, <2>2, AliveCount, FS_AddElement DEF OwnInv, GaugeInv
    <2>4. peak \in Nat /\ live \in Nat /\ highest \in Nat /\ seen \in [Conns -> Nat]
      BY DEF OwnInv, TypeOK
    <2>5. \A d \in Conns : pc'[d] = "mark" => seen'[d] <= highest'
      BY <2>1, <2>4 DEF GaugeInv
    <2>6. peak' = highest' \/ \E d \in Conns : pc'[d] = "mark" /\ seen'[d] = highest'
      <3>1. CASE highest > live + 1
        BY <3>1, <2>1, <2>4 DEF GaugeInv
      <3>2. CASE ~(highest > live + 1)
        BY <3>2, <2>1, <2>4
      <3> QED BY <3>1, <3>2
    <2>7. peak' <= highest' /\ live' <= highest'
      BY <2>1, <2>4 DEF GaugeInv
    <2> QED BY <2>3, <2>5, <2>6, <2>7 DEF GaugeInv
  <1>17. CASE \E c \in Conns : TrackUp(c)
    <2>0. PICK c \in Conns : TrackUp(c)
      BY <1>17
    <2>1. /\ pc[c] = "mark" /\ pc'[c] = "read"
          /\ \A d \in Conns : d # c => pc'[d] = pc[d]
          /\ UNCHANGED <<live, seen, highest>>
          /\ peak' = IF peak > seen[c] THEN peak ELSE seen[c]
      BY <2>0, Facts DEF OwnInv, TypeOK, TrackUp, Mark, Bigger, Goto, history
    <2>2. Alive' = Alive
      BY <2>1 DEF Alive
    <2>3. peak \in Nat /\ highest \in Nat /\ seen[c] \in Nat /\ seen[c] <= highest
      BY <2>1 DEF OwnInv, TypeOK, GaugeInv
    <2> QED BY <2>1, <2>2, <2>3 DEF GaugeInv
  <1>18. CASE \E c \in Conns : ReadFails(c)
    <2>0. PICK c \in Conns : ReadFails(c)
      BY <1>18
    <2>1. SameBusy
      BY <2>0, Facts
         DEF OwnInv, TypeOK, SameBusy, Busy, ReadFails, Goto, loop, peer,
             worker, gauge, registry
    <2>2. UNCHANGED <<live, peak, seen, highest>>
      BY <2>0 DEF ReadFails, Goto, gauge, history
    <2> QED BY <2>1, <2>2, GaugeKept
  <1>19. CASE \E c \in Conns : NoRoute(c)
    <2>0. PICK c \in Conns : NoRoute(c)
      BY <1>19
    <2>1. SameBusy
      BY <2>0, Facts
         DEF OwnInv, TypeOK, SameBusy, Busy, NoRoute, Goto, loop, peer, worker,
             gauge, registry
    <2>2. UNCHANGED <<live, peak, seen, highest>>
      BY <2>0 DEF NoRoute, Goto, gauge, history
    <2> QED BY <2>1, <2>2, GaugeKept
  <1>20. CASE \E c \in Conns : CallHandler(c)
    <2>0. PICK c \in Conns : CallHandler(c)
      BY <1>20
    <2>1. SameBusy
      BY <2>0, Facts
         DEF OwnInv, TypeOK, SameBusy, Busy, CallHandler, Goto, loop, peer,
             worker, gauge, registry
    <2>2. UNCHANGED <<live, peak, seen, highest>>
      BY <2>0 DEF CallHandler, Goto, gauge, history
    <2> QED BY <2>1, <2>2, GaugeKept
  <1>21. CASE \E c \in Conns, code \in {200, 500} : HandlerEnds(c, code)
    <2>0. PICK c \in Conns, code \in {200, 500} : HandlerEnds(c, code)
      BY <1>21
    <2>1. SameBusy
      BY <2>0, Facts
         DEF OwnInv, TypeOK, SameBusy, Busy, HandlerEnds, Goto, loop, peer,
             worker, gauge, registry
    <2>2. UNCHANGED <<live, peak, seen, highest>>
      BY <2>0 DEF HandlerEnds, Goto, gauge, history
    <2> QED BY <2>1, <2>2, GaugeKept
  <1>22. CASE \E c \in Conns : Write(c)
    <2>0. PICK c \in Conns : Write(c)
      BY <1>22
    <2>1. SameBusy
      BY <2>0, Facts
         DEF OwnInv, TypeOK, SameBusy, Busy, Write, Close, Goto, loop, peer,
             worker, gauge, registry
    <2>2. UNCHANGED <<live, peak, seen, highest>>
      BY <2>0 DEF Write, Close, Goto, gauge, history
    <2> QED BY <2>1, <2>2, GaugeKept
  <1>23. CASE \E c \in Conns : Uncount(c)
    <2>0. PICK c \in Conns : Uncount(c)
      BY <1>23
    <2>1. /\ pc[c] = "uncount" /\ pc'[c] = "dead"
          /\ \A d \in Conns : d # c => pc'[d] = pc[d]
          /\ UNCHANGED <<peak, seen, highest>> /\ live' = live - 1
      BY <2>0, Facts DEF OwnInv, TypeOK, Uncount, Leave, Goto, history
    <2>2. c \in Alive /\ Alive' = Alive \ {c}
      BY <2>1 DEF Alive
    <2>3. live' = Cardinality(Alive')
      BY <2>1, <2>2, AliveCount, FS_RemoveElement DEF OwnInv, GaugeInv
    <2>4. live \in Nat /\ highest \in Nat
      BY DEF OwnInv, TypeOK
    <2> QED BY <2>1, <2>3, <2>4 DEF GaugeInv
  <1> QED
    BY <1>0, <1>1, <1>2, <1>3, <1>4, <1>5, <1>6, <1>7, <1>8, <1>9, <1>10,
       <1>11, <1>12, <1>13, <1>14, <1>15, <1>16, <1>17, <1>18, <1>19, <1>20,
       <1>21, <1>22, <1>23
       DEF Next, PeerStep, Builtin, ServeStep, WorkerStep

LEMMA OwnerInvNext == OwnInv /\ [Next]_vars => OwnerInv'
  <1> SUFFICES ASSUME OwnInv, [Next]_vars PROVE OwnerInv'
    OBVIOUS
  <1>0. CASE UNCHANGED vars
    BY <1>0
       DEF OwnInv, TypeOK, ConnInv, HandInv, LoopInv, OwnerInv, Owners, Waits,
           InLoop, vars, registry, loop, peer, worker, gauge, history
  <1>1. CASE \E c \in Conns, h \in Servers, r \in Requests : Connect(c, h, r)
    BY <1>1, Facts
       DEF OwnInv, TypeOK, ConnInv, HandInv, LoopInv, OwnerInv, Owners, Waits,
           InLoop, Connect, registry, loop, peer, worker, gauge, history
  <1>2. CASE \E c \in Conns : Refuse(c)
    BY <1>2, Facts
       DEF OwnInv, TypeOK, ConnInv, HandInv, LoopInv, OwnerInv, Owners, Waits,
           InLoop, Refuse, registry, loop, peer, worker, gauge, history
  <1>3. CASE \E a \in Callers : Listen(a)
    BY <1>3, Facts
       DEF OwnInv, TypeOK, ConnInv, HandInv, LoopInv, OwnerInv, Owners, Waits,
           InLoop, Listen, Fresh, registry, loop, peer, worker, gauge, history
  <1>4. CASE \E a \in Callers, h \in Servers, r \in Routes : RegisterRoute(a, h, r)
    BY <1>4, Facts
       DEF OwnInv, TypeOK, ConnInv, HandInv, LoopInv, OwnerInv, Owners, Waits,
           InLoop, RegisterRoute, registry, loop, peer, worker, gauge, history
  <1>5. CASE \E a \in Callers, h \in Servers : Shutdown(a, h)
    BY <1>5, Facts
       DEF OwnInv, TypeOK, ConnInv, HandInv, LoopInv, OwnerInv, Owners, Waits,
           InLoop, Shutdown, Raise, Forget, registry, loop, peer, worker,
           gauge, history
  <1>6. CASE \E a \in Callers, h \in Servers : ServeBegin(a, h)
    BY <1>6, Facts
       DEF OwnInv, TypeOK, ConnInv, HandInv, LoopInv, OwnerInv, Owners, Waits,
           InLoop, ServeBegin, Goto, registry, loop, peer, worker, gauge,
           history
  <1>7. CASE \E a \in Actors : LoopCheck(a)
    BY <1>7, Facts
       DEF OwnInv, TypeOK, ConnInv, HandInv, LoopInv, OwnerInv, Owners, Waits,
           InLoop, LoopCheck, Goto, registry, loop, peer, worker, gauge,
           history
  <1>8. CASE \E a \in Actors : AcceptNothing(a) \/ AcceptFails(a)
    BY <1>8, Facts
       DEF OwnInv, TypeOK, ConnInv, HandInv, LoopInv, OwnerInv, Owners, Waits,
           InLoop, AcceptNothing, AcceptFails, Goto, registry, loop, peer,
           worker, gauge, history
  <1>9. CASE \E a \in Actors, c \in Conns : Accept(a, c)
    <2>1. PICK a \in Actors, x \in Conns : Accept(a, x)
      BY <1>9
    <2>2. /\ conn[x] = "queued" /\ conn'[x] = "accepted" /\ hand[a] = Nobody /\ hand'[a] = x
          /\ \A b \in Actors : b # a => hand'[b] = hand[b]
          /\ \A c \in Conns : c # x => conn'[c] = conn[c]
          /\ UNCHANGED <<crew, unwound>>
      BY <2>1 DEF OwnInv, TypeOK, LoopInv, Accept, Waiting
    <2>3. Owners(x) = {} /\ x \notin unwound
      BY <2>2 DEF OwnInv, ConnInv, HandInv, Waits, Owners
    <2>4. Owners(x)' = {a} /\ \A c \in Conns : c # x => Owners(c)' = Owners(c)
      BY <2>2, <2>3, Facts DEF Owners
    <2> QED BY <2>2, <2>3, <2>4 DEF OwnInv, OwnerInv
  <1>10. CASE \E a \in Actors, c \in Conns : Join(a, c)
    BY <1>10, Facts
       DEF OwnInv, TypeOK, ConnInv, HandInv, LoopInv, OwnerInv, Owners, Waits,
           InLoop, Join, Ended, registry, loop, peer, worker, gauge, history
  <1>11. CASE \E a \in Actors : Snapshot(a)
    <2>1. UNCHANGED <<hand, crew, conn, unwound>>
      BY <1>11 DEF Snapshot, loop, history
    <2> QED BY <2>1 DEF OwnInv, OwnerInv, Owners
  <1>12. CASE \E a \in Actors : SnapshotGone(a)
    BY <1>12, Facts
       DEF OwnInv, TypeOK, ConnInv, HandInv, LoopInv, OwnerInv, Owners, Waits,
           InLoop, SnapshotGone, Goto, registry, loop, peer, worker, gauge,
           history
  <1>13. CASE \E a \in Actors : Spawn(a)
    BY <1>13, Facts
       DEF OwnInv, TypeOK, ConnInv, HandInv, LoopInv, OwnerInv, Owners, Waits,
           InLoop, Spawn, Enlist, registry, loop, peer, worker, gauge, history
  <1>14. CASE \E a \in Actors : SpawnFails(a)
    BY <1>14, Facts
       DEF OwnInv, TypeOK, ConnInv, HandInv, LoopInv, OwnerInv, Owners, Waits,
           InLoop, SpawnFails, Goto, registry, loop, peer, worker, gauge,
           history
  <1>15. CASE \E a \in Actors : ServeReturns(a)
    BY <1>15, Facts
       DEF OwnInv, TypeOK, ConnInv, HandInv, LoopInv, OwnerInv, Owners, Waits,
           InLoop, ServeReturns, Goto, registry, loop, peer, worker, gauge,
           history
  <1>16. CASE \E c \in Conns : Count(c)
    BY <1>16, Facts
       DEF OwnInv, TypeOK, ConnInv, HandInv, LoopInv, OwnerInv, Owners, Waits,
           InLoop, Count, Bigger, Goto, registry, loop, peer, worker, gauge,
           history
  <1>17. CASE \E c \in Conns : TrackUp(c)
    BY <1>17, Facts
       DEF OwnInv, TypeOK, ConnInv, HandInv, LoopInv, OwnerInv, Owners, Waits,
           InLoop, TrackUp, Mark, Bigger, Goto, registry, loop, peer, worker,
           gauge, history
  <1>18. CASE \E c \in Conns : ReadFails(c)
    BY <1>18, Facts
       DEF OwnInv, TypeOK, ConnInv, HandInv, LoopInv, OwnerInv, Owners, Waits,
           InLoop, ReadFails, Goto, registry, loop, peer, worker, gauge,
           history
  <1>19. CASE \E c \in Conns : NoRoute(c)
    BY <1>19, Facts
       DEF OwnInv, TypeOK, ConnInv, HandInv, LoopInv, OwnerInv, Owners, Waits,
           InLoop, NoRoute, Goto, registry, loop, peer, worker, gauge, history
  <1>20. CASE \E c \in Conns : CallHandler(c)
    BY <1>20, Facts
       DEF OwnInv, TypeOK, ConnInv, HandInv, LoopInv, OwnerInv, Owners, Waits,
           InLoop, CallHandler, Goto, registry, loop, peer, worker, gauge,
           history
  <1>21. CASE \E c \in Conns, code \in {200, 500} : HandlerEnds(c, code)
    BY <1>21, Facts
       DEF OwnInv, TypeOK, ConnInv, HandInv, LoopInv, OwnerInv, Owners, Waits,
           InLoop, HandlerEnds, Goto, registry, loop, peer, worker, gauge,
           history
  <1>22. CASE \E c \in Conns : Write(c)
    BY <1>22, Facts
       DEF OwnInv, TypeOK, ConnInv, HandInv, LoopInv, OwnerInv, Owners, Waits,
           InLoop, Write, Close, Goto, registry, loop, peer, worker, gauge,
           history
  <1>23. CASE \E c \in Conns : Uncount(c)
    BY <1>23, Facts
       DEF OwnInv, TypeOK, ConnInv, HandInv, LoopInv, OwnerInv, Owners, Waits,
           InLoop, Uncount, Leave, Goto, registry, loop, peer, worker, gauge,
           history
  <1> QED
    BY <1>0, <1>1, <1>2, <1>3, <1>4, <1>5, <1>6, <1>7, <1>8, <1>9, <1>10,
       <1>11, <1>12, <1>13, <1>14, <1>15, <1>16, <1>17, <1>18, <1>19, <1>20,
       <1>21, <1>22, <1>23
       DEF Next, PeerStep, Builtin, ServeStep, WorkerStep

LEMMA Inductive == IInv /\ [Next]_vars => IInv'
  BY TypeOKNext, RegistryInvNext, LoopInvNext, ConnInvNext, HandInvNext,
     OwnerInvNext,
     LateInvNext, RouteInvNext, GaugeInvNext
     DEF IInv, OwnInv

LEMMA Initial == Init => IInv
  <1> SUFFICES ASSUME Init PROVE IInv
    OBVIOUS
  <1>1. TypeOK
    BY TypeInit
  <1>2. RegistryInv /\ ConnInv /\ LateInv
    BY Facts, HttpServerAssumption
       DEF Init, RegistryInv, ConnInv, LateInv, Waits
  <1>3. LoopInv
    BY DEF Init, LoopInv, InLoop
  <1>4. HandInv /\ OwnerInv
    <2>1. \A c \in Conns, a \in Actors : hand[a] # c /\ c \notin crew[a]
      BY Facts DEF Init
    <2>2. \A c \in Conns : Owners(c) = {}
      BY <2>1 DEF Owners
    <2>3. HandInv
      BY <2>1 DEF HandInv
    <2> QED BY <2>2, <2>3 DEF Init, OwnerInv
  <1>5. RouteInv
    BY Facts DEF Init, RouteInv
  <1>6. GaugeInv
    <2>1. \A c \in Conns : pc[c] \in {"body", "unborn"} /\ (c \notin Threads => pc[c] = "unborn")
      BY Facts DEF Init
    <2>2. Alive = {}
      BY <2>1, HttpServerAssumption DEF Alive
    <2> QED BY <2>1, <2>2, FS_EmptySet DEF Init, GaugeInv
  <1> QED BY <1>1, <1>2, <1>3, <1>4, <1>5, <1>6 DEF IInv, OwnInv

LEMMA Invariance == Spec => []IInv
  BY Initial, Inductive, PTL DEF Spec

\* Every variable keeps its type in every reachable state.
THEOREM TypeCorrect == Spec => []TypeOK
  <1>1. IInv => TypeOK
    BY DEF IInv, OwnInv
  <1> QED BY <1>1, Invariance, PTL

(***************************************************************************)
(* An accepted connection without a fate belongs to exactly one loop that  *)
(* still serves its server, unless a failed spawn unwound the loop; and    *)
(* one accepted after the shutdown never reaches a worker (serve_loop and  *)
(* http_server_shutdown in interp/src/lib.rs).                             *)
(***************************************************************************)
THEOREM AcceptedOwned == Spec => []AcceptedIsOwned
  <1>1. IInv => AcceptedIsOwned
    <2> SUFFICES ASSUME IInv PROVE OwnedOnce /\ LateIsNeverHandled
      BY DEF AcceptedIsOwned
    <2>1. LateIsNeverHandled
      BY DEF IInv, OwnInv, LateInv, LateIsNeverHandled
    <2>2. ASSUME NEW c \in Conns, conn[c] = "accepted", c \notin unwound
          PROVE  \E a \in Actors : Owners(c) = {a} /\ serving[a] = target[c]
      <3>1. Owners(c) # {} /\ Owners(c) \subseteq Actors
        BY <2>2 DEF IInv, OwnInv, OwnerInv, Owners
      <3>2. PICK a \in Actors : a \in Owners(c)
        BY <3>1
      <3>3. Owners(c) = {a}
        BY <3>1, <3>2 DEF IInv, OwnInv, OwnerInv
      <3>4. serving[a] = target[c]
        BY <3>2 DEF IInv, OwnInv, HandInv, Owners
      <3> QED BY <3>3, <3>4
    <2>3. \A c \in Conns : c \in unwound => Owners(c) = {}
      BY DEF IInv, OwnInv, OwnerInv
    <2> QED BY <2>1, <2>2, <2>3 DEF OwnedOnce
  <1> QED BY <1>1, Invariance, PTL

(***************************************************************************)
(* Two requests for one key of one server never run different handlers:    *)
(* the first route registered for the key wins for good, whatever routes   *)
(* and connections come later (the snapshot in serve_loop, the search in   *)
(* serve_one_connection).                                                  *)
(***************************************************************************)
THEOREM RoutesAreStable == Spec => []RoutingIsStable
  <1>1. IInv => RoutingIsStable
    <2> SUFFICES ASSUME IInv, NEW c \in Conns, NEW d \in Conns,
                        target[c] = target[d], request[c] = request[d],
                        chosen[c] # Nobody, chosen[d] # Nobody
                 PROVE  chosen[c] = chosen[d]
      BY DEF RoutingIsStable
    <2> DEFINE list == routes[target[c]]
    <2>1. Answers(list, request[c], chosen[c]) /\ Answers(list, request[c], chosen[d])
      BY DEF IInv, RouteInv
    <2>2. target[c] \in Servers
      <3>1. conn[c] = "out" => chosen[c] = Nobody
        BY DEF IInv, OwnInv, RouteInv, ConnInv, Waits
      <3>2. target[c] # 0 /\ target[c] \in 0 .. MaxServers
        BY <3>1 DEF IInv, OwnInv, RegistryInv, TypeOK
      <3> QED BY <3>2, Facts DEF Servers
    <2>3. Len(list) \in Nat
      BY <2>2 DEF IInv, OwnInv, TypeOK
    <2> HIDE DEF list
    <2>4. PICK i \in 1 .. Len(list) :
            /\ list[i].key = request[c] /\ list[i].handler = chosen[c]
            /\ \A k \in 1 .. i - 1 : list[k].key # request[c]
      BY <2>1 DEF Answers
    <2>5. PICK j \in 1 .. Len(list) :
            /\ list[j].key = request[c] /\ list[j].handler = chosen[d]
            /\ \A k \in 1 .. j - 1 : list[k].key # request[c]
      BY <2>1 DEF Answers
    <2>6. i = j
      <3>1. ~(i < j) /\ ~(j < i)
        BY <2>3, <2>4, <2>5
      <3> QED BY <3>1, <2>3
    <2> QED BY <2>4, <2>5, <2>6
  <1> QED BY <1>1, Invariance, PTL

(***************************************************************************)
(* The count of live connection threads is exact in every state, and the   *)
(* recorded peak is the true maximum whenever no thread is between its two *)
(* steps (track_up and track_down in interp/src/lib.rs).                   *)
(***************************************************************************)
THEOREM GaugesExact == Spec => []GaugesAreExact
  <1>1. IInv => GaugesAreExact
    BY DEF IInv, GaugeInv, GaugesAreExact
  <1> QED BY <1>1, Invariance, PTL

-----------------------------------------------------------------------------
(***************************************************************************)
(* The refinement of HttpService.  What an answer owes to the request: the *)
(* handler that runs is the one the worker's routes have for the key, and  *)
(* the status to be written is one the request and the handler call for.   *)
(***************************************************************************)
Handling == InLoop \cup {"body"}

AnswerInv ==
  \A c \in Conns :
    /\ conn[c] = "out" => snap[c] = <<>>
    /\ pc[c] \in Handling => request[c] \in Keys /\ chosen[c] # Nobody
    /\ chosen[c] # Nobody => chosen[c] = First(snap[c], request[c])
    /\ pc[c] = "write" => /\ chosen[c] = First(snap[c], request[c])
                          /\ status[c] \in Service!Codes(request[c], chosen[c])

UnusedInv == \A h \in Servers : h >= next => routes[h] = <<>>

ServiceInv == IInv /\ AnswerInv /\ UnusedInv

-----------------------------------------------------------------------------
(* The first route of a list for a key. *)
LEMMA FirstIs ==
  ASSUME NEW s \in Seq(Routes), NEW key
  PROVE  /\ With(s, key) = {} => First(s, key) = Nobody
         /\ With(s, key) # {} =>
              /\ key \in Keys /\ First(s, key) \in Handlers /\ First(s, key) # Nobody
              /\ \E i \in With(s, key) : /\ \A j \in With(s, key) : i <= j
                                         /\ First(s, key) = s[i].handler
  <1>1. With(s, key) = {} => First(s, key) = Nobody
    BY DEF First
  <1>2. ASSUME With(s, key) # {}
        PROVE  /\ key \in Keys /\ First(s, key) \in Handlers /\ First(s, key) # Nobody
               /\ \E i \in With(s, key) : /\ \A j \in With(s, key) : i <= j
                                          /\ First(s, key) = s[i].handler
    <2>1. With(s, key) \in SUBSET Nat
      BY DEF With
    <2>2. \E i \in With(s, key) : \A j \in With(s, key) : i <= j
      BY <1>2, <2>1, Least
    <2>3. PICK i : i = CHOOSE x \in With(s, key) : \A j \in With(s, key) : x <= j
      OBVIOUS
    <2>4. i \in With(s, key) /\ \A j \in With(s, key) : i <= j
      BY <2>2, <2>3
    <2>5. First(s, key) = s[i].handler
      BY <1>2, <2>3 DEF First
    <2>6. s[i] \in Routes /\ s[i].key = key
      BY <2>4 DEF With
    <2>7. key \in Keys /\ s[i].handler \in Handlers
      BY <2>6 DEF Routes
    <2> QED BY <2>4, <2>5, <2>7, Facts
  <1> QED BY <1>1, <1>2

LEMMA FirstOfNone ==
  ASSUME NEW key PROVE First(<<>>, key) = Nobody
  <1>1. <<>> \in Seq(Routes) /\ With(<<>>, key) = {}
    BY DEF With
  <1> QED BY <1>1, FirstIs

\* A route added at the end answers its key only if none did before.
LEMMA FirstAppended ==
  ASSUME NEW s \in Seq(Routes), NEW r \in Routes, NEW key
  PROVE  First(Append(s, r), key)
           = IF First(s, key) # Nobody THEN First(s, key)
             ELSE IF r.key = key THEN r.handler ELSE Nobody
  <1> DEFINE n == Len(s)
             t == Append(s, r)
  <1>1. /\ n \in Nat /\ t \in Seq(Routes) /\ Len(t) = n + 1 /\ t[n + 1] = r
        /\ \A i \in 1 .. n : t[i] = s[i]
    OBVIOUS
  <1> HIDE DEF t
  <1>2. With(t, key) = With(s, key) \cup (IF r.key = key THEN {n + 1} ELSE {})
    BY <1>1 DEF With
  <1>3. With(s, key) \subseteq 1 .. n
    BY DEF With
  <1>4. CASE With(s, key) # {}
    <2>1. PICK i \in With(s, key) : /\ \A j \in With(s, key) : i <= j
                                    /\ First(s, key) = s[i].handler
      BY <1>4, FirstIs
    <2>2. PICK k \in With(t, key) : /\ \A j \in With(t, key) : k <= j
                                    /\ First(t, key) = t[k].handler
      BY <1>1, <1>2, <1>4, FirstIs
    <2>3. k = i
      <3>1. k <= i /\ i \in 1 .. n
        BY <1>2, <1>3, <2>1, <2>2
      <3>2. k \in 1 .. n + 1 /\ k # n + 1
        BY <1>1, <2>2, <3>1 DEF With
      <3>3. k \in With(s, key)
        BY <1>1, <1>2, <3>2
      <3>4. i <= k
        BY <2>1, <3>3
      <3> QED BY <3>1, <3>2, <3>4
    <2>4. First(t, key) = First(s, key)
      BY <1>1, <1>3, <2>1, <2>2, <2>3
    <2>5. First(s, key) # Nobody
      BY <1>4, FirstIs
    <2> QED BY <2>4, <2>5 DEF t
  <1>5. CASE With(s, key) = {} /\ r.key = key
    <2>1. With(t, key) = {n + 1}
      BY <1>2, <1>5
    <2>2. First(t, key) = t[n + 1].handler
      BY <1>1, <2>1, FirstIs
    <2> QED BY <1>1, <1>5, <2>2, FirstIs DEF t
  <1>6. CASE With(s, key) = {} /\ r.key # key
    <2>1. With(t, key) = {}
      BY <1>2, <1>6
    <2> QED BY <1>1, <1>6, <2>1, FirstIs DEF t
  <1> QED BY <1>4, <1>5, <1>6

\* What a worker finds is the first route for its request.
LEMMA FoundIsFirst ==
  ASSUME NEW c \in Conns
  PROVE  /\ Matching(c) = {} => First(snap[c], request[c]) = Nobody
         /\ Matching(c) # {} => First(snap[c], request[c]) = snap[c][Winner(c)].handler
  <1>1. Matching(c) = With(snap[c], request[c])
    BY DEF Matching, With
  <1> QED BY <1>1 DEF First, Winner

-----------------------------------------------------------------------------
(* The invariant of the refinement. *)
LEMMA AnswerKept ==
  ASSUME AnswerInv, UNCHANGED <<snap, request, chosen, status>>,
         \A c \in Conns : conn'[c] = "out" => conn[c] = "out",
         \A c \in Conns : \/ pc'[c] = pc[c]
                          \/ pc[c] \in Handling /\ pc'[c] \in Handling
                          \/ pc'[c] \notin Handling \cup {"write"}
  PROVE  AnswerInv'
  BY DEF AnswerInv, Handling, InLoop

LEMMA MovesOn ==
  ASSUME TypeOK, NEW a \in Actors, NEW pt, pc' = [pc EXCEPT ![a] = pt]
  PROVE  /\ \A c \in Conns : pc'[c] = IF c = a THEN pt ELSE pc[c]
         /\ pc[a] \in Handling /\ pt \in Handling =>
              \A c \in Conns : pc'[c] = pc[c] \/ (pc[c] \in Handling /\ pc'[c] \in Handling)
  <1>1. \A c \in Conns : pc'[c] = IF c = a THEN pt ELSE pc[c]
    BY Facts DEF TypeOK
  <1>2. ASSUME pc[a] \in Handling, pt \in Handling, NEW c \in Conns
        PROVE  pc'[c] = pc[c] \/ (pc[c] \in Handling /\ pc'[c] \in Handling)
    <2>1. CASE c = a
      BY <1>1, <1>2, <2>1
    <2>2. CASE c # a
      BY <1>1, <2>2
    <2> QED BY <2>1, <2>2
  <1> QED BY <1>1, <1>2

LEMMA AnswerInvNext == IInv /\ AnswerInv /\ [Next]_vars => AnswerInv'
  <1> SUFFICES ASSUME IInv, AnswerInv, [Next]_vars PROVE AnswerInv'
    OBVIOUS
  <1>0. OwnInv /\ TypeOK /\ RouteInv
    BY DEF IInv, OwnInv
  <1>1. ASSUME NEW c \in Conns, NEW h \in Servers, NEW r \in Requests, Connect(c, h, r)
        PROVE  AnswerInv'
    <2>1. conn[c] = "out" /\ pc[c] = "unborn" /\ chosen[c] = Nobody /\ UNCHANGED <<pc, snap, chosen, status>>
      BY <1>0, <1>1 DEF Connect, worker, OwnInv, ConnInv, Waits, RouteInv
    <2>2. \A d \in Conns : d # c => request'[d] = request[d] /\ conn'[d] = conn[d]
      BY <1>0, <1>1 DEF Connect, TypeOK
    <2>3. conn'[c] = "queued"
      BY <1>0, <1>1 DEF Connect, TypeOK
    <2> QED BY <2>1, <2>2, <2>3 DEF AnswerInv, Handling, InLoop
  <1>2. ASSUME \/ \E c \in Conns : Refuse(c)
               \/ \E a \in Callers : Listen(a)
               \/ \E a \in Callers, h \in Servers : Shutdown(a, h)
               \/ \E a \in Callers, h \in Servers, r \in Routes : RegisterRoute(a, h, r)
               \/ \E a \in Actors, c \in Conns : Join(a, c)
               \/ UNCHANGED vars
        PROVE  AnswerInv'
    <2>1. UNCHANGED <<snap, request, chosen, status, pc>>
      BY <1>2 DEF Refuse, Listen, Shutdown, RegisterRoute, Join, vars, peer, worker
    <2>2. \A c \in Conns : conn'[c] = "out" => conn[c] = "out"
      BY <1>0, <1>2 DEF Refuse, Listen, Shutdown, RegisterRoute, Join, vars, TypeOK
    <2> QED BY <2>1, <2>2, AnswerKept
  <1>3. ASSUME NEW a \in Actors, \/ \E h \in Servers : ServeBegin(a, h)
                                \/ LoopCheck(a) \/ AcceptNothing(a) \/ AcceptFails(a) \/ ServeReturns(a)
        PROVE  AnswerInv'
    <2>1. /\ UNCHANGED <<snap, request, chosen, status, conn>>
          /\ pc[a] \in Handling /\ \E pt \in Handling : pc' = [pc EXCEPT ![a] = pt]
      BY <1>3 DEF ServeBegin, LoopCheck, AcceptNothing, AcceptFails, ServeReturns, Goto, peer, worker,
                  Handling, InLoop
    <2>2. \A c \in Conns : pc'[c] = pc[c] \/ (pc[c] \in Handling /\ pc'[c] \in Handling)
      BY <1>0, <2>1, MovesOn
    <2> QED BY <2>1, <2>2, AnswerKept
  <1>4. ASSUME NEW a \in Actors, NEW c \in Conns, Accept(a, c)
        PROVE  AnswerInv'
    <2>1. /\ UNCHANGED <<snap, request, chosen, status>>
          /\ pc[a] = "accept" /\ pc' = [pc EXCEPT ![a] = "snapshot"]
          /\ conn' = [conn EXCEPT ![c] = "accepted"]
      BY <1>4 DEF Accept, Goto, peer, worker
    <2>2. \A d \in Conns : pc'[d] = pc[d] \/ (pc[d] \in Handling /\ pc'[d] \in Handling)
      <3>1. "accept" \in Handling /\ "snapshot" \in Handling
        BY DEF Handling, InLoop
      <3> QED BY <1>0, <2>1, <3>1, MovesOn
    <2>3. \A d \in Conns : conn'[d] = "out" => conn[d] = "out"
      BY <1>0, <2>1 DEF TypeOK
    <2> QED BY <2>1, <2>2, <2>3, AnswerKept
  <1>5. ASSUME NEW a \in Actors, Snapshot(a)
        PROVE  AnswerInv'
    <2>1. PICK x \in Conns : hand[a] = x
      BY <1>0, <1>5, InHand DEF Snapshot, OwnInv
    <2>2. conn[x] = "accepted" /\ pc[x] = "unborn" /\ chosen[x] = Nobody
      BY <1>0, <2>1 DEF OwnInv, HandInv, RouteInv
    <2>3. /\ UNCHANGED <<conn, request, chosen, status>> /\ pc[a] = "snapshot"
          /\ pc' = [pc EXCEPT ![a] = "spawn"]
          /\ \A d \in Conns : d # x => snap'[d] = snap[d]
      BY <1>0, <1>5, <2>1 DEF Snapshot, Goto, peer, TypeOK
    <2>4. \A d \in Conns : pc'[d] = pc[d] \/ (pc[d] \in Handling /\ pc'[d] \in Handling)
      <3>1. "snapshot" \in Handling /\ "spawn" \in Handling
        BY DEF Handling, InLoop
      <3> QED BY <1>0, <2>3, <3>1, MovesOn
    <2>5. pc'[x] = "unborn"
      BY <1>0, <2>2, <2>3, Facts DEF TypeOK
    <2>6. ASSUME NEW d \in Conns
          PROVE  /\ conn'[d] = "out" => snap'[d] = <<>>
                 /\ pc'[d] \in Handling => request'[d] \in Keys /\ chosen'[d] # Nobody
                 /\ chosen'[d] # Nobody => chosen'[d] = First(snap'[d], request'[d])
                 /\ pc'[d] = "write" =>
                      /\ chosen'[d] = First(snap'[d], request'[d])
                      /\ status'[d] \in Service!Codes(request'[d], chosen'[d])
      <3>1. CASE d = x
        BY <2>2, <2>3, <2>5, <3>1 DEF Handling, InLoop
      <3>2. CASE d # x
        BY <2>3, <2>4, <3>2 DEF AnswerInv, Handling, InLoop
      <3> QED BY <3>1, <3>2
    <2> QED BY <2>6 DEF AnswerInv
  <1>6. ASSUME NEW a \in Actors, SnapshotGone(a)
        PROVE  AnswerInv'
    <2>1. PICK x \in Conns :
           /\ conn'[x] = "dropped" /\ \A c \in Conns : c # x => conn'[c] = conn[c]
           /\ pc[a] = "snapshot" /\ pc'[a] = "drain" /\ \A b \in Actors : b # a => pc'[b] = pc[b]
           /\ UNCHANGED <<peer, worker>>
      BY <1>0, <1>6, SnapshotGoneIs
    <2>2. \A d \in Conns : pc'[d] = pc[d] \/ (pc[d] \in Handling /\ pc'[d] \in Handling)
      <3>1. "snapshot" \in Handling /\ "drain" \in Handling
        BY DEF Handling, InLoop
      <3>2. ASSUME NEW d \in Conns, d # a PROVE pc'[d] = pc[d]
        BY <2>1, <3>2, Facts
      <3>3. pc[a] \in Handling /\ pc'[a] \in Handling
        BY <2>1, <3>1
      <3> QED BY <3>2, <3>3
    <2>3. UNCHANGED <<snap, request, chosen, status>>
      BY <2>1 DEF peer, worker
    <2>4. \A d \in Conns : conn'[d] = "out" => conn[d] = "out"
      BY <2>1
    <2> QED BY <2>2, <2>3, <2>4, AnswerKept
  <1>7. ASSUME NEW a \in Actors, Spawn(a)
        PROVE  AnswerInv'
    <2>1. PICK x \in Conns :
           /\ pc[a] = "spawn" /\ pc'[a] = "check" /\ pc'[x] = "count"
           /\ \A b \in Actors : b # a /\ b # x => pc'[b] = pc[b]
           /\ UNCHANGED <<conn, peer, worker>>
      BY <1>0, <1>7, SpawnIs
    <2>2. \A d \in Conns : \/ pc'[d] = pc[d] \/ (pc[d] \in Handling /\ pc'[d] \in Handling)
                           \/ pc'[d] \notin Handling \cup {"write"}
      <3>1. "spawn" \in Handling /\ "check" \in Handling /\ "count" \notin Handling \cup {"write"}
        BY DEF Handling, InLoop
      <3>2. ASSUME NEW d \in Conns, d # a, d # x PROVE pc'[d] = pc[d]
        BY <2>1, <3>2, Facts
      <3>3. pc[a] \in Handling /\ pc'[a] \in Handling /\ pc'[x] \notin Handling \cup {"write"}
        BY <2>1, <3>1
      <3> QED BY <3>2, <3>3
    <2>3. UNCHANGED <<snap, request, chosen, status>>
      BY <2>1 DEF peer, worker
    <2> QED BY <2>1, <2>2, <2>3, AnswerKept
  <1>8. ASSUME NEW a \in Actors, SpawnFails(a)
        PROVE  AnswerInv'
    <2>1. PICK x \in Conns :
           /\ pc[a] = "spawn" /\ pc[x] = "unborn" /\ x # a
           /\ conn'[x] = "dropped" /\ \A c \in Conns : c # x => conn'[c] = conn[c]
           /\ pc'[a] \in {"dead", "write"} /\ (pc'[a] = "dead" <=> a \in Threads)
           /\ \A b \in Actors : b # a => pc'[b] = pc[b]
           /\ UNCHANGED <<peer, snap, chosen>>
      BY <1>0, <1>8, SpawnFailsIs
    <2>2. \A d \in Conns : d # a => status'[d] = status[d]
      BY <1>0, <1>8, HttpServerAssumption DEF SpawnFails, TypeOK, Actors
    <2>3. ASSUME a \in Conns PROVE pc'[a] = "write" /\ status'[a] = 500
      BY <1>0, <1>8, <2>1, <2>3, HttpServerAssumption DEF SpawnFails, TypeOK, Actors
    <2>4. ASSUME NEW d \in Conns
          PROVE  /\ conn'[d] = "out" => snap'[d] = <<>>
                 /\ pc'[d] \in Handling => request'[d] \in Keys /\ chosen'[d] # Nobody
                 /\ chosen'[d] # Nobody => chosen'[d] = First(snap'[d], request'[d])
                 /\ pc'[d] = "write" =>
                      /\ chosen'[d] = First(snap'[d], request'[d])
                      /\ status'[d] \in Service!Codes(request'[d], chosen'[d])
      <3>1. CASE d = a
        <4>1. request[d] \in Keys /\ chosen[d] # Nobody /\ chosen[d] = First(snap[d], request[d])
          BY <2>1, <3>1 DEF AnswerInv, Handling, InLoop
        <4>2. 500 \in Service!Codes(request[d], chosen[d])
          BY <4>1 DEF Service!Codes
        <4>3. conn'[d] = "out" => conn[d] = "out"
          BY <2>1
        <4> QED BY <2>1, <2>3, <3>1, <4>1, <4>2, <4>3 DEF peer, AnswerInv, Handling, InLoop
      <3>2. CASE d # a
        <4>1. conn'[d] = "out" => conn[d] = "out"
          BY <2>1
        <4>2. pc'[d] = pc[d] /\ status'[d] = status[d]
          BY <2>1, <2>2, <3>2, Facts
        <4> QED BY <2>1, <4>1, <4>2 DEF AnswerInv, peer
      <3> QED BY <3>1, <3>2
    <2> QED BY <2>4 DEF AnswerInv
  <1>9. ASSUME NEW c \in Conns, Count(c) \/ TrackUp(c) \/ Write(c) \/ Uncount(c)
        PROVE  AnswerInv'
    <2>1. /\ UNCHANGED <<snap, request, chosen, status>>
          /\ \E pt \in {"mark", "read", "uncount", "dead"} : pc' = [pc EXCEPT ![c] = pt]
          /\ conn' = conn \/ conn' = [conn EXCEPT ![c] = "answered"]
      BY <1>9 DEF Count, TrackUp, Write, Uncount, Close, Goto, peer, worker
    <2>2. \A d \in Conns : pc'[d] = pc[d] \/ pc'[d] \notin Handling \cup {"write"}
      BY <1>0, <2>1, Facts DEF TypeOK, Handling, InLoop
    <2>3. \A d \in Conns : conn'[d] = "out" => conn[d] = "out"
      BY <1>0, <2>1 DEF TypeOK
    <2> QED BY <2>1, <2>2, <2>3, AnswerKept
  <1>10. ASSUME NEW c \in Conns, ReadFails(c) \/ NoRoute(c) \/ CallHandler(c)
                                 \/ \E code \in {200, 500} : HandlerEnds(c, code)
        PROVE  AnswerInv'
    <2>1. UNCHANGED <<snap, request, conn>>
      BY <1>10 DEF ReadFails, NoRoute, CallHandler, HandlerEnds, peer
    <2>2. \A d \in Conns : d # c => pc'[d] = pc[d] /\ status'[d] = status[d] /\ chosen'[d] = chosen[d]
      BY <1>0, <1>10, Facts DEF ReadFails, NoRoute, CallHandler, HandlerEnds, TypeOK, Goto
    <2>3. /\ pc'[c] \in Handling => request[c] \in Keys /\ chosen'[c] # Nobody
          /\ chosen'[c] # Nobody => chosen'[c] = First(snap[c], request[c])
          /\ pc'[c] = "write" => /\ chosen'[c] = First(snap[c], request[c])
                                 /\ status'[c] \in Service!Codes(request[c], chosen'[c])
      <3>1. CASE ReadFails(c)
        <4>1. /\ pc'[c] = "write" /\ request[c] \notin Keys /\ chosen'[c] = chosen[c] /\ chosen[c] = Nobody
              /\ status'[c] = IF request[c] = "overcap" THEN 413 ELSE 400
          BY <1>0, <3>1, Facts DEF ReadFails, TypeOK, Goto, RouteInv
        <4>2. snap[c] \in Seq(Routes)
          BY <1>0 DEF TypeOK
        <4>3. First(snap[c], request[c]) = Nobody
          BY <4>1, <4>2, FirstIs
        <4> QED BY <4>1, <4>3 DEF Handling, InLoop, Service!Codes
      <3>2. CASE NoRoute(c)
        <4>1. /\ pc'[c] = "write" /\ request[c] \in Keys /\ chosen'[c] = chosen[c] /\ chosen[c] = Nobody
              /\ status'[c] = 404 /\ Matching(c) = {}
          BY <1>0, <3>2, Facts DEF NoRoute, TypeOK, Goto, RouteInv
        <4>2. First(snap[c], request[c]) = Nobody
          BY <4>1, FoundIsFirst
        <4> QED BY <4>1, <4>2 DEF Handling, InLoop, Service!Codes
      <3>3. CASE CallHandler(c)
        <4>1. /\ pc'[c] = "body" /\ request[c] \in Keys /\ Matching(c) # {}
              /\ chosen'[c] = snap[c][Winner(c)].handler
          BY <1>0, <3>3, Facts DEF CallHandler, TypeOK, Goto
        <4>2. First(snap[c], request[c]) = chosen'[c] /\ chosen'[c] # Nobody
          BY <1>0, <4>1, FoundIsFirst, WinnerIsFirst, Facts
        <4> QED BY <4>1, <4>2 DEF Handling, InLoop
      <3>4. CASE \E code \in {200, 500} : HandlerEnds(c, code)
        <4>1. /\ pc[c] = "body" /\ pc'[c] = "write" /\ chosen'[c] = chosen[c] /\ status'[c] \in {200, 500}
          BY <1>0, <3>4, Facts DEF HandlerEnds, TypeOK, Goto
        <4>2. request[c] \in Keys /\ chosen[c] # Nobody /\ chosen[c] = First(snap[c], request[c])
          BY <4>1 DEF AnswerInv, Handling
        <4> QED BY <4>1, <4>2 DEF Handling, InLoop, Service!Codes
      <3> QED BY <1>10, <3>1, <3>2, <3>3, <3>4
    <2> QED BY <2>1, <2>2, <2>3 DEF AnswerInv
  <1>11. CASE PeerStep
    BY <1>1, <1>2, <1>11 DEF PeerStep
  <1>12. ASSUME NEW a \in Callers, Builtin(a) PROVE AnswerInv'
    BY <1>2, <1>3, <1>12, Facts DEF Builtin
  <1>13. ASSUME NEW a \in Actors, ServeStep(a) PROVE AnswerInv'
    <2>1. CASE LoopCheck(a) \/ AcceptNothing(a) \/ AcceptFails(a) \/ ServeReturns(a)
      BY <1>3, <2>1
    <2>2. CASE \E c \in Conns : Accept(a, c) \/ Join(a, c)
      BY <1>2, <1>4, <2>2
    <2>3. CASE Snapshot(a) \/ SnapshotGone(a) \/ Spawn(a) \/ SpawnFails(a)
      BY <1>5, <1>6, <1>7, <1>8, <2>3
    <2> QED BY <1>13, <2>1, <2>2, <2>3 DEF ServeStep
  <1>14. ASSUME NEW c \in Conns, WorkerStep(c) PROVE AnswerInv'
    BY <1>9, <1>10, <1>14 DEF WorkerStep
  <1> QED BY <1>2, <1>11, <1>12, <1>13, <1>14 DEF Next

LEMMA UnusedInvNext == IInv /\ UnusedInv /\ [Next]_vars => UnusedInv'
  <1> SUFFICES ASSUME IInv, UnusedInv, [Next]_vars PROVE UnusedInv'
    OBVIOUS
  <1>0. TypeOK /\ RegistryInv
    BY DEF IInv, OwnInv
  <1>1. ASSUME NEW a \in Callers, Listen(a) PROVE UnusedInv'
    <2>1. /\ next \in Nat /\ next' = next + 1 /\ routes' = [routes EXCEPT ![next] = <<>>]
      BY <1>0, <1>1, Facts DEF Listen, Fresh, TypeOK
    <2>2. ASSUME NEW h \in Servers, h >= next + 1 PROVE routes'[h] = <<>>
      <3>1. h # next /\ h >= next
        BY <2>1, <2>2, Facts
      <3> QED BY <1>0, <2>1, <3>1 DEF UnusedInv, TypeOK
    <2> QED BY <2>1, <2>2 DEF UnusedInv
  <1>2. ASSUME NEW a \in Callers, NEW h \in Servers, NEW r \in Routes, RegisterRoute(a, h, r) PROVE UnusedInv'
    <2>1. /\ next' = next /\ h < next /\ \A g \in Servers : g # h => routes'[g] = routes[g]
      BY <1>0, <1>2 DEF RegisterRoute, TypeOK, RegistryInv
    <2>2. ASSUME NEW g \in Servers, g >= next PROVE routes'[g] = <<>>
      <3>1. g # h
        BY <1>0, <2>1, <2>2, Facts DEF TypeOK
      <3> QED BY <2>1, <2>2, <3>1 DEF UnusedInv
    <2> QED BY <2>1, <2>2 DEF UnusedInv
  <1>3. ASSUME UNCHANGED <<next, routes>> PROVE UnusedInv'
    BY <1>3 DEF UnusedInv
  <1>4. \/ \E a \in Callers : Listen(a)
        \/ \E a \in Callers, h \in Servers, r \in Routes : RegisterRoute(a, h, r)
        \/ UNCHANGED <<next, routes>>
    BY DEF Next, PeerStep, Builtin, ServeStep, WorkerStep, vars, registry,
           Connect, Refuse, Shutdown, ServeBegin, LoopCheck, Accept, AcceptNothing, AcceptFails, Snapshot,
           SnapshotGone, Spawn, SpawnFails, Join, ServeReturns, Count, TrackUp, ReadFails, NoRoute,
           CallHandler, HandlerEnds, Write, Uncount, Raise, Forget
  <1> QED BY <1>1, <1>2, <1>3, <1>4

LEMMA ServiceInvariance == Spec => []ServiceInv
  <1>1. Init => ServiceInv
    <2> SUFFICES ASSUME Init PROVE AnswerInv /\ UnusedInv
      BY Initial DEF ServiceInv
    <2>1. \A c \in Conns : pc[c] = "unborn" /\ snap[c] = <<>> /\ chosen[c] = Nobody
      BY Facts, HttpServerAssumption DEF Init
    <2>2. AnswerInv
      BY <2>1 DEF AnswerInv, Handling, InLoop
    <2> QED BY <2>2 DEF Init, UnusedInv
  <1>2. ServiceInv /\ [Next]_vars => ServiceInv'
    BY Inductive, AnswerInvNext, UnusedInvNext DEF ServiceInv
  <1> QED BY <1>1, <1>2, PTL DEF Spec

-----------------------------------------------------------------------------
(* The steps of the service. *)
LEMMA StageKept ==
  ASSUME NEW c \in Conns, conn'[c] = conn[c], pc'[c] = "unborn" <=> pc[c] = "unborn",
         (\E a \in Actors : hand'[a] = c /\ pc'[a] = "spawn") <=> (\E a \in Actors : hand[a] = c /\ pc[a] = "spawn")
  PROVE  Stage(c)' = Stage(c)
  BY DEF Stage

\* Where the thread that has a connection in hand is tells its stage.
LEMMA StageInHand ==
  ASSUME OwnInv, NEW c \in Conns, NEW a \in Actors, hand[a] = c
  PROVE  /\ pc[a] = "snapshot" => Stage(c) = "accepted"
         /\ pc[a] = "spawn" => Stage(c) = "taken"
         /\ \A b \in Actors : hand[b] = c => b = a
  <1>1. conn[c] = "accepted" /\ pc[c] = "unborn"
    BY DEF OwnInv, HandInv
  <1>2. \A b \in Actors : hand[b] = c => b = a
    BY DEF OwnInv, OwnerInv, Owners
  <1> QED BY <1>1, <1>2 DEF Stage

\* The service as the server's variables show it.
BornMap  == 1 .. next - 1
TableMap == [h \in Servers |-> [k \in Keys |-> First(routes[h], k)]]
StageMap == [c \in Conns |-> Stage(c)]
PlanMap  == [c \in Conns |-> First(snap[c], request[c])]
ReplyMap == [c \in Conns |-> IF conn[c] = "answered" THEN status[c] ELSE 0]
ServiceMap == <<<<BornMap, up, TableMap>>, StageMap, <<target, request>>, PlanMap, chosen, ReplyMap>>

\* A step that moves no more than stages.
LEMMA OnlyStages ==
  ASSUME UNCHANGED <<next, up, routes, peer, snap, chosen>>,
         \A c \in Conns : /\ conn'[c] = "answered" <=> conn[c] = "answered"
                          /\ conn[c] = "answered" => status'[c] = status[c]
  PROVE  UNCHANGED <<BornMap, TableMap, PlanMap, ReplyMap>>
  <1>1. UNCHANGED <<BornMap, TableMap, PlanMap>>
    BY DEF BornMap, TableMap, PlanMap, peer
  <1>2. UNCHANGED ReplyMap
    BY DEF ReplyMap
  <1> QED BY <1>1, <1>2

\* A step no peer and no program can see.
LEMMA Unseen ==
  ASSUME UNCHANGED <<next, up, routes, peer, snap, chosen>>,
         \A c \in Conns : Stage(c)' = Stage(c),
         \A c \in Conns : conn'[c] = conn[c] /\ (conn[c] = "answered" => status'[c] = status[c])
  PROVE  UNCHANGED ServiceMap
  <1>1. UNCHANGED <<BornMap, TableMap, PlanMap, ReplyMap>>
    BY OnlyStages
  <1>2. UNCHANGED StageMap
    BY DEF StageMap
  <1> QED BY <1>1, <1>2 DEF ServiceMap, peer

LEMMA ProgramSteps ==
  ASSUME ServiceInv,
         \/ \E a \in Callers : Listen(a)
         \/ \E a \in Callers, h \in Servers : Shutdown(a, h)
         \/ \E a \in Callers, h \in Servers, r \in Routes : RegisterRoute(a, h, r)
  PROVE  Service!Next \/ UNCHANGED ServiceMap
  <1>0. TypeOK /\ RegistryInv /\ UnusedInv
    BY DEF ServiceInv, IInv, OwnInv
  <1>1. UNCHANGED <<pc, conn, hand, peer, snap, chosen, status>>
    BY DEF Listen, Shutdown, RegisterRoute, loop, worker
  <1>2. UNCHANGED <<StageMap, PlanMap, ReplyMap>>
    BY <1>1 DEF StageMap, PlanMap, ReplyMap, Stage, peer
  <1>3. ASSUME NEW a \in Callers, Listen(a) PROVE Service!Next
    <2>1. /\ next \in Servers /\ next' = next + 1 /\ up' = up \cup {next}
          /\ routes' = [routes EXCEPT ![next] = <<>>]
      BY <1>3 DEF Listen, Fresh
    <2>2. next \in Nat /\ next \notin BornMap /\ BornMap' = BornMap \cup {next}
      BY <1>0, <2>1, Facts DEF BornMap, TypeOK
    <2>3. routes' = routes
      BY <1>0, <2>1, <2>2 DEF UnusedInv, TypeOK
    <2>4. UNCHANGED TableMap
      BY <2>3 DEF TableMap
    <2>5. Service!Listen(next)
      BY <1>1, <1>2, <2>1, <2>2, <2>4
         DEF Service!Listen, Service!asked, BornMap, TableMap, StageMap, PlanMap, ReplyMap, peer
    <2> QED BY <2>1, <2>5 DEF Service!Next, Service!ServerStep
  <1>4. ASSUME NEW a \in Callers, NEW h \in Servers, Shutdown(a, h) PROVE Service!Next
    <2>1. h \in up /\ up' = up \ {h} /\ UNCHANGED <<next, routes>>
      BY <1>4 DEF Shutdown, Forget
    <2>2. UNCHANGED <<BornMap, TableMap>>
      BY <2>1 DEF BornMap, TableMap
    <2>3. Service!Shutdown(h)
      BY <1>1, <1>2, <2>1, <2>2
         DEF Service!Shutdown, Service!asked, BornMap, TableMap, StageMap, PlanMap, ReplyMap, peer
    <2> QED BY <2>3 DEF Service!Next, Service!ServerStep
  <1>5. ASSUME NEW a \in Callers, NEW h \in Servers, NEW r \in Routes, RegisterRoute(a, h, r)
        PROVE  Service!Next \/ UNCHANGED ServiceMap
    <2>1. h \in up /\ routes' = [routes EXCEPT ![h] = Append(@, r)] /\ UNCHANGED <<up, next>>
      BY <1>5 DEF RegisterRoute
    <2>2. UNCHANGED BornMap
      BY <2>1 DEF BornMap
    <2>3. routes[h] \in Seq(Routes) /\ r.key \in Keys /\ r.handler \in Handlers
      BY <1>0 DEF TypeOK, Routes
    <2>4. \A g \in Servers : g # h => routes'[g] = routes[g]
      BY <1>0, <2>1 DEF TypeOK
    <2>5. \A k \in Keys : First(routes'[h], k)
            = IF First(routes[h], k) # Nobody THEN First(routes[h], k)
              ELSE IF r.key = k THEN r.handler ELSE Nobody
      <3>1. routes'[h] = Append(routes[h], r)
        BY <1>0, <2>1 DEF TypeOK
      <3> QED BY <2>3, <3>1, FirstAppended
    <2>6. CASE First(routes[h], r.key) = Nobody
      <3>1. TableMap' = [TableMap EXCEPT ![h] = [@ EXCEPT ![r.key] = r.handler]]
        <4> DEFINE row(g) == [k \in Keys |-> First(routes[g], k)]
                   new(g) == [k \in Keys |-> First(routes'[g], k)]
        <4>1. new(h) = [row(h) EXCEPT ![r.key] = r.handler]
          BY <2>5, <2>6
        <4>2. \A g \in Servers : g # h => new(g) = row(g)
          BY <2>4
        <4>3. TableMap = [g \in Servers |-> row(g)] /\ TableMap' = [g \in Servers |-> new(g)]
          BY DEF TableMap
        <4>4. h \in Servers
          OBVIOUS
        <4> HIDE DEF row, new
        <4>5. [TableMap EXCEPT ![h] = [@ EXCEPT ![r.key] = r.handler]]
                = [g \in Servers |-> IF g = h THEN [row(h) EXCEPT ![r.key] = r.handler] ELSE row(g)]
          BY <4>3
        <4> QED BY <4>1, <4>2, <4>3, <4>5
      <3>2. Service!Register(h, r.key, r.handler)
        BY <1>1, <1>2, <2>1, <2>2, <2>3, <2>6, <3>1
           DEF Service!Register, Service!asked, BornMap, TableMap, StageMap, PlanMap, ReplyMap, peer
      <3> QED BY <2>3, <3>2 DEF Service!Next, Service!ServerStep
    <2>7. CASE First(routes[h], r.key) # Nobody
      <3>1. \A g \in Servers, k \in Keys : First(routes'[g], k) = First(routes[g], k)
        BY <2>4, <2>5, <2>7
      <3>2. UNCHANGED TableMap
        BY <3>1 DEF TableMap
      <3> QED BY <1>1, <1>2, <2>1, <2>2, <3>2 DEF ServiceMap, peer
    <2> QED BY <2>6, <2>7
  <1> QED BY <1>3, <1>4, <1>5

\* A step on one connection moves that one's stage.
LEMMA OneStage ==
  ASSUME NEW c \in Conns, NEW from, NEW to, Stage(c) = from, Stage(c)' = to,
         \A d \in Conns : d # c => Stage(d)' = Stage(d)
  PROVE  /\ StageMap[c] = from
         /\ StageMap' = [StageMap EXCEPT ![c] = to]
  BY DEF StageMap

\* A thread that goes on, past no point that a stage depends on.
LEMMA Elsewhere ==
  ASSUME TypeOK, NEW a \in Actors, NEW pt, pc' = [pc EXCEPT ![a] = pt],
         pc[a] \notin {"unborn", "spawn"}, pt \notin {"unborn", "spawn"}, UNCHANGED hand
  PROVE  \A c \in Conns :
           /\ pc'[c] = "unborn" <=> pc[c] = "unborn"
           /\ (\E b \in Actors : hand'[b] = c /\ pc'[b] = "spawn")
                <=> (\E b \in Actors : hand[b] = c /\ pc[b] = "spawn")
  <1>1. \A b \in Actors : pc'[b] = IF b = a THEN pt ELSE pc[b]
    BY DEF TypeOK
  <1> QED BY <1>1, Facts

LEMMA QuietSteps ==
  ASSUME ServiceInv,
         \/ \E a \in Actors : \/ \E h \in Servers : ServeBegin(a, h)
                              \/ LoopCheck(a) \/ AcceptNothing(a) \/ AcceptFails(a) \/ ServeReturns(a)
                              \/ \E c \in Conns : Join(a, c)
         \/ \E c \in Conns : \/ Count(c) \/ TrackUp(c) \/ ReadFails(c) \/ NoRoute(c) \/ Uncount(c)
                             \/ \E code \in {200, 500} : HandlerEnds(c, code)
         \/ UNCHANGED vars
  PROVE  UNCHANGED ServiceMap
  <1>0. TypeOK /\ ConnInv
    BY DEF ServiceInv, IInv, OwnInv
  <1>1. UNCHANGED <<next, up, routes, peer, snap, chosen, conn, hand>>
    BY DEF ServeBegin, LoopCheck, AcceptNothing, AcceptFails, ServeReturns, Join, Count, TrackUp, ReadFails,
           NoRoute, Uncount, HandlerEnds, vars, registry, loop, worker
  <1>2. ASSUME NEW a \in Actors, NEW pt, pc' = [pc EXCEPT ![a] = pt],
               pc[a] \notin {"unborn", "spawn"}, pt \notin {"unborn", "spawn"}
        PROVE  \A c \in Conns : Stage(c)' = Stage(c)
    BY <1>0, <1>1, <1>2, Elsewhere, StageKept
  <1>3. ASSUME UNCHANGED pc PROVE \A c \in Conns : Stage(c)' = Stage(c)
    BY <1>1, <1>3 DEF Stage
  <1>4. ASSUME NEW a \in Actors, \/ \E h \in Servers : ServeBegin(a, h)
                                \/ LoopCheck(a) \/ AcceptNothing(a) \/ AcceptFails(a) \/ ServeReturns(a)
        PROVE  UNCHANGED ServiceMap
    <2>1. /\ pc[a] \notin {"unborn", "spawn"} /\ UNCHANGED status
          /\ \E pt \in {"check", "drain", "accept", "body"} : pc' = [pc EXCEPT ![a] = pt]
      BY <1>4 DEF ServeBegin, LoopCheck, AcceptNothing, AcceptFails, ServeReturns, Goto, worker
    <2>2. PICK pt \in {"check", "drain", "accept", "body"} : pc' = [pc EXCEPT ![a] = pt]
      BY <2>1
    <2> QED BY <1>1, <1>2, <2>1, <2>2, Unseen
  <1>5. ASSUME NEW c \in Conns, \/ Count(c) \/ TrackUp(c) \/ ReadFails(c) \/ NoRoute(c) \/ Uncount(c)
                               \/ \E code \in {200, 500} : HandlerEnds(c, code)
        PROVE  UNCHANGED ServiceMap
    <2>1. /\ pc[c] \notin {"unborn", "spawn", "dead"} /\ (UNCHANGED status \/ pc[c] # "uncount")
          /\ \E pt \in {"mark", "read", "write", "dead"} : pc' = [pc EXCEPT ![c] = pt]
      BY <1>5 DEF Count, TrackUp, ReadFails, NoRoute, Uncount, HandlerEnds, Goto, worker
    <2>2. PICK pt \in {"mark", "read", "write", "dead"} : pc' = [pc EXCEPT ![c] = pt]
      BY <2>1
    <2>3. c \in Actors
      BY Facts
    <2>4. \A d \in Conns : d # c => status'[d] = status[d]
      BY <1>0, <1>5 DEF Count, TrackUp, ReadFails, NoRoute, Uncount, HandlerEnds, worker, TypeOK
    <2>5. conn[c] = "answered" => status'[c] = status[c]
      BY <1>0, <2>1 DEF ConnInv
    <2>6. \A d \in Conns : Stage(d)' = Stage(d)
      BY <1>2, <2>1, <2>2, <2>3
    <2> QED BY <1>1, <2>4, <2>5, <2>6, Unseen
  <1>6. ASSUME \/ \E a \in Actors, c \in Conns : Join(a, c)
               \/ UNCHANGED vars
        PROVE  UNCHANGED ServiceMap
    <2>1. UNCHANGED <<pc, status>>
      BY <1>6 DEF Join, vars, worker
    <2> QED BY <1>1, <1>3, <2>1, Unseen
  <1> QED BY <1>4, <1>5, <1>6

LEMMA PeerSteps ==
  ASSUME ServiceInv, NEW c \in Conns,
         Refuse(c) \/ \E h \in Servers, r \in Requests : Connect(c, h, r)
  PROVE  Service!Next
  <1>0. OwnInv
    BY DEF ServiceInv, IInv
  <1>1. UNCHANGED <<next, up, routes, pc, hand, snap, chosen, status>>
    BY DEF Refuse, Connect, registry, loop, worker
  <1>2. UNCHANGED <<BornMap, TableMap>>
    BY <1>1 DEF BornMap, TableMap
  <1>3. ASSUME Refuse(c) PROVE Service!Refuse(c)
    <2>1. /\ conn[c] = "queued" /\ ~Open(target[c]) /\ UNCHANGED peer
          /\ conn'[c] = "refused" /\ \A d \in Conns : d # c => conn'[d] = conn[d]
      BY <1>0, <1>3 DEF Refuse, OwnInv, TypeOK
    <2>2. UNCHANGED <<BornMap, TableMap, PlanMap, ReplyMap>>
      <3>1. \A d \in Conns : /\ conn'[d] = "answered" <=> conn[d] = "answered"
                             /\ conn[d] = "answered" => status'[d] = status[d]
        BY <1>1, <2>1
      <3> QED BY <1>1, <2>1, <3>1, OnlyStages
    <2>3. StageMap[c] = "queued" /\ StageMap' = [StageMap EXCEPT ![c] = "refused"]
      <3>1. Stage(c) = "queued" /\ Stage(c)' = "refused"
        BY <2>1 DEF Stage
      <3>2. \A d \in Conns : d # c => Stage(d)' = Stage(d)
        BY <1>1, <2>1 DEF Stage
      <3> QED BY <3>1, <3>2, OneStage
    <2>4. target[c] \notin up
      BY <2>1 DEF Open
    <2> QED BY <1>1, <2>1, <2>2, <2>3, <2>4
        DEF Service!Refuse, Service!Become, Service!servers, Service!asked, BornMap, TableMap, StageMap,
            PlanMap, ReplyMap, peer
  <1>4. ASSUME NEW h \in Servers, NEW r \in Requests, Connect(c, h, r) PROVE Service!Connect(c, h, r)
    <2>1. /\ conn[c] = "out" /\ Open(h)
          /\ target' = [target EXCEPT ![c] = h] /\ request' = [request EXCEPT ![c] = r]
          /\ conn'[c] = "queued" /\ \A d \in Conns : d # c => conn'[d] = conn[d]
      BY <1>0, <1>4 DEF Connect, OwnInv, TypeOK
    <2>2. h \in BornMap
      <3>1. h < next /\ h >= 1 /\ h \in Nat /\ next \in Nat
        BY <1>0, <2>1, Facts DEF Open, OwnInv, RegistryInv, Servers, TypeOK
      <3> QED BY <3>1 DEF BornMap
    <2>3. UNCHANGED PlanMap
      <3>1. snap[c] = <<>>
        BY <2>1 DEF ServiceInv, AnswerInv
      <3>2. \A d \in Conns : d # c => request'[d] = request[d]
        BY <1>0, <2>1 DEF OwnInv, TypeOK
      <3>3. ASSUME NEW d \in Conns PROVE First(snap'[d], request'[d]) = First(snap[d], request[d])
        <4>1. CASE d = c
          BY <1>1, <3>1, <4>1, FirstOfNone
        <4>2. CASE d # c
          BY <1>1, <3>2, <4>2
        <4> QED BY <4>1, <4>2
      <3> QED BY <3>3 DEF PlanMap
    <2>4. UNCHANGED ReplyMap
      <3>1. \A d \in Conns : conn'[d] = "answered" <=> conn[d] = "answered"
        BY <2>1
      <3> QED BY <1>1, <3>1 DEF ReplyMap
    <2>5. StageMap[c] = "out" /\ StageMap' = [StageMap EXCEPT ![c] = "queued"]
      <3>1. Stage(c) = "out" /\ Stage(c)' = "queued"
        BY <2>1 DEF Stage
      <3>2. \A d \in Conns : d # c => Stage(d)' = Stage(d)
        BY <1>1, <2>1 DEF Stage
      <3> QED BY <3>1, <3>2, OneStage
    <2> QED BY <1>1, <1>2, <2>1, <2>2, <2>3, <2>4, <2>5
        DEF Service!Connect, Service!Become, Service!servers, BornMap, TableMap, StageMap, PlanMap, ReplyMap
  <1>5. CASE Refuse(c)
    BY <1>3, <1>5 DEF Service!Next, Service!ConnStep
  <1>6. CASE \E h \in Servers, r \in Requests : Connect(c, h, r)
    BY <1>4, <1>6 DEF Service!Next, Service!ConnStep, Requests
  <1> QED BY <1>5, <1>6

\* The thread whose loop moves the connection in its hand.
LEMMA InHandMoves ==
  ASSUME OwnInv, NEW a \in Actors, NEW x \in Conns, hand[a] = x, hand'[a] \in {x, Nobody},
         pc'[a] # "unborn", x # a,
         \A b \in Actors : b # a => hand'[b] = hand[b],
         \A b \in Actors : b # a /\ b # x => pc'[b] = pc[b],
         pc'[x] # "spawn", \A c \in Conns : c # x => conn'[c] = conn[c]
  PROVE  \A d \in Conns : d # x => Stage(d)' = Stage(d)
  <1> SUFFICES ASSUME NEW d \in Conns, d # x PROVE Stage(d)' = Stage(d)
    OBVIOUS
  <1>1. pc[x] = "unborn" /\ pc[a] \in {"snapshot", "spawn"}
    BY Facts DEF OwnInv, HandInv, LoopInv
  <1>2. pc'[d] = "unborn" <=> pc[d] = "unborn"
    <2>1. CASE d = a
      BY <1>1, <2>1
    <2>2. CASE d # a
      BY <2>2, Facts
    <2> QED BY <2>1, <2>2
  <1>3. ASSUME NEW b \in Actors
        PROVE  hand'[b] = d /\ pc'[b] = "spawn" <=> hand[b] = d /\ pc[b] = "spawn"
    <2>1. CASE b = a
      BY <2>1, Facts
    <2>2. CASE b = x
      BY <1>1, <2>2
    <2>3. CASE b # a /\ b # x
      BY <2>3
    <2> QED BY <2>1, <2>2, <2>3
  <1> QED BY <1>2, <1>3, StageKept

LEMMA LoopSteps ==
  ASSUME ServiceInv, NEW a \in Actors,
         \/ \E c \in Conns : Accept(a, c)
         \/ Snapshot(a) \/ SnapshotGone(a) \/ Spawn(a) \/ SpawnFails(a)
  PROVE  Service!Next
  <1>0. OwnInv /\ TypeOK /\ LoopInv /\ ConnInv /\ HandInv
    BY DEF ServiceInv, IInv, OwnInv
  <1>1. ASSUME NEW c \in Conns, Accept(a, c) PROVE Service!Accept(c)
    <2>1. /\ conn[c] = "queued" /\ conn'[c] = "accepted" /\ \A d \in Conns : d # c => conn'[d] = conn[d]
          /\ pc[a] = "accept" /\ pc' = [pc EXCEPT ![a] = "snapshot"]
          /\ hand'[a] = c /\ \A b \in Actors : b # a => hand'[b] = hand[b]
          /\ UNCHANGED <<next, up, routes, peer, snap, chosen, status>>
      BY <1>0, <1>1 DEF Accept, Waiting, TypeOK, Goto, registry, worker
    <2>2. pc[c] = "unborn" /\ c # a /\ hand[a] = Nobody
      BY <1>0, <2>1 DEF ConnInv, Waits, LoopInv
    <2>3. pc'[a] = "snapshot" /\ \A b \in Actors : b # a => pc'[b] = pc[b]
      BY <1>0, <2>1 DEF TypeOK
    <2>4. UNCHANGED <<BornMap, TableMap, PlanMap, ReplyMap>>
      <3>1. \A d \in Conns : /\ conn'[d] = "answered" <=> conn[d] = "answered"
                             /\ conn[d] = "answered" => status'[d] = status[d]
        BY <2>1
      <3> QED BY <2>1, <3>1, OnlyStages
    <2>5. StageMap[c] = "queued" /\ StageMap' = [StageMap EXCEPT ![c] = "accepted"]
      <3>1. Stage(c) = "queued"
        BY <2>1 DEF Stage
      <3>2. \A b \in Actors : ~(hand'[b] = c /\ pc'[b] = "spawn")
        <4>1. \A b \in Actors : b # a => hand[b] # c
          BY <1>0, <2>1 DEF HandInv
        <4> QED BY <2>1, <2>3, <4>1
      <3>3. Stage(c)' = "accepted"
        BY <2>1, <2>2, <2>3, <3>2, Facts DEF Stage
      <3>4. \A d \in Conns : d # c => Stage(d)' = Stage(d)
        <4> SUFFICES ASSUME NEW d \in Conns, d # c PROVE Stage(d)' = Stage(d)
          OBVIOUS
        <4>1. pc'[d] = "unborn" <=> pc[d] = "unborn"
          BY <2>1, <2>3, Facts
        <4>2. ASSUME NEW b \in Actors
              PROVE  hand'[b] = d /\ pc'[b] = "spawn" <=> hand[b] = d /\ pc[b] = "spawn"
          BY <2>1, <2>2, <2>3, Facts
        <4> QED BY <2>1, <4>1, <4>2, StageKept
      <3> QED BY <3>1, <3>3, <3>4, OneStage
    <2> QED BY <2>1, <2>4, <2>5
        DEF Service!Accept, Service!Become, Service!servers, Service!asked, BornMap, TableMap, StageMap,
            PlanMap, ReplyMap, peer
  <1>2. ASSUME Snapshot(a) PROVE \E x \in Conns : Service!Take(x)
    <2>1. PICK x \in Conns : hand[a] = x
      BY <1>0, <1>2, InHand DEF Snapshot
    <2>2. /\ pc[a] = "snapshot" /\ pc[x] = "unborn" /\ conn[x] = "accepted" /\ x # a
          /\ target[x] = serving[a] /\ target[x] \in Servers /\ target[x] \in up
      BY <1>0, <1>2, <2>1, InHand DEF Snapshot, HandInv, InLoop
    <2>3. /\ pc'[a] = "spawn" /\ \A b \in Actors : b # a => pc'[b] = pc[b]
          /\ snap' = [snap EXCEPT ![x] = routes[target[x]]]
          /\ UNCHANGED <<next, up, routes, conn, hand, peer, chosen, status>>
      BY <1>0, <1>2, <2>1, <2>2 DEF Snapshot, TypeOK, Goto, registry, loop
    <2>4. StageMap[x] = "accepted" /\ StageMap' = [StageMap EXCEPT ![x] = "taken"]
      <3>1. Stage(x) = "accepted"
        BY <1>0, <2>1, <2>2, StageInHand
      <3>2. Stage(x)' = "taken"
        BY <2>1, <2>2, <2>3, Facts DEF Stage
      <3>3. \A d \in Conns : d # x => Stage(d)' = Stage(d)
        BY <1>0, <2>1, <2>2, <2>3, InHandMoves, Facts
      <3> QED BY <3>1, <3>2, <3>3, OneStage
    <2>5. UNCHANGED <<BornMap, TableMap, ReplyMap>>
      BY <2>3 DEF BornMap, TableMap, ReplyMap
    <2>6. PlanMap' = [PlanMap EXCEPT ![x] = First(routes[target[x]], request[x])]
      <3>1. snap'[x] = routes[target[x]] /\ \A d \in Conns : d # x => snap'[d] = snap[d]
        BY <1>0, <2>3 DEF TypeOK
      <3>2. request' = request
        BY <2>3 DEF peer
      <3>3. \A d \in Conns : First(snap'[d], request'[d])
              = IF d = x THEN First(routes[target[x]], request[x]) ELSE First(snap[d], request[d])
        BY <3>1, <3>2
      <3>4. PlanMap' = [d \in Conns |-> IF d = x THEN First(routes[target[x]], request[x])
                                       ELSE First(snap[d], request[d])]
        BY <3>3 DEF PlanMap
      <3> QED BY <3>4 DEF PlanMap
    <2>7. First(routes[target[x]], request[x])
            = IF request[x] \in Keys THEN TableMap[target[x]][request[x]] ELSE Nobody
      <3>1. routes[target[x]] \in Seq(Routes)
        BY <1>0, <2>2 DEF TypeOK
      <3>2. request[x] \notin Keys => First(routes[target[x]], request[x]) = Nobody
        BY <3>1, FirstIs
      <3> QED BY <2>2, <3>2 DEF TableMap
    <2>8. Service!Take(x)
      BY <2>2, <2>3, <2>4, <2>5, <2>6, <2>7
         DEF Service!Take, Service!Become, Service!Planned, Service!servers, Service!asked,
             BornMap, TableMap, StageMap, PlanMap, ReplyMap, peer
    <2> QED BY <2>8
  <1>3. ASSUME SnapshotGone(a) PROVE \E x \in Conns : Service!Drop(x)
    <2>1. PICK x \in Conns :
           /\ hand[a] = x /\ pc[a] = "snapshot" /\ x # a
           /\ pc[x] = "unborn" /\ conn[x] = "accepted"
           /\ conn'[x] = "dropped" /\ \A c \in Conns : c # x => conn'[c] = conn[c]
           /\ pc'[a] = "drain" /\ hand'[a] = Nobody
           /\ \A b \in Actors : b # a => hand'[b] = hand[b] /\ pc'[b] = pc[b]
           /\ UNCHANGED <<registry, serving, crew, peer, worker, gauge, history>>
      BY <1>0, <1>3, SnapshotGoneIs
    <2>2. target[x] \notin up
      BY <1>0, <1>3, <2>1 DEF SnapshotGone, HandInv
    <2>3. UNCHANGED <<next, up, routes, peer, snap, chosen, status>>
      BY <2>1 DEF registry, worker
    <2>4. UNCHANGED <<BornMap, TableMap, PlanMap, ReplyMap>>
      <3>1. \A d \in Conns : /\ conn'[d] = "answered" <=> conn[d] = "answered"
                             /\ conn[d] = "answered" => status'[d] = status[d]
        BY <2>1, <2>3
      <3> QED BY <2>3, <3>1, OnlyStages
    <2>5. StageMap[x] = "accepted" /\ StageMap' = [StageMap EXCEPT ![x] = "dropped"]
      <3>1. Stage(x) = "accepted"
        BY <1>0, <2>1, StageInHand
      <3>2. Stage(x)' = "dropped"
        BY <2>1 DEF Stage
      <3>3. \A d \in Conns : d # x => Stage(d)' = Stage(d)
        BY <1>0, <2>1, InHandMoves, Facts
      <3> QED BY <3>1, <3>2, <3>3, OneStage
    <2>6. Service!Drop(x)
      BY <2>2, <2>3, <2>4, <2>5
         DEF Service!Drop, Service!Become, Service!servers, Service!asked,
             BornMap, TableMap, StageMap, PlanMap, ReplyMap, peer
    <2> QED BY <2>6
  <1>4. ASSUME Spawn(a) PROVE \E x \in Conns : Service!Begin(x)
    <2>1. PICK x \in Conns :
           /\ hand[a] = x /\ pc[a] = "spawn" /\ x # a
           /\ pc[x] = "unborn" /\ conn[x] = "accepted" /\ target[x] = serving[a]
           /\ pc'[a] = "check" /\ pc'[x] = "count"
           /\ \A b \in Actors : b # a /\ b # x => pc'[b] = pc[b]
           /\ hand'[a] = Nobody /\ crew'[a] = crew[a] \cup {x}
           /\ \A b \in Actors : b # a => hand'[b] = hand[b] /\ crew'[b] = crew[b]
           /\ UNCHANGED <<registry, serving, conn, peer, worker, gauge, history>>
      BY <1>0, <1>4, SpawnIs
    <2>2. UNCHANGED <<next, up, routes, peer, snap, chosen, status, conn>>
      BY <2>1 DEF registry, worker
    <2>3. UNCHANGED <<BornMap, TableMap, PlanMap, ReplyMap>>
      BY <2>2, OnlyStages
    <2>4. StageMap[x] = "taken" /\ StageMap' = [StageMap EXCEPT ![x] = "working"]
      <3>1. Stage(x) = "taken"
        BY <1>0, <2>1, StageInHand
      <3>2. Stage(x)' = "working"
        BY <2>1, <2>2 DEF Stage
      <3>3. \A d \in Conns : d # x => Stage(d)' = Stage(d)
        BY <1>0, <2>1, <2>2, InHandMoves, Facts
      <3> QED BY <3>1, <3>2, <3>3, OneStage
    <2>5. Service!Begin(x)
      BY <2>2, <2>3, <2>4
         DEF Service!Begin, Service!Become, Service!servers, Service!asked,
             BornMap, TableMap, StageMap, PlanMap, ReplyMap, peer
    <2> QED BY <2>5
  <1>5. ASSUME SpawnFails(a) PROVE \E x \in Conns : Service!Drop(x)
    <2>1. PICK x \in Conns :
           /\ hand[a] = x /\ pc[a] = "spawn" /\ x # a
           /\ pc[x] = "unborn" /\ conn[x] = "accepted"
           /\ conn'[x] = "dropped"
           /\ \A c \in Conns : c # x => conn'[c] = conn[c]
           /\ pc'[a] \in {"dead", "write"} /\ (pc'[a] = "dead" <=> a \in Threads)
           /\ hand'[a] = Nobody /\ crew'[a] = {} /\ serving'[a] = 0
           /\ \A b \in Actors : b # a => /\ hand'[b] = hand[b] /\ crew'[b] = crew[b]
                                         /\ serving'[b] = serving[b] /\ pc'[b] = pc[b]
           /\ unwound' = unwound \cup crew[a] \cup {x}
           /\ UNCHANGED <<registry, peer, snap, chosen, gauge, highest, late>>
      BY <1>0, <1>5, SpawnFailsIs
    <2>2. UNCHANGED <<next, up, routes, peer, snap, chosen>>
      BY <2>1 DEF registry
    <2>3. \A d \in Conns : conn[d] = "answered" => status'[d] = status[d]
      <3>1. \A d \in Conns : d # a => status'[d] = status[d]
        BY <1>0, <1>5, HttpServerAssumption DEF SpawnFails, TypeOK, Actors
      <3>2. a \in Conns => conn[a] # "answered"
        BY <1>0, <2>1 DEF ConnInv
      <3> QED BY <3>1, <3>2
    <2>4. UNCHANGED <<BornMap, TableMap, PlanMap, ReplyMap>>
      <3>1. \A d \in Conns : conn'[d] = "answered" <=> conn[d] = "answered"
        BY <2>1
      <3> QED BY <2>2, <2>3, <3>1, OnlyStages
    <2>5. StageMap[x] = "taken" /\ StageMap' = [StageMap EXCEPT ![x] = "dropped"]
      <3>1. Stage(x) = "taken"
        BY <1>0, <2>1, StageInHand
      <3>2. Stage(x)' = "dropped"
        BY <2>1 DEF Stage
      <3>3. \A d \in Conns : d # x => Stage(d)' = Stage(d)
        BY <1>0, <2>1, InHandMoves, Facts
      <3> QED BY <3>1, <3>2, <3>3, OneStage
    <2>6. Service!Drop(x)
      BY <2>2, <2>4, <2>5
         DEF Service!Drop, Service!Become, Service!servers, Service!asked,
             BornMap, TableMap, StageMap, PlanMap, ReplyMap, peer
    <2> QED BY <2>6
  <1> QED BY <1>1, <1>2, <1>3, <1>4, <1>5 DEF Service!Next, Service!ConnStep

LEMMA HandlerSteps ==
  ASSUME ServiceInv, NEW c \in Conns, CallHandler(c) \/ Write(c)
  PROVE  Service!Next
  <1>0. TypeOK /\ ConnInv /\ RouteInv /\ AnswerInv /\ c \in Actors
    BY Facts DEF ServiceInv, IInv, OwnInv
  <1>1. UNCHANGED <<next, up, routes, hand, peer, snap, status>>
    BY DEF CallHandler, Write, registry, loop, worker
  <1>2. UNCHANGED <<BornMap, TableMap>>
    BY <1>1 DEF BornMap, TableMap
  <1>3. UNCHANGED PlanMap
    BY <1>1 DEF PlanMap, peer
  <1>4. pc[c] \in {"read", "write"} /\ conn[c] = "accepted" /\ Stage(c) = "working"
    <2>1. pc[c] \in {"read", "write"}
      BY DEF CallHandler, Write
    <2>2. conn[c] = "accepted"
      BY <1>0, <2>1 DEF ConnInv, Waits, TypeOK, Stages
    <2> QED BY <2>1, <2>2 DEF Stage
  <1>5. ASSUME CallHandler(c) PROVE Service!Run(c)
    <2>1. /\ pc[c] = "read" /\ pc' = [pc EXCEPT ![c] = "body"] /\ Matching(c) # {} /\ UNCHANGED conn
          /\ chosen' = [chosen EXCEPT ![c] = snap[c][Winner(c)].handler]
      BY <1>5 DEF CallHandler, Goto
    <2>2. chosen[c] = Nobody
      BY <1>0, <2>1 DEF RouteInv
    <2>3. PlanMap[c] = snap[c][Winner(c)].handler /\ PlanMap[c] # Nobody
      <3>1. First(snap[c], request[c]) = snap[c][Winner(c)].handler
        BY <2>1, FoundIsFirst
      <3>2. snap[c][Winner(c)].handler \in Handlers
        BY <1>0, <2>1, WinnerIsFirst
      <3> QED BY <3>1, <3>2, Facts DEF PlanMap
    <2>4. \A d \in Conns : Stage(d)' = Stage(d)
      BY <1>0, <1>1, <2>1, Elsewhere, StageKept
    <2>5. UNCHANGED <<StageMap, ReplyMap>>
      BY <1>1, <2>1, <2>4 DEF StageMap, ReplyMap
    <2>6. StageMap[c] = "working"
      BY <1>4 DEF StageMap
    <2> QED BY <1>1, <1>2, <1>3, <2>1, <2>2, <2>3, <2>5, <2>6
        DEF Service!Run, Service!servers, Service!asked, BornMap, TableMap, StageMap, PlanMap, ReplyMap, peer
  <1>6. ASSUME Write(c) PROVE Service!Answer(c)
    <2>1. /\ pc[c] = "write" /\ pc' = [pc EXCEPT ![c] = "uncount"] /\ UNCHANGED chosen
          /\ conn'[c] = "answered" /\ \A d \in Conns : d # c => conn'[d] = conn[d]
      BY <1>0, <1>6 DEF Write, Close, Goto, worker, TypeOK
    <2>2. chosen[c] = PlanMap[c] /\ status[c] \in Service!Codes(request[c], chosen[c])
      BY <1>0, <2>1 DEF AnswerInv, PlanMap
    <2>3. StageMap[c] = "working" /\ StageMap' = [StageMap EXCEPT ![c] = "answered"]
      <3>1. Stage(c)' = "answered"
        BY <2>1 DEF Stage
      <3>2. \A d \in Conns : /\ pc'[d] = "unborn" <=> pc[d] = "unborn"
                             /\ (\E b \in Actors : hand'[b] = d /\ pc'[b] = "spawn")
                                  <=> (\E b \in Actors : hand[b] = d /\ pc[b] = "spawn")
        BY <1>0, <1>1, <2>1, Elsewhere
      <3>3. \A d \in Conns : d # c => Stage(d)' = Stage(d)
        BY <2>1, <3>2, StageKept
      <3> QED BY <1>4, <3>1, <3>3, OneStage
    <2>4. ReplyMap' = [ReplyMap EXCEPT ![c] = status[c]]
      BY <1>1, <2>1 DEF ReplyMap
    <2> QED BY <1>1, <1>2, <1>3, <2>1, <2>2, <2>3, <2>4
        DEF Service!Answer, Service!Become, Service!servers, Service!asked, BornMap, TableMap, StageMap,
            PlanMap, ReplyMap, peer
  <1> QED BY <1>5, <1>6 DEF Service!Next, Service!ConnStep

-----------------------------------------------------------------------------
LEMMA ServiceInit == Init => Service!Init
  <1> SUFFICES ASSUME Init PROVE Service!Init
    OBVIOUS
  <1>1. BornMap = {} /\ up = {}
    BY DEF Init, BornMap
  <1>2. TableMap = [h \in Servers |-> [k \in Keys |-> Nobody]]
    <2>1. \A h \in Servers, k \in Keys : First(routes[h], k) = Nobody
      BY FirstOfNone DEF Init
    <2> QED BY <2>1 DEF TableMap
  <1>3. StageMap = [c \in Conns |-> "out"] /\ ReplyMap = [c \in Conns |-> 0]
    BY DEF Init, StageMap, Stage, ReplyMap
  <1>4. PlanMap = [c \in Conns |-> Nobody]
    <2>1. \A c \in Conns : First(snap[c], request[c]) = Nobody
      BY FirstOfNone DEF Init
    <2> QED BY <2>1 DEF PlanMap
  <1> QED BY <1>1, <1>2, <1>3, <1>4
      DEF Init, Service!Init, BornMap, TableMap, StageMap, PlanMap, ReplyMap

LEMMA ServiceStep == ServiceInv /\ [Next]_vars => Service!Next \/ UNCHANGED ServiceMap
  <1> SUFFICES ASSUME ServiceInv, [Next]_vars PROVE Service!Next \/ UNCHANGED ServiceMap
    OBVIOUS
  <1>1. CASE PeerStep
    BY <1>1, PeerSteps DEF PeerStep
  <1>2. ASSUME NEW a \in Callers, Builtin(a) PROVE Service!Next \/ UNCHANGED ServiceMap
    <2>1. CASE \E h \in Servers : ServeBegin(a, h)
      BY <2>1, QuietSteps, Facts
    <2>2. CASE ~\E h \in Servers : ServeBegin(a, h)
      BY <1>2, <2>2, ProgramSteps DEF Builtin
    <2> QED BY <2>1, <2>2
  <1>3. ASSUME NEW a \in Actors, ServeStep(a) PROVE Service!Next \/ UNCHANGED ServiceMap
    <2>1. CASE \/ \E c \in Conns : Accept(a, c)
               \/ Snapshot(a) \/ SnapshotGone(a) \/ Spawn(a) \/ SpawnFails(a)
      BY <2>1, LoopSteps
    <2>2. CASE \/ LoopCheck(a) \/ AcceptNothing(a) \/ AcceptFails(a) \/ ServeReturns(a)
               \/ \E c \in Conns : Join(a, c)
      BY <2>2, QuietSteps
    <2> QED BY <1>3, <2>1, <2>2 DEF ServeStep
  <1>4. ASSUME NEW c \in Conns, WorkerStep(c) PROVE Service!Next \/ UNCHANGED ServiceMap
    <2>1. CASE CallHandler(c) \/ Write(c)
      BY <2>1, HandlerSteps
    <2>2. CASE \/ Count(c) \/ TrackUp(c) \/ ReadFails(c) \/ NoRoute(c) \/ Uncount(c)
               \/ \E code \in {200, 500} : HandlerEnds(c, code)
      BY <2>2, QuietSteps
    <2> QED BY <1>4, <2>1, <2>2 DEF WorkerStep
  <1>5. CASE UNCHANGED vars
    BY <1>5, QuietSteps
  <1> QED BY <1>1, <1>2, <1>3, <1>4, <1>5 DEF Next

(***************************************************************************)
(* The threads, loops, locks and gauges of the server show to programs and *)
(* peers only what HttpService allows: a connection is taken at one        *)
(* instant, with its server in service and the first of the routes of its  *)
(* key; from then on only a failed spawn drops it; its handler runs once,  *)
(* and it gets one reply, the one the request and the handler call for.    *)
(***************************************************************************)
THEOREM ServiceRefined == Spec => ImplementsService
  <1>1. ServiceInv /\ [Next]_vars => [Service!Next]_ServiceMap
    BY ServiceStep
  <1> QED BY ServiceInit, <1>1, ServiceInvariance, PTL
      DEF Spec, ImplementsService, Service!Spec, Service!service, Service!servers, Service!asked, ServiceMap,
          BornMap, TableMap, StageMap, PlanMap, ReplyMap

-----------------------------------------------------------------------------
(***************************************************************************)
(* Who is in whose crew is a forest: a worker is enlisted before it has a  *)
(* crew of its own.                                                        *)
(***************************************************************************)
CrewInv ==
  \A group \in SUBSET Actors : (\A a \in group : crew[a] \cap group # {}) => group = {}

LEMMA CrewInvNext == IInv /\ CrewInv /\ [Next]_vars => CrewInv'
  <1> SUFFICES ASSUME IInv, CrewInv, [Next]_vars PROVE CrewInv'
    OBVIOUS
  <1>0. OwnInv /\ TypeOK /\ LoopInv /\ ConnInv
    BY DEF IInv, OwnInv
  <1>1. ASSUME \A a \in Actors : crew'[a] \subseteq crew[a]
        PROVE  CrewInv'
    BY <1>1 DEF CrewInv
  <1>2. ASSUME NEW a \in Actors, Spawn(a)
        PROVE  CrewInv'
    <2>1. PICK x \in Conns :
           /\ pc[x] = "unborn" /\ x # a
           /\ crew'[a] = crew[a] \cup {x}
           /\ \A b \in Actors : b # a => crew'[b] = crew[b]
      BY <1>0, <1>2, SpawnIs
    <2>2. crew'[x] = {}
      BY <1>0, <2>1, Facts DEF LoopInv, InLoop
    <2>3. ASSUME NEW group \in SUBSET Actors, \A b \in group : crew'[b] \cap group # {}
          PROVE  group = {}
      <3>1. x \notin group
        BY <2>2, <2>3
      <3>2. \A b \in group : crew[b] \cap group # {}
        BY <2>1, <2>3, <3>1
      <3> QED BY <3>2 DEF CrewInv
    <2> QED BY <2>3 DEF CrewInv
  <1>3. ASSUME NEW a \in Actors, (\E c \in Conns : Join(a, c)) \/ SpawnFails(a)
        PROVE  \A b \in Actors : crew'[b] \subseteq crew[b]
    <2>1. PICK left \in SUBSET crew[a] : crew' = [crew EXCEPT ![a] = left]
      BY <1>3 DEF Join, SpawnFails
    <2> QED BY <1>0, <2>1 DEF TypeOK
  <1>4. \/ \E a \in Actors : Spawn(a)
        \/ \E a \in Actors : (\E c \in Conns : Join(a, c)) \/ SpawnFails(a)
        \/ UNCHANGED crew
    BY DEF Next, PeerStep, Builtin, ServeStep, WorkerStep, vars, loop,
           Connect, Refuse, Listen, RegisterRoute, Shutdown, ServeBegin, LoopCheck, Accept, AcceptNothing,
           AcceptFails, Snapshot, SnapshotGone, ServeReturns, Count, TrackUp, ReadFails, NoRoute,
           CallHandler, HandlerEnds, Write, Uncount
  <1>5. CASE UNCHANGED crew
    BY <1>1, <1>5
  <1> QED BY <1>1, <1>2, <1>3, <1>4, <1>5

(***************************************************************************)
(* However handlers serve in turn, and whatever fails, the joins at the    *)
(* end of serve_loop wait for one another in no circle.                    *)
(***************************************************************************)
THEOREM JoinsEnd == Spec => []NoCircularJoin
  <1>1. Init => CrewInv
    <2>1. Init => \A a \in Actors : crew[a] = {}
      BY DEF Init
    <2> QED BY <2>1 DEF CrewInv
  <1>2. IInv /\ CrewInv /\ [Next]_vars => CrewInv'
    BY CrewInvNext
  <1>3. CrewInv => NoCircularJoin
    <2> SUFFICES ASSUME CrewInv, NEW group \in (SUBSET Actors) \ {{}}
                 PROVE  \E a \in group : ~(pc[a] = "drain" /\ crew[a] \cap group # {})
      BY DEF NoCircularJoin
    <2>1. group \in SUBSET Actors /\ group # {}
      OBVIOUS
    <2>2. \E a \in group : ~(crew[a] \cap group # {})
      BY <2>1 DEF CrewInv
    <2> QED BY <2>2
  <1> QED BY <1>1, <1>2, <1>3, Invariance, PTL DEF Spec

=============================================================================

--------------------------- MODULE ModulesProofs ---------------------------
(***************************************************************************)
(* Theorems about Modules and Classify, for every file system: files are   *)
(* stored once and after what they import, a load stores all that the      *)
(* roots reach and reports a cycle exactly when there is one, a name       *)
(* written in a file comes to what was meant or to a hint, and the kinds   *)
(* of bare declarations do not depend on the order they are classified in. *)
(***************************************************************************)
EXTENDS Classify, SequenceTheorems, NaturalsInduction, WellFoundedInduction, TLAPS

-----------------------------------------------------------------------------
(* Sequences *)

LEMMA LastAndFront ==
  ASSUME NEW S, NEW s \in Seq(S), s # <<>>
  PROVE  /\ Len(s) \in Nat \ {0} /\ DOMAIN s = 1 .. Len(s)
         /\ Last(s) = s[Len(s)] /\ Last(s) \in S
         /\ Front(s) \in Seq(S) /\ Len(Front(s)) = Len(s) - 1
         /\ DOMAIN Front(s) = 1 .. Len(s) - 1
         /\ \A i \in 1 .. Len(s) - 1 : Front(s)[i] = s[i]
  <1>1. Len(s) \in Nat /\ DOMAIN s = 1 .. Len(s) /\ \A i \in 1 .. Len(s) : s[i] \in S
    BY LenProperties, ElementOfSeq
  <1>2. Len(s) # 0
    BY EmptySeq
  <1>3. Front(s) = SubSeq(s, 1, Len(s) - 1)
    BY DEF Front
  <1>4. /\ Front(s) \in Seq(S) /\ Len(Front(s)) = Len(s) - 1
        /\ \A i \in 1 .. Len(s) - 1 : Front(s)[i] = s[i]
    BY <1>1, <1>2, <1>3
  <1>5. DOMAIN Front(s) = 1 .. Len(s) - 1
    BY <1>4, LenProperties
  <1> QED BY <1>1, <1>2, <1>4, <1>5 DEF Last

LEMMA Appended ==
  ASSUME NEW S, NEW s \in Seq(S), NEW x \in S
  PROVE  /\ Append(s, x) \in Seq(S) /\ Len(Append(s, x)) = Len(s) + 1
         /\ DOMAIN s = 1 .. Len(s) /\ Len(s) \in Nat
         /\ DOMAIN Append(s, x) = 1 .. Len(s) + 1
         /\ \A i \in 1 .. Len(s) : Append(s, x)[i] = s[i]
         /\ Append(s, x)[Len(s) + 1] = x
  <1>1. Append(s, x) \in Seq(S) /\ Len(Append(s, x)) = Len(s) + 1
    BY AppendProperties
  <1>2. DOMAIN s = 1 .. Len(s) /\ Len(s) \in Nat /\ DOMAIN Append(s, x) = 1 .. Len(s) + 1
    BY <1>1, LenProperties
  <1> QED BY <1>1, <1>2, AppendProperties

-----------------------------------------------------------------------------
(* The invariant of a load *)

\* Each edge of a stored file leads to a file a visit has begun; it was reported
\* or passed over, or it leads to a file stored before.
StoredInOrder ==
  \A k \in DOMAIN files : \A i \in DOMAIN Edges(files[k]) :
    /\ Follows(files[k], i) => Target(files[k], i).module \in DOMAIN visited
    /\ \/ Answered(files[k], i)
       \/ \E m \in DOMAIN files : m < k /\ files[m] = Target(files[k], i).module

\* The same of the edges that a file being visited has behind it.
BehindIsStored ==
  \A k \in DOMAIN stack : \A i \in DOMAIN Edges(stack[k].path) :
    i < stack[k].next =>
      /\ Follows(stack[k].path, i) => Target(stack[k].path, i).module \in DOMAIN visited
      /\ Answered(stack[k].path, i) \/ Target(stack[k].path, i).module \in Loaded

\* A file on the stack is reached from every one below it.
Chained ==
  \A j, k \in DOMAIN stack : j <= k => stack[k].path \in Reach({stack[j].path})

Told(code) == \E d \in diagnostics : d.code = code

LoadTypes ==
  /\ WorldOK
  /\ stack \in Seq([path : DOMAIN world.files, next : Nat \ {0}])
  /\ files \in Seq(DOMAIN world.files)
  /\ todo \in Seq(ToSet(world.roots))
  /\ DOMAIN visited \subseteq DOMAIN world.files

LoadInv ==
  /\ LoadTypes
  /\ \A p : StateOf(p) = "done" <=> p \in Loaded
  /\ \A p : StateOf(p) = "active" <=> \E k \in DOMAIN stack : stack[k].path = p
  /\ \A p : StateOf(p) \in {"new", "active", "done"} /\ (StateOf(p) = "new" <=> p \notin DOMAIN visited)
  /\ \A j, k \in DOMAIN stack : stack[j].path = stack[k].path => j = k
  /\ \A j, k \in DOMAIN files : files[j] = files[k] => j = k
  /\ StoredInOrder
  /\ BehindIsStored
  /\ Chained
  /\ DOMAIN visited \subseteq Reach(ToSet(world.roots))
  /\ phase # "failed" => ToSet(world.roots) \subseteq ToSet(todo) \cup DOMAIN visited
  /\ Told("E0100") => \E f \in DOMAIN visited : OnCycle(f)
  /\ phase \notin {"load", "failed"} => todo = <<>> /\ stack = <<>>

-----------------------------------------------------------------------------
(* What never changes *)

LEMMA EdgeShape ==
  ASSUME WorldOK, NEW f \in DOMAIN world.files
  PROVE  Extent(f) \in Nat /\ DOMAIN Edges(f) \subseteq 1 .. Extent(f)
  <1>1. Len(Imports(f)) \in Nat /\ Len(Items(f)) \in Nat
    BY LenProperties DEF WorldOK, IsSequence
  <1> QED BY <1>1 DEF Extent, Edges

LEMMA TargetIsFile ==
  ASSUME NEW f, NEW i, Follows(f, i)
  PROVE  Target(f, i).module \in DOMAIN world.files
  BY DEF Follows, Target, ResolveImport

LEMMA SameWorld ==
  ASSUME UNCHANGED <<world, answers>>
  PROVE  /\ WorldOK' <=> WorldOK
         /\ \A f : Edges(f)' = Edges(f) /\ Extent(f)' = Extent(f)
         /\ \A f, i : Target(f, i)' = Target(f, i) /\ (Follows(f, i)' <=> Follows(f, i))
         /\ \A S : ClosedUnderEdges(S)' <=> ClosedUnderEdges(S)
         /\ \A S : Reach(S)' = Reach(S)
         /\ \A f : OnCycle(f)' <=> OnCycle(f)
  <1>1. WorldOK' <=> WorldOK
    BY DEF WorldOK, IsSequence, Imports, Items
  <1>2. \A f : Edges(f)' = Edges(f) /\ Extent(f)' = Extent(f)
    BY DEF Edges, Extent, Imports, Items
  <1>3. \A f, i : Target(f, i)' = Target(f, i)
    BY <1>2 DEF Target, ResolveImport
  <1>4. \A f, i : Follows(f, i)' <=> Follows(f, i)
    BY <1>2, <1>3 DEF Follows
  <1>5. \A S : ClosedUnderEdges(S)' <=> ClosedUnderEdges(S)
    BY <1>2, <1>3, <1>4 DEF ClosedUnderEdges
  <1>6. \A S : Reach(S)' = Reach(S)
    BY <1>5 DEF Reach
  <1>7. \A f : OnCycle(f)' <=> OnCycle(f)
    BY <1>2, <1>3, <1>4, <1>6 DEF OnCycle
  <1> QED BY <1>1, <1>2, <1>3, <1>4, <1>5, <1>6, <1>7

LEMMA AnsweredGrows ==
  ASSUME UNCHANGED <<world, answers>>, diagnostics \subseteq diagnostics'
  PROVE  \A f, i : Answered(f, i) => Answered(f, i)'
  <1>1. \A f, i : /\ Target(f, i)' = Target(f, i) /\ (Follows(f, i)' <=> Follows(f, i))
                  /\ Edges(f)' = Edges(f)
    BY SameWorld
  <1> QED BY <1>1 DEF Answered

\* Reaching is reflexive, follows edges and is transitive.
LEMMA ReachLemmas ==
  /\ \A f \in DOMAIN world.files : f \in Reach({f})
  /\ \A S, f, i : f \in Reach(S) /\ i \in DOMAIN Edges(f) /\ Follows(f, i)
                    => Target(f, i).module \in Reach(S)
  /\ \A S, f : f \in S /\ f \in DOMAIN world.files => f \in Reach(S)
  <1>1. ASSUME NEW S, NEW f, NEW i, f \in Reach(S), i \in DOMAIN Edges(f), Follows(f, i)
        PROVE  Target(f, i).module \in Reach(S)
    <2>1. Target(f, i).module \in DOMAIN world.files
      BY <1>1, TargetIsFile
    <2>2. ASSUME NEW T \in SUBSET DOMAIN world.files, S \subseteq T, ClosedUnderEdges(T)
          PROVE  Target(f, i).module \in T
      BY <1>1, <2>2 DEF Reach, ClosedUnderEdges
    <2> QED BY <2>1, <2>2 DEF Reach
  <1>2. ASSUME NEW S, NEW f, f \in S, f \in DOMAIN world.files PROVE f \in Reach(S)
    BY <1>2 DEF Reach
  <1> QED BY <1>1, <1>2

LEMMA LoadInit == Init => LoadInv
  <1> SUFFICES ASSUME Init PROVE LoadInv
    OBVIOUS
  <1>1. stack = <<>> /\ files = <<>> /\ visited = <<>> /\ todo = world.roots /\ diagnostics = {}
    BY DEF Init
  <1>2. DOMAIN stack = {} /\ DOMAIN files = {} /\ DOMAIN visited = {} /\ Loaded = {}
    BY <1>1 DEF Loaded, ToSet
  <1>3. LoadTypes
    BY <1>1, <1>2 DEF Init, LoadTypes, WorldOK, IsSequence
  <1>4. \A p : StateOf(p) = "new"
    BY <1>2 DEF StateOf
  <1> QED BY <1>1, <1>2, <1>3, <1>4 DEF LoadInv, StoredInOrder, BehindIsStored, Chained, Told, Init

-----------------------------------------------------------------------------
(* The steps of a load *)

\* Steps that leave the graph alone: diagnostics may grow, by no cycle.
LEMMA IdleStep ==
  ASSUME LoadInv, UNCHANGED <<world, answers, stack, visited, files>>,
         diagnostics \subseteq diagnostics', Told("E0100")' => Told("E0100"),
         todo' \in Seq(ToSet(world.roots)),
         phase' # "failed" => ToSet(world.roots) \subseteq ToSet(todo') \cup DOMAIN visited,
         phase' \notin {"load", "failed"} => todo' = <<>> /\ stack = <<>>
  PROVE  LoadInv'
  <1>1. LoadTypes'
    BY SameWorld DEF LoadInv, LoadTypes
  <1>2. Loaded' = Loaded /\ \A p : StateOf(p)' = StateOf(p)
    BY DEF Loaded, StateOf
  <1>3. StoredInOrder' /\ BehindIsStored'
    BY <1>2, SameWorld, AnsweredGrows DEF LoadInv, StoredInOrder, BehindIsStored
  <1>4. Chained'
    BY SameWorld DEF LoadInv, Chained
  <1>5. \A S : Reach(S)' = Reach(S)
    BY SameWorld
  <1>6. \A f : OnCycle(f)' <=> OnCycle(f)
    BY SameWorld
  <1> QED BY <1>1, <1>2, <1>3, <1>4, <1>5, <1>6 DEF LoadInv

\* The step past one edge of the innermost file, which is answered or stored.
LEMMA AdvanceStep ==
  ASSUME LoadInv, phase = "load", phase' = "load", stack # <<>>, stack' = Advanced,
         UNCHANGED <<world, answers, todo, visited, files>>, diagnostics \subseteq diagnostics',
         Told("E0100")' => \E g \in DOMAIN visited : OnCycle(g),
         NEW f, NEW e, f = Top.path, e = Top.next,
         HasEdge => /\ Follows(f, e) => At.module \in DOMAIN visited
                    /\ Answered(f, e)' \/ At.module \in Loaded
  PROVE  LoadInv'
  <1> DEFINE n == Len(stack)
             Entry == [path : DOMAIN world.files, next : Nat \ {0}]
  <1>1. /\ stack \in Seq(Entry) /\ n \in Nat \ {0} /\ DOMAIN stack = 1 .. n
        /\ Top = stack[n] /\ Top \in Entry
    BY LastAndFront DEF LoadInv, LoadTypes, Top
  <1>2. /\ stack' \in Seq(Entry) /\ Len(stack') = n /\ DOMAIN stack' = 1 .. n
        /\ \A k \in 1 .. n : stack'[k].path = stack[k].path
        /\ \A k \in 1 .. n : k # n => stack'[k].next = stack[k].next
        /\ stack'[n].next = stack[n].next + 1
    <2>1. stack' = [stack EXCEPT ![n] = [stack[n] EXCEPT !.next = stack[n].next + 1]]
      BY DEF Advanced
    <2>2. [stack[n] EXCEPT !.next = stack[n].next + 1] \in Entry
      BY <1>1
    <2>3. stack' \in Seq(Entry) /\ Len(stack') = n /\ DOMAIN stack' = 1 .. n
      BY <2>1, <2>2, <1>1, ExceptSeq
    <2> QED BY <2>1, <2>2, <2>3, <1>1
  <1> HIDE DEF n, Entry
  <1>12. /\ DOMAIN stack' = 1 .. n
         /\ \A k \in 1 .. n : stack'[k].path = stack[k].path
    BY <1>2
  <1>3. LoadTypes'
    BY <1>2, SameWorld DEF LoadInv, LoadTypes, Entry
  <1>4. Loaded' = Loaded /\ \A p : StateOf(p)' = StateOf(p)
    BY DEF Loaded, StateOf
  <1>5. StoredInOrder'
    BY SameWorld, AnsweredGrows DEF LoadInv, StoredInOrder
  <1>6. BehindIsStored'
    <2>1. SUFFICES ASSUME NEW k \in 1 .. n, NEW i \in DOMAIN Edges(stack[k].path), i < stack'[k].next
                   PROVE  /\ Follows(stack[k].path, i) => Target(stack[k].path, i).module \in DOMAIN visited
                          /\ \/ Answered(stack[k].path, i)'
                             \/ Target(stack[k].path, i).module \in Loaded
      BY <1>12, <1>4, SameWorld DEF BehindIsStored
    <2>2. CASE i < stack[k].next
      <3>1. /\ Follows(stack[k].path, i) => Target(stack[k].path, i).module \in DOMAIN visited
            /\ Answered(stack[k].path, i) \/ Target(stack[k].path, i).module \in Loaded
        BY <2>1, <2>2, <1>1 DEF LoadInv, BehindIsStored
      <3> QED BY <3>1, <1>12, AnsweredGrows
    <2>3. CASE ~(i < stack[k].next)
      <3>0. stack[k] \in Entry
        BY <1>1, ElementOfSeq DEF n
      <3>1. stack[k].next \in Nat /\ i \in Int
        <4>1. stack[k].path \in DOMAIN world.files /\ stack[k].next \in Nat
          BY <3>0 DEF Entry
        <4> QED BY <4>1, <2>1, EdgeShape DEF LoadInv, LoadTypes
      <3>2. k = n
        BY <2>1, <2>3, <1>2
      <3>4. i = Top.next
        BY <2>1, <2>3, <3>1, <3>2, <1>1, <1>2
      <3>3. HasEdge /\ At = Target(stack[k].path, i)
        BY <3>2, <3>4, <1>1, <2>1 DEF HasEdge, At
      <3> QED BY <3>2, <3>3, <3>4, <1>1, <1>12
    <2> QED BY <2>2, <2>3
  <1>7. Chained'
    <2>1. \A j, k \in 1 .. n : j <= k => stack[k].path \in Reach({stack[j].path})
      BY <1>1 DEF LoadInv, Chained
    <2>2. \A j, k \in 1 .. n : j <= k => stack'[k].path \in Reach({stack[j].path})'
      BY <1>12, <2>1, SameWorld
    <2> QED BY <1>12, <2>2 DEF Chained
  <1>8. \A p : StateOf(p)' = "active" <=> \E k \in DOMAIN stack' : stack'[k].path = p
    <2>1. \A p : StateOf(p) = "active" <=> \E k \in 1 .. n : stack[k].path = p
      BY <1>1 DEF LoadInv
    <2> QED BY <2>1, <1>12, <1>4
  <1>9. \A j, k \in DOMAIN stack' : stack'[j].path = stack'[k].path => j = k
    <2>1. \A j, k \in 1 .. n : stack[j].path = stack[k].path => j = k
      BY <1>1 DEF LoadInv
    <2> QED BY <2>1, <1>12
  <1>10. \A S : Reach(S)' = Reach(S)
    BY SameWorld
  <1>11. \A g : OnCycle(g)' <=> OnCycle(g)
    BY SameWorld
  <1> QED BY <1>3, <1>4, <1>5, <1>6, <1>7, <1>8, <1>9, <1>10, <1>11 DEF LoadInv

\* A visit begins: the file is active and on top of the stack.
LEMMA BeginStep ==
  ASSUME LoadInv, phase = "load", NEW path \in DOMAIN world.files, StateOf(path) = "new",
         Begin(path, stack), UNCHANGED <<world, answers, files, diagnostics>>,
         todo' \in Seq(ToSet(world.roots)),
         ToSet(world.roots) \subseteq ToSet(todo') \cup DOMAIN visited \cup {path},
         path \in Reach(ToSet(world.roots)),
         \A k \in DOMAIN stack : path \in Reach({stack[k].path})
  PROVE  LoadInv'
  <1>1. CASE ~world.files[path].readable
    <2>1. phase' = "failed" /\ UNCHANGED <<stack, visited>>
      BY <1>1 DEF Begin
    <2>2. Told("E0100")' => Told("E0100")
      BY DEF Told
    <2> QED BY <2>1, <2>2, IdleStep
  <1>2. CASE world.files[path].readable
    <2> DEFINE n == Len(stack)
               Entry == [path : DOMAIN world.files, next : Nat \ {0}]
               top == [path |-> path, next |-> 1]
    <2>1. /\ stack' = Append(stack, top) /\ visited' = Mark(path, "active") /\ phase' = phase
      BY <1>2 DEF Begin
    <2>2. /\ stack \in Seq(Entry) /\ top \in Entry
      BY DEF LoadInv, LoadTypes
    <2>3. /\ stack' \in Seq(Entry) /\ n \in Nat /\ DOMAIN stack = 1 .. n /\ DOMAIN stack' = 1 .. n + 1
          /\ \A k \in 1 .. n : stack'[k] = stack[k]
          /\ stack'[n + 1] = top
      BY <2>1, <2>2, Appended
    <2>4. top.path = path /\ top.next = 1
      OBVIOUS
    <2> HIDE DEF n, Entry, top
    <2>5. /\ DOMAIN visited' = DOMAIN visited \cup {path} /\ Loaded' = Loaded
          /\ \A p : StateOf(p)' = IF p = path THEN "active" ELSE StateOf(p)
      BY <2>1 DEF Mark, StateOf, Loaded
    <2>6. LoadTypes'
      <3>1. stack' \in Seq([path : DOMAIN world.files, next : Nat \ {0}])
        BY <2>3 DEF Entry
      <3> QED BY <3>1, <2>5, SameWorld DEF LoadInv, LoadTypes
    <2>7. StoredInOrder'
      <3>1. \A f, i : Answered(f, i) => Answered(f, i)'
        BY AnsweredGrows
      <3> QED BY <3>1, <2>5, SameWorld DEF LoadInv, StoredInOrder
    <2>8. BehindIsStored'
      <3>1. SUFFICES ASSUME NEW k \in 1 .. n + 1, NEW f, f = stack'[k].path, NEW i \in DOMAIN Edges(f),
                            i < stack'[k].next
                     PROVE  /\ Follows(f, i) => Target(f, i).module \in DOMAIN visited'
                            /\ Answered(f, i)' \/ Target(f, i).module \in Loaded
        BY <2>3, <2>5, SameWorld DEF BehindIsStored
      <3>2. k # n + 1
        <4>1. ASSUME k = n + 1 PROVE FALSE
          <5>1. f = path /\ i < 1
            BY <4>1, <3>1, <2>3, <2>4
          <5>2. i \in 1 .. Extent(f) /\ Extent(f) \in Nat
            BY <5>1, EdgeShape DEF LoadInv, LoadTypes
          <5> QED BY <5>1, <5>2
        <4> QED BY <4>1
      <3>3. k \in 1 .. n /\ k \in DOMAIN stack /\ stack'[k] = stack[k]
        BY <3>2, <2>3
      <3>4. /\ Follows(f, i) => Target(f, i).module \in DOMAIN visited
            /\ Answered(f, i) \/ Target(f, i).module \in Loaded
        BY <3>1, <3>3 DEF LoadInv, BehindIsStored
      <3> QED BY <3>4, <2>5, AnsweredGrows
    <2>9. Chained'
      <3>1. \A j, k \in 1 .. n + 1 : j <= k => stack'[k].path \in Reach({stack'[j].path})
        <4>1. TAKE j, k \in 1 .. n + 1
        <4>2. HAVE j <= k
        <4>3. CASE k = n + 1 /\ j = n + 1
          BY <4>3, <2>3, <2>4, ReachLemmas
        <4>4. CASE k = n + 1 /\ j # n + 1
          <5>1. j \in 1 .. n
            BY <4>4, <2>3
          <5> QED BY <5>1, <4>4, <2>3, <2>4
        <4>5. CASE k # n + 1
          <5>1. j \in 1 .. n /\ k \in 1 .. n
            BY <4>5, <4>2, <2>3
          <5> QED BY <5>1, <4>2, <2>3 DEF LoadInv, Chained
        <4> QED BY <4>3, <4>4, <4>5
      <3>2. \A S : Reach(S)' = Reach(S)
        BY SameWorld
      <3> QED BY <3>1, <3>2, <2>3 DEF Chained
    <2>10. \A p : StateOf(p)' = "active" <=> \E k \in DOMAIN stack' : stack'[k].path = p
      <3>1. \A p : StateOf(p) = "active" <=> \E k \in 1 .. n : stack[k].path = p
        BY <2>3 DEF LoadInv
      <3>2. \A k \in 1 .. n + 1 : k = n + 1 \/ k \in 1 .. n
        BY <2>3
      <3>3. n + 1 \in 1 .. n + 1 /\ \A k \in 1 .. n : k \in 1 .. n + 1
        BY <2>3
      <3> QED BY <3>1, <3>2, <3>3, <2>3, <2>4, <2>5
    <2>11. \A j, k \in DOMAIN stack' : stack'[j].path = stack'[k].path => j = k
      <3>1. \A j, k \in 1 .. n : stack[j].path = stack[k].path => j = k
        BY <2>3 DEF LoadInv
      <3>2. \A k \in 1 .. n : stack[k].path # path
        BY <2>3 DEF LoadInv
      <3>3. \A k \in 1 .. n + 1 : k = n + 1 \/ k \in 1 .. n
        BY <2>3
      <3> QED BY <3>1, <3>2, <3>3, <2>3, <2>4
    <2>12. DOMAIN visited' \subseteq Reach(ToSet(world.roots))'
      BY <2>5, SameWorld DEF LoadInv
    <2>13. ToSet(world.roots)' \subseteq ToSet(todo)' \cup DOMAIN visited'
      BY <2>5 DEF ToSet
    <2>14. Told("E0100")' => \E f \in DOMAIN visited' : OnCycle(f)'
      BY <2>5, SameWorld DEF LoadInv, Told
    <2>15. /\ \A p : StateOf(p)' = "done" <=> p \in Loaded'
           /\ \A p : /\ StateOf(p)' \in {"new", "active", "done"}
                     /\ StateOf(p)' = "new" <=> p \notin DOMAIN visited'
      BY <2>5 DEF LoadInv
    <2>16. \A j, k \in DOMAIN files' : files'[j] = files'[k] => j = k
      BY DEF LoadInv
    <2> QED BY <2>1, <2>6, <2>7, <2>8, <2>9, <2>10, <2>11, <2>12, <2>13, <2>14, <2>15, <2>16 DEF LoadInv
  <1> QED BY <1>1, <1>2

\* A file is left: it is stored, behind all its edges lead to.
LEMMA LeaveStep ==
  ASSUME LoadInv, Leave
  PROVE  LoadInv'
  <1> DEFINE n == Len(stack)
             m == Len(files)
             Entry == [path : DOMAIN world.files, next : Nat \ {0}]
  <1>1. /\ phase = "load" /\ phase' = "load" /\ stack # <<>> /\ Top.next > Extent(Top.path)
        /\ files' = Append(files, Top.path) /\ visited' = Mark(Top.path, "done")
        /\ stack' = Front(stack) /\ UNCHANGED <<world, answers, todo, diagnostics>>
    BY DEF Leave, Loading, AtEnd
  <1>2. stack \in Seq(Entry) /\ files \in Seq(DOMAIN world.files)
    BY DEF LoadInv, LoadTypes
  <1>3. /\ n \in Nat \ {0} /\ DOMAIN stack = 1 .. n /\ Top = stack[n] /\ Top \in Entry
        /\ stack' \in Seq(Entry) /\ DOMAIN stack' = 1 .. n - 1
        /\ \A k \in 1 .. n - 1 : stack'[k] = stack[k]
    BY <1>1, <1>2, LastAndFront DEF Top
  <1>4. Top.path \in DOMAIN world.files /\ Top.next \in Nat
    BY <1>3
  <1>5. /\ files' \in Seq(DOMAIN world.files) /\ m \in Nat
        /\ DOMAIN files = 1 .. m /\ DOMAIN files' = 1 .. m + 1
        /\ \A k \in 1 .. m : files'[k] = files[k]
        /\ files'[m + 1] = Top.path
    <2> DEFINE P == DOMAIN world.files
               x == Top.path
    <2>1. files \in Seq(P) /\ x \in P
      BY <1>2, <1>4
    <2> HIDE DEF P, x
    <2>2. /\ Append(files, x) \in Seq(P) /\ m \in Nat
          /\ DOMAIN files = 1 .. m /\ DOMAIN Append(files, x) = 1 .. m + 1
          /\ \A k \in 1 .. m : Append(files, x)[k] = files[k]
          /\ Append(files, x)[m + 1] = x
      BY <2>1, Appended
    <2> QED BY <2>2, <1>1 DEF P, x
  <1> HIDE DEF n, m
  <1>6. /\ n \in 1 .. n /\ \A k \in 1 .. n - 1 : k \in 1 .. n /\ k # n
        /\ \A k \in 1 .. n : k = n \/ k \in 1 .. n - 1
        /\ m + 1 \in 1 .. m + 1 /\ \A k \in 1 .. m : k \in 1 .. m + 1 /\ k # m + 1
        /\ \A k \in 1 .. m + 1 : k = m + 1 \/ k \in 1 .. m
    BY <1>3, <1>5
  <1>7. StateOf(Top.path) = "active"
    BY <1>3, <1>6 DEF LoadInv
  <1>8. \A p : p \in Loaded' <=> p \in Loaded \/ p = Top.path
    <2>1. \A p : p \in Loaded <=> \E k \in 1 .. m : files[k] = p
      BY <1>5 DEF Loaded, ToSet
    <2>2. \A p : p \in Loaded' <=> \E k \in 1 .. m + 1 : files'[k] = p
      BY <1>5 DEF Loaded, ToSet
    <2> QED BY <2>1, <2>2, <1>5, <1>6
  <1> DEFINE top == Top.path
  <1>9. top = stack[n].path /\ top \in DOMAIN world.files
    BY <1>3, <1>4
  <1> HIDE DEF top
  <1>10. /\ DOMAIN visited' = DOMAIN visited
         /\ \A p : StateOf(p)' = IF p = top THEN "done" ELSE StateOf(p)
    <2>1. top \in DOMAIN visited
      BY <1>7 DEF StateOf, top
    <2> QED BY <1>1, <2>1 DEF Mark, StateOf, top
  <1>11. \A f, i : Answered(f, i) => Answered(f, i)'
    BY <1>1, AnsweredGrows
  <1>12. LoadTypes'
    BY <1>1, <1>3, <1>5, <1>10, SameWorld DEF LoadInv, LoadTypes
  <1>13. top \notin Loaded /\ \A k \in 1 .. m : files[k] # top
    <2>1. top \notin Loaded
      BY <1>7 DEF LoadInv, top
    <2> QED BY <2>1, <1>5 DEF Loaded, ToSet
  <1>14. StoredInOrder'
    <2>1. SUFFICES ASSUME NEW k \in 1 .. m + 1, NEW f, f = files'[k], NEW i \in DOMAIN Edges(f)
                   PROVE  /\ Follows(f, i) => Target(f, i).module \in DOMAIN visited
                          /\ \/ Answered(f, i)'
                             \/ \E l \in 1 .. m + 1 : l < k /\ files'[l] = Target(f, i).module
      <3>1. \A k \in DOMAIN files' : \A i \in DOMAIN Edges(files'[k]) :
              /\ Follows(files'[k], i) => Target(files'[k], i).module \in DOMAIN visited
              /\ \/ \A f : f = files'[k] => Answered(f, i)'
                 \/ \E l \in DOMAIN files' : l < k /\ files'[l] = Target(files'[k], i).module
        BY <2>1, <1>5
      <3>2. /\ \A f : Edges(f)' = Edges(f)
            /\ \A f, i : Target(f, i)' = Target(f, i) /\ (Follows(f, i)' <=> Follows(f, i))
        BY <1>1, SameWorld
      <3>3. \A k \in DOMAIN files' : \A i \in DOMAIN Edges(files[k])' :
              /\ Follows(files[k], i)' => Target(files[k], i)'.module \in DOMAIN visited'
              /\ \/ Answered(files[k], i)'
                 \/ \E l \in DOMAIN files' : l < k /\ files'[l] = Target(files[k], i)'.module
        BY <3>1, <3>2, <1>10
      <3> QED BY <3>3 DEF StoredInOrder
    <2>2. CASE k \in 1 .. m
      <3>1. f = files[k]
        BY <2>1, <2>2, <1>5
      <3>2. /\ Follows(f, i) => Target(f, i).module \in DOMAIN visited
            /\ \/ Answered(f, i)
               \/ \E l \in 1 .. m : l < k /\ files[l] = Target(f, i).module
        BY <2>1, <2>2, <3>1, <1>5 DEF LoadInv, StoredInOrder
      <3> QED BY <3>2, <1>5, <1>6, <1>11
    <2>3. CASE k = m + 1
      <3>1. f = stack[n].path
        BY <2>1, <2>3, <1>5, <1>9 DEF top
      <3>2. i < stack[n].next
        <4>1. Extent(f) \in Nat /\ i \in 1 .. Extent(f)
          BY <2>1, <3>1, <1>9, EdgeShape DEF LoadInv, LoadTypes
        <4>2. stack[n].next > Extent(f) /\ stack[n].next \in Nat
          BY <1>1, <1>3, <1>4, <3>1
        <4> QED BY <4>1, <4>2
      <3>3. /\ Follows(f, i) => Target(f, i).module \in DOMAIN visited
            /\ Answered(f, i) \/ Target(f, i).module \in Loaded
        <4>1. BehindIsStored
          BY DEF LoadInv
        <4>2. n \in DOMAIN stack /\ i \in DOMAIN Edges(stack[n].path)
          BY <2>1, <3>1, <1>3, <1>6
        <4> QED BY <3>1, <3>2, <4>1, <4>2 DEF BehindIsStored
      <3>4. ASSUME Target(f, i).module \in Loaded
            PROVE  \E l \in 1 .. m + 1 : l < k /\ files'[l] = Target(f, i).module
        <4>1. PICK l \in 1 .. m : files[l] = Target(f, i).module
          BY <3>4, <1>5 DEF Loaded, ToSet
        <4>2. l < m + 1
          BY <1>5
        <4> QED BY <4>1, <4>2, <2>3, <1>5, <1>6
      <3> QED BY <3>3, <3>4, <1>11
    <2>4. k \in 1 .. m \/ k = m + 1
      BY <2>1, <1>5
    <2> QED BY <2>2, <2>3, <2>4
  <1>15. BehindIsStored'
    <2>1. SUFFICES ASSUME NEW k \in 1 .. n - 1, NEW f, f = stack'[k].path, NEW i \in DOMAIN Edges(f),
                          i < stack'[k].next
                   PROVE  /\ Follows(f, i) => Target(f, i).module \in DOMAIN visited
                          /\ Answered(f, i)' \/ Target(f, i).module \in Loaded'
      <3>1. \A k \in 1 .. n - 1 : \A f : f = stack'[k].path => \A i \in DOMAIN Edges(f) :
              i < stack'[k].next =>
                /\ Follows(f, i) => Target(f, i).module \in DOMAIN visited
                /\ Answered(f, i)' \/ Target(f, i).module \in Loaded'
        BY <2>1
      <3>2. /\ \A f : Edges(f)' = Edges(f)
            /\ \A f, i : Target(f, i)' = Target(f, i) /\ (Follows(f, i)' <=> Follows(f, i))
        BY <1>1, SameWorld
      <3>3. \A k \in DOMAIN stack' : \A i \in DOMAIN Edges(stack[k].path)' :
              i < stack'[k].next =>
                /\ Follows(stack[k].path, i)' => Target(stack[k].path, i)'.module \in DOMAIN visited'
                /\ Answered(stack[k].path, i)' \/ Target(stack[k].path, i)'.module \in Loaded'
        BY <3>1, <3>2, <1>3, <1>10
      <3> QED BY <3>3 DEF BehindIsStored
    <2>2. /\ Follows(f, i) => Target(f, i).module \in DOMAIN visited
          /\ Answered(f, i) \/ Target(f, i).module \in Loaded
      BY <2>1, <1>3, <1>6 DEF LoadInv, BehindIsStored
    <2> QED BY <2>2, <1>8, <1>11
  <1>16. Chained'
    <2>1. \A j, k \in 1 .. n : j <= k => stack[k].path \in Reach({stack[j].path})
      BY <1>3 DEF LoadInv, Chained
    <2>2. \A S : Reach(S)' = Reach(S)
      BY <1>1, SameWorld
    <2> QED BY <2>1, <2>2, <1>3, <1>6 DEF Chained
  <1>17. \A p : StateOf(p)' = "active" <=> \E k \in DOMAIN stack' : stack'[k].path = p
    <2>1. \A p : StateOf(p) = "active" <=> \E k \in 1 .. n : stack[k].path = p
      BY <1>3 DEF LoadInv
    <2>2. \A k \in 1 .. n - 1 : stack[k].path # top
      BY <1>3, <1>6, <1>9 DEF LoadInv
    <2> QED BY <2>1, <2>2, <1>3, <1>6, <1>9, <1>10
  <1>18. \A j, k \in DOMAIN stack' : stack'[j].path = stack'[k].path => j = k
    <2>1. \A j, k \in 1 .. n : stack[j].path = stack[k].path => j = k
      BY <1>3 DEF LoadInv
    <2> QED BY <2>1, <1>3, <1>6
  <1>19. \A j, k \in DOMAIN files' : files'[j] = files'[k] => j = k
    <2>1. \A j, k \in 1 .. m : files[j] = files[k] => j = k
      BY <1>5 DEF LoadInv
    <2> QED BY <2>1, <1>5, <1>6, <1>13 DEF top
  <1>20. DOMAIN visited' \subseteq Reach(ToSet(world.roots))'
    BY <1>1, <1>10, SameWorld DEF LoadInv
  <1>21. ToSet(world.roots)' \subseteq ToSet(todo)' \cup DOMAIN visited'
    BY <1>1, <1>10 DEF LoadInv, ToSet
  <1>22. Told("E0100")' => \E f \in DOMAIN visited' : OnCycle(f)'
    BY <1>1, <1>10, SameWorld DEF LoadInv, Told
  <1>23. /\ \A p : StateOf(p)' = "done" <=> p \in Loaded'
         /\ \A p : /\ StateOf(p)' \in {"new", "active", "done"}
                   /\ StateOf(p)' = "new" <=> p \notin DOMAIN visited'
    BY <1>7, <1>8, <1>10 DEF LoadInv, top
  <1> QED BY <1>1, <1>12, <1>14, <1>15, <1>16, <1>17, <1>18, <1>19, <1>20, <1>21, <1>22, <1>23 DEF LoadInv

LEMMA VisitRootStep ==
  ASSUME LoadInv, VisitRoot
  PROVE  LoadInv'
  <1> DEFINE R == ToSet(world.roots)
             h == Head(todo)
  <1>1. /\ phase = "load" /\ stack = <<>> /\ todo # <<>> /\ todo' = Tail(todo)
        /\ UNCHANGED <<world, answers, files, diagnostics>>
    BY DEF VisitRoot
  <1>2. todo \in Seq(R)
    BY DEF LoadInv, LoadTypes
  <1>3. todo' \in Seq(R) /\ h \in R /\ \A r \in ToSet(todo) : r = h \/ r \in ToSet(todo')
    <2>1. /\ Tail(todo) \in Seq(R) /\ h \in R /\ Len(todo) \in Nat \ {0} /\ h = todo[1]
          /\ DOMAIN todo = 1 .. Len(todo) /\ DOMAIN Tail(todo) = 1 .. Len(todo) - 1
          /\ \A k \in 1 .. Len(todo) - 1 : Tail(todo)[k] = todo[k + 1]
      <3>1. Len(todo) \in Nat /\ DOMAIN todo = 1 .. Len(todo) /\ Len(todo) # 0
        BY <1>1, <1>2, LenProperties, EmptySeq
      <3>2. /\ h = todo[1] /\ h \in R /\ Tail(todo) \in Seq(R) /\ Len(Tail(todo)) = Len(todo) - 1
            /\ \A k \in 1 .. Len(todo) - 1 : Tail(todo)[k] = todo[k + 1]
        BY <1>1, <1>2, HeadTailProperties
      <3>3. DOMAIN Tail(todo) = 1 .. Len(todo) - 1
        BY <3>2, LenProperties
      <3> QED BY <3>1, <3>2, <3>3
    <2>2. ASSUME NEW r \in ToSet(todo), r # h PROVE r \in ToSet(Tail(todo))
      <3>1. PICK k \in 1 .. Len(todo) : todo[k] = r
        BY <2>1, <2>2 DEF ToSet
      <3>2. k # 1 /\ k - 1 \in 1 .. Len(todo) - 1 /\ (k - 1) + 1 = k
        BY <2>1, <2>2, <3>1
      <3>3. Tail(todo)[k - 1] = r
        BY <2>1, <3>1, <3>2
      <3> QED BY <2>1, <3>2, <3>3 DEF ToSet
    <2> QED BY <1>1, <2>1, <2>2
  <1>4. R \subseteq ToSet(todo) \cup DOMAIN visited
    BY <1>1 DEF LoadInv
  <1> HIDE DEF R, h
  <1>5. Told("E0100")' => Told("E0100")
    BY <1>1 DEF Told
  <1>6. CASE h \notin DOMAIN world.files
    <2>1. phase' = "failed" /\ UNCHANGED <<stack, visited>>
      BY <1>6 DEF VisitRoot, h
    <2> QED BY <1>1, <1>3, <1>5, <2>1, IdleStep DEF R
  <1>7. CASE h \in DOMAIN world.files /\ StateOf(h) # "new"
    <2>1. UNCHANGED <<phase, stack, visited>>
      BY <1>7 DEF VisitRoot, h
    <2>2. h \in DOMAIN visited
      BY <1>7 DEF StateOf
    <2>3. R \subseteq ToSet(todo') \cup DOMAIN visited
      BY <1>3, <1>4, <2>2
    <2> QED BY <1>1, <1>3, <1>5, <2>1, <2>3, IdleStep DEF R
  <1>8. CASE h \in DOMAIN world.files /\ StateOf(h) = "new"
    <2>1. Begin(h, stack)
      BY <1>1, <1>8 DEF VisitRoot, h
    <2>2. h \in Reach(R)
      BY <1>3, <1>8, ReachLemmas
    <2>3. R \subseteq ToSet(todo') \cup DOMAIN visited \cup {h}
      BY <1>3, <1>4
    <2>4. DOMAIN stack = {}
      BY <1>1
    <2> QED BY <1>1, <1>3, <1>8, <2>1, <2>2, <2>3, <2>4, BeginStep DEF R
  <1> QED BY <1>6, <1>7, <1>8

LEMMA TopIsFile ==
  ASSUME LoadInv, stack # <<>>
  PROVE  /\ Len(stack) \in DOMAIN stack /\ Top = stack[Len(stack)]
         /\ DOMAIN stack = 1 .. Len(stack) /\ Len(stack) \in Nat
         /\ Top.path \in DOMAIN world.files /\ Top.path \in DOMAIN visited
  <1>1. /\ Len(stack) \in Nat \ {0} /\ DOMAIN stack = 1 .. Len(stack) /\ Top = stack[Len(stack)]
        /\ Top \in [path : DOMAIN world.files, next : Nat \ {0}]
    BY LastAndFront DEF LoadInv, LoadTypes, Top
  <1>2. StateOf(Top.path) = "active"
    BY <1>1 DEF LoadInv
  <1> QED BY <1>1, <1>2 DEF LoadInv

LEMMA UnresolvedStep ==
  ASSUME LoadInv, Unresolved
  PROVE  LoadInv'
  <1> DEFINE f == Top.path
             e == Top.next
             told == [code |-> "E0101", file |-> f, at |-> Edges(f)[e].import.path]
  <1>1. /\ phase = "load" /\ stack # <<>> /\ stack' = Advanced /\ phase' = "load"
        /\ diagnostics' = diagnostics \cup {told} /\ Target(f, e).module = None
        /\ UNCHANGED <<world, answers, todo, visited, files>>
    BY DEF Unresolved, Loading, Report, Edge, At
  <1>2. told.code = "E0101"
    OBVIOUS
  <1>3. Told("E0100")' => \E g \in DOMAIN visited : OnCycle(g)
    BY <1>1, <1>2 DEF Told, LoadInv
  <1>4. \A g, i : g = f /\ i = e => Answered(g, i)'
    <2>1. SUFFICES ASSUME NEW g, NEW i, g = f, i = e PROVE Answered(g, i)'
      OBVIOUS
    <2>2. told \in diagnostics' /\ told = [code |-> "E0101", file |-> g, at |-> Edges(g)[i].import.path]
      BY <1>1, <2>1
    <2>3. Target(g, i)'.module = None /\ Edges(g)' = Edges(g)
      BY <1>1, <2>1, SameWorld
    <2> QED BY <2>2, <2>3 DEF Answered
  <1>5. ~Follows(f, e)
    BY <1>1 DEF Follows
  <1> QED BY <1>1, <1>3, <1>4, <1>5, AdvanceStep

LEMMA PassOverStep ==
  ASSUME LoadInv, PassOver
  PROVE  LoadInv'
  <1> DEFINE f == Top.path
             e == Top.next
  <1>1. /\ phase = "load" /\ stack # <<>> /\ stack' = Advanced /\ phase' = "load"
        /\ HasEdge => Target(f, e).module # None /\ ~Follows(f, e)
        /\ UNCHANGED <<world, answers, todo, visited, files, diagnostics>>
    BY DEF PassOver, Loading, At
  <1>2. Told("E0100")' => \E g \in DOMAIN visited : OnCycle(g)
    BY <1>1 DEF Told, LoadInv
  <1>3. \A g, i : g = f /\ i = e /\ HasEdge => Answered(g, i)'
    <2>1. SUFFICES ASSUME NEW g, NEW i, g = f, i = e, HasEdge PROVE Answered(g, i)'
      OBVIOUS
    <2>2. Target(g, i)'.module # None /\ ~Follows(g, i)'
      BY <1>1, <2>1, SameWorld
    <2> QED BY <2>2 DEF Answered
  <1> QED BY <1>1, <1>2, <1>3, AdvanceStep

LEMMA CycleStep ==
  ASSUME LoadInv, Cycle
  PROVE  LoadInv'
  <1> DEFINE f == Top.path
             e == Top.next
             told == [code |-> "E0100", file |-> f, at |-> Edges(f)[e].import.path]
  <1>1. /\ phase = "load" /\ stack # <<>> /\ stack' = Advanced /\ phase' = "load"
        /\ diagnostics' = diagnostics \cup {told} /\ Follows(f, e) /\ HasEdge
        /\ At = Target(f, e) /\ StateOf(At.module) = "active"
        /\ UNCHANGED <<world, answers, todo, visited, files>>
    BY DEF Cycle, Loading, Report, Edge, At
  <1>2. OnCycle(f) /\ f \in DOMAIN visited
    <2>1. /\ Len(stack) \in DOMAIN stack /\ f = stack[Len(stack)].path
          /\ DOMAIN stack = 1 .. Len(stack) /\ Len(stack) \in Nat
          /\ f \in DOMAIN visited
      BY <1>1, TopIsFile
    <2>2. PICK k \in DOMAIN stack : stack[k].path = At.module
      BY <1>1 DEF LoadInv
    <2>3. k <= Len(stack)
      BY <2>1
    <2>4. f \in Reach({Target(f, e).module})
      BY <1>1, <2>1, <2>2, <2>3 DEF LoadInv, Chained
    <2>5. e \in DOMAIN Edges(f)
      BY <1>1 DEF HasEdge
    <2> QED BY <1>1, <2>1, <2>4, <2>5 DEF OnCycle
  <1>3. Told("E0100")' => \E g \in DOMAIN visited : OnCycle(g)
    BY <1>2
  <1>4. \A g, i : g = f /\ i = e => Answered(g, i)'
    <2>1. SUFFICES ASSUME NEW g, NEW i, g = f, i = e PROVE Answered(g, i)'
      OBVIOUS
    <2>2. told \in diagnostics' /\ told = [code |-> "E0100", file |-> g, at |-> Edges(g)[i].import.path]
      BY <1>1, <2>1
    <2>3. Follows(g, i)' /\ Edges(g)' = Edges(g)
      BY <1>1, <2>1, SameWorld
    <2> QED BY <2>2, <2>3 DEF Answered
  <1>5. At.module \in DOMAIN visited
    BY <1>1 DEF StateOf
  <1> QED BY <1>1, <1>3, <1>4, <1>5, AdvanceStep

LEMMA ImportedStep ==
  ASSUME LoadInv, Imported
  PROVE  LoadInv'
  <1>1. /\ phase = "load" /\ stack # <<>> /\ stack' = Advanced /\ phase' = "load"
        /\ StateOf(At.module) = "done"
        /\ UNCHANGED <<world, answers, todo, visited, files>>
    BY DEF Imported, Loading
  <1> DEFINE fault == ImportFault(Edge.import, At.module, At.item)
  <1>2. fault \in {NoName, "E0102", "E0103", "E0109"}
    BY DEF ImportFault
  <1>3. diagnostics' = diagnostics \/ (fault # NoName /\ diagnostics' = Report(fault))
    BY DEF Imported
  <1> HIDE DEF fault
  <1>4. fault # "E0100"
    BY <1>2 DEF NoName
  <1>5. diagnostics \subseteq diagnostics' /\ \A d \in diagnostics' : d \in diagnostics \/ d.code # "E0100"
    BY <1>3, <1>4 DEF Report
  <1>6. Told("E0100")' => \E g \in DOMAIN visited : OnCycle(g)
    BY <1>5 DEF Told, LoadInv
  <1>7. At.module \in DOMAIN visited /\ At.module \in Loaded
    BY <1>1 DEF StateOf, LoadInv
  <1> QED BY <1>1, <1>5, <1>6, <1>7, AdvanceStep

LEMMA DescendStep ==
  ASSUME LoadInv, Descend
  PROVE  LoadInv'
  <1> DEFINE f == Top.path
             e == Top.next
             g == Target(f, e).module
  <1>1. /\ phase = "load" /\ stack # <<>> /\ Follows(f, e) /\ HasEdge
        /\ StateOf(g) = "new" /\ Begin(g, stack)
        /\ UNCHANGED <<world, answers, todo, files, diagnostics>>
    BY DEF Descend, Loading, At
  <1>2. /\ f = stack[Len(stack)].path /\ Len(stack) \in DOMAIN stack
        /\ DOMAIN stack = 1 .. Len(stack) /\ Len(stack) \in Nat /\ f \in DOMAIN visited
    BY <1>1, TopIsFile
  <1>3. e \in DOMAIN Edges(f)
    BY <1>1 DEF HasEdge
  <1>4. g \in DOMAIN world.files
    BY <1>1, TargetIsFile
  <1>5. g \in Reach(ToSet(world.roots))
    <2>1. f \in Reach(ToSet(world.roots))
      BY <1>2 DEF LoadInv
    <2> QED BY <2>1, <1>1, <1>3, ReachLemmas
  <1>6. \A k \in DOMAIN stack : g \in Reach({stack[k].path})
    <2>1. \A k \in DOMAIN stack : f \in Reach({stack[k].path})
      BY <1>2 DEF LoadInv, Chained
    <2> QED BY <2>1, <1>1, <1>3, ReachLemmas
  <1>7. /\ todo' \in Seq(ToSet(world.roots))
        /\ ToSet(world.roots) \subseteq ToSet(todo') \cup DOMAIN visited \cup {g}
    BY <1>1 DEF LoadInv, LoadTypes
  <1> HIDE DEF g
  <1> QED BY <1>1, <1>4, <1>5, <1>6, <1>7, BeginStep

LEMMA CheckStep ==
  ASSUME LoadInv, Check
  PROVE  LoadInv'
  <1>1. /\ phase = "load" /\ stack = <<>> /\ todo = <<>> /\ phase' = "link"
        /\ UNCHANGED <<world, answers, todo, stack, visited, files>>
    BY DEF Check
  <1>2. diagnostics \subseteq diagnostics' /\ \A d \in diagnostics' : d \in diagnostics \/ d.code # "E0100"
    BY DEF Check, Hints, IdleExclusions
  <1>3. Told("E0100")' => Told("E0100")
    BY <1>2 DEF Told
  <1>4. /\ todo' \in Seq(ToSet(world.roots))
        /\ ToSet(world.roots) \subseteq ToSet(todo') \cup DOMAIN visited
    BY <1>1 DEF LoadInv, LoadTypes
  <1> QED BY <1>1, <1>2, <1>3, <1>4, IdleStep

\* Linking and classifying leave the graph alone.
LEMMA AfterLoad ==
  ASSUME LoadInv, UNCHANGED <<world, answers, todo, stack, visited, files, diagnostics>>,
         phase \notin {"load", "failed"} \/ UNCHANGED phase
  PROVE  LoadInv'
  <1>1. Told("E0100")' => Told("E0100")
    BY DEF Told
  <1>2. todo' \in Seq(ToSet(world.roots))
    BY DEF LoadInv, LoadTypes
  <1>3. phase' # "failed" => ToSet(world.roots) \subseteq ToSet(todo') \cup DOMAIN visited
    BY DEF LoadInv
  <1>4. phase' \notin {"load", "failed"} => todo' = <<>> /\ stack = <<>>
    BY DEF LoadInv
  <1> QED BY <1>1, <1>2, <1>3, <1>4, IdleStep

LEMMA LoadStep == LoadInv /\ [Next]_<<vars, classifying>> => LoadInv'
  <1> SUFFICES ASSUME LoadInv, [Next]_<<vars, classifying>> PROVE LoadInv'
    OBVIOUS
  <1>1. CASE Load
    <2>1. CASE Link
      BY <2>1, AfterLoad DEF Link
    <2> QED BY <1>1, <2>1, VisitRootStep, UnresolvedStep, PassOverStep, CycleStep, DescendStep,
               ImportedStep, LeaveStep, CheckStep DEF Load
  <1>2. CASE CheckTraits
    BY <1>2, AfterLoad DEF CheckTraits
  <1>3. CASE InClassify
    BY <1>3, AfterLoad DEF InClassify, vars
  <1>4. CASE Rewrite
    BY <1>4, AfterLoad DEF Rewrite
  <1>5. CASE UNCHANGED vars
    BY <1>5, AfterLoad DEF vars
  <1> QED BY <1>1, <1>2, <1>3, <1>4, <1>5 DEF Next, NextDecl, CallOutside, CallUnknown, CallPending,
             CallKnown, AllCalled, Calling, Ended

\* The inductive invariant of a load: what the marks, the stack and the stored
\* files say of one another and of the edges behind them.
THEOREM LoadInvariant == Spec => []LoadInv
  <1>1. FrontInit => LoadInv
    BY LoadInit DEF FrontInit
  <1> QED BY <1>1, LoadStep, PTL DEF Spec

\* Files are stored once, and after every file they import or forward, unless
\* the edge was reported or names one item (modules.rs:43).
THEOREM StoredInLoadOrder == Spec => []LoadedInOrder
  <1>1. LoadInv => LoadedInOrder
    <2> SUFFICES ASSUME LoadInv PROVE LoadedInOrder
      OBVIOUS
    <2>1. \A i, j \in DOMAIN files : files[i] = files[j] => i = j
      BY DEF LoadInv
    <2>2. ASSUME NEW k \in DOMAIN files, NEW i \in DOMAIN Edges(files[k]), ~Answered(files[k], i)
          PROVE  /\ Target(files[k], i).module \in Loaded
                 /\ Position(Target(files[k], i).module) < k
      <3>1. PICK m \in DOMAIN files : m < k /\ files[m] = Target(files[k], i).module
        BY <2>2 DEF LoadInv, StoredInOrder
      <3>2. Position(files[m]) = m
        BY <2>1 DEF Position
      <3> QED BY <3>1, <3>2 DEF Loaded, ToSet
    <2> QED BY <2>1, <2>2 DEF LoadedInOrder
  <1> QED BY <1>1, LoadInvariant, PTL

LEMMA LoadedIsReached ==
  ASSUME LoadInv, phase = "link"
  PROVE  Loaded = Reach(ToSet(world.roots)) /\ DOMAIN visited = Loaded
  <1>1. todo = <<>> /\ stack = <<>> /\ DOMAIN stack = {} /\ ToSet(todo) = {}
    BY DEF LoadInv, ToSet
  <1>2. DOMAIN visited = Loaded
    BY <1>1 DEF LoadInv
  <1>3. Loaded \subseteq Reach(ToSet(world.roots)) /\ Loaded \subseteq DOMAIN world.files
    BY <1>2 DEF LoadInv, LoadTypes
  <1>4. ToSet(world.roots) \subseteq Loaded
    BY <1>1, <1>2 DEF LoadInv
  <1>5. ClosedUnderEdges(Loaded)
    <2>1. SUFFICES ASSUME NEW f \in Loaded, NEW i \in DOMAIN Edges(f), Follows(f, i)
                   PROVE  Target(f, i).module \in Loaded
      BY DEF ClosedUnderEdges
    <2>2. PICK k \in DOMAIN files : files[k] = f
      BY DEF Loaded, ToSet
    <2> QED BY <2>1, <2>2, <1>2 DEF LoadInv, StoredInOrder
  <1>6. Reach(ToSet(world.roots)) \subseteq Loaded
    BY <1>3, <1>4, <1>5 DEF Reach
  <1> QED BY <1>2, <1>3, <1>6

\* When no edge closes a cycle, edges only lead to files stored before, and so
\* does whatever is reached by them.
LEMMA NoCycleUntold ==
  ASSUME LoadInv, phase = "link", NEW f \in Loaded, OnCycle(f)
  PROVE  Told("E0100")
  <1> SUFFICES ASSUME ~Told("E0100") PROVE FALSE
    OBVIOUS
  <1>1. PICK i \in DOMAIN Edges(f) : Follows(f, i) /\ f \in Reach({Target(f, i).module})
    BY DEF OnCycle
  <1>2. \A k \in DOMAIN files : \A e \in DOMAIN Edges(files[k]) :
          Follows(files[k], e) => \E m \in DOMAIN files : m < k /\ files[m] = Target(files[k], e).module
    <2>1. SUFFICES ASSUME NEW k \in DOMAIN files, NEW e \in DOMAIN Edges(files[k]), Follows(files[k], e)
                   PROVE  \E m \in DOMAIN files : m < k /\ files[m] = Target(files[k], e).module
      OBVIOUS
    <2>2. ~Answered(files[k], e)
      <3>1. Target(files[k], e).module # None
        BY <2>1 DEF Follows
      <3>2. ASSUME Answered(files[k], e) PROVE FALSE
        <4>1. [code |-> "E0100", file |-> files[k], at |-> Edges(files[k])[e].import.path] \in diagnostics
          BY <2>1, <3>1, <3>2 DEF Answered
        <4> QED BY <4>1 DEF Told
      <3> QED BY <3>2
    <2> QED BY <2>1, <2>2 DEF LoadInv, StoredInOrder
  <1>3. PICK k \in DOMAIN files : files[k] = f
    BY DEF Loaded, ToSet
  <1>4. PICK m \in DOMAIN files : m < k /\ files[m] = Target(f, i).module
    BY <1>1, <1>2, <1>3
  <1> DEFINE S == {files[l] : l \in {j \in DOMAIN files : j <= m}}
  <1>5. files \in Seq(DOMAIN world.files) /\ DOMAIN files = 1 .. Len(files) /\ Len(files) \in Nat
    BY LenProperties DEF LoadInv, LoadTypes
  <1>6. S \in SUBSET DOMAIN world.files
    BY <1>5, ElementOfSeq
  <1>7. ClosedUnderEdges(S)
    <2>1. SUFFICES ASSUME NEW g \in S, NEW e \in DOMAIN Edges(g), Follows(g, e)
                   PROVE  Target(g, e).module \in S
      BY DEF ClosedUnderEdges
    <2>2. PICK l \in DOMAIN files : l <= m /\ files[l] = g
      OBVIOUS
    <2>3. PICK j \in DOMAIN files : j < l /\ files[j] = Target(g, e).module
      BY <1>2, <2>1, <2>2
    <2>4. j <= m
      BY <1>5, <2>2, <2>3
    <2> QED BY <2>3, <2>4
  <1>8. {Target(f, i).module} \subseteq S
    BY <1>4, <1>5
  <1>9. f \in S
    BY <1>1, <1>6, <1>7, <1>8 DEF Reach
  <1>10. PICK l \in DOMAIN files : l <= m /\ files[l] = f
    BY <1>9
  <1>11. l = k
    BY <1>3, <1>10 DEF LoadInv
  <1> QED BY <1>4, <1>5, <1>10, <1>11

\* A load that ends has stored what the roots reach, and a cycle is reported
\* exactly when there is one among the files (modules.rs:693).
THEOREM LoadIsCompleteAndLoud == Spec => []CyclesAreLoud
  <1>1. LoadInv => CyclesAreLoud
    <2> SUFFICES ASSUME LoadInv, phase = "link"
                 PROVE  /\ Loaded = Reach(ToSet(world.roots))
                        /\ Told("E0100") <=> \E file \in Loaded : OnCycle(file)
      BY DEF CyclesAreLoud, Told
    <2>1. Loaded = Reach(ToSet(world.roots)) /\ DOMAIN visited = Loaded
      BY LoadedIsReached
    <2>2. Told("E0100") => \E file \in Loaded : OnCycle(file)
      BY <2>1 DEF LoadInv
    <2> QED BY <2>1, <2>2, NoCycleUntold
  <1> QED BY <1>1, LoadInvariant, PTL

-----------------------------------------------------------------------------
(* The invariant of a classification *)

\* A call that leaves the caller's kind open: what it calls is known, and is a
\* function or a component.
Passing(use) ==
  \/ ~Looked(use)
  \/ Known(use.name) /\ status[use.name] \in {"function", "component"}

\* The first call that decides goes to a declaration of a given kind.
Decided(decl, kind) ==
  \E i \in DOMAIN decl.uses :
    /\ Looked(decl.uses[i]) /\ Known(decl.uses[i].name) /\ status[decl.uses[i].name] = kind
    /\ \A j \in DOMAIN decl.uses : j < i => Passing(decl.uses[j])

\* The innermost declaration has met a cycle: until the walk has returned, those
\* it closes are still pending.
Unwinding ==
  /\ open # <<>> /\ Innermost.next \in DOMAIN Calls
  /\ Looked(Callee) /\ Known(Callee.name) /\ status[Callee.name] = "cycle"

Grounded(name) ==
  IF Settled(Decl(name)) THEN status[name] = ByShape(Decl(name))
  ELSE \/ status[name] = "function" /\ Decided(Decl(name), "struct")
       \/ /\ status[name] = "component"
          /\ \A i \in DOMAIN Decl(name).uses : Passing(Decl(name).uses[i])
       \/ /\ status[name] = "cycle"
          /\ \/ Decided(Decl(name), "cycle")
             \/ Unwinding /\ Decided(Decl(name), "pending")

WalkTypes ==
  /\ open \in Seq([name : NamesOf("bare"), next : Nat \ {0}])
  /\ DOMAIN status \subseteq NamesOf("bare")
  /\ \A n \in DOMAIN status : status[n] \in Kinds \cup {"pending"}

OpenIsPending ==
  /\ \A n \in DOMAIN status : status[n] = "pending" <=> \E k \in DOMAIN open : open[k].name = n
  /\ \A k \in DOMAIN open : Known(open[k].name)
  /\ \A j, k \in DOMAIN open : open[j].name = open[k].name => j = k

\* What is open has passed the calls before its own, and but for the innermost
\* it waits for the one above it.
OpenIsChained ==
  \A k \in DOMAIN open :
    LET uses == Decl(open[k].name).uses
    IN /\ ~Settled(Decl(open[k].name))
       /\ \A i \in DOMAIN uses : i < open[k].next => Passing(uses[i])
       /\ k < Len(open) =>
            /\ open[k].next \in DOMAIN uses
            /\ Looked(uses[open[k].next]) /\ uses[open[k].next].name = open[k + 1].name

KindsGrounded == \A n \in DOMAIN status : status[n] # "pending" => Grounded(n)

KindsLeast ==
  \A kinds \in [NamesOf("bare") -> Kinds] :
    ExplainsItself(kinds) =>
      \A n \in DOMAIN status : status[n] \in {kinds[n], "cycle", "pending"}

CyclesReported == cycles # {} <=> \E n \in DOMAIN status : status[n] = "cycle"

UsesAreSequences ==
  \A name \in NamesOf("bare") : IsSequence(Decl(name).uses)

WalkInv ==
  /\ UsesAreSequences
  /\ WalkTypes
  /\ OpenIsPending
  /\ OpenIsChained
  /\ KindsGrounded
  /\ KindsLeast
  /\ CyclesReported

\* An entry of the linked program: an item, and where it comes from.
GoodEntry(entry) == {"own", "at", "item"} \subseteq DOMAIN entry /\ IsItem(entry.item)
GoodEntries(s) == IsSequence(s) /\ \A i \in DOMAIN s : GoodEntry(s[i])

ClassifyInv ==
  /\ phase \notin {"classify", "done"} => status = <<>> /\ open = <<>> /\ cycles = {}
  /\ phase = "resolve" => GoodEntries(program)
  /\ phase = "classify" => WalkInv

-----------------------------------------------------------------------------
(* Each step of the walk *)

LEMMA SameProgram ==
  ASSUME UNCHANGED program
  PROVE  /\ NamesOf("bare")' = NamesOf("bare")
         /\ \A n : Decl(n)' = Decl(n)
         /\ \A use : Looked(use)' <=> Looked(use)
         /\ \A kinds : ExplainsItself(kinds)' <=> ExplainsItself(kinds)
         /\ UsesAreSequences' <=> UsesAreSequences
  <1>1. NamesOf("bare")' = NamesOf("bare")
    BY DEF NamesOf, OfKind
  <1>2. \A n : Decl(n)' = Decl(n)
    BY DEF Decl, Latest, OfKind
  <1>3. \A use : Looked(use)' <=> Looked(use)
    BY <1>1 DEF Looked, IsDecl
  <1>4. \A kinds : ExplainsItself(kinds)' <=> ExplainsItself(kinds)
    BY <1>1, <1>2, <1>3 DEF ExplainsItself, KindGiven, FirstIs, Passed
  <1>5. UsesAreSequences' <=> UsesAreSequences
    BY <1>1, <1>2 DEF UsesAreSequences
  <1> QED BY <1>1, <1>2, <1>3, <1>4, <1>5

\* A kind that was found is kept.
Kept ==
  \A n \in DOMAIN status :
    /\ n \in DOMAIN status'
    /\ status[n] # "pending" => status'[n] = status[n]

LEMMA KeptKinds ==
  ASSUME UNCHANGED program, Kept
  PROVE  /\ \A use : Passing(use) => Passing(use)'
         /\ \A decl, kind : kind # "pending" /\ Decided(decl, kind) => Decided(decl, kind)'
         /\ \A n \in DOMAIN status :
              (/\ status[n] # "pending" /\ Grounded(n)
               /\ Unwinding => \A decl : Decided(decl, "pending")
                                  => \/ Decided(decl, "cycle")'
                                     \/ Unwinding' /\ Decided(decl, "pending")')
                => Grounded(n)'
  <1>1. /\ \A n : Decl(n)' = Decl(n)
        /\ \A use : Looked(use)' <=> Looked(use)
    BY SameProgram
  <1>2. \A use : Passing(use) => Passing(use)'
    BY <1>1 DEF Passing, Kept, Known
  <1>3. \A decl, kind : kind # "pending" /\ Decided(decl, kind) => Decided(decl, kind)'
    BY <1>1, <1>2 DEF Decided, Kept, Known
  <1>4. ASSUME NEW n \in DOMAIN status, status[n] # "pending", Grounded(n),
               Unwinding => \A decl : Decided(decl, "pending")
                               => \/ Decided(decl, "cycle")'
                                  \/ Unwinding' /\ Decided(decl, "pending")'
        PROVE  Grounded(n)'
    <2>1. status'[n] = status[n] /\ Decl(n)' = Decl(n)
      BY <1>1, <1>4 DEF Kept
    <2>2. CASE Settled(Decl(n))
      BY <1>4, <2>1, <2>2 DEF Grounded
    <2>3. CASE ~Settled(Decl(n)) /\ status[n] = "function" /\ Decided(Decl(n), "struct")
      <3>1. Decided(Decl(n), "struct")'
        BY <1>3, <2>1, <2>3
      <3> QED BY <2>1, <2>3, <3>1 DEF Grounded
    <2>4. CASE /\ ~Settled(Decl(n)) /\ status[n] = "component"
               /\ \A i \in DOMAIN Decl(n).uses : Passing(Decl(n).uses[i])
      <3>1. ASSUME NEW i \in DOMAIN Decl(n).uses PROVE Passing(Decl(n).uses[i])'
        <4>1. Passing(Decl(n).uses[i])
          BY <2>4
        <4> QED BY <1>2, <2>1, <4>1
      <3> QED BY <2>1, <2>4, <3>1 DEF Grounded
    <2>5. CASE ~Settled(Decl(n)) /\ status[n] = "cycle" /\ Decided(Decl(n), "cycle")
      <3>1. Decided(Decl(n), "cycle")'
        BY <1>3, <2>1, <2>5
      <3> QED BY <2>1, <2>5, <3>1 DEF Grounded
    <2>6. CASE ~Settled(Decl(n)) /\ status[n] = "cycle" /\ Unwinding /\ Decided(Decl(n), "pending")
      <3>1. \/ Decided(Decl(n), "cycle")'
            \/ Unwinding' /\ Decided(Decl(n), "pending")'
        BY <1>4, <2>1, <2>6
      <3> QED BY <2>1, <2>6, <3>1 DEF Grounded
    <2> QED BY <1>4, <2>2, <2>3, <2>4, <2>5, <2>6 DEF Grounded
  <1> QED BY <1>2, <1>3, <1>4

LEMMA KindsGiven ==
  ASSUME NEW decl, NEW known
  PROVE  /\ Settled(decl) => KindGiven(decl, known) = ByShape(decl)
         /\ ~Settled(decl) /\ FirstIs(decl, known, "struct") => KindGiven(decl, known) = "function"
         /\ ~Settled(decl) /\ ~FirstIs(decl, known, "struct") /\ FirstIs(decl, known, "cycle")
              => KindGiven(decl, known) = "cycle"
         /\ ~Settled(decl) /\ ~FirstIs(decl, known, "struct") /\ ~FirstIs(decl, known, "cycle")
              => KindGiven(decl, known) = "component"
  BY DEF KindGiven

\* Whatever kinds explain themselves agree with what the walk has settled.
LEMMA LeastOfCalls ==
  ASSUME WalkInv, NEW kinds \in [NamesOf("bare") -> Kinds], ExplainsItself(kinds),
         NEW name \in NamesOf("bare")
  PROVE  /\ Settled(Decl(name)) => kinds[name] = ByShape(Decl(name))
         /\ ~Settled(Decl(name)) /\ Decided(Decl(name), "struct") => kinds[name] = "function"
         /\ ~Settled(Decl(name)) /\ (\A i \in DOMAIN Decl(name).uses : Passing(Decl(name).uses[i]))
              => kinds[name] = "component"
  <1>1. kinds[name] = KindGiven(Decl(name), kinds)
    BY DEF ExplainsItself
  <1>2. \A n \in DOMAIN status : status[n] \in {kinds[n], "cycle", "pending"}
    BY DEF WalkInv, KindsLeast
  <1>3. \A use : Passing(use) => Passed(use, kinds)
    BY <1>2 DEF Passing, Passed, Known
  <1>4. ~Settled(Decl(name)) /\ Decided(Decl(name), "struct") => kinds[name] = "function"
    <2>1. Decided(Decl(name), "struct") => FirstIs(Decl(name), kinds, "struct")
      BY <1>2, <1>3 DEF Decided, FirstIs, Known
    <2> QED BY <1>1, <2>1, KindsGiven
  <1>5. ASSUME ~Settled(Decl(name)), \A i \in DOMAIN Decl(name).uses : Passing(Decl(name).uses[i])
        PROVE  kinds[name] = "component"
    <2>1. \A i \in DOMAIN Decl(name).uses : Passed(Decl(name).uses[i], kinds)
      BY <1>3, <1>5
    <2>2. ~FirstIs(Decl(name), kinds, "struct") /\ ~FirstIs(Decl(name), kinds, "cycle")
      BY <2>1 DEF FirstIs, Passed
    <2> QED BY <1>1, <1>5, <2>2, KindsGiven
  <1> QED BY <1>1, <1>4, <1>5, KindsGiven

\* A declaration whose body settles it takes its kind at once.
LEMMA LearnStep ==
  ASSUME WalkInv, UNCHANGED <<program, open, cycles>>, ~Unwinding,
         NEW name \in NamesOf("bare"), ~Known(name), Settled(Decl(name)),
         status' = Set(name, ByShape(Decl(name)))
  PROVE  WalkInv'
  <1> DEFINE kind == ByShape(Decl(name))
  <1>0. kind \in {"struct", "function"}
    BY DEF ByShape
  <1>1. /\ DOMAIN status' = DOMAIN status \cup {name} /\ status'[name] = kind
        /\ \A n \in DOMAIN status : n # name /\ status'[n] = status[n]
    BY DEF Set, Known
  <1>2. Kept
    BY <1>1 DEF Kept
  <1>3. /\ NamesOf("bare")' = NamesOf("bare") /\ UsesAreSequences'
        /\ \A n : Decl(n)' = Decl(n)
        /\ \A use : Looked(use)' <=> Looked(use)
        /\ \A kinds : ExplainsItself(kinds)' <=> ExplainsItself(kinds)
    BY SameProgram DEF WalkInv
  <1> HIDE DEF kind
  <1>4. WalkTypes'
    BY <1>0, <1>1, <1>3 DEF WalkInv, WalkTypes, Kinds
  <1>5. OpenIsPending'
    <2>1. \A k \in DOMAIN open : open[k].name # name
      BY DEF WalkInv, OpenIsPending
    <2> QED BY <1>0, <1>1, <2>1 DEF WalkInv, OpenIsPending, Known
  <1>6. OpenIsChained'
    BY <1>2, <1>3, KeptKinds DEF WalkInv, OpenIsChained
  <1>7. KindsGrounded'
    <2>1. Grounded(name)'
      BY <1>1, <1>3 DEF Grounded, kind
    <2>2. \A n \in DOMAIN status : status[n] # "pending" => Grounded(n)'
      BY <1>2, KeptKinds DEF WalkInv, KindsGrounded
    <2> QED BY <1>1, <2>1, <2>2 DEF KindsGrounded
  <1>8. KindsLeast'
    <2>1. \A kinds \in [NamesOf("bare") -> Kinds] : ExplainsItself(kinds) => kinds[name] = kind
      BY LeastOfCalls DEF kind
    <2>2. \A kinds \in [NamesOf("bare") -> Kinds] : ExplainsItself(kinds) =>
            \A n \in DOMAIN status : status[n] \in {kinds[n], "cycle", "pending"}
      BY DEF WalkInv, KindsLeast
    <2> QED BY <1>1, <1>3, <2>1, <2>2 DEF KindsLeast
  <1>9. CyclesReported'
    BY <1>0, <1>1 DEF WalkInv, CyclesReported
  <1> QED BY <1>3, <1>4, <1>5, <1>6, <1>7, <1>8, <1>9 DEF WalkInv

\* What Passing says of the next state.
Later(use) ==
  \/ ~Looked(use)
  \/ use.name \in DOMAIN status' /\ status'[use.name] \in {"function", "component"}

ChainedLater(k) ==
  /\ ~Settled(Decl(open'[k].name))
  /\ \A i \in DOMAIN Decl(open'[k].name).uses :
       i < open'[k].next => Later(Decl(open'[k].name).uses[i])
  /\ k < Len(open') =>
       /\ open'[k].next \in DOMAIN Decl(open'[k].name).uses
       /\ Looked(Decl(open'[k].name).uses[open'[k].next])
       /\ Decl(open'[k].name).uses[open'[k].next].name = open'[k + 1].name

LEMMA LaterIsPassing ==
  ASSUME UNCHANGED program, Kept
  PROVE  /\ \A use : Passing(use) => Later(use)
         /\ (\A k \in DOMAIN open' : ChainedLater(k)) => OpenIsChained'
  <1>1. /\ \A n : Decl(n)' = Decl(n)
        /\ \A use : Looked(use)' <=> Looked(use)
    BY SameProgram
  <1>2. \A use : Passing(use) => Later(use)
    BY DEF Passing, Later, Kept, Known
  <1>3. \A use : Later(use) => Passing(use)'
    BY <1>1 DEF Later, Passing, Known
  <1>4. (\A k \in DOMAIN open' : ChainedLater(k)) => OpenIsChained'
    BY <1>1, <1>3 DEF ChainedLater, OpenIsChained
  <1> QED BY <1>2, <1>4

\* The innermost declaration, without the sequence it is the last of.
LEMMA OpenShape ==
  ASSUME WalkInv, open # <<>>
  PROVE  /\ Len(open) \in Nat \ {0} /\ DOMAIN open = 1 .. Len(open)
         /\ Innermost = open[Len(open)] /\ Innermost.name \in NamesOf("bare")
         /\ Innermost.next \in Nat \ {0}
         /\ Known(Innermost.name) /\ status[Innermost.name] = "pending"
         /\ ~Settled(Decl(Innermost.name))
         /\ DOMAIN Calls = 1 .. Len(Calls) /\ Len(Calls) \in Nat
  <1>1. open \in Seq([name : NamesOf("bare"), next : Nat \ {0}])
    BY DEF WalkInv, WalkTypes
  <1>2. /\ Len(open) \in Nat \ {0} /\ DOMAIN open = 1 .. Len(open)
        /\ Innermost = open[Len(open)] /\ Innermost.name \in NamesOf("bare")
        /\ Innermost.next \in Nat \ {0}
    <2>1. /\ Len(open) \in Nat \ {0} /\ DOMAIN open = 1 .. Len(open)
          /\ Last(open) = open[Len(open)]
          /\ Last(open) \in [name : NamesOf("bare"), next : Nat \ {0}]
      BY <1>1, LastAndFront
    <2> QED BY <2>1 DEF Innermost
  <1>3. Known(Innermost.name) /\ status[Innermost.name] = "pending" /\ ~Settled(Decl(Innermost.name))
    BY <1>2 DEF WalkInv, OpenIsPending, OpenIsChained, Known
  <1>4. Calls \in Seq(ToSet(Calls))
    BY <1>2 DEF WalkInv, UsesAreSequences, IsSequence, Calls
  <1> QED BY <1>2, <1>3, <1>4, LenProperties

\* A declaration that is all calls is opened, and its caller waits for it.
LEMMA OpenStep ==
  ASSUME WalkInv, UNCHANGED <<program, cycles>>, ~Unwinding,
         NEW name \in NamesOf("bare"), ~Known(name), ~Settled(Decl(name)),
         open # <<>> => Innermost.next \in DOMAIN Calls /\ Looked(Callee) /\ Callee.name = name,
         status' = Set(name, "pending"),
         open' = Append(open, [name |-> name, next |-> 1])
  PROVE  WalkInv'
  <1>1. /\ DOMAIN status' = DOMAIN status \cup {name} /\ status'[name] = "pending"
        /\ \A n \in DOMAIN status : n # name /\ status'[n] = status[n]
    BY DEF Set, Known
  <1>2. Kept
    BY <1>1 DEF Kept
  <1>3. /\ NamesOf("bare")' = NamesOf("bare") /\ UsesAreSequences'
        /\ \A n : Decl(n)' = Decl(n)
        /\ \A use : Looked(use)' <=> Looked(use)
        /\ \A kinds : ExplainsItself(kinds)' <=> ExplainsItself(kinds)
    BY SameProgram DEF WalkInv
  <1>4. /\ open' \in Seq([name : NamesOf("bare"), next : Nat \ {0}])
        /\ Len(open) \in Nat /\ Len(open') = Len(open) + 1
        /\ DOMAIN open = 1 .. Len(open) /\ DOMAIN open' = 1 .. Len(open) + 1
        /\ \A k \in 1 .. Len(open) : open'[k] = open[k]
        /\ open'[Len(open) + 1] = [name |-> name, next |-> 1]
    BY Appended DEF WalkInv, WalkTypes
  <1>5. WalkTypes'
    BY <1>1, <1>3, <1>4 DEF WalkInv, WalkTypes
  <1>6. OpenIsPending'
    <2>1. \A k \in DOMAIN open : open[k].name # name /\ Known(open[k].name)
      BY DEF WalkInv, OpenIsPending
    <2>2. \A n \in DOMAIN status' : status'[n] = "pending" <=> \E k \in DOMAIN open' : open'[k].name = n
      BY <1>1, <1>4, <2>1 DEF WalkInv, OpenIsPending
    <2>3. \A k \in DOMAIN open' : open'[k].name \in DOMAIN status'
      BY <1>1, <1>4, <2>1 DEF Known
    <2>4. \A j, k \in DOMAIN open' : open'[j].name = open'[k].name => j = k
      BY <1>4, <2>1 DEF WalkInv, OpenIsPending
    <2> QED BY <2>2, <2>3, <2>4 DEF OpenIsPending, Known
  <1>7. OpenIsChained'
    <2> SUFFICES ASSUME NEW k \in DOMAIN open' PROVE ChainedLater(k)
      BY <1>2, LaterIsPassing
    <2>0. \A use : Passing(use) => Later(use)
      BY <1>2, LaterIsPassing
    <2>1. CASE k = Len(open) + 1
      <3>1. DOMAIN Decl(name).uses \subseteq Nat \ {0}
        BY LenProperties DEF WalkInv, UsesAreSequences, IsSequence
      <3> QED BY <1>4, <2>1, <3>1 DEF ChainedLater
    <2>2. CASE k = Len(open)
      <3>1. open # <<>> /\ Innermost = open[k]
        BY <1>4, <2>2, OpenShape
      <3>2. k \in DOMAIN open /\ open'[k] = open[k] /\ open'[k + 1].name = name
        BY <1>4, <2>2, <3>1, OpenShape
      <3>3. /\ ~Settled(Decl(open[k].name))
            /\ \A i \in DOMAIN Calls : i < open[k].next => Passing(Calls[i])
        BY <3>1, <3>2 DEF WalkInv, OpenIsChained, Calls
      <3> QED BY <1>4, <2>0, <2>2, <3>1, <3>2, <3>3 DEF Calls, Callee, ChainedLater
    <2>3. CASE k < Len(open)
      <3>1. k \in DOMAIN open /\ open'[k] = open[k] /\ open'[k + 1] = open[k + 1]
        BY <1>4, <2>3
      <3>2. /\ ~Settled(Decl(open[k].name))
            /\ \A i \in DOMAIN Decl(open[k].name).uses :
                 i < open[k].next => Passing(Decl(open[k].name).uses[i])
            /\ open[k].next \in DOMAIN Decl(open[k].name).uses
            /\ Looked(Decl(open[k].name).uses[open[k].next])
            /\ Decl(open[k].name).uses[open[k].next].name = open[k + 1].name
        BY <2>3, <3>1 DEF WalkInv, OpenIsChained
      <3> QED BY <2>0, <3>1, <3>2 DEF ChainedLater
    <2> QED BY <1>4, <2>1, <2>2, <2>3
  <1>8. KindsGrounded'
    <2>1. \A n \in DOMAIN status : status[n] # "pending" => Grounded(n)'
      BY <1>2, KeptKinds DEF WalkInv, KindsGrounded
    <2> QED BY <1>1, <2>1 DEF KindsGrounded
  <1>9. KindsLeast'
    BY <1>1, <1>3 DEF WalkInv, KindsLeast
  <1>10. CyclesReported'
    BY <1>1 DEF WalkInv, CyclesReported
  <1> QED BY <1>3, <1>5, <1>6, <1>7, <1>8, <1>9, <1>10 DEF WalkInv

\* A call that does not decide is gone past.
LEMMA PassStep ==
  ASSUME WalkInv, UNCHANGED <<program, status, cycles>>, Calling, Passing(Callee), open' = NextCall
  PROVE  WalkInv'
  <1> DEFINE last == Len(open)
  <1>1. open # <<>> /\ Innermost.next <= Len(Calls)
    BY DEF Calling
  <1>2. /\ last \in Nat \ {0} /\ DOMAIN open = 1 .. last /\ Innermost = open[last]
        /\ DOMAIN Calls = 1 .. Len(Calls) /\ Len(Calls) \in Nat /\ Innermost.next \in Nat \ {0}
    BY <1>1, OpenShape
  <1>3. open \in Seq([name : NamesOf("bare"), next : Nat \ {0}])
    BY DEF WalkInv, WalkTypes
  <1>4. /\ open' \in Seq([name : NamesOf("bare"), next : Nat \ {0}])
        /\ Len(open') = last /\ DOMAIN open' = 1 .. last
        /\ \A k \in 1 .. last : /\ open'[k].name = open[k].name
                                /\ k # last => open'[k].next = open[k].next
        /\ open'[last].next = open[last].next + 1
    <2> DEFINE new == [open[last] EXCEPT !.next = open[last].next + 1]
    <2>1. \A k \in 1 .. last : open[k] \in [name : NamesOf("bare"), next : Nat \ {0}]
      BY <1>3, ElementOfSeq
    <2>2. open' = [open EXCEPT ![last] = new]
      BY DEF NextCall
    <2>3. /\ new \in [name : NamesOf("bare"), next : Nat \ {0}]
          /\ new.name = open[last].name /\ new.next = open[last].next + 1
      BY <1>2, <2>1
    <2> HIDE DEF new, last
    <2>4. /\ open' \in Seq([name : NamesOf("bare"), next : Nat \ {0}])
          /\ Len(open') = last
          /\ \A k \in 1 .. last : open'[k] = IF k = last THEN new ELSE open[k]
      BY <1>2, <1>3, <2>2, <2>3, ExceptSeq DEF last
    <2>5. DOMAIN open' = 1 .. last
      BY <2>4, LenProperties
    <2> QED BY <1>2, <2>3, <2>4, <2>5
  <1>5. /\ NamesOf("bare")' = NamesOf("bare") /\ UsesAreSequences'
        /\ \A n : Decl(n)' = Decl(n)
        /\ \A use : Looked(use)' <=> Looked(use)
        /\ \A kinds : ExplainsItself(kinds)' <=> ExplainsItself(kinds)
    BY SameProgram DEF WalkInv
  <1>6. Kept
    BY DEF Kept
  <1> HIDE DEF last
  <1>7. WalkTypes'
    BY <1>4, <1>5 DEF WalkInv, WalkTypes
  <1>8. OpenIsPending'
    <2>1. DOMAIN open' = DOMAIN open /\ \A k \in DOMAIN open : open'[k].name = open[k].name
      BY <1>2, <1>4
    <2>2. OpenIsPending
      BY DEF WalkInv
    <2> QED BY <2>1, <2>2 DEF OpenIsPending, Known
  <1>9. OpenIsChained'
    <2> SUFFICES ASSUME NEW k \in 1 .. last PROVE ChainedLater(k)
      BY <1>4, <1>6, LaterIsPassing
    <2>1. \A use : Passing(use) => Later(use)
      BY <1>6, LaterIsPassing
    <2>2. /\ ~Settled(Decl(open[k].name))
          /\ \A i \in DOMAIN Decl(open[k].name).uses :
               i < open[k].next => Passing(Decl(open[k].name).uses[i])
      BY <1>2 DEF WalkInv, OpenIsChained
    <2>3. CASE k # last
      <3>1. k < last /\ k + 1 \in 1 .. last /\ open'[k].next = open[k].next
        BY <1>2, <1>4, <2>3
      <3>2. /\ open[k].next \in DOMAIN Decl(open[k].name).uses
            /\ Looked(Decl(open[k].name).uses[open[k].next])
            /\ Decl(open[k].name).uses[open[k].next].name = open[k + 1].name
        BY <1>2, <3>1 DEF WalkInv, OpenIsChained, last
      <3>3. open'[k].name = open[k].name /\ open'[k + 1].name = open[k + 1].name
        BY <1>4, <3>1
      <3> QED BY <2>1, <2>2, <3>1, <3>2, <3>3 DEF ChainedLater
    <2>4. CASE k = last
      <3>1. Decl(open[k].name).uses = Calls
        BY <1>2, <2>4 DEF Calls
      <3>2. \A i \in DOMAIN Calls : i < open[last].next + 1 => i < open[last].next \/ i = open[last].next
        BY <1>2
      <3>3. \A i \in DOMAIN Calls : i < open[last].next + 1 => Passing(Calls[i])
        BY <1>2, <2>2, <2>4, <3>1, <3>2 DEF Callee
      <3>4. open'[k].name = open[k].name /\ open'[k].next = open[last].next + 1 /\ ~(k < Len(open'))
        BY <1>2, <1>4, <2>4
      <3> QED BY <2>1, <2>2, <2>4, <3>1, <3>3, <3>4 DEF ChainedLater
    <2> QED BY <2>3, <2>4
  <1>10. ~Unwinding
    BY DEF Unwinding, Passing
  <1>11. KindsGrounded'
    BY <1>6, <1>10, KeptKinds DEF WalkInv, KindsGrounded
  <1>12. KindsLeast'
    BY <1>5 DEF WalkInv, KindsLeast
  <1>13. CyclesReported'
    BY DEF WalkInv, CyclesReported
  <1> QED BY <1>5, <1>7, <1>8, <1>9, <1>11, <1>12, <1>13 DEF WalkInv

\* While cycles are being closed, what was said to lead into a pending
\* declaration still does, or leads into a cycle by now.
LEMMA UnwindLater ==
  ASSUME WalkInv, UNCHANGED program, open # <<>>, Finish("cycle"),
         NEW decl, Decided(decl, "pending")
  PROVE  \/ Decided(decl, "cycle")'
         \/ Unwinding' /\ Decided(decl, "pending")'
  <1> DEFINE last == Len(open)
  <1>0. PICK m : m = Innermost.name
    OBVIOUS
  <1>1. /\ last \in Nat \ {0} /\ DOMAIN open = 1 .. last
        /\ Innermost = open[last] /\ m = open[last].name
        /\ Known(m) /\ status[m] = "pending"
    BY <1>0, OpenShape
  <1>2. /\ DOMAIN status' = DOMAIN status /\ status'[m] = "cycle"
        /\ \A n \in DOMAIN status : n # m => status'[n] = status[n]
    BY <1>0, <1>1 DEF Finish, Set, Known
  <1>3. Kept
    BY <1>1, <1>2 DEF Kept
  <1>4. /\ \A n : Decl(n)' = Decl(n)
        /\ \A use : Looked(use)' <=> Looked(use)
        /\ \A use : Passing(use) => Passing(use)'
    BY <1>3, SameProgram, KeptKinds
  <1>5. PICK i \in DOMAIN decl.uses :
          /\ Looked(decl.uses[i]) /\ Known(decl.uses[i].name) /\ status[decl.uses[i].name] = "pending"
          /\ \A j \in DOMAIN decl.uses : j < i => Passing(decl.uses[j])
    BY DEF Decided
  <1>6. \A j \in DOMAIN decl.uses : j < i => Passing(decl.uses[j])'
    BY <1>4, <1>5
  <1>7. CASE decl.uses[i].name = m
    BY <1>2, <1>4, <1>5, <1>6, <1>7 DEF Decided, Known
  <1>8. CASE decl.uses[i].name # m
    <2>1. Decided(decl, "pending")'
      BY <1>2, <1>4, <1>5, <1>6, <1>8 DEF Decided, Known
    <2>2. PICK k \in 1 .. last : open[k].name = decl.uses[i].name
      BY <1>1, <1>5 DEF WalkInv, OpenIsPending, Known
    <2> HIDE DEF last
    <2>3. k # last /\ last - 1 \in 1 .. last - 1 /\ last - 1 \in 1 .. last /\ last - 1 + 1 = last
      BY <1>1, <1>8, <2>2
    <2>4. /\ open[last - 1].next \in DOMAIN Decl(open[last - 1].name).uses
          /\ Looked(Decl(open[last - 1].name).uses[open[last - 1].next])
          /\ Decl(open[last - 1].name).uses[open[last - 1].next].name = open[last].name
      <3>1. last - 1 \in DOMAIN open /\ last - 1 < last
        BY <1>1, <2>3
      <3>2. last - 1 < Len(open)
        BY <3>1 DEF last
      <3> QED BY <2>3, <3>1, <3>2 DEF WalkInv, OpenIsChained
    <2>5. open' # <<>> /\ Last(open') = open[last - 1]
      <3>1. open \in Seq([name : NamesOf("bare"), next : Nat \ {0}])
        BY DEF WalkInv, WalkTypes
      <3>2. /\ open' \in Seq([name : NamesOf("bare"), next : Nat \ {0}])
            /\ Len(open') = last - 1 /\ \A j \in 1 .. last - 1 : open'[j] = open[j]
        BY <3>1, LastAndFront DEF Finish, last
      <3>3. Len(open') # 0
        BY <1>1, <2>3, <3>2
      <3>4. open' # <<>>
        BY <3>3
      <3>5. Last(open') = open'[last - 1]
        BY <3>2 DEF Last
      <3> QED BY <2>3, <3>2, <3>4, <3>5
    <2>6. Unwinding'
      BY <1>1, <1>2, <1>4, <2>4, <2>5 DEF Unwinding, Innermost, Calls, Callee, Known
    <2> QED BY <2>1, <2>6
  <1> QED BY <1>7, <1>8

\* The innermost declaration gets its kind, by the call that decides or by there
\* being none.
LEMMA FinishStep ==
  ASSUME WalkInv, UNCHANGED program, open # <<>>, NEW kind \in Kinds, Finish(kind),
         kind = "cycle" => /\ cycles' # {}
                           /\ \/ Decided(Decl(Innermost.name), "cycle")
                              \/ Decided(Decl(Innermost.name), "pending"),
         kind # "cycle" => UNCHANGED cycles /\ ~Unwinding,
         kind # "struct",
         kind = "function" => Decided(Decl(Innermost.name), "struct"),
         kind = "component" => \A i \in DOMAIN Calls : Passing(Calls[i])
  PROVE  WalkInv'
  <1> DEFINE last == Len(open)
  <1>0. PICK m : m = Innermost.name
    OBVIOUS
  <1>1. /\ last \in Nat \ {0} /\ DOMAIN open = 1 .. last /\ m = open[last].name
        /\ Known(m) /\ status[m] = "pending" /\ m \in NamesOf("bare") /\ ~Settled(Decl(m))
    BY <1>0, OpenShape
  <1>2. /\ DOMAIN status' = DOMAIN status /\ status'[m] = kind
        /\ \A n \in DOMAIN status : n # m => status'[n] = status[n]
    BY <1>0, <1>1 DEF Finish, Set, Known
  <1>3. Kept
    BY <1>1, <1>2 DEF Kept
  <1>4. /\ NamesOf("bare")' = NamesOf("bare") /\ UsesAreSequences'
        /\ \A n : Decl(n)' = Decl(n)
        /\ \A use : Looked(use)' <=> Looked(use)
        /\ \A kinds : ExplainsItself(kinds)' <=> ExplainsItself(kinds)
    BY SameProgram DEF WalkInv
  <1>5. /\ open' \in Seq([name : NamesOf("bare"), next : Nat \ {0}])
        /\ Len(open') = last - 1 /\ DOMAIN open' = 1 .. last - 1
        /\ \A j \in 1 .. last - 1 : open'[j] = open[j]
    <2>1. open \in Seq([name : NamesOf("bare"), next : Nat \ {0}])
      BY DEF WalkInv, WalkTypes
    <2> QED BY <2>1, LastAndFront DEF Finish, last
  <1>6. kind # "pending" /\ \A n \in DOMAIN status : status[n] \in Kinds \cup {"pending"}
    BY DEF Kinds, WalkInv, WalkTypes
  <1> HIDE DEF last
  <1>7. WalkTypes'
    <2>1. DOMAIN status' \subseteq NamesOf("bare")
      BY <1>2 DEF WalkInv, WalkTypes
    <2>2. \A n \in DOMAIN status' : status'[n] \in Kinds \cup {"pending"}
      BY <1>2, <1>6
    <2> QED BY <1>4, <1>5, <2>1, <2>2 DEF WalkTypes
  <1>8. OpenIsPending'
    <2>1. \A j, k \in 1 .. last : open[j].name = open[k].name => j = k
      BY <1>1 DEF WalkInv, OpenIsPending
    <2>2. \A k \in 1 .. last : open[k].name \in DOMAIN status
      BY <1>1 DEF WalkInv, OpenIsPending, Known
    <2>3. \A j \in 1 .. last - 1 : j \in 1 .. last /\ open[j].name # m
      BY <1>1, <2>1
    <2>4. \A n \in DOMAIN status : n # m =>
            (status[n] = "pending" <=> \E k \in 1 .. last - 1 : open[k].name = n)
      <3>1. \A k \in 1 .. last : k \in 1 .. last - 1 \/ k = last
        BY <1>1
      <3> QED BY <1>1, <2>3, <3>1 DEF WalkInv, OpenIsPending
    <2>5. \A n \in DOMAIN status' : status'[n] = "pending" <=> \E k \in DOMAIN open' : open'[k].name = n
      BY <1>2, <1>5, <1>6, <2>3, <2>4
    <2> QED BY <1>2, <1>5, <2>1, <2>2, <2>3, <2>5 DEF OpenIsPending, Known
  <1>9. OpenIsChained'
    <2> SUFFICES ASSUME NEW k \in DOMAIN open' PROVE ChainedLater(k)
      BY <1>3, LaterIsPassing
    <2>1. \A use : Passing(use) => Later(use)
      BY <1>3, LaterIsPassing
    <2>2. k \in DOMAIN open /\ k < Len(open) /\ open'[k] = open[k]
      BY <1>1, <1>5 DEF last
    <2>3. k < Len(open') => open'[k + 1] = open[k + 1]
      BY <1>1, <1>5
    <2>4. /\ ~Settled(Decl(open[k].name))
          /\ \A i \in DOMAIN Decl(open[k].name).uses :
               i < open[k].next => Passing(Decl(open[k].name).uses[i])
          /\ open[k].next \in DOMAIN Decl(open[k].name).uses
          /\ Looked(Decl(open[k].name).uses[open[k].next])
          /\ Decl(open[k].name).uses[open[k].next].name = open[k + 1].name
      BY <2>2 DEF WalkInv, OpenIsChained
    <2> QED BY <2>1, <2>2, <2>3, <2>4 DEF ChainedLater
  <1>10. KindsGrounded'
    <2>1. Unwinding => \A decl : Decided(decl, "pending")
                         => \/ Decided(decl, "cycle")'
                            \/ Unwinding' /\ Decided(decl, "pending")'
      BY UnwindLater
    <2>2. \A n \in DOMAIN status : status[n] # "pending" => Grounded(n)'
      BY <1>3, <2>1, KeptKinds DEF WalkInv, KindsGrounded
    <2>3. Grounded(m)'
      <3>0. Grounded(m)' <=> (\/ status'[m] = "function" /\ Decided(Decl(m), "struct")'
                              \/ /\ status'[m] = "component"
                                 /\ \A i \in DOMAIN Decl(m).uses : Passing(Decl(m).uses[i])'
                              \/ /\ status'[m] = "cycle"
                                 /\ \/ Decided(Decl(m), "cycle")'
                                    \/ (Unwinding' /\ Decided(Decl(m), "pending")'))
        BY <1>1, <1>4 DEF Grounded
      <3>1. CASE kind = "function"
        <4>1. Decided(Decl(m), "struct")'
          <5>1. Decided(Decl(m), "struct")
            BY <1>0, <3>1
          <5> QED BY <1>3, <1>4, <5>1, KeptKinds
        <4> QED BY <1>2, <3>0, <3>1, <4>1
      <3>2. CASE kind = "component"
        <4>1. ASSUME NEW i \in DOMAIN Decl(m).uses PROVE Passing(Decl(m).uses[i])'
          <5>1. Passing(Decl(m).uses[i])
            BY <1>0, <3>2 DEF Calls
          <5> QED BY <1>3, <1>4, <5>1, KeptKinds
        <4> QED BY <1>2, <3>0, <3>2, <4>1
      <3>3. CASE kind = "cycle"
        <4>1. \/ Decided(Decl(m), "cycle")'
              \/ Unwinding' /\ Decided(Decl(m), "pending")'
          <5>1. CASE Decided(Decl(m), "cycle")
            BY <1>3, <1>4, <5>1, KeptKinds
          <5>2. CASE Decided(Decl(m), "pending")
            <6>1. Finish("cycle")
              BY <3>3
            <6>2. ASSUME NEW decl, Decided(decl, "pending")
                  PROVE  \/ Decided(decl, "cycle")'
                         \/ Unwinding' /\ Decided(decl, "pending")'
              BY <6>1, <6>2, UnwindLater
            <6> QED BY <1>4, <5>2, <6>2
          <5> QED BY <1>0, <3>3, <5>1, <5>2
        <4> QED BY <1>2, <3>0, <3>3, <4>1
      <3> QED BY <3>1, <3>2, <3>3 DEF Kinds
    <2> QED BY <1>2, <2>2, <2>3, <1>6 DEF KindsGrounded
  <1>11. KindsLeast'
    <2> SUFFICES ASSUME NEW kinds \in [NamesOf("bare") -> Kinds], ExplainsItself(kinds)
                 PROVE  \A n \in DOMAIN status : status'[n] \in {kinds[n], "cycle", "pending"}
      BY <1>2, <1>4 DEF KindsLeast
    <2>1. \A n \in DOMAIN status : status[n] \in {kinds[n], "cycle", "pending"}
      BY DEF WalkInv, KindsLeast
    <2>2. kind \in {kinds[m], "cycle"}
      BY <1>0, <1>1, LeastOfCalls DEF Kinds, Calls
    <2> QED BY <1>2, <2>1, <2>2
  <1>12. CyclesReported'
    <2>1. CASE kind = "cycle"
      BY <1>1, <1>2, <2>1 DEF CyclesReported, Known
    <2>2. CASE kind # "cycle"
      BY <1>1, <1>2, <2>2 DEF WalkInv, CyclesReported, Known
    <2> QED BY <2>1, <2>2
  <1> QED BY <1>4, <1>7, <1>8, <1>9, <1>10, <1>11, <1>12 DEF WalkInv

LEMMA NextDeclStep ==
  ASSUME WalkInv, NEW name \in NamesOf("bare"), NextDecl(name)
  PROVE  WalkInv'
  <1>1. UNCHANGED <<program, cycles>> /\ open = <<>> /\ ~Known(name) /\ ~Unwinding
    BY DEF NextDecl, InClassify, vars, Unwinding
  <1>2. CASE Settled(Decl(name))
    <2>1. status' = Set(name, ByShape(Decl(name))) /\ open' = open
      BY <1>1, <1>2 DEF NextDecl, Classify
    <2> QED BY <1>1, <1>2, <2>1, LearnStep
  <1>3. CASE ~Settled(Decl(name))
    <2>1. status' = Set(name, "pending") /\ open' = Append(open, [name |-> name, next |-> 1])
      BY <1>1, <1>3 DEF NextDecl, Classify
    <2> QED BY <1>1, <1>3, <2>1, OpenStep
  <1> QED BY <1>2, <1>3

LEMMA CallOutsideStep == WalkInv /\ CallOutside => WalkInv'
  BY PassStep DEF CallOutside, Passing, Calling, InClassify, vars

LEMMA CallUnknownStep ==
  ASSUME WalkInv, CallUnknown
  PROVE  WalkInv'
  <1>0. PICK name : name = Callee.name
    OBVIOUS
  <1>1. /\ UNCHANGED <<program, cycles>> /\ open # <<>> /\ Innermost.next <= Len(Calls)
        /\ Looked(Callee) /\ ~Known(name) /\ name \in NamesOf("bare") /\ Classify(name, open)
    BY <1>0 DEF CallUnknown, Calling, InClassify, vars, Looked, IsDecl
  <1>2. Innermost.next \in DOMAIN Calls
    BY <1>1, OpenShape
  <1>3. ~Unwinding
    BY <1>0, <1>1 DEF Unwinding
  <1>4. CASE Settled(Decl(name))
    <2>1. status' = Set(name, ByShape(Decl(name))) /\ open' = open
      BY <1>1, <1>4 DEF Classify
    <2> QED BY <1>1, <1>3, <1>4, <2>1, LearnStep
  <1>5. CASE ~Settled(Decl(name))
    <2>1. status' = Set(name, "pending") /\ open' = Append(open, [name |-> name, next |-> 1])
      BY <1>1, <1>5 DEF Classify
    <2> QED BY <1>0, <1>1, <1>2, <1>3, <1>5, <2>1, OpenStep
  <1> QED BY <1>4, <1>5

\* The call that decides stands where the innermost declaration has got to.
LEMMA CalleeDecides ==
  ASSUME WalkInv, Calling, Looked(Callee), Known(Callee.name)
  PROVE  Decided(Decl(Innermost.name), status[Callee.name])
  <1>1. open # <<>> /\ Innermost.next <= Len(Calls)
    BY DEF Calling
  <1>2. Innermost.next \in DOMAIN Calls
    BY <1>1, OpenShape
  <1>3. \A j \in DOMAIN Calls : j < Innermost.next => Passing(Calls[j])
    <2>1. Len(open) \in DOMAIN open /\ Innermost = open[Len(open)]
      BY <1>1, OpenShape
    <2> QED BY <2>1 DEF WalkInv, OpenIsChained, Calls
  <1> QED BY <1>2, <1>3 DEF Decided, Calls, Callee

LEMMA CallPendingStep ==
  ASSUME WalkInv, CallPending
  PROVE  WalkInv'
  <1>1. /\ UNCHANGED program /\ open # <<>> /\ cycles' # {} /\ Finish("cycle")
        /\ Decided(Decl(Innermost.name), "pending")
    <2>1. Calling /\ Looked(Callee) /\ Known(Callee.name) /\ status[Callee.name] = "pending"
      BY DEF CallPending
    <2>2. Decided(Decl(Innermost.name), "pending")
      BY <2>1, CalleeDecides
    <2> QED BY <2>1, <2>2 DEF CallPending, Calling, InClassify, vars
  <1>2. "cycle" \in Kinds
    BY DEF Kinds
  <1> QED BY <1>1, <1>2, FinishStep

LEMMA CallKnownStep ==
  ASSUME WalkInv, CallKnown
  PROVE  WalkInv'
  <1>1. /\ Calling /\ Looked(Callee) /\ Known(Callee.name) /\ status[Callee.name] # "pending"
        /\ UNCHANGED <<program, cycles>> /\ open # <<>>
    BY DEF CallKnown, Calling, InClassify, vars
  <1>2. Decided(Decl(Innermost.name), status[Callee.name])
    BY <1>1, CalleeDecides
  <1>3. "cycle" \in Kinds /\ "function" \in Kinds
    BY DEF Kinds
  <1>4. CASE status[Callee.name] = "cycle"
    <2>1. Finish("cycle")
      BY <1>4 DEF CallKnown
    <2>2. cycles' # {}
      BY <1>1, <1>4 DEF WalkInv, CyclesReported, Known
    <2> QED BY <1>1, <1>2, <1>3, <1>4, <2>1, <2>2, FinishStep
  <1>5. CASE status[Callee.name] = "struct"
    <2>1. Finish("function")
      BY <1>5 DEF CallKnown
    <2>2. ~Unwinding
      BY <1>5 DEF Unwinding
    <2> QED BY <1>1, <1>2, <1>3, <1>5, <2>1, <2>2, FinishStep
  <1>6. CASE status[Callee.name] \notin {"cycle", "struct"}
    <2>1. open' = NextCall /\ UNCHANGED status
      BY <1>6 DEF CallKnown
    <2>2. Passing(Callee)
      BY <1>1, <1>6 DEF Passing, WalkInv, WalkTypes, Kinds, Known
    <2> QED BY <1>1, <2>1, <2>2, PassStep
  <1> QED BY <1>4, <1>5, <1>6

LEMMA AllCalledStep ==
  ASSUME WalkInv, AllCalled
  PROVE  WalkInv'
  <1>1. /\ UNCHANGED <<program, cycles>> /\ open # <<>> /\ Finish("component")
        /\ Innermost.next > Len(Calls)
    BY DEF AllCalled, InClassify, vars
  <1>2. /\ DOMAIN Calls = 1 .. Len(Calls) /\ Len(Calls) \in Nat /\ Innermost.next \in Nat
        /\ Len(open) \in DOMAIN open /\ Innermost = open[Len(open)]
    BY <1>1, OpenShape
  <1>3. \A i \in DOMAIN Calls : i < Innermost.next => Passing(Calls[i])
    BY <1>2 DEF WalkInv, OpenIsChained, Calls
  <1>4. \A i \in DOMAIN Calls : Passing(Calls[i])
    <2>1. \A i \in DOMAIN Calls : i < Innermost.next
      BY <1>1, <1>2
    <2> QED BY <1>3, <2>1
  <1>5. ~Unwinding
    BY <1>1, <1>2 DEF Unwinding
  <1>6. "component" \in Kinds
    BY DEF Kinds
  <1> QED BY <1>1, <1>4, <1>5, <1>6, FinishStep

LEMMA WalkStart ==
  ASSUME UsesAreSequences, status = <<>>, open = <<>>, cycles = {}
  PROVE  WalkInv
  <1>1. DOMAIN status = {} /\ DOMAIN open = {} /\ open \in Seq([name : NamesOf("bare"), next : Nat \ {0}])
    OBVIOUS
  <1> QED BY <1>1 DEF WalkInv, WalkTypes, OpenIsPending, OpenIsChained, KindsGrounded, KindsLeast,
             CyclesReported

\* What the walk has found, once it has found everything.
LEMMA WalkIsOrderFree == WalkInv /\ phase = "classify" => KindsAreOrderFree
  <1> SUFFICES ASSUME WalkInv, open = <<>>, NamesOf("bare") \subseteq DOMAIN status
               PROVE  /\ ExplainsItself(status)
                      /\ \A kinds \in [NamesOf("bare") -> Kinds] :
                           ExplainsItself(kinds) =>
                             \A name \in NamesOf("bare") : status[name] \in {kinds[name], "cycle"}
                      /\ cycles # {} <=> \E name \in NamesOf("bare") : status[name] = "cycle"
    BY DEF KindsAreOrderFree
  <1>1. NamesOf("bare") = DOMAIN status
    BY DEF WalkInv, WalkTypes
  <1>2. \A n \in DOMAIN status : status[n] # "pending" /\ Grounded(n)
    <2>1. DOMAIN open = {}
      OBVIOUS
    <2> QED BY <2>1 DEF WalkInv, OpenIsPending, KindsGrounded
  <1>3. ~Unwinding
    BY DEF Unwinding
  <1>4. ExplainsItself(status)
    <2> SUFFICES ASSUME NEW n \in NamesOf("bare") PROVE status[n] = KindGiven(Decl(n), status)
      BY DEF ExplainsItself
    <2>1. Grounded(n)
      BY <1>1, <1>2
    <2>2. \A use : Passing(use) => Passed(use, status)
      BY DEF Passing, Passed
    <2>3. \A decl, kind : Decided(decl, kind) => FirstIs(decl, status, kind)
      BY <2>2 DEF Decided, FirstIs
    <2>4. CASE Settled(Decl(n))
      BY <2>1, <2>4, KindsGiven DEF Grounded
    <2>5. CASE ~Settled(Decl(n)) /\ status[n] = "function" /\ Decided(Decl(n), "struct")
      BY <2>3, <2>5, KindsGiven
    <2>6. CASE /\ ~Settled(Decl(n)) /\ status[n] = "component"
               /\ \A i \in DOMAIN Decl(n).uses : Passing(Decl(n).uses[i])
      <3>1. ~FirstIs(Decl(n), status, "struct") /\ ~FirstIs(Decl(n), status, "cycle")
        BY <2>2, <2>6 DEF FirstIs, Passed
      <3> QED BY <2>6, <3>1, KindsGiven
    <2>7. CASE ~Settled(Decl(n)) /\ status[n] = "cycle" /\ Decided(Decl(n), "cycle")
      <3>1. FirstIs(Decl(n), status, "cycle")
        BY <2>3, <2>7
      <3>2. DOMAIN Decl(n).uses \subseteq Nat
        BY LenProperties DEF WalkInv, UsesAreSequences, IsSequence
      <3>3. ~FirstIs(Decl(n), status, "struct")
        BY <3>1, <3>2 DEF FirstIs, Passed
      <3> QED BY <2>7, <3>1, <3>3, KindsGiven
    <2> QED BY <1>3, <2>1, <2>4, <2>5, <2>6, <2>7 DEF Grounded
  <1> QED BY <1>1, <1>2, <1>4 DEF WalkInv, KindsLeast, CyclesReported

-----------------------------------------------------------------------------
(* What the linker hands over *)

LEMMA Least ==
  ASSUME NEW S \in SUBSET Nat, S # {}
  PROVE  \E m \in S : \A n \in S : m <= n
  <1>1. PICK m \in S : \A n \in S : ~(<<n, m>> \in OpToRel(<, Nat))
    BY NatLessThanWellFounded, WFMin
  <1>2. \A n \in S : ~(n < m)
    BY <1>1 DEF OpToRel
  <1> QED BY <1>2

LEMMA Greatest ==
  ASSUME NEW n \in Nat, NEW S \in SUBSET (1 .. n), S # {}
  PROVE  \E m \in S : \A k \in S : k <= m
  <1> DEFINE T == {n - k : k \in S}
  <1>1. \A k \in S : n - k \in Nat
    OBVIOUS
  <1>2. T \in SUBSET Nat /\ T # {}
    BY <1>1
  <1>3. PICK t \in T : \A u \in T : t <= u
    <2> HIDE DEF T
    <2> QED BY <1>2, Least
  <1>4. PICK m \in S : t = n - m
    BY <1>3
  <1>5. \A k \in S : n - m <= n - k
    BY <1>3, <1>4
  <1> QED BY <1>5

\* A sequence of sequences, flattened: there is a function that the recursion
\* describes, and it builds up sequences of the same elements.
LEMMA FlattenUnfolds ==
  ASSUME NEW S, NEW ss \in Seq(Seq(S)), Len(ss) # 0
  PROVE  \E f : /\ FlattenSeq(ss) = f[Len(ss)]
                /\ \A i \in 1 .. Len(ss) :
                     f[i] \in Seq(S) /\ f[i] = IF i = 1 THEN ss[i] ELSE f[i - 1] \o ss[i]
  <1> DEFINE n == Len(ss)
             Step(f, i) == IF i = 1 THEN ss[i] ELSE f[i - 1] \o ss[i]
             Flattens(f, m) == f = [i \in 1 .. m |-> Step(f, i)]
  <1>1. n \in Nat /\ \A i \in 1 .. n : ss[i] \in Seq(S)
    BY LenProperties, ElementOfSeq
  <1>2. n # 0
    OBVIOUS
  <1> HIDE DEF n
  <1>3. \E f : Flattens(f, n)
    <2> DEFINE Bad == {m \in 1 .. n : ~\E f : Flattens(f, m)}
    <2> HIDE DEF Flattens
    <2>0. n \in 1 .. n
      BY <1>1, <1>2
    <2>1. SUFFICES ASSUME Bad # {} PROVE FALSE
      BY <2>0, Zenon
    <2>2. Bad \in SUBSET Nat
      BY <1>1
    <2>3. PICK m \in Bad : \A k \in Bad : m <= k
      <3> HIDE DEF Bad
      <3> QED BY <2>1, <2>2, Least
    <2>4. m \in 1 .. n /\ m \in Nat /\ ~\E f : Flattens(f, m)
      BY <1>1
    <2>5. m # 1
      <3>1. Flattens([i \in 1 .. 1 |-> ss[1]], 1)
        BY DEF Flattens
      <3> QED BY <2>4, <3>1
    <2>6. m - 1 \in 1 .. n /\ m - 1 \notin Bad
      <3>1. m - 1 \in 1 .. n /\ ~(m <= m - 1)
        BY <1>1, <2>4, <2>5
      <3> HIDE DEF Bad
      <3> QED BY <2>3, <3>1
    <2>7. PICK f : Flattens(f, m - 1)
      BY <2>6
    <2>8. f = [i \in 1 .. m - 1 |-> Step(f, i)]
      BY <2>7 DEF Flattens
    <2>9. PICK g : g = [i \in 1 .. m |-> Step(f, i)]
      OBVIOUS
    <2>10. \A i \in 1 .. m - 1 : i \in 1 .. m
      BY <2>4
    <2> HIDE DEF Step, Bad
    <2>11. \A i \in 1 .. m - 1 : g[i] = f[i]
      BY <2>8, <2>9, <2>10
    <2>12. \A i \in 1 .. m : Step(g, i) = Step(f, i)
      <3>1. \A i \in 1 .. m : i # 1 => i - 1 \in 1 .. m - 1
        BY <2>4
      <3> QED BY <2>11, <3>1 DEF Step
    <2>13. Flattens(g, m)
      BY <2>9, <2>12 DEF Flattens
    <2> QED BY <2>4, <2>13
  <1>4. PICK F : F = CHOOSE f : Flattens(f, n)
    OBVIOUS
  <1>5. Flattens(F, n)
    BY <1>3, <1>4
  <1>6. FlattenSeq(ss) = F[n]
    BY <1>2, <1>4 DEF FlattenSeq, n
  <1>7. \A i \in 1 .. n : F[i] \in Seq(S)
    <2> DEFINE Bad == {i \in 1 .. n : F[i] \notin Seq(S)}
    <2> HIDE DEF Step, Flattens
    <2>1. SUFFICES ASSUME Bad # {} PROVE FALSE
      OBVIOUS
    <2>2. PICK i \in Bad : \A k \in Bad : i <= k
      <3>1. Bad \in SUBSET Nat
        BY <1>1
      <3> HIDE DEF Bad
      <3> QED BY <2>1, <3>1, Least
    <2>3. F[i] = Step(F, i) /\ ss[i] \in Seq(S)
      BY <1>1, <1>5 DEF Flattens
    <2>4. i # 1
      BY <2>3 DEF Step
    <2>5. i - 1 \in 1 .. n /\ i - 1 \notin Bad
      BY <1>1, <2>2, <2>4
    <2>6. F[i - 1] \in Seq(S)
      BY <2>5
    <2>7. F[i] \in Seq(S)
      BY <2>3, <2>4, <2>6, ConcatProperties DEF Step
    <2> QED BY <2>2, <2>7
  <1> QED BY <1>1, <1>2, <1>5, <1>6, <1>7 DEF n, Flattens, Step

LEMMA FlattenIsSeq ==
  ASSUME NEW S, NEW ss \in Seq(Seq(S))
  PROVE  FlattenSeq(ss) \in Seq(S)
  <1>1. Len(ss) \in Nat
    BY LenProperties
  <1>2. CASE Len(ss) = 0
    BY <1>2, EmptySeq DEF FlattenSeq
  <1>3. CASE Len(ss) # 0
    BY <1>1, <1>3, FlattenUnfolds
  <1> QED BY <1>2, <1>3

LEMMA MappedIsSequence ==
  ASSUME NEW s, IsSequence(s), NEW t, t = [i \in DOMAIN s |-> t[i]]
  PROVE  IsSequence(t) /\ DOMAIN t = DOMAIN s
  <1>1. Len(s) \in Nat /\ DOMAIN s = 1 .. Len(s)
    BY LenProperties DEF IsSequence
  <1>2. DOMAIN t = 1 .. Len(s)
    BY <1>1
  <1>3. t \in [1 .. Len(s) -> ToSet(t)]
    BY <1>1, <1>2 DEF ToSet
  <1>4. t \in Seq(ToSet(t))
    BY <1>1, <1>3, SeqDef
  <1> QED BY <1>1, <1>2, <1>4 DEF IsSequence

LEMMA SeqIsSequence ==
  ASSUME NEW S, NEW s \in Seq(S)
  PROVE  IsSequence(s) /\ \A i \in DOMAIN s : s[i] \in S
  <1>1. Len(s) \in Nat /\ DOMAIN s = 1 .. Len(s) /\ s \in [1 .. Len(s) -> S]
    BY LenProperties
  <1>2. s \in [1 .. Len(s) -> ToSet(s)]
    BY <1>1 DEF ToSet
  <1>3. s \in Seq(ToSet(s))
    BY <1>1, <1>2, SeqDef
  <1> QED BY <1>1, <1>3 DEF IsSequence

LEMMA FlattenIsGood ==
  ASSUME NEW ss, IsSequence(ss), \A i \in DOMAIN ss : GoodEntries(ss[i])
  PROVE  GoodEntries(FlattenSeq(ss))
  <1> DEFINE S == UNION {ToSet(ss[i]) : i \in DOMAIN ss}
  <1>1. \A e \in S : GoodEntry(e)
    BY DEF GoodEntries, ToSet
  <1>2. Len(ss) \in Nat /\ DOMAIN ss = 1 .. Len(ss) /\ ss = [i \in DOMAIN ss |-> ss[i]]
    BY LenProperties DEF IsSequence
  <1>3. ASSUME NEW i \in DOMAIN ss PROVE ss[i] \in Seq(S)
    <2>1. ss[i] \in Seq(ToSet(ss[i])) /\ ToSet(ss[i]) \subseteq S
      BY DEF GoodEntries, IsSequence
    <2> HIDE DEF S
    <2> QED BY <2>1, SeqMonotonic
  <1> HIDE DEF S
  <1>4. ss \in Seq(Seq(S))
    <2>1. ss \in [1 .. Len(ss) -> Seq(S)]
      BY <1>2, <1>3
    <2> QED BY <1>2, <2>1, SeqDef
  <1>5. FlattenSeq(ss) \in Seq(S)
    BY <1>4, FlattenIsSeq
  <1> QED BY <1>1, <1>5, SeqIsSequence DEF GoodEntries

LEMMA FewIsGood ==
  /\ GoodEntries(<<>>)
  /\ \A e : GoodEntry(e) => GoodEntries(<<e>>)
  <1>1. IsSequence(<<>>) /\ DOMAIN <<>> = {}
    BY DEF IsSequence
  <1>2. \A e : <<e>> \in Seq({e}) /\ DOMAIN <<e>> = {1} /\ <<e>>[1] = e
    OBVIOUS
  <1>3. \A e : IsSequence(<<e>>)
    BY <1>2, SeqIsSequence
  <1> QED BY <1>1, <1>2, <1>3 DEF GoodEntries

\* A copy is its item but for the mark of its export.
LEMMA CopyShape ==
  ASSUME WorldOK, NEW f \in DOMAIN world.files, NEW j \in DOMAIN Items(f)
  PROVE  /\ Copy(f, j) = [own |-> FALSE, at |-> Offset(f, j), item |-> Copy(f, j).item]
         /\ IsItem(Copy(f, j).item)
         /\ Copy(f, j).item.kind = Items(f)[j].kind
         /\ Copy(f, j).item.name = Items(f)[j].name
         /\ Copy(f, j).item.uses = Items(f)[j].uses
  <1>1. PICK old : old = Items(f)[j]
    OBVIOUS
  <1>2. IsItem(old)
    BY <1>1 DEF WorldOK
  <1>3. PICK item : item = [old EXCEPT !.exported = FALSE]
    OBVIOUS
  <1>4. Copy(f, j) = [own |-> FALSE, at |-> Offset(f, j), item |-> item]
    BY <1>1, <1>3 DEF Copy
  <1>5. /\ DOMAIN item = DOMAIN old
        /\ item.kind = old.kind /\ item.name = old.name /\ item.uses = old.uses
    BY <1>2, <1>3 DEF IsItem
  <1>6. IsItem(item) /\ Copy(f, j).item = item
    BY <1>2, <1>4, <1>5 DEF IsItem
  <1> QED BY <1>1, <1>4, <1>5, <1>6

\* A copy under another name.
Alias(f, j, name) == [Copy(f, j) EXCEPT !.item.name = name]

LEMMA RenameShape ==
  ASSUME WorldOK, NEW f \in DOMAIN world.files, NEW j \in DOMAIN Items(f), NEW name
  PROVE  /\ GoodEntry(Alias(f, j, name))
         /\ Alias(f, j, name).own = FALSE
         /\ Alias(f, j, name).item.kind = Items(f)[j].kind
  <1>1. PICK item : item = Copy(f, j).item
    OBVIOUS
  <1>2. PICK copy : copy = Copy(f, j)
    OBVIOUS
  <1>3. IsItem(item) /\ item.kind = Items(f)[j].kind
    BY <1>1, CopyShape
  <1>4. copy = [own |-> FALSE, at |-> Offset(f, j), item |-> item]
    BY <1>1, <1>2, CopyShape
  <1>5. PICK renamed : renamed = [item EXCEPT !.name = name]
    OBVIOUS
  <1>6. /\ DOMAIN renamed = DOMAIN item
        /\ renamed.kind = item.kind /\ renamed.name = name /\ renamed.uses = item.uses
    BY <1>3, <1>5 DEF IsItem
  <1>7. PICK entry : entry = [copy EXCEPT !.item.name = name]
    OBVIOUS
  <1>8. /\ DOMAIN entry = {"own", "at", "item"}
        /\ entry.item = renamed /\ entry.own = FALSE
    BY <1>4, <1>5, <1>7
  <1>9. IsItem(renamed)
    BY <1>3, <1>6 DEF IsItem
  <1>10. Alias(f, j, name) = entry
    BY <1>2, <1>7 DEF Alias
  <1> QED BY <1>3, <1>6, <1>8, <1>9, <1>10 DEF GoodEntry

LEMMA RenameNames ==
  ASSUME WorldOK, NEW f \in DOMAIN world.files, NEW j \in DOMAIN Items(f), NEW name
  PROVE  Alias(f, j, name).item.name = name
  <1>1. PICK item : item = Copy(f, j).item
    OBVIOUS
  <1>2. PICK copy : copy = Copy(f, j)
    OBVIOUS
  <1>3. copy = [own |-> FALSE, at |-> Offset(f, j), item |-> item] /\ IsItem(item)
    BY <1>1, <1>2, CopyShape
  <1>4. PICK entry : entry = [copy EXCEPT !.item.name = name]
    OBVIOUS
  <1>5. entry.item = [item EXCEPT !.name = name]
    BY <1>3, <1>4
  <1>6. entry.item.name = name
    BY <1>3, <1>5 DEF IsItem
  <1> QED BY <1>2, <1>4, <1>6 DEF Alias

LEMMA CopyIsGood ==
  ASSUME WorldOK, NEW f \in DOMAIN world.files, NEW j \in DOMAIN Items(f)
  PROVE  /\ GoodEntry(Copy(f, j))
         /\ \A name : GoodEntry(Alias(f, j, name))
  <1>1. GoodEntry(Copy(f, j))
    BY CopyShape DEF GoodEntry
  <1> QED BY <1>1, RenameShape

LEMMA ContributedShape ==
  ASSUME WorldOK, NEW i, files[i] \in DOMAIN world.files, NEW j \in DOMAIN Items(files[i])
  PROVE  /\ GoodEntry(Contributed(i, j))
         /\ Contributed(i, j).own = TRUE
         /\ Contributed(i, j).at = Offset(files[i], j) + Base(i)
         /\ Contributed(i, j).item = Copy(files[i], j).item
  <1>1. PICK copy : copy = Copy(files[i], j)
    OBVIOUS
  <1>2. /\ copy = [own |-> FALSE, at |-> Offset(files[i], j), item |-> copy.item]
        /\ IsItem(copy.item)
    BY <1>1, CopyShape
  <1>3. PICK entry : entry = [copy EXCEPT !.own = TRUE, !.at = @ + Base(i)]
    OBVIOUS
  <1>4. /\ DOMAIN entry = {"own", "at", "item"} /\ entry.item = copy.item
        /\ entry.own = TRUE /\ entry.at = Offset(files[i], j) + Base(i)
    BY <1>2, <1>3
  <1>5. Contributed(i, j) = entry
    BY <1>1, <1>3 DEF Contributed
  <1> QED BY <1>1, <1>2, <1>4, <1>5 DEF GoodEntry

\* What the linker resolves among the loaded files is one of them.
LEMMA ResolvedIsFile ==
  ASSUME LoadTypes, NEW file, NEW import
  PROVE  LET found == ResolveImport(file, import, Loaded)
         IN found.module # None \/ found.item # NoName => found.module \in DOMAIN world.files
  <1>1. Loaded \subseteq DOMAIN world.files
    <2>1. files \in Seq(DOMAIN world.files)
      BY DEF LoadTypes
    <2> QED BY <2>1, LenProperties, ElementOfSeq DEF Loaded, ToSet
  <1> QED BY <1>1 DEF ResolveImport

LEMMA ForwardedIsGood ==
  ASSUME LoadTypes, NEW file, NEW import
  PROVE  GoodEntries(Forwarded(file, import))
  <1>1. PICK module : module = ModuleOf(file, import)
    OBVIOUS
  <1>2. module # None => module \in DOMAIN world.files
    BY <1>1, ResolvedIsFile DEF ModuleOf
  <1>3. PICK items : items = IF module = None THEN <<>> ELSE Items(module)
    OBVIOUS
  <1>4. IsSequence(items)
    BY <1>2, <1>3, FewIsGood DEF LoadTypes, WorldOK, GoodEntries
  <1>5. PICK parts : parts = [j \in DOMAIN items |->
                   IF ExportedName(items[j]) # NoName THEN <<Copy(module, j)>> ELSE <<>>]
    OBVIOUS
  <1>6. IsSequence(parts) /\ DOMAIN parts = DOMAIN items
    BY <1>4, <1>5, MappedIsSequence
  <1>7. ASSUME NEW j \in DOMAIN parts PROVE GoodEntries(parts[j])
    <2>1. CASE module = None
      <3>1. DOMAIN items = {}
        BY <1>3, <2>1
      <3> QED BY <1>6, <3>1
    <2>2. CASE module # None
      <3>1. j \in DOMAIN Items(module) /\ module \in DOMAIN world.files
        BY <1>2, <1>3, <1>6, <2>2
      <3>2. GoodEntry(Copy(module, j))
        BY <3>1, CopyIsGood DEF LoadTypes
      <3>3. parts[j] = <<Copy(module, j)>> \/ parts[j] = <<>>
        BY <1>5, <1>6
      <3> QED BY <3>2, <3>3, FewIsGood
    <2> QED BY <2>1, <2>2
  <1>8. Forwarded(file, import) = FlattenSeq(parts)
    BY <1>1, <1>3, <1>5 DEF Forwarded
  <1> QED BY <1>6, <1>7, <1>8, FlattenIsGood

LEMMA FlatIsGood ==
  ASSUME LoadTypes
  PROVE  GoodEntries(Flat)
  <1>1. files \in Seq(DOMAIN world.files) /\ WorldOK
    BY DEF LoadTypes
  <1>2. IsSequence(files) /\ \A i \in DOMAIN files : files[i] \in DOMAIN world.files
    BY <1>1, SeqIsSequence
  <1>3. ASSUME NEW i \in DOMAIN files
        PROVE  GoodEntries(FlattenSeq([j \in DOMAIN Items(files[i]) |-> Linked(i, j)]))
    <2>1. files[i] \in DOMAIN world.files /\ IsSequence(Items(files[i]))
      BY <1>1, <1>2 DEF WorldOK
    <2>2. PICK parts : parts = [j \in DOMAIN Items(files[i]) |-> Linked(i, j)]
      OBVIOUS
    <2>3. IsSequence(parts) /\ DOMAIN parts = DOMAIN Items(files[i])
      BY <2>1, <2>2, MappedIsSequence
    <2>4. ASSUME NEW j \in DOMAIN parts PROVE GoodEntries(parts[j])
      <3>1. GoodEntry(Contributed(i, j))
        BY <1>1, <2>1, <2>3, ContributedShape
      <3>2. \/ Linked(i, j) = Forwarded(files[i], Items(files[i])[j].import)
            \/ Linked(i, j) = <<>> \/ Linked(i, j) = <<Contributed(i, j)>>
        BY DEF Linked
      <3> QED BY <2>2, <2>3, <3>1, <3>2, ForwardedIsGood, FewIsGood
    <2> QED BY <2>2, <2>3, <2>4, FlattenIsGood
  <1>4. PICK parts : parts = [i \in DOMAIN files |->
                FlattenSeq([j \in DOMAIN Items(files[i]) |-> Linked(i, j)])]
    OBVIOUS
  <1>5. IsSequence(parts) /\ DOMAIN parts = DOMAIN files
    BY <1>2, <1>4, MappedIsSequence
  <1>6. \A i \in DOMAIN parts : GoodEntries(parts[i])
    BY <1>3, <1>4, <1>5
  <1>7. Flat = FlattenSeq(parts)
    BY <1>4 DEF Flat
  <1> QED BY <1>5, <1>6, <1>7, FlattenIsGood

LEMMA RenamedIsGood ==
  ASSUME LoadTypes, NEW file, NEW import
  PROVE  GoodEntries(Renamed(file, import))
  <1>1. PICK found : found = ResolveImport(file, import, Loaded)
    OBVIOUS
  <1>2. PICK items : items = IF import.alias = NoName \/ found.item = NoName THEN <<>>
                             ELSE Items(found.module)
    OBVIOUS
  <1>3. found.item # NoName => found.module \in DOMAIN world.files
    BY <1>1, ResolvedIsFile
  <1>4. IsSequence(items)
    BY <1>2, <1>3, FewIsGood DEF LoadTypes, WorldOK, GoodEntries
  <1>5. PICK parts : parts = [j \in DOMAIN items |->
                   IF ExportedName(items[j]) = found.item /\ items[j].kind \in Aliasable
                   THEN <<Alias(found.module, j, import.alias)>> ELSE <<>>]
    OBVIOUS
  <1>6. IsSequence(parts) /\ DOMAIN parts = DOMAIN items
    BY <1>4, <1>5, MappedIsSequence
  <1>7. ASSUME NEW j \in DOMAIN parts PROVE GoodEntries(parts[j])
    <2>1. CASE import.alias = NoName \/ found.item = NoName
      <3>1. DOMAIN items = {}
        BY <1>2, <2>1
      <3> QED BY <1>6, <3>1
    <2>2. CASE ~(import.alias = NoName \/ found.item = NoName)
      <3>1. j \in DOMAIN Items(found.module) /\ found.module \in DOMAIN world.files
        BY <1>2, <1>3, <1>6, <2>2
      <3>2. GoodEntry(Alias(found.module, j, import.alias))
        BY <3>1, CopyIsGood DEF LoadTypes
      <3>3. \/ parts[j] = <<Alias(found.module, j, import.alias)>>
            \/ parts[j] = <<>>
        BY <1>5, <1>6
      <3> QED BY <3>2, <3>3, FewIsGood
    <2> QED BY <2>1, <2>2
  <1>8. Renamed(file, import) = FlattenSeq(parts)
    BY <1>1, <1>2, <1>5 DEF Renamed, Alias
  <1> QED BY <1>6, <1>7, <1>8, FlattenIsGood

LEMMA AliasesAreGood ==
  ASSUME LoadTypes
  PROVE  GoodEntries(ItemAliases)
  <1>1. CASE RootPlaces = {}
    BY <1>1, FewIsGood DEF ItemAliases
  <1>2. CASE RootPlaces # {}
    <2>1. files \in Seq(DOMAIN world.files) /\ WorldOK
      BY DEF LoadTypes
    <2>2. Len(files) \in Nat /\ DOMAIN files = 1 .. Len(files)
      BY <2>1, LenProperties
    <2>3. RootPlaces \in SUBSET (1 .. Len(files))
      BY <2>2 DEF RootPlaces
    <2>4. \E i \in RootPlaces : \A j \in RootPlaces : j <= i
      BY <1>2, <2>2, <2>3, Greatest
    <2>5. \E i \in RootPlaces : LastRoot = files[i]
      BY <2>4 DEF LastRoot
    <2>6. LastRoot \in DOMAIN world.files
      BY <2>1, <2>2, <2>3, <2>5, ElementOfSeq
    <2>7. IsSequence(Imports(LastRoot))
      BY <2>1, <2>6 DEF WorldOK
    <2>8. PICK parts : parts = [k \in DOMAIN Imports(LastRoot) |->
                                  Renamed(LastRoot, Imports(LastRoot)[k])]
      OBVIOUS
    <2>9. IsSequence(parts) /\ DOMAIN parts = DOMAIN Imports(LastRoot)
      BY <2>7, <2>8, MappedIsSequence
    <2>10. \A k \in DOMAIN parts : GoodEntries(parts[k])
      BY <2>8, <2>9, RenamedIsGood
    <2>11. ItemAliases = FlattenSeq(parts)
      BY <1>2, <2>8 DEF ItemAliases
    <2> QED BY <2>9, <2>10, <2>11, FlattenIsGood
  <1> QED BY <1>1, <1>2

LEMMA ConcatIsGood ==
  ASSUME NEW s, NEW t, GoodEntries(s), GoodEntries(t)
  PROVE  GoodEntries(s \o t)
  <1> DEFINE S == ToSet(s) \cup ToSet(t)
  <1>1. \A e \in S : GoodEntry(e)
    BY DEF GoodEntries, ToSet
  <1>2. s \in Seq(ToSet(s)) /\ t \in Seq(ToSet(t)) /\ ToSet(s) \subseteq S /\ ToSet(t) \subseteq S
    BY DEF GoodEntries, IsSequence
  <1> HIDE DEF S
  <1>3. s \in Seq(S) /\ t \in Seq(S)
    BY <1>2, SeqMonotonic
  <1>4. s \o t \in Seq(S)
    BY <1>3, ConcatProperties
  <1> QED BY <1>1, <1>4, SeqIsSequence DEF GoodEntries

\* The rewriter changes references, and nothing else of an entry.
LEMMA RewriteKeeps ==
  ASSUME NEW entry, NEW aliases, GoodEntry(entry)
  PROVE  LET new == RewriteItem(entry, aliases)
         IN /\ GoodEntry(new)
            /\ new.own = entry.own /\ new.at = entry.at
            /\ new.item.kind = entry.item.kind /\ new.item.name = entry.item.name
            /\ IsRewritten(entry) =>
                 \A u \in DOMAIN entry.item.uses :
                   new.item.uses[u] = Rewritten(entry.item.uses[u], aliases)
  <1>1. PICK uses : uses = [u \in DOMAIN entry.item.uses |-> Rewritten(entry.item.uses[u], aliases)]
    OBVIOUS
  <1>2. IsSequence(uses) /\ DOMAIN uses = DOMAIN entry.item.uses
    BY <1>1, MappedIsSequence DEF GoodEntry, IsItem
  <1>3. \A u \in DOMAIN uses : IsUse(uses[u])
    <2> SUFFICES ASSUME NEW use, IsUse(use) PROVE IsUse(Rewritten(use, aliases))
      BY <1>1, <1>2 DEF GoodEntry, IsItem
    <2>1. PICK new : new = [use EXCEPT !.form = "name", !.qualifier = NoName]
      OBVIOUS
    <2>2. DOMAIN new = DOMAIN use /\ new.form = "name"
      BY <2>1 DEF IsUse
    <2>3. Rewritten(use, aliases) = new \/ Rewritten(use, aliases) = use
      BY <2>1 DEF Rewritten
    <2> QED BY <2>2, <2>3 DEF IsUse
  <1>4. PICK old : old = entry.item
    OBVIOUS
  <1>5. PICK item : item = [old EXCEPT !.uses = uses]
    OBVIOUS
  <1>6. /\ DOMAIN item = DOMAIN old /\ item.uses = uses
        /\ item.kind = old.kind /\ item.name = old.name
    BY <1>4, <1>5 DEF GoodEntry, IsItem
  <1>7. PICK new : new = [entry EXCEPT !.item.uses = uses]
    OBVIOUS
  <1>8. /\ DOMAIN new = DOMAIN entry /\ new.item = item
        /\ new.own = entry.own /\ new.at = entry.at
    BY <1>4, <1>5, <1>7 DEF GoodEntry
  <1>9. GoodEntry(new)
    BY <1>2, <1>3, <1>4, <1>6, <1>8 DEF GoodEntry, IsItem
  <1>10. RewriteItem(entry, aliases) = IF IsRewritten(entry) THEN new ELSE entry
    BY <1>1, <1>7 DEF RewriteItem
  <1> QED BY <1>1, <1>4, <1>6, <1>8, <1>9, <1>10

LEMMA LinkIsGood ==
  ASSUME LoadTypes, Link
  PROVE  GoodEntries(program')
  <1>1. PICK flat : flat = Flat \o ItemAliases
    OBVIOUS
  <1>2. GoodEntries(flat)
    BY <1>1, FlatIsGood, AliasesAreGood, ConcatIsGood
  <1>3. program' = [k \in DOMAIN flat |-> RewriteItem(flat[k], ModuleAliases)]
    BY <1>1 DEF Link
  <1>4. IsSequence(program') /\ DOMAIN program' = DOMAIN flat
    BY <1>2, <1>3, MappedIsSequence DEF GoodEntries
  <1>5. \A k \in DOMAIN flat : GoodEntry(RewriteItem(flat[k], ModuleAliases))
    BY <1>2, RewriteKeeps DEF GoodEntries
  <1> QED BY <1>3, <1>4, <1>5 DEF GoodEntries

LEMMA GoodProgram ==
  ASSUME GoodEntries(program)
  PROVE  UsesAreSequences
  <1> SUFFICES ASSUME NEW name \in NamesOf("bare") PROVE IsSequence(Decl(name).uses)
    BY DEF UsesAreSequences
  <1> DEFINE places == {k \in OfKind("bare") : program[k].item.name = name}
  <1>1. Len(program) \in Nat /\ DOMAIN program = 1 .. Len(program)
    BY LenProperties DEF GoodEntries, IsSequence
  <1>2. places \in SUBSET (1 .. Len(program)) /\ places # {}
    BY <1>1 DEF OfKind, NamesOf
  <1>3. Decl(name) = program[CHOOSE k \in places : \A l \in places : l <= k].item
    BY DEF Decl, Latest
  <1> HIDE DEF places
  <1>4. \E k \in places : \A l \in places : l <= k
    BY <1>1, <1>2, Greatest
  <1>5. \E k \in places : Decl(name) = program[k].item
    BY <1>3, <1>4
  <1> QED BY <1>1, <1>2, <1>5 DEF GoodEntries, GoodEntry, IsItem

-----------------------------------------------------------------------------
(* Classification, from the end of linking on *)

LEMMA WalkSame ==
  ASSUME WalkInv, UNCHANGED <<program, status, open, cycles>>
  PROVE  WalkInv'
  <1>1. /\ NamesOf("bare")' = NamesOf("bare") /\ UsesAreSequences'
        /\ \A n : Decl(n)' = Decl(n)
        /\ \A use : Looked(use)' <=> Looked(use)
        /\ \A kinds : ExplainsItself(kinds)' <=> ExplainsItself(kinds)
    BY SameProgram DEF WalkInv
  <1>2. Kept
    BY DEF Kept
  <1>3. WalkTypes' /\ OpenIsPending' /\ CyclesReported' /\ KindsLeast'
    <2>1. WalkTypes'
      BY <1>1 DEF WalkInv, WalkTypes
    <2>2. OpenIsPending' /\ CyclesReported'
      BY DEF WalkInv, OpenIsPending, CyclesReported, Known
    <2>3. KindsLeast'
      BY <1>1 DEF WalkInv, KindsLeast
    <2> QED BY <2>1, <2>2, <2>3
  <1>4. OpenIsChained'
    <2>1. \A k \in DOMAIN open' : ChainedLater(k)
      BY DEF WalkInv, OpenIsChained, ChainedLater, Later, Passing, Known
    <2> QED BY <1>2, <2>1, LaterIsPassing
  <1>5. KindsGrounded'
    <2>1. Unwinding' <=> Unwinding
      BY <1>1 DEF Unwinding, Innermost, Calls, Callee, Known
    <2>2. \A use : Passing(use)' <=> Passing(use)
      BY <1>1 DEF Passing, Known
    <2>3. \A decl, kind : Decided(decl, kind)' <=> Decided(decl, kind)
      BY <1>1, <2>2 DEF Decided, Known
    <2>4. \A n : Grounded(n)' <=> Grounded(n)
      BY <1>1, <2>1, <2>2, <2>3 DEF Grounded
    <2> QED BY <2>4 DEF WalkInv, KindsGrounded
  <1> QED BY <1>1, <1>3, <1>4, <1>5 DEF WalkInv

LEMMA ClassifyStep ==
  ASSUME LoadInv, ClassifyInv, [Next]_<<vars, classifying>>
  PROVE  ClassifyInv'
  <1>1. CASE Load /\ UNCHANGED classifying
    <2>1. phase \in {"load", "link"} /\ phase' \notin {"classify", "done"}
      BY <1>1 DEF Load, VisitRoot, Unresolved, PassOver, Cycle, Descend, Imported, Leave, Check,
                  Link, Begin, Loading
    <2>2. status' = <<>> /\ open' = <<>> /\ cycles' = {}
      BY <1>1, <2>1 DEF ClassifyInv, classifying
    <2>3. phase' = "resolve" => Link
      BY <1>1, <2>1 DEF Load, VisitRoot, Unresolved, PassOver, Cycle, Descend, Imported, Leave,
                        Check, Begin, Loading
    <2>4. phase' = "resolve" => GoodEntries(program')
      BY <2>3, LinkIsGood DEF LoadInv
    <2> QED BY <2>1, <2>2, <2>4 DEF ClassifyInv, GoodEntries
  <1>2. CASE CheckTraits
    <2>1. /\ phase = "resolve" /\ phase' = "classify" /\ UNCHANGED <<program, status, open, cycles>>
      BY <1>2 DEF CheckTraits
    <2>2. WalkInv
      BY <2>1, GoodProgram, WalkStart DEF ClassifyInv
    <2>3. WalkInv'
      BY <2>1, <2>2, WalkSame
    <2> QED BY <2>1, <2>3 DEF ClassifyInv
  <1>3. CASE InClassify /\ Next
    <2>1. phase = "classify" /\ phase' = "classify" /\ WalkInv
      BY <1>3 DEF InClassify, vars, ClassifyInv
    <2>2. \/ \E name \in NamesOf("bare") : NextDecl(name)
          \/ CallOutside \/ CallUnknown \/ CallPending \/ CallKnown \/ AllCalled
      BY <1>3, <2>1 DEF Next, Load, VisitRoot, Unresolved, PassOver, Cycle, Descend, Imported, Leave,
                       Check, Link, Loading, CheckTraits, Rewrite, Ended
    <2>3. WalkInv'
      BY <2>1, <2>2, NextDeclStep, CallOutsideStep, CallUnknownStep, CallPendingStep, CallKnownStep,
         AllCalledStep
    <2> QED BY <2>1, <2>3 DEF ClassifyInv
  <1>4. CASE Rewrite
    BY <1>4 DEF Rewrite, ClassifyInv
  <1>5. CASE UNCHANGED <<vars, classifying>>
    <2>1. UNCHANGED <<phase, program, status, open, cycles>>
      BY <1>5 DEF vars, classifying
    <2>2. phase = "classify" => WalkInv'
      BY <2>1, WalkSame DEF ClassifyInv
    <2> QED BY <2>1, <2>2 DEF ClassifyInv, GoodEntries
  <1> QED BY <1>1, <1>2, <1>3, <1>4, <1>5 DEF Next, NextDecl, CallOutside, CallUnknown, CallPending,
             CallKnown, AllCalled, Calling, Ended

\* The inductive invariant of a classification: what is open waits for what is
\* above it, what is found has a call that gives it its kind, and nothing found
\* contradicts any kinds that explain themselves.
THEOREM ClassifyInvariant == Spec => []ClassifyInv
  <1>1. FrontInit => ClassifyInv
    BY DEF FrontInit, Init, ClassifyInv
  <1>2. LoadInv /\ ClassifyInv /\ [Next]_<<vars, classifying>> => ClassifyInv'
    BY ClassifyStep
  <1> QED BY <1>1, <1>2, LoadInvariant, PTL DEF Spec

\* The kinds of the bare declarations are the least that explain themselves, in
\* whatever order they were classified, and a cycle was reported exactly when
\* some declaration is on one or leads into one.
THEOREM ClassifiedOrderFree == Spec => []KindsAreOrderFree
  <1>1. ClassifyInv => KindsAreOrderFree
    <2>1. CASE phase = "classify"
      BY <2>1, WalkIsOrderFree DEF ClassifyInv
    <2>2. CASE phase # "classify"
      BY <2>2 DEF KindsAreOrderFree
    <2> QED BY <2>1, <2>2
  <1> QED BY <1>1, ClassifyInvariant, PTL

-----------------------------------------------------------------------------
(* What is in the linked program *)

LEMMA SequenceIs ==
  ASSUME NEW s, IsSequence(s)
  PROVE  /\ s \in Seq(ToSet(s)) /\ Len(s) \in Nat /\ DOMAIN s = 1 .. Len(s)
         /\ \A i \in 1 .. Len(s) : s[i] \in ToSet(s)
         /\ \A x \in ToSet(s) : \E i \in 1 .. Len(s) : x = s[i]
  <1>1. Len(s) \in Nat /\ DOMAIN s = 1 .. Len(s)
    BY LenProperties DEF IsSequence
  <1> QED BY <1>1 DEF IsSequence, ToSet

LEMMA ConcatElements ==
  ASSUME NEW S, NEW s \in Seq(S), NEW t \in Seq(S)
  PROVE  ToSet(s \o t) = ToSet(s) \cup ToSet(t)
  <1>1. /\ Len(s) \in Nat /\ DOMAIN s = 1 .. Len(s)
        /\ Len(t) \in Nat /\ DOMAIN t = 1 .. Len(t)
        /\ DOMAIN (s \o t) = 1 .. Len(s) + Len(t)
        /\ \A i \in 1 .. Len(s) + Len(t) :
             (s \o t)[i] = IF i <= Len(s) THEN s[i] ELSE t[i - Len(s)]
    BY LenProperties, ConcatProperties
  <1>2. ASSUME NEW x \in ToSet(s) PROVE x \in ToSet(s \o t)
    BY <1>1 DEF ToSet
  <1>3. ASSUME NEW x \in ToSet(t) PROVE x \in ToSet(s \o t)
    <2>1. PICK i \in 1 .. Len(t) : x = t[i]
      BY <1>1 DEF ToSet
    <2>2. /\ Len(s) + i \in 1 .. Len(s) + Len(t)
          /\ ~(Len(s) + i <= Len(s)) /\ (Len(s) + i) - Len(s) = i
      BY <1>1
    <2> QED BY <1>1, <2>1, <2>2 DEF ToSet
  <1>4. ASSUME NEW x \in ToSet(s \o t) PROVE x \in ToSet(s) \cup ToSet(t)
    <2>1. PICK i \in 1 .. Len(s) + Len(t) : x = (s \o t)[i]
      BY <1>1 DEF ToSet
    <2>2. CASE i <= Len(s)
      <3>1. i \in 1 .. Len(s) /\ x = s[i]
        BY <1>1, <2>1, <2>2
      <3> QED BY <1>1, <3>1 DEF ToSet
    <2>3. CASE ~(i <= Len(s))
      <3>1. i - Len(s) \in 1 .. Len(t) /\ x = t[i - Len(s)]
        BY <1>1, <2>1, <2>3
      <3> QED BY <1>1, <3>1 DEF ToSet
    <2> QED BY <2>2, <2>3
  <1> QED BY <1>2, <1>3, <1>4

\* Flattening keeps the elements, no more and no fewer.
LEMMA FlattenElements ==
  ASSUME NEW ss, IsSequence(ss), \A i \in DOMAIN ss : IsSequence(ss[i])
  PROVE  /\ IsSequence(FlattenSeq(ss))
         /\ \A x : x \in ToSet(FlattenSeq(ss)) <=> \E i \in DOMAIN ss : x \in ToSet(ss[i])
  <1> DEFINE S == UNION {ToSet(ss[i]) : i \in DOMAIN ss}
             n == Len(ss)
  <1>1. n \in Nat /\ DOMAIN ss = 1 .. n /\ ss = [i \in DOMAIN ss |-> ss[i]]
    BY LenProperties DEF IsSequence
  <1>2. ASSUME NEW i \in DOMAIN ss PROVE ss[i] \in Seq(S)
    <2>1. ss[i] \in Seq(ToSet(ss[i])) /\ ToSet(ss[i]) \subseteq S
      BY DEF IsSequence
    <2> HIDE DEF S
    <2> QED BY <2>1, SeqMonotonic
  <1>3. \A x : x \in S <=> \E i \in DOMAIN ss : x \in ToSet(ss[i])
    OBVIOUS
  <1> HIDE DEF S, n
  <1>4. ss \in Seq(Seq(S))
    <2>1. ss \in [1 .. n -> Seq(S)]
      BY <1>1, <1>2
    <2> QED BY <1>1, <2>1, SeqDef
  <1>5. FlattenSeq(ss) \in Seq(S)
    BY <1>4, FlattenIsSeq
  <1>6. ToSet(FlattenSeq(ss)) \subseteq S
    BY <1>5, LenProperties, ElementOfSeq DEF ToSet
  <1>7. ASSUME NEW i \in DOMAIN ss, NEW x \in ToSet(ss[i]) PROVE x \in ToSet(FlattenSeq(ss))
    <2>1. n # 0 /\ i \in 1 .. n
      BY <1>1
    <2>2. PICK f : /\ FlattenSeq(ss) = f[n]
                   /\ \A k \in 1 .. n :
                        f[k] \in Seq(S) /\ f[k] = IF k = 1 THEN ss[k] ELSE f[k - 1] \o ss[k]
      BY <1>4, <2>1, FlattenUnfolds DEF n
    <2>3. ASSUME NEW k \in 1 .. n, k # 1
          PROVE  k - 1 \in 1 .. n /\ ToSet(f[k]) = ToSet(f[k - 1]) \cup ToSet(ss[k])
      <3>1. k - 1 \in 1 .. n
        BY <1>1, <2>3
      <3>2. f[k - 1] \in Seq(S) /\ ss[k] \in Seq(S) /\ f[k] = f[k - 1] \o ss[k]
        BY <1>1, <1>2, <2>2, <2>3, <3>1
      <3> QED BY <3>1, <3>2, ConcatElements
    <2> DEFINE Bad == {k \in 1 .. n : i <= k /\ x \notin ToSet(f[k])}
    <2>4. Bad = {}
      <3>1. SUFFICES ASSUME Bad # {} PROVE FALSE
        OBVIOUS
      <3>2. PICK k \in Bad : \A m \in Bad : k <= m
        <4>1. Bad \in SUBSET Nat
          BY <1>1
        <4> HIDE DEF Bad
        <4> QED BY <3>1, <4>1, Least
      <3>3. k \in 1 .. n /\ i <= k /\ x \notin ToSet(f[k])
        OBVIOUS
      <3>4. x \in ToSet(ss[k]) => FALSE
        BY <2>2, <2>3, <3>3
      <3>5. k # i
        BY <3>4
      <3>6. k # 1 /\ i <= k - 1 /\ k - 1 \in 1 .. n /\ ~(k <= k - 1)
        BY <1>1, <2>1, <3>3, <3>5
      <3>7. k - 1 \notin Bad
        <4> HIDE DEF Bad
        <4> QED BY <3>2, <3>6
      <3>8. x \in ToSet(f[k - 1])
        BY <3>6, <3>7
      <3> QED BY <2>3, <3>3, <3>6, <3>8
    <2>5. n \in 1 .. n /\ i <= n
      BY <1>1, <2>1
    <2> QED BY <2>2, <2>4, <2>5
  <1>8. IsSequence(FlattenSeq(ss))
    BY <1>5, SeqIsSequence
  <1> QED BY <1>3, <1>6, <1>7, <1>8

\* Where an entry comes from: an item a file contributes, a copy a re-export
\* makes, or a copy under an import's other name.
FromItem(e) ==
  \E i \in DOMAIN files : \E j \in DOMAIN Items(files[i]) :
    /\ e = Contributed(i, j)
    /\ files[i] \in roots \/ Items(files[i])[j].exported
Forwards(e) ==
  \E m \in Loaded : \E j \in DOMAIN Items(m) :
    e = Copy(m, j) /\ ExportedName(Items(m)[j]) # NoName
IsAlias(e) ==
  /\ RootPlaces # {}
  /\ \E import \in ToSet(Imports(LastRoot)), m \in Loaded : \E j \in DOMAIN Items(m) :
       /\ e = Alias(m, j, import.alias)
       /\ Items(m)[j].kind \in Aliasable

LEMMA LoadedFiles ==
  ASSUME LoadTypes
  PROVE  /\ Len(files) \in Nat /\ DOMAIN files = 1 .. Len(files) /\ IsSequence(files)
         /\ \A i \in DOMAIN files : files[i] \in Loaded
         /\ \A f \in Loaded : \E i \in DOMAIN files : f = files[i]
         /\ \A f \in Loaded : f \in DOMAIN world.files
         /\ \A f \in Loaded : IsSequence(Imports(f)) /\ IsSequence(Items(f))
         /\ \A f \in Loaded : \A j \in DOMAIN Items(f) : IsItem(Items(f)[j])
  <1>1. files \in Seq(DOMAIN world.files) /\ WorldOK
    BY DEF LoadTypes
  <1>2. /\ Len(files) \in Nat /\ DOMAIN files = 1 .. Len(files) /\ IsSequence(files)
        /\ \A i \in DOMAIN files : files[i] \in DOMAIN world.files
    BY <1>1, LenProperties, SeqIsSequence
  <1> QED BY <1>1, <1>2 DEF Loaded, ToSet, WorldOK

LEMMA NoneHasElements ==
  /\ IsSequence(<<>>) /\ \A x : x \notin ToSet(<<>>)
  /\ \A e : IsSequence(<<e>>) /\ \A x : x \in ToSet(<<e>>) <=> x = e
  <1>1. IsSequence(<<>>) /\ \A x : x \notin ToSet(<<>>)
    BY DEF IsSequence, ToSet
  <1>2. \A e : <<e>> \in Seq({e}) /\ DOMAIN <<e>> = {1} /\ <<e>>[1] = e
    OBVIOUS
  <1>3. \A e : IsSequence(<<e>>)
    BY <1>2, SeqIsSequence
  <1> QED BY <1>1, <1>2, <1>3 DEF ToSet

\* An exported name is that of an item the linker takes.
LEMMA ExportedItem ==
  ASSUME NEW item, ExportedName(item) # NoName
  PROVE  /\ item.exported /\ ExportedName(item) = ItemName(item) /\ ItemName(item) = item.name
         /\ item.kind \notin Unnamed
  BY DEF ExportedName, ItemName

LEMMA ForwardedElements ==
  ASSUME LoadTypes, NEW file, NEW import
  PROVE  /\ IsSequence(Forwarded(file, import))
         /\ \A e \in ToSet(Forwarded(file, import)) : Forwards(e)
  <1>1. PICK module : module = ModuleOf(file, import)
    OBVIOUS
  <1>2. module # None => module \in Loaded
    BY <1>1 DEF ModuleOf, ResolveImport
  <1>3. PICK items : items = IF module = None THEN <<>> ELSE Items(module)
    OBVIOUS
  <1>4. IsSequence(items)
    BY <1>2, <1>3, LoadedFiles, NoneHasElements
  <1>5. PICK parts : parts = [j \in DOMAIN items |->
                   IF ExportedName(items[j]) # NoName THEN <<Copy(module, j)>> ELSE <<>>]
    OBVIOUS
  <1>6. IsSequence(parts) /\ DOMAIN parts = DOMAIN items
    BY <1>4, <1>5, MappedIsSequence
  <1>7. ASSUME NEW j \in DOMAIN parts
        PROVE  IsSequence(parts[j]) /\ \A e \in ToSet(parts[j]) : Forwards(e)
    <2>1. CASE ExportedName(items[j]) = NoName
      BY <1>5, <1>6, <2>1, NoneHasElements
    <2>2. CASE ExportedName(items[j]) # NoName
      <3>1. parts[j] = <<Copy(module, j)>>
        BY <1>5, <1>6, <2>2
      <3>2. module # None
        <4>1. module = None => DOMAIN items = {}
          BY <1>3
        <4> QED BY <1>6, <4>1
      <3>3. Forwards(Copy(module, j))
        BY <1>2, <1>3, <1>6, <2>2, <3>2 DEF Forwards
      <3> QED BY <3>1, <3>3, NoneHasElements
    <2> QED BY <2>1, <2>2
  <1>8. Forwarded(file, import) = FlattenSeq(parts)
    BY <1>1, <1>3, <1>5 DEF Forwarded
  <1> QED BY <1>6, <1>7, <1>8, FlattenElements

LEMMA FlatElements ==
  ASSUME LoadTypes
  PROVE  /\ IsSequence(Flat)
         /\ \A e \in ToSet(Flat) : FromItem(e) \/ Forwards(e)
         /\ \A i \in DOMAIN files : \A j \in DOMAIN Items(files[i]) :
              ExportedName(Items(files[i])[j]) # NoName => Contributed(i, j) \in ToSet(Flat)
  <1>1. ASSUME NEW i \in DOMAIN files, NEW j \in DOMAIN Items(files[i])
        PROVE  /\ IsSequence(Linked(i, j))
               /\ \A e \in ToSet(Linked(i, j)) : FromItem(e) \/ Forwards(e)
               /\ ExportedName(Items(files[i])[j]) # NoName =>
                    Contributed(i, j) \in ToSet(Linked(i, j))
    <2>1. PICK item : item = Items(files[i])[j]
      OBVIOUS
    <2>2. CASE item.kind = "reexport"
      <3>1. Linked(i, j) = Forwarded(files[i], item.import) /\ ExportedName(item) = NoName
        BY <2>1, <2>2 DEF Linked, ExportedName, ItemName, Unnamed
      <3> QED BY <2>1, <3>1, ForwardedElements
    <2>3. CASE item.kind # "reexport"
      <3>1. CASE Linked(i, j) = <<>>
        <4>1. ExportedName(item) = NoName
          <5>1. SUFFICES ASSUME ExportedName(item) # NoName PROVE FALSE
            OBVIOUS
          <5>2. item.exported /\ item.kind \notin {"export_all", "export_except"}
            BY <5>1, ExportedItem DEF Unnamed
          <5>3. Linked(i, j) = <<Contributed(i, j)>>
            BY <2>1, <2>3, <5>2 DEF Linked
          <5> QED BY <3>1, <5>3
        <4> QED BY <2>1, <3>1, <4>1, NoneHasElements
      <3>2. CASE Linked(i, j) = <<Contributed(i, j)>> /\ Linked(i, j) # <<>>
        <4>1. files[i] \in roots \/ item.exported
          BY <2>1, <2>3, <3>2 DEF Linked
        <4>2. FromItem(Contributed(i, j))
          BY <2>1, <4>1 DEF FromItem
        <4> QED BY <3>2, <4>2, NoneHasElements
      <3> QED BY <2>1, <2>3, <3>1, <3>2 DEF Linked
    <2> QED BY <2>2, <2>3
  <1>2. ASSUME NEW i \in DOMAIN files
        PROVE  LET part == FlattenSeq([j \in DOMAIN Items(files[i]) |-> Linked(i, j)])
               IN /\ IsSequence(part)
                  /\ \A e : e \in ToSet(part) <=>
                       \E j \in DOMAIN Items(files[i]) : e \in ToSet(Linked(i, j))
    <2>1. PICK parts : parts = [j \in DOMAIN Items(files[i]) |-> Linked(i, j)]
      OBVIOUS
    <2>2. IsSequence(parts) /\ DOMAIN parts = DOMAIN Items(files[i])
      BY <2>1, LoadedFiles, MappedIsSequence
    <2>3. \A j \in DOMAIN parts : parts[j] = Linked(i, j) /\ IsSequence(parts[j])
      BY <1>1, <2>1, <2>2
    <2>4. /\ IsSequence(FlattenSeq(parts))
          /\ \A e : e \in ToSet(FlattenSeq(parts)) <=> \E j \in DOMAIN parts : e \in ToSet(parts[j])
      BY <2>2, <2>3, FlattenElements
    <2> QED BY <2>1, <2>2, <2>3, <2>4
  <1>3. PICK parts : parts = [i \in DOMAIN files |->
                FlattenSeq([j \in DOMAIN Items(files[i]) |-> Linked(i, j)])]
    OBVIOUS
  <1>4. IsSequence(parts) /\ DOMAIN parts = DOMAIN files
    BY <1>3, LoadedFiles, MappedIsSequence
  <1>5. \A i \in DOMAIN parts :
          /\ IsSequence(parts[i])
          /\ \A e : e \in ToSet(parts[i]) <=>
               \E j \in DOMAIN Items(files[i]) : e \in ToSet(Linked(i, j))
    BY <1>2, <1>3, <1>4
  <1>6. Flat = FlattenSeq(parts)
    BY <1>3 DEF Flat
  <1>7. /\ IsSequence(Flat)
        /\ \A e : e \in ToSet(Flat) <=> \E i \in DOMAIN parts : e \in ToSet(parts[i])
    BY <1>4, <1>5, <1>6, FlattenElements
  <1> QED BY <1>1, <1>4, <1>5, <1>7

LEMMA LastRootIsLoaded ==
  ASSUME LoadTypes, RootPlaces # {}
  PROVE  LastRoot \in Loaded
  <1>1. RootPlaces \in SUBSET (1 .. Len(files)) /\ Len(files) \in Nat
    BY LoadedFiles DEF RootPlaces
  <1>2. \E i \in RootPlaces : \A j \in RootPlaces : j <= i
    BY <1>1, Greatest
  <1>3. \E i \in RootPlaces : LastRoot = files[i]
    BY <1>2 DEF LastRoot
  <1> QED BY <1>1, <1>3, LoadedFiles

LEMMA RenamedElements ==
  ASSUME LoadTypes, NEW file, NEW import
  PROVE  /\ IsSequence(Renamed(file, import))
         /\ \A e \in ToSet(Renamed(file, import)) :
              \E m \in Loaded : \E j \in DOMAIN Items(m) :
                /\ e = Alias(m, j, import.alias)
                /\ Items(m)[j].kind \in Aliasable
  <1>1. PICK found : found = ResolveImport(file, import, Loaded)
    OBVIOUS
  <1>2. PICK items : items = IF import.alias = NoName \/ found.item = NoName THEN <<>>
                             ELSE Items(found.module)
    OBVIOUS
  <1>3. found.item # NoName => found.module \in Loaded
    BY <1>1 DEF ResolveImport
  <1>4. IsSequence(items)
    BY <1>2, <1>3, LoadedFiles, NoneHasElements
  <1>5. PICK parts : parts = [j \in DOMAIN items |->
                   IF ExportedName(items[j]) = found.item /\ items[j].kind \in Aliasable
                   THEN <<Alias(found.module, j, import.alias)>> ELSE <<>>]
    OBVIOUS
  <1>6. IsSequence(parts) /\ DOMAIN parts = DOMAIN items
    BY <1>4, <1>5, MappedIsSequence
  <1>7. ASSUME NEW j \in DOMAIN parts
        PROVE  /\ IsSequence(parts[j])
               /\ \A e \in ToSet(parts[j]) :
                    /\ e = Alias(found.module, j, import.alias)
                    /\ found.module \in Loaded /\ j \in DOMAIN Items(found.module)
                    /\ Items(found.module)[j].kind \in Aliasable
    <2>1. CASE ~(ExportedName(items[j]) = found.item /\ items[j].kind \in Aliasable)
      BY <1>5, <1>6, <2>1, NoneHasElements
    <2>2. CASE ExportedName(items[j]) = found.item /\ items[j].kind \in Aliasable
      <3>1. parts[j] = <<Alias(found.module, j, import.alias)>>
        BY <1>5, <1>6, <2>2
      <3>2. items # <<>>
        BY <1>6
      <3>3. items = Items(found.module) /\ found.module \in Loaded
        BY <1>2, <1>3, <3>2
      <3> QED BY <1>6, <2>2, <3>1, <3>3, NoneHasElements
    <2> QED BY <2>1, <2>2
  <1>8. Renamed(file, import) = FlattenSeq(parts)
    BY <1>1, <1>2, <1>5 DEF Renamed, Alias
  <1>9. /\ IsSequence(FlattenSeq(parts))
        /\ \A e : e \in ToSet(FlattenSeq(parts)) <=> \E j \in DOMAIN parts : e \in ToSet(parts[j])
    BY <1>6, <1>7, FlattenElements
  <1> QED BY <1>7, <1>8, <1>9

LEMMA AliasElements ==
  ASSUME LoadTypes
  PROVE  IsSequence(ItemAliases) /\ \A e \in ToSet(ItemAliases) : IsAlias(e)
  <1>1. CASE RootPlaces = {}
    BY <1>1, NoneHasElements DEF ItemAliases
  <1>2. CASE RootPlaces # {}
    <2>1. IsSequence(Imports(LastRoot))
      BY <1>2, LastRootIsLoaded, LoadedFiles
    <2>2. PICK parts : parts = [k \in DOMAIN Imports(LastRoot) |->
                                  Renamed(LastRoot, Imports(LastRoot)[k])]
      OBVIOUS
    <2>3. IsSequence(parts) /\ DOMAIN parts = DOMAIN Imports(LastRoot)
      BY <2>1, <2>2, MappedIsSequence
    <2>4. ASSUME NEW k \in DOMAIN parts
          PROVE  IsSequence(parts[k]) /\ \A e \in ToSet(parts[k]) : IsAlias(e)
      <3>1. PICK import : import = Imports(LastRoot)[k]
        OBVIOUS
      <3>2. import \in ToSet(Imports(LastRoot)) /\ parts[k] = Renamed(LastRoot, import)
        BY <2>2, <2>3, <3>1 DEF ToSet
      <3> QED BY <1>2, <3>2, RenamedElements DEF IsAlias
    <2>5. ItemAliases = FlattenSeq(parts)
      BY <1>2, <2>2 DEF ItemAliases
    <2> QED BY <2>3, <2>4, <2>5, FlattenElements
  <1> QED BY <1>1, <1>2

\* The program a link makes, entry by entry.
LEMMA LinkElements ==
  ASSUME LoadTypes, Link
  PROVE  \E flat : /\ DOMAIN program' = DOMAIN flat
                   /\ \A k \in DOMAIN flat :
                        /\ GoodEntry(flat[k])
                        /\ FromItem(flat[k]) \/ Forwards(flat[k]) \/ IsAlias(flat[k])
                        /\ program'[k] = RewriteItem(flat[k], ModuleAliases)
                   /\ \A e \in ToSet(Flat) : \E k \in DOMAIN flat : flat[k] = e
  <1>1. PICK flat : flat = Flat \o ItemAliases
    OBVIOUS
  <1>2. GoodEntries(flat)
    BY <1>1, FlatIsGood, AliasesAreGood, ConcatIsGood
  <1>3. program' = [k \in DOMAIN flat |-> RewriteItem(flat[k], ModuleAliases)]
    BY <1>1 DEF Link
  <1>4. PICK S : S = ToSet(Flat) \cup ToSet(ItemAliases)
    OBVIOUS
  <1>5. Flat \in Seq(S) /\ ItemAliases \in Seq(S)
    <2>1. Flat \in Seq(ToSet(Flat)) /\ ItemAliases \in Seq(ToSet(ItemAliases))
      BY FlatElements, AliasElements DEF IsSequence
    <2>2. ToSet(Flat) \subseteq S /\ ToSet(ItemAliases) \subseteq S
      BY <1>4
    <2> QED BY <2>1, <2>2, SeqMonotonic
  <1>6. ToSet(flat) = ToSet(Flat) \cup ToSet(ItemAliases)
    BY <1>1, <1>5, ConcatElements
  <1>7. ASSUME NEW k \in DOMAIN flat
        PROVE  FromItem(flat[k]) \/ Forwards(flat[k]) \/ IsAlias(flat[k])
    <2>1. flat[k] \in ToSet(flat)
      BY DEF ToSet
    <2> QED BY <1>6, <2>1, FlatElements, AliasElements
  <1>8. \A e \in ToSet(Flat) : \E k \in DOMAIN flat : flat[k] = e
    BY <1>6 DEF ToSet
  <1> QED BY <1>2, <1>3, <1>7, <1>8 DEF GoodEntries

-----------------------------------------------------------------------------
(* Which file an offset belongs to *)

LEMMA SizeShape ==
  ASSUME LoadTypes, NEW i \in DOMAIN files
  PROVE  /\ Extent(files[i]) \in Nat /\ Size(files[i]) = Extent(files[i]) + 1
         /\ \A j \in DOMAIN Items(files[i]) : Offset(files[i], j) \in 1 .. Extent(files[i])
         /\ \A j, k \in DOMAIN Items(files[i]) :
              Offset(files[i], j) = Offset(files[i], k) => j = k
  <1>1. IsSequence(Imports(files[i])) /\ IsSequence(Items(files[i]))
    BY LoadedFiles
  <1>2. /\ Len(Imports(files[i])) \in Nat
        /\ Len(Items(files[i])) \in Nat /\ DOMAIN Items(files[i]) = 1 .. Len(Items(files[i]))
    BY <1>1, SequenceIs
  <1> QED BY <1>2 DEF Extent, Size, Offset

\* There is a function that the recursion of Bases describes.
LEMMA BasesExist ==
  ASSUME LoadTypes
  PROVE  \A i \in DOMAIN files :
           Base(i) = IF i = 1 THEN 0 ELSE Base(i - 1) + Size(files[i - 1])
  <1> DEFINE n == Len(files)
             Step(f, i) == IF i = 1 THEN 0 ELSE f[i - 1] + Size(files[i - 1])
             Adds(f, m) == f = [i \in 1 .. m |-> Step(f, i)]
  <1>1. n \in Nat /\ DOMAIN files = 1 .. n
    BY LoadedFiles
  <1> HIDE DEF n
  <1>2. \E f : Adds(f, n)
    <2> DEFINE Bad == {m \in 0 .. n : ~\E f : Adds(f, m)}
    <2> HIDE DEF Adds
    <2>0. n \in 0 .. n
      BY <1>1
    <2>1. SUFFICES ASSUME Bad # {} PROVE FALSE
      BY <2>0, Zenon
    <2>2. PICK m \in Bad : \A k \in Bad : m <= k
      <3>1. Bad \in SUBSET Nat
        BY <1>1
      <3> HIDE DEF Bad
      <3> QED BY <2>1, <3>1, Least
    <2>3. m \in 0 .. n /\ m \in Nat /\ ~\E f : Adds(f, m)
      BY <1>1
    <2>4. m # 0
      <3>1. Adds([i \in 1 .. 0 |-> 0], 0)
        BY DEF Adds
      <3> QED BY <2>3, <3>1
    <2>5. m - 1 \in 0 .. n /\ m - 1 \notin Bad
      <3>1. m - 1 \in 0 .. n /\ ~(m <= m - 1)
        BY <1>1, <2>3, <2>4
      <3> HIDE DEF Bad
      <3> QED BY <2>2, <3>1
    <2>6. PICK f : Adds(f, m - 1)
      BY <2>5
    <2>7. f = [i \in 1 .. m - 1 |-> Step(f, i)]
      BY <2>6 DEF Adds
    <2>8. PICK g : g = [i \in 1 .. m |-> Step(f, i)]
      OBVIOUS
    <2>9. \A i \in 1 .. m - 1 : i \in 1 .. m
      BY <2>3
    <2> HIDE DEF Step, Bad
    <2>10. \A i \in 1 .. m - 1 : g[i] = f[i]
      BY <2>7, <2>8, <2>9
    <2>11. \A i \in 1 .. m : Step(g, i) = Step(f, i)
      <3>1. \A i \in 1 .. m : i # 1 => i - 1 \in 1 .. m - 1
        BY <2>3
      <3> QED BY <2>10, <3>1 DEF Step
    <2>12. Adds(g, m)
      BY <2>8, <2>11 DEF Adds
    <2> QED BY <2>3, <2>12
  <1>3. PICK F : F = CHOOSE f : Adds(f, n)
    OBVIOUS
  <1>4. Adds(F, n)
    BY <1>2, <1>3
  <1>5. Bases = F
    BY <1>1, <1>3 DEF Bases
  <1>6. \A i \in 1 .. n : F[i] = Step(F, i)
    BY <1>4
  <1> QED BY <1>1, <1>5, <1>6 DEF Base

LEMMA BasesGrow ==
  ASSUME LoadTypes
  PROVE  /\ \A i \in DOMAIN files : Base(i) \in Nat
         /\ \A i, j \in DOMAIN files : i < j => Base(i) + Size(files[i]) <= Base(j)
  <1>1. Len(files) \in Nat /\ DOMAIN files = 1 .. Len(files)
    BY LoadedFiles
  <1>2. ASSUME NEW j \in DOMAIN files, j # 1
        PROVE  j - 1 \in DOMAIN files /\ Base(j) = Base(j - 1) + Size(files[j - 1])
    BY <1>1, <1>2, BasesExist
  <1>3. \A j \in DOMAIN files : Size(files[j]) \in Nat
    BY SizeShape
  <1>4. \A i \in DOMAIN files : Base(i) \in Nat
    <2> DEFINE Bad == {i \in DOMAIN files : Base(i) \notin Nat}
    <2>1. SUFFICES ASSUME Bad # {} PROVE FALSE
      OBVIOUS
    <2>2. PICK i \in Bad : \A k \in Bad : i <= k
      <3>1. Bad \in SUBSET Nat
        BY <1>1
      <3> HIDE DEF Bad
      <3> QED BY <2>1, <3>1, Least
    <2>3. i \in DOMAIN files /\ i # 1
      <3>1. i \in DOMAIN files /\ Base(i) \notin Nat
        OBVIOUS
      <3> HIDE DEF Bad
      <3>2. i = 1 => Base(i) = 0
        BY <3>1, BasesExist
      <3> QED BY <3>1, <3>2
    <2>4. i - 1 \in DOMAIN files /\ ~(i <= i - 1)
      BY <1>1, <1>2, <2>3
    <2>5. i - 1 \notin Bad
      <3> HIDE DEF Bad
      <3> QED BY <2>2, <2>4
    <2> QED BY <1>2, <1>3, <2>3, <2>4, <2>5
  <1>5. ASSUME NEW i \in DOMAIN files
        PROVE  \A j \in DOMAIN files : i < j => Base(i) + Size(files[i]) <= Base(j)
    <2> DEFINE Bad == {j \in DOMAIN files : i < j /\ ~(Base(i) + Size(files[i]) <= Base(j))}
    <2>1. SUFFICES ASSUME Bad # {} PROVE FALSE
      OBVIOUS
    <2>2. PICK j \in Bad : \A k \in Bad : j <= k
      <3>1. Bad \in SUBSET Nat
        BY <1>1
      <3> HIDE DEF Bad
      <3> QED BY <2>1, <3>1, Least
    <2>3. j \in DOMAIN files /\ i < j /\ ~(Base(i) + Size(files[i]) <= Base(j))
      OBVIOUS
    <2>4. j # 1
      BY <1>1, <2>3
    <2>5. /\ j - 1 \in DOMAIN files /\ ~(j <= j - 1)
          /\ Base(j) = Base(j - 1) + Size(files[j - 1])
      BY <1>1, <1>2, <2>3, <2>4
    <2>6. j - 1 \notin Bad
      <3> HIDE DEF Bad
      <3> QED BY <2>2, <2>5
    <2>7. CASE i = j - 1
      BY <1>3, <1>4, <2>3, <2>5, <2>7
    <2>8. CASE i # j - 1
      <3>1. i < j - 1
        BY <1>1, <2>3, <2>8
      <3>2. Base(i) + Size(files[i]) <= Base(j - 1)
        BY <2>5, <2>6, <3>1
      <3>3. /\ Base(i) \in Nat /\ Base(j - 1) \in Nat
            /\ Size(files[i]) \in Nat /\ Size(files[j - 1]) \in Nat
        BY <1>3, <1>4, <2>5
      <3> QED BY <2>3, <2>5, <3>2, <3>3
    <2> QED BY <2>7, <2>8
  <1> QED BY <1>4, <1>5

\* An offset within a file is that file's and no other's.
LEMMA OwnerIs ==
  ASSUME LoadTypes, NEW i \in DOMAIN files, NEW o \in 1 .. Extent(files[i])
  PROVE  /\ Owner(o + Base(i)) = files[i]
         /\ \A k \in DOMAIN files : \A q \in 1 .. Extent(files[k]) :
              o + Base(i) = q + Base(k) => i = k /\ o = q
  <1> DEFINE Owns(k, at) == Base(k) <= at /\ \A j \in DOMAIN files : j > k => Base(j) > at
  <1>1. DOMAIN files \subseteq Nat
    BY LoadedFiles
  <1>2. \A k \in DOMAIN files :
          /\ Extent(files[k]) \in Nat /\ Size(files[k]) = Extent(files[k]) + 1
          /\ Base(k) \in Nat
    BY SizeShape, BasesGrow
  <1>3. ASSUME NEW k \in DOMAIN files, NEW q \in 1 .. Extent(files[k])
        PROVE  Owns(k, q + Base(k))
    <2>1. ASSUME NEW j \in DOMAIN files, j > k PROVE Base(j) > q + Base(k)
      <3>1. Base(k) + Size(files[k]) <= Base(j)
        BY <1>1, <2>1, BasesGrow
      <3> QED BY <1>2, <3>1
    <2> QED BY <1>2, <2>1
  <1>4. ASSUME NEW k \in DOMAIN files, NEW m \in DOMAIN files, NEW at \in Nat,
               Owns(k, at), Owns(m, at)
        PROVE  k = m
    <2>1. ~(k < m) /\ ~(m < k)
      BY <1>1, <1>2, <1>4
    <2> QED BY <1>1, <2>1
  <1>5. o + Base(i) \in Nat
    BY <1>2
  <1> HIDE DEF Owns
  <1>6. (CHOOSE k \in DOMAIN files : Owns(k, o + Base(i))) = i
    BY <1>3, <1>4, <1>5
  <1>7. Owner(o + Base(i)) = files[i]
    BY <1>6 DEF Owner, Owns
  <1>8. ASSUME NEW k \in DOMAIN files, NEW q \in 1 .. Extent(files[k]), o + Base(i) = q + Base(k)
        PROVE  i = k /\ o = q
    <2>1. Owns(i, o + Base(i)) /\ Owns(k, o + Base(i))
      BY <1>3, <1>8
    <2>2. i = k
      BY <1>4, <1>5, <2>1
    <2> QED BY <1>2, <1>8, <2>2
  <1> QED BY <1>7, <1>8

-----------------------------------------------------------------------------
(* What a written name comes to *)

\* Linking leaves the files alone, and all that is read off them.
LEMMA SameFiles ==
  ASSUME UNCHANGED <<world, answers, files, roots>>
  PROVE  /\ Loaded' = Loaded
         /\ \A f : Imports(f)' = Imports(f) /\ Items(f)' = Items(f)
         /\ \A f : Named(f)' = Named(f) /\ Exported(f)' = Exported(f) /\ Private(f)' = Private(f)
         /\ \A f : UsedNames(f)' = UsedNames(f) /\ BoundNames(f)' = BoundNames(f)
         /\ \A f, import : ModuleOf(f, import)' = ModuleOf(f, import)
         /\ \A f : ModuleImports(f)' = ModuleImports(f)
         /\ \A f : Hints(f)' = Hints(f) /\ QualifiedHints(f)' = QualifiedHints(f)
         /\ GraphExports' = GraphExports
         /\ LastRoot' = LastRoot
         /\ \A f, use : MeantFor(f, use)' = MeantFor(f, use)
         /\ \A i : Base(i)' = Base(i)
         /\ \A f, j : Offset(f, j)' = Offset(f, j)
  <1>1. /\ Loaded' = Loaded
        /\ \A f : Imports(f)' = Imports(f) /\ Items(f)' = Items(f)
    BY DEF Loaded, Imports, Items
  <1>2. \A f : Named(f)' = Named(f) /\ Exported(f)' = Exported(f)
    BY <1>1 DEF Named, Exported
  <1>3. \A f : Private(f)' = Private(f)
    BY <1>2 DEF Private
  <1>4. \A f : References(f)' = References(f)
    BY <1>1 DEF References
  <1>5. \A f : UsedNames(f)' = UsedNames(f)
    BY <1>4 DEF UsedNames
  <1>6. \A f : BoundNames(f)' = BoundNames(f)
    BY <1>1 DEF BoundNames
  <1>7. \A f, import : ModuleOf(f, import)' = ModuleOf(f, import)
    BY <1>1 DEF ModuleOf, ResolveImport
  <1>8. \A f : ModuleImports(f)' = ModuleImports(f)
    BY <1>1, <1>7 DEF ModuleImports
  <1>9. GraphExports' = GraphExports
    BY <1>1, <1>2 DEF GraphExports
  <1>10. \A f : FlatHints(f)' = FlatHints(f)
    BY <1>2, <1>3, <1>5, <1>6, <1>7, <1>8, <1>9 DEF FlatHints
  <1>11. \A f : QualifiedHints(f)' = QualifiedHints(f)
    <2>1. \A f : QualifiedUses(f)' = QualifiedUses(f)
      BY <1>4 DEF QualifiedUses
    <2> QED BY <1>3, <1>7, <1>8, <2>1 DEF QualifiedHints
  <1>12. \A f : Hints(f)' = Hints(f)
    BY <1>10, <1>11 DEF Hints
  <1>13. LastRoot' = LastRoot
    BY DEF LastRoot, RootPlaces
  <1>14. \A f, use : MeantFor(f, use)' = MeantFor(f, use)
    BY <1>2, <1>7, <1>8 DEF MeantFor
  <1>15. \A i : Base(i)' = Base(i)
    <2>1. \A f : Size(f)' = Size(f)
      BY <1>1 DEF Size, Extent
    <2> QED BY <2>1 DEF Base, Bases
  <1>16. \A f, j : Offset(f, j)' = Offset(f, j)
    BY <1>1 DEF Offset
  <1> QED BY <1>1, <1>2, <1>3, <1>5, <1>6, <1>7, <1>8, <1>9, <1>11, <1>12, <1>13, <1>14, <1>15, <1>16

\* While loading, no file is hinted at; the checks hint at what they find.
HintInv ==
  /\ phase = "load" => ~Told("W0101")
  /\ phase = "link" =>
       \A d : d.code = "W0101" => (d \in diagnostics <=> \E f \in Loaded : d \in Hints(f))

LEMMA HintStep ==
  ASSUME HintInv, [Next]_<<vars, classifying>>
  PROVE  HintInv'
  <1>1. ASSUME UNCHANGED <<world, answers, files, roots, diagnostics>>, phase' = phase
        PROVE  HintInv'
    BY <1>1, SameFiles DEF HintInv, Told
  <1>2. ASSUME phase = "load", phase' \in {"load", "failed"},
               \/ diagnostics' = diagnostics
               \/ \E code \in {"E0100", "E0101", "E0102", "E0103", "E0109"} :
                    diagnostics' = Report(code)
        PROVE  HintInv'
    BY <1>2 DEF HintInv, Told, Report
  <1>3. CASE VisitRoot \/ PassOver \/ Descend \/ Leave
    <2>1. phase = "load" /\ phase' \in {"load", "failed"} /\ diagnostics' = diagnostics
      BY <1>3 DEF VisitRoot, PassOver, Descend, Leave, Loading, Begin
    <2> QED BY <1>2, <2>1
  <1>4. CASE Unresolved \/ Cycle
    <2>1. /\ phase = "load" /\ phase' = "load"
          /\ \/ diagnostics' = Report("E0101")
             \/ diagnostics' = Report("E0100")
      BY <1>4 DEF Unresolved, Cycle, Loading
    <2> QED BY <1>2, <2>1
  <1>5. CASE Imported
    <2>1. PICK fault : fault = ImportFault(Edge.import, At.module, At.item)
      OBVIOUS
    <2>2. fault \in {NoName, "E0102", "E0103", "E0109"}
      BY <2>1 DEF ImportFault
    <2>3. /\ phase = "load" /\ phase' = "load"
          /\ \/ diagnostics' = diagnostics
             \/ fault # NoName /\ diagnostics' = Report(fault)
      BY <1>5, <2>1 DEF Imported, Loading
    <2> QED BY <1>2, <2>2, <2>3
  <1>6. CASE Check
    <2>1. /\ phase = "load" /\ phase' = "link" /\ UNCHANGED <<world, answers, files, roots>>
          /\ diagnostics' = diagnostics
               \cup UNION {Hints(file) \cup IdleExclusions(file) : file \in Loaded}
      BY <1>6 DEF Check
    <2>2. \A f : \A d \in IdleExclusions(f) : d.code = "E0110"
      BY DEF IdleExclusions
    <2>3. ASSUME NEW d, d.code = "W0101"
          PROVE  d \in diagnostics' <=> \E f \in Loaded : d \in Hints(f)
      <3>1. d \notin diagnostics
        BY <2>1, <2>3 DEF HintInv, Told
      <3>2. \A f : d \notin IdleExclusions(f)
        BY <2>2, <2>3
      <3> QED BY <2>1, <3>1, <3>2
    <2> QED BY <2>1, <2>3, SameFiles DEF HintInv
  <1>7. CASE Link \/ CheckTraits \/ Rewrite
    BY <1>7 DEF Link, CheckTraits, Rewrite, HintInv
  <1>8. CASE InClassify \/ UNCHANGED vars
    <2>1. UNCHANGED <<world, answers, files, roots, diagnostics>> /\ phase' = phase
      BY <1>8 DEF InClassify, vars
    <2> QED BY <1>1, <2>1
  <1> QED BY <1>3, <1>4, <1>5, <1>6, <1>7, <1>8 DEF Next, Load, NextDecl, CallOutside, CallUnknown,
             CallPending, CallKnown, AllCalled, Calling, Ended

\* What an import reaches is one of the loaded files.
LEMMA ModuleIsLoaded ==
  \A f, import : ModuleOf(f, import) # None => ModuleOf(f, import) \in Loaded
  BY DEF ModuleOf, ResolveImport

\* What an entry takes from the item it stands for.
LEMMA EntryShapes ==
  ASSUME LoadTypes
  PROVE  /\ \A f \in Loaded : \A j \in DOMAIN Items(f) :
              /\ ~Copy(f, j).own
              /\ Copy(f, j).item.kind = Items(f)[j].kind
              /\ Copy(f, j).item.name = Items(f)[j].name
         /\ \A i \in DOMAIN files : \A j \in DOMAIN Items(files[i]) :
              /\ Contributed(i, j).at = Offset(files[i], j) + Base(i)
              /\ Contributed(i, j).item.kind = Items(files[i])[j].kind
              /\ Contributed(i, j).item.name = Items(files[i])[j].name
              /\ Contributed(i, j).item.uses = Items(files[i])[j].uses
  <1>1. WorldOK
    BY DEF LoadTypes
  <1>2. ASSUME NEW f \in Loaded, NEW j \in DOMAIN Items(f)
        PROVE  /\ ~Copy(f, j).own
               /\ Copy(f, j).item.kind = Items(f)[j].kind
               /\ Copy(f, j).item.name = Items(f)[j].name
               /\ Copy(f, j).item.uses = Items(f)[j].uses
    <2>1. f \in DOMAIN world.files
      BY LoadedFiles
    <2>2. PICK item : item = Copy(f, j).item
      OBVIOUS
    <2>3. /\ Copy(f, j) = [own |-> FALSE, at |-> Offset(f, j), item |-> item]
          /\ item.kind = Items(f)[j].kind /\ item.name = Items(f)[j].name
          /\ item.uses = Items(f)[j].uses
      BY <1>1, <2>1, <2>2, CopyShape
    <2> QED BY <2>3
  <1>4. ASSUME NEW i \in DOMAIN files, NEW j \in DOMAIN Items(files[i])
        PROVE  /\ Contributed(i, j).at = Offset(files[i], j) + Base(i)
               /\ Contributed(i, j).item = Copy(files[i], j).item
               /\ files[i] \in Loaded
    <2>1. files[i] \in DOMAIN world.files /\ files[i] \in Loaded
      BY LoadedFiles
    <2> QED BY <1>1, <2>1, ContributedShape
  <1>5. ASSUME NEW i \in DOMAIN files, NEW j \in DOMAIN Items(files[i])
        PROVE  /\ Contributed(i, j).item.kind = Items(files[i])[j].kind
               /\ Contributed(i, j).item.name = Items(files[i])[j].name
               /\ Contributed(i, j).item.uses = Items(files[i])[j].uses
    BY <1>2, <1>4
  <1> QED BY <1>2, <1>4, <1>5

LEMMA AliasKinds ==
  ASSUME LoadTypes, NEW f \in Loaded, NEW j \in DOMAIN Items(f), NEW name
  PROVE  Alias(f, j, name).own = FALSE /\ Alias(f, j, name).item.kind = Items(f)[j].kind
  <1>1. f \in DOMAIN world.files /\ WorldOK
    BY LoadedFiles DEF LoadTypes
  <1> QED BY <1>1, RenameShape

LEMMA AliasNames ==
  ASSUME LoadTypes, NEW f \in Loaded, NEW j \in DOMAIN Items(f), NEW name
  PROVE  Alias(f, j, name).item.name = name
  <1>1. f \in DOMAIN world.files /\ WorldOK
    BY LoadedFiles DEF LoadTypes
  <1> QED BY <1>1, RenameNames

\* A name is defined once a file exports it ...
LEMMA ExportsAreDefined ==
  ASSUME LoadTypes, Link
  PROVE  GraphExports \subseteq Defined'
  <1> SUFFICES ASSUME NEW f \in Loaded, NEW name \in Exported(f) PROVE name \in Defined'
    BY DEF GraphExports
  <1>1. PICK i \in DOMAIN files : f = files[i]
    BY LoadedFiles
  <1>2. PICK j \in DOMAIN Items(f) : name = ExportedName(Items(f)[j])
    BY DEF Exported
  <1>3. name # NoName
    BY DEF Exported
  <1>4. /\ ItemName(Items(f)[j]) = name /\ Items(f)[j].name = name
        /\ Items(f)[j].kind \notin Unnamed
    BY <1>2, <1>3, ExportedItem
  <1>5. Contributed(i, j) \in ToSet(Flat)
    BY <1>1, <1>2, <1>3, FlatElements
  <1>6. PICK flat : /\ DOMAIN program' = DOMAIN flat
                    /\ \A k \in DOMAIN flat :
                         /\ GoodEntry(flat[k])
                         /\ program'[k] = RewriteItem(flat[k], ModuleAliases)
                    /\ \A e \in ToSet(Flat) : \E k \in DOMAIN flat : flat[k] = e
    BY LinkElements
  <1>7. PICK k \in DOMAIN flat : flat[k] = Contributed(i, j)
    BY <1>5, <1>6
  <1>9. flat[k].item.kind = Items(f)[j].kind /\ flat[k].item.name = Items(f)[j].name
    BY <1>1, <1>7, EntryShapes
  <1>10. program'[k].item.kind = Items(f)[j].kind /\ program'[k].item.name = Items(f)[j].name
    BY <1>6, <1>9, RewriteKeeps
  <1>11. ItemName(program'[k].item) = name
    BY <1>4, <1>10 DEF ItemName
  <1> QED BY <1>3, <1>6, <1>11 DEF Defined, ItemName

\* ... and a name that is defined is exported, a root's own or an alias.
LEMMA DefinedComesFrom ==
  ASSUME LoadTypes, Link, NEW name \in Defined'
  PROVE  \/ name \in GraphExports
         \/ \E root \in roots : name \in Named(root)
         \/ \E import \in ToSet(Imports(LastRoot)) : import.alias = name
  <1>1. PICK flat : /\ DOMAIN program' = DOMAIN flat
                    /\ \A k \in DOMAIN flat :
                         /\ GoodEntry(flat[k])
                         /\ FromItem(flat[k]) \/ Forwards(flat[k]) \/ IsAlias(flat[k])
                         /\ program'[k] = RewriteItem(flat[k], ModuleAliases)
    BY LinkElements
  <1>2. PICK k \in DOMAIN flat : name = ItemName(program'[k].item) /\ name # NoName
    BY <1>1 DEF Defined, ItemName
  <1>3. name = ItemName(flat[k].item)
    BY <1>1, <1>2, RewriteKeeps DEF ItemName
  <1>5. CASE FromItem(flat[k])
    <2>0. PICK i \in DOMAIN files :
            \E j \in DOMAIN Items(files[i]) :
              /\ flat[k] = Contributed(i, j)
              /\ files[i] \in roots \/ Items(files[i])[j].exported
      BY <1>5 DEF FromItem
    <2>1. PICK j \in DOMAIN Items(files[i]) :
            /\ flat[k] = Contributed(i, j)
            /\ files[i] \in roots \/ Items(files[i])[j].exported
      BY <2>0
    <2>2. files[i] \in Loaded
      BY LoadedFiles
    <2>3. /\ flat[k].item.kind = Items(files[i])[j].kind
          /\ flat[k].item.name = Items(files[i])[j].name
      BY <2>1, EntryShapes
    <2>4. name = ItemName(Items(files[i])[j])
      BY <1>3, <2>3 DEF ItemName
    <2>5. CASE files[i] \in roots
      BY <1>2, <2>4, <2>5 DEF Named
    <2>6. CASE Items(files[i])[j].exported
      <3>1. name = ExportedName(Items(files[i])[j])
        BY <2>4, <2>6 DEF ExportedName
      <3> QED BY <1>2, <2>2, <3>1 DEF Exported, GraphExports
    <2> QED BY <2>1, <2>5, <2>6
  <1>6. CASE Forwards(flat[k])
    <2>0. PICK m \in Loaded :
            \E j \in DOMAIN Items(m) : flat[k] = Copy(m, j) /\ ExportedName(Items(m)[j]) # NoName
      BY <1>6 DEF Forwards
    <2>1. PICK j \in DOMAIN Items(m) : flat[k] = Copy(m, j) /\ ExportedName(Items(m)[j]) # NoName
      BY <2>0
    <2>2. flat[k].item.kind = Items(m)[j].kind /\ flat[k].item.name = Items(m)[j].name
      BY <2>1, EntryShapes
    <2>3. name = ExportedName(Items(m)[j])
      BY <1>3, <2>1, <2>2, ExportedItem DEF ItemName
    <2> QED BY <1>2, <2>3 DEF Exported, GraphExports
  <1>7. CASE IsAlias(flat[k])
    <2>0. PICK import \in ToSet(Imports(LastRoot)), m \in Loaded :
            \E j \in DOMAIN Items(m) :
              /\ flat[k] = Alias(m, j, import.alias)
              /\ Items(m)[j].kind \in Aliasable
      BY <1>7 DEF IsAlias
    <2>1. PICK j \in DOMAIN Items(m) :
            /\ flat[k] = Alias(m, j, import.alias)
            /\ Items(m)[j].kind \in Aliasable
      BY <2>0
    <2>2. flat[k].item.kind = Items(m)[j].kind
      BY <2>1, AliasKinds
    <2>3. flat[k].item.name = import.alias
      BY <2>1, AliasNames
    <2>4. name = import.alias
      BY <1>3, <2>1, <2>2, <2>3 DEF ItemName, Aliasable, Unnamed
    <2> QED BY <2>4
  <1> QED BY <1>1, <1>5, <1>6, <1>7

LEMMA QualifiedBind ==
  ASSUME LoadTypes, Link
  PROVE  QualifiedUsesBind'
  <1>0. UNCHANGED <<world, answers, files, roots>>
    BY DEF Link
  <1> SUFFICES ASSUME NEW k \in DOMAIN files, NEW j \in DOMAIN Items(files[k]),
                      NEW e \in DOMAIN program', program'[e].own,
                      program'[e].at = Offset(files[k], j) + Base(k),
                      NEW u \in DOMAIN Items(files[k])[j].uses,
                      Items(files[k])[j].uses[u].form # "name",
                      MeantFor(files[k], Items(files[k])[j].uses[u]) # {}
               PROVE  /\ program'[e].item.uses[u].form = "name"
                      /\ Items(files[k])[j].uses[u].name \in Defined'
    BY <1>0, SameFiles DEF QualifiedUsesBind
  <1>1. PICK use : use = Items(files[k])[j].uses[u]
    OBVIOUS
  <1>2. PICK import \in ModuleImports(files[k]) :
          Qualifier(import) = use.qualifier /\ use.name \in Exported(ModuleOf(files[k], import))
    BY <1>1 DEF MeantFor
  <1>3. PICK module : module = ModuleOf(files[k], import)
    OBVIOUS
  <1>4. module \in Loaded /\ use.name \in Exported(module)
    BY <1>2, <1>3, ModuleIsLoaded DEF ModuleImports
  <1>5. use.name \in Defined'
    BY <1>4, ExportsAreDefined DEF GraphExports
  <1>6. /\ <<use.qualifier>> \in DOMAIN ModuleAliases
        /\ use.name \in ModuleAliases[<<use.qualifier>>]
    <2> DEFINE Reached(file, imp) ==
                 {[path |-> path, names |-> Exported(ModuleOf(file, imp))] :
                    path \in QualifierPaths(imp)}
    <2>1. PICK reached : reached = UNION {UNION {Reached(file, imp) : imp \in ModuleImports(file)} :
                                            file \in Loaded}
      OBVIOUS
    <2>2. PICK r : r = [path |-> <<use.qualifier>>, names |-> Exported(module)]
      OBVIOUS
    <2>3. files[k] \in Loaded
      BY LoadedFiles
    <2>4. r \in Reached(files[k], import)
      BY <1>2, <1>3, <2>2 DEF QualifierPaths
    <2>5. r \in reached
      BY <2>1, <2>3, <2>4
    <2>6. ModuleAliases = [path \in {q.path : q \in reached} |->
                             UNION {q.names : q \in {q \in reached : q.path = path}}]
      BY <2>1 DEF ModuleAliases
    <2> HIDE DEF Reached
    <2> QED BY <1>4, <2>2, <2>5, <2>6
  <1>7. PICK flat : /\ DOMAIN program' = DOMAIN flat
                    /\ \A i \in DOMAIN flat :
                         /\ GoodEntry(flat[i])
                         /\ FromItem(flat[i]) \/ Forwards(flat[i]) \/ IsAlias(flat[i])
                         /\ program'[i] = RewriteItem(flat[i], ModuleAliases)
    BY LinkElements
  <1>8. flat[e].own /\ flat[e].at = Offset(files[k], j) + Base(k)
    BY <1>7, RewriteKeeps
  <1>10. FromItem(flat[e])
    <2>1. ~Forwards(flat[e])
      BY <1>8, EntryShapes DEF Forwards
    <2>2. ~IsAlias(flat[e])
      BY <1>8, AliasKinds DEF IsAlias
    <2> QED BY <1>7, <2>1, <2>2
  <1>22. PICK i \in DOMAIN files :
            \E l \in DOMAIN Items(files[i]) : flat[e] = Contributed(i, l)
    BY <1>10 DEF FromItem
  <1>11. PICK l \in DOMAIN Items(files[i]) : flat[e] = Contributed(i, l)
    BY <1>22
  <1>12. /\ flat[e].at = Offset(files[i], l) + Base(i)
         /\ flat[e].item.uses = Items(files[i])[l].uses
    BY <1>11, EntryShapes
  <1>13. /\ Offset(files[k], j) \in 1 .. Extent(files[k])
         /\ Offset(files[i], l) \in 1 .. Extent(files[i])
    BY SizeShape
  <1>14. i = k /\ Offset(files[k], j) = Offset(files[i], l)
    BY <1>8, <1>12, <1>13, OwnerIs
  <1>15. l = j
    BY <1>14, SizeShape
  <1>16. Owner(flat[e].at) = files[k]
    BY <1>8, <1>13, OwnerIs
  <1>17. UsesOwnQualifier(files[k])
    BY <1>2 DEF UsesOwnQualifier
  <1>18. flat[e].item.uses[u] = use /\ u \in DOMAIN flat[e].item.uses
    BY <1>1, <1>12, <1>14, <1>15
  <1>19. program'[e].item.uses[u] = Rewritten(use, ModuleAliases)
    BY <1>7, <1>16, <1>17, <1>18, RewriteKeeps DEF IsRewritten
  <1>20. IsUse(use)
    BY <1>7, <1>18 DEF GoodEntry, IsItem
  <1>21. Rewritten(use, ModuleAliases).form = "name"
    BY <1>1, <1>6, <1>20 DEF Rewritten, IsUse
  <1> QED BY <1>1, <1>5, <1>19, <1>21

LEMMA MissesExplained ==
  ASSUME LoadTypes, HintInv, Link
  PROVE  MissesAreExplained'
  <1>0. UNCHANGED <<world, answers, files, roots, diagnostics>> /\ phase = "link"
    BY DEF Link
  <1> DEFINE W(file, name) == [code |-> "W0101", file |-> file, at |-> <<name>>]
  <1> SUFFICES ASSUME NEW file \in Loaded, NEW name \in UsedNames(file),
                      NEW import \in ModuleImports(file), name \in Private(ModuleOf(file, import)),
                      name \notin Named(file) \cup BoundNames(file)
               PROVE  /\ name \notin Defined' => W(file, name) \in diagnostics
                      /\ W(file, name) \in diagnostics /\ name \in Defined' =>
                           \/ \E root \in roots : name \in Named(root)
                           \/ \E imp \in ToSet(Imports(LastRoot)) : imp.alias = name
                           \/ name \in QualifiedHints(file)
    BY <1>0, SameFiles DEF MissesAreExplained
  <1>1. \A f : W(file, name) \in Hints(f) <=> f = file /\ name \in FlatHints(f) \cup QualifiedHints(f)
    BY DEF Hints
  <1>2. W(file, name) \in diagnostics <=> name \in FlatHints(file) \cup QualifiedHints(file)
    <2>1. W(file, name).code = "W0101"
      OBVIOUS
    <2> HIDE DEF W
    <2> QED BY <1>0, <1>1, <2>1 DEF HintInv
  <1>3. ASSUME name \notin Defined' PROVE name \in FlatHints(file)
    <2>1. name \notin GraphExports
      BY <1>3, ExportsAreDefined
    <2> QED BY <2>1 DEF FlatHints
  <1>4. name \in FlatHints(file) => name \notin GraphExports
    BY DEF FlatHints
  <1> HIDE DEF W
  <1> QED BY <1>2, <1>3, <1>4, DefinedComesFrom

LEMMA ExportsCross ==
  ASSUME LoadTypes, Link
  PROVE  OnlyExportsCross'
  <1>0. UNCHANGED <<world, answers, files, roots>>
    BY DEF Link
  <1>1. GraphExports' = GraphExports /\ LastRoot' = LastRoot /\ roots' = roots
    BY <1>0, SameFiles
  <1>2. \A f : Named(f)' = Named(f) /\ Imports(f)' = Imports(f)
    BY <1>0, SameFiles
  <1> SUFFICES ASSUME NEW name \in Defined' \ GraphExports
               PROVE  \/ \E root \in roots : name \in Named(root)
                      \/ \E import \in ToSet(Imports(LastRoot)) : import.alias = name
    BY <1>1, <1>2, ExportsAreDefined DEF OnlyExportsCross
  <1> QED BY DefinedComesFrom

\* What was written comes to what was meant: a file's own qualified uses are
\* bound by the linker, whichever files share the joined source, a use of another
\* module's private name is explained, and only exports cross between files.
THEOREM WrittenNamesBind == Spec => []NamesBind
  <1>1. FrontInit => HintInv /\ NamesBind
    BY DEF FrontInit, Init, HintInv, Told, NamesBind, QualifiedUsesBind, MissesAreExplained, OnlyExportsCross
  <1>2. HintInv /\ [Next]_<<vars, classifying>> => HintInv'
    BY HintStep
  <1>3. LoadInv /\ HintInv /\ NamesBind /\ [Next]_<<vars, classifying>> => NamesBind'
    <2> SUFFICES ASSUME LoadInv, HintInv, NamesBind, [Next]_<<vars, classifying>>, phase' = "resolve"
                 PROVE  NamesBind'
      BY DEF NamesBind, QualifiedUsesBind, MissesAreExplained, OnlyExportsCross
    <2>1. CASE Link
      BY <2>1, QualifiedBind, MissesExplained, ExportsCross DEF NamesBind, LoadInv
    <2>2. CASE UNCHANGED vars
      <3>1. UNCHANGED <<world, answers, files, roots, diagnostics, program, phase>>
        BY <2>2 DEF vars
      <3>2. Defined' = Defined
        BY <3>1 DEF Defined, ItemName
      <3>3. QualifiedUsesBind'
        BY <3>1, <3>2, SameFiles DEF NamesBind, QualifiedUsesBind
      <3>4. MissesAreExplained'
        <4>1. MissesAreExplained
          BY DEF NamesBind
        <4>2. Loaded' = Loaded /\ LastRoot' = LastRoot /\ phase = "resolve"
          BY <3>1, SameFiles
        <4> DEFINE W(file, n) == [code |-> "W0101", file |-> file, at |-> <<n>>]
        <4> SUFFICES ASSUME NEW file \in Loaded, NEW n \in UsedNames(file),
                            NEW import \in ModuleImports(file), n \in Private(ModuleOf(file, import)),
                            n \notin Named(file) \cup BoundNames(file)
                     PROVE  /\ n \notin Defined' => W(file, n) \in diagnostics
                            /\ W(file, n) \in diagnostics /\ n \in Defined' =>
                                 \/ \E root \in roots : n \in Named(root)
                                 \/ \E imp \in ToSet(Imports(LastRoot)) : imp.alias = n
                                 \/ n \in QualifiedHints(file)
          BY <3>1, SameFiles DEF MissesAreExplained
        <4>3. /\ n \notin Defined => W(file, n) \in diagnostics
              /\ W(file, n) \in diagnostics /\ n \in Defined =>
                   \/ \E root \in roots : n \in Named(root)
                   \/ \E imp \in ToSet(Imports(LastRoot)) : imp.alias = n
                   \/ n \in QualifiedHints(file)
          BY <4>1, <4>2 DEF MissesAreExplained
        <4> HIDE DEF W
        <4> QED BY <3>2, <4>3
      <3>5. OnlyExportsCross'
        <4>1. OnlyExportsCross /\ phase = "resolve"
          BY <3>1 DEF NamesBind
        <4>2. GraphExports' = GraphExports /\ LastRoot' = LastRoot /\ roots' = roots
          BY <3>1, SameFiles
        <4>3. \A f : Named(f)' = Named(f) /\ Imports(f)' = Imports(f)
          BY <3>1, SameFiles
        <4> QED BY <3>2, <4>1, <4>2, <4>3 DEF OnlyExportsCross
      <3> QED BY <3>3, <3>4, <3>5 DEF NamesBind
    <2>3. Link \/ UNCHANGED vars
      BY DEF Next, Load, VisitRoot, Unresolved, PassOver, Cycle, Descend, Imported, Leave, Check,
             Begin, Loading, CheckTraits, NextDecl, CallOutside, CallUnknown, CallPending, CallKnown,
             AllCalled, Calling, InClassify, Rewrite, Ended
    <2> QED BY <2>1, <2>2, <2>3
  <1> QED BY <1>1, <1>2, <1>3, LoadInvariant, PTL DEF Spec
=============================================================================

----------------------------- MODULE RuntimeProofs -----------------------------
(***************************************************************************)
(* What running programs can and cannot do: to the managed heap, for any   *)
(* number of interpreters, variables and objects, and in the virtual       *)
(* machine, for any module the rules of the lowering hold of.              *)
(*                                                                         *)
(* Heap.  Whatever a program does, an object in a heap keeps a positive    *)
(* count, is in one heap only, and refers to older objects.  As long as    *)
(* programs release each counted reference once, the counts count the      *)
(* references.                                                             *)
(*                                                                         *)
(* Machine.  A module that keeps the rules runs cleanly: no frame leaves   *)
(* the code, no Phi misses its source, no register is read before it is    *)
(* written, whatever the values and whatever the branches taken.           *)
(***************************************************************************)
EXTENDS ArcHeap, NirRules, FiniteSetTheorems, SequenceTheorems, TLAPS

-----------------------------------------------------------------------------
(***************************************************************************)
(* The inductive invariant.  A reference names an id handed out before;    *)
(* an interpreter that has not started has no references and no objects;   *)
(* a counted reference to an object is held where the object lives.        *)
(***************************************************************************)
RefsArePast ==
  /\ \A i \in Interps, n \in Names : var[i][n].id < nextId
  /\ \A id \in Ids : stored[id].id < nextId
  /\ \A id \in Ids : id >= nextId => \A i \in Interps : id \notin objects[i]

UnbornIsEmpty ==
  \A i \in Interps : state[i] = "unborn" =>
    objects[i] = {} /\ \A n \in Names : var[i][n] = None

ArcsAreHome ==
  \A i, j \in Interps : \A id \in objects[i] : \A n \in Names :
    var[j][n] = Ref("arc", id) => j = i

HeapInv == TypeOK /\ RefsArePast /\ HeapIsSound
IInv == HeapInv /\ UnbornIsEmpty /\ ArcsAreHome /\ CountIsHeld

-----------------------------------------------------------------------------
LEMMA RefFacts ==
  /\ \A k \in Kinds, id \in 0 .. MaxId :
       Ref(k, id) \in Refs /\ Ref(k, id).kind = k /\ Ref(k, id).id = id
  /\ None \in Refs /\ Data \in Refs /\ None.id = 0 /\ Data.id = 0
  /\ None.kind = "none" /\ Data.kind = "data"
  BY ArcHeapAssumption DEF Ref, Refs, None, Data, Kinds

\* A copy refers to the same object, and the counts do not know of it.
LEMMA CopiedFacts ==
  ASSUME NEW r \in Refs
  PROVE  /\ Copied(r) \in Refs /\ Copied(r).id = r.id
         /\ Copied(r).kind # "arc"
         /\ Copied(r).kind \in {"none", "data"} => r.kind \in {"none", "data"}
  BY DEF Copied, Ref, Refs, Kinds

LEMMA IdFacts ==
  /\ MaxId \in Nat /\ Ids \subseteq Nat /\ Ids \subseteq 0 .. MaxId
  /\ \A id \in Ids : id >= 1
  BY ArcHeapAssumption DEF Ids

\* What a program may do to a heap in one step: nothing but bind a reference
\* it could name, if no object, count or stored value changes.
LEMMA BindKeepsHeap ==
  ASSUME HeapInv, NEW i \in Interps, NEW n \in Names, NEW r \in Refs,
         r.id < nextId, SetVar(i, n, r), strayed' \in BOOLEAN,
         UNCHANGED <<nextId, objects, strong, stored, state>>
  PROVE  HeapInv'
  <1>1. TypeOK'
    BY DEF HeapInv, TypeOK, SetVar
  <1>2. RefsArePast'
    BY DEF HeapInv, TypeOK, RefsArePast, SetVar
  <1>3. HeapIsSound'
    BY DEF HeapInv, HeapIsSound, PresentIsCounted, StoredPointsBack
  <1> QED BY <1>1, <1>2, <1>3 DEF HeapInv

LEMMA TrapKeepsHeap ==
  ASSUME HeapInv, NEW i \in Interps, Traps(i)
  PROVE  HeapInv'
  <1>1. TypeOK'
    BY DEF HeapInv, TypeOK, Traps
  <1>2. RefsArePast' /\ HeapIsSound'
    BY DEF HeapInv, RefsArePast, HeapIsSound, PresentIsCounted, StoredPointsBack, Traps
  <1> QED BY <1>1, <1>2 DEF HeapInv

\* What an object holds was handed out before the object, so before now.
LEMMA LoadedIsPast ==
  ASSUME HeapInv, NEW i \in Interps, NEW id \in objects[i]
  PROVE  /\ Copied(stored[id]) \in Refs
         /\ Copied(stored[id]).id < nextId
  BY IdFacts, CopiedFacts DEF HeapInv, TypeOK, RefsArePast

-----------------------------------------------------------------------------
(* The heap, whatever programs do *)

LEMMA HeapInit == Init => HeapInv
  <1> SUFFICES ASSUME Init PROVE HeapInv
    OBVIOUS
  <1>1. TypeOK
    <2>1. nextId \in 1 .. MaxId + 1 /\ objects \in [Interps -> SUBSET Ids]
      BY IdFacts DEF Init
    <2>2. strong \in [Ids -> Nat] /\ stored \in [Ids -> Refs] /\ strayed \in BOOLEAN
      BY RefFacts DEF Init
    <2>3. /\ var \in [Interps -> [Names -> Refs]]
          /\ state \in [Interps -> {"unborn", "running", "trapped", "ended"}]
      BY RefFacts DEF Init
    <2> QED BY <2>1, <2>2, <2>3 DEF TypeOK
  <1>2. RefsArePast
    BY RefFacts DEF Init, RefsArePast
  <1>3. HeapIsSound
    BY RefFacts DEF Init, HeapIsSound, PresentIsCounted, StoredPointsBack
  <1> QED BY <1>1, <1>2, <1>3 DEF HeapInv

LEMMA AllocKeepsHeap ==
  ASSUME HeapInv, NEW i \in Interps, NEW n \in Names, NEW m \in Names,
         HeapAlloc(i, n, m)
  PROVE  HeapInv'
  <1> DEFINE value == IF n = m THEN Data ELSE Copied(var[i][m])
  <1>1. /\ nextId \in Ids /\ nextId \in Nat /\ nextId' = nextId + 1
        /\ objects' = [objects EXCEPT ![i] = @ \cup {nextId}]
        /\ strong' = [strong EXCEPT ![nextId] = 1]
        /\ stored' = [stored EXCEPT ![nextId] = value]
        /\ var' = [var EXCEPT ![i][n] = Ref("arc", nextId)]
        /\ state' = state /\ strayed' \in BOOLEAN
    BY IdFacts DEF HeapInv, TypeOK, HeapAlloc, Fresh, FirstCount, SetVar, Strays
  <1>2. /\ value \in Refs /\ value.id < nextId
        /\ value.kind = "data" \/ value.id = var[i][m].id
    BY <1>1, IdFacts, RefFacts, CopiedFacts DEF HeapInv, TypeOK, RefsArePast
  <1>3. /\ Ref("arc", nextId) \in Refs
        /\ Ref("arc", nextId).id = nextId
    BY <1>1, RefFacts, IdFacts DEF Kinds
  <1> HIDE DEF value
  <1>4. TypeOK'
    <2>1. nextId' \in 1 .. MaxId + 1
      BY <1>1, IdFacts DEF Ids
    <2> QED BY <2>1, <1>1, <1>2, <1>3 DEF HeapInv, TypeOK
  <1>5. RefsArePast'
    <2>1. \A j \in Interps, k \in Names : var'[j][k].id < nextId + 1
      <3> SUFFICES ASSUME NEW j \in Interps, NEW k \in Names
                   PROVE  var'[j][k].id < nextId + 1
        OBVIOUS
      <3>1. var[j][k].id < nextId /\ var[j][k].id \in Nat
        BY IdFacts DEF HeapInv, TypeOK, RefsArePast, Refs
      <3>2. var'[j][k] = var[j][k] \/ var'[j][k] = Ref("arc", nextId)
        BY <1>1 DEF HeapInv, TypeOK
      <3> QED BY <3>1, <3>2, <1>1, <1>3
    <2>2. \A id \in Ids : stored'[id].id < nextId + 1
      <3> SUFFICES ASSUME NEW id \in Ids PROVE stored'[id].id < nextId + 1
        OBVIOUS
      <3>1. stored[id].id < nextId /\ stored[id].id \in Nat /\ value.id \in Nat
        BY <1>2, IdFacts DEF HeapInv, TypeOK, RefsArePast, Refs
      <3>2. stored'[id] = stored[id] \/ stored'[id] = value
        BY <1>1 DEF HeapInv, TypeOK
      <3> QED BY <3>1, <3>2, <1>1, <1>2
    <2>3. \A id \in Ids : id >= nextId + 1 => \A j \in Interps : id \notin objects'[j]
      BY <1>1, IdFacts DEF HeapInv, TypeOK, RefsArePast
    <2> QED BY <2>1, <2>2, <2>3, <1>1 DEF RefsArePast
  <1>6. PresentIsCounted'
    <2> SUFFICES ASSUME NEW j \in Interps, NEW id \in objects'[j]
                 PROVE  /\ strong'[id] >= 1 /\ id < nextId'
                        /\ \A k \in Interps : id \in objects'[k] => k = j
      BY DEF PresentIsCounted
    <2>1. CASE id = nextId
      <3>1. \A k \in Interps : id \notin objects[k]
        BY <1>1, <2>1, IdFacts DEF HeapInv, RefsArePast
      <3> QED BY <3>1, <2>1, <1>1 DEF HeapInv, TypeOK
    <2>2. CASE id # nextId
      <3>1. /\ id \in objects[j] /\ id \in Ids
            /\ \A k \in Interps : id \in objects'[k] => id \in objects[k]
        BY <2>2, <1>1 DEF HeapInv, TypeOK
      <3>2. strong'[id] = strong[id]
        BY <2>2, <3>1, <1>1 DEF HeapInv, TypeOK
      <3> QED BY <3>1, <3>2, <1>1, IdFacts DEF HeapInv, TypeOK, HeapIsSound, PresentIsCounted
    <2> QED BY <2>1, <2>2
  <1>7. StoredPointsBack'
    <2> SUFFICES ASSUME NEW id \in Ids, stored'[id].kind \notin {"none", "data"}
                 PROVE  stored'[id].id < id
      BY DEF StoredPointsBack
    <2>1. CASE id = nextId
      BY <2>1, <1>1, <1>2 DEF HeapInv, TypeOK
    <2>2. CASE id # nextId
      BY <2>2, <1>1 DEF HeapInv, TypeOK, HeapIsSound, StoredPointsBack
    <2> QED BY <2>1, <2>2
  <1> QED BY <1>4, <1>5, <1>6, <1>7 DEF HeapInv, HeapIsSound

LEMMA RetainKeepsHeap ==
  ASSUME HeapInv, NEW i \in Interps, NEW n \in Names, NEW m \in Names,
         Retain(i, n, m)
  PROVE  HeapInv'
  <1>1. CASE Traps(i)
    BY <1>1, TrapKeepsHeap
  <1>2. CASE ~Traps(i)
    <2> DEFINE x == var[i][n].id
    <2>0. /\ x \in objects[i] /\ strong' = [strong EXCEPT ![x] = @ + 1]
          /\ var' = [var EXCEPT ![i][m] = Ref("arc", x)]
          /\ UNCHANGED <<nextId, objects, stored, state>>
      BY <1>2 DEF Retain, Raise, SetVar
    <2>9. strayed' \in BOOLEAN
      BY <1>2 DEF Retain, Strays
    <2>1. /\ x \in objects[i] /\ strong' = [strong EXCEPT ![x] = @ + 1]
          /\ var' = [var EXCEPT ![i][m] = Ref("arc", x)]
          /\ UNCHANGED <<nextId, objects, stored, state>> /\ strayed' \in BOOLEAN
      BY <2>0, <2>9
    <2>2. x \in Ids /\ Ref("arc", x) \in Refs /\ Ref("arc", x).id = x /\ x < nextId
      <3>1. x \in Ids
        BY <2>1 DEF HeapInv, TypeOK
      <3>2. x < nextId
        BY DEF HeapInv, RefsArePast
      <3>3. x \in 0 .. MaxId /\ "arc" \in Kinds
        BY <3>1, IdFacts DEF Kinds
      <3> HIDE DEF x
      <3>4. Ref("arc", x) \in Refs /\ Ref("arc", x).id = x
        BY <3>3, RefFacts
      <3> QED BY <3>1, <3>2, <3>4
    <2> HIDE DEF x
    <2>3. TypeOK'
      BY <2>1, <2>2 DEF HeapInv, TypeOK
    <2>4. RefsArePast'
      BY <2>1, <2>2 DEF HeapInv, TypeOK, RefsArePast
    <2>5. \A id \in Ids : strong'[id] >= strong[id]
      BY <2>1, <2>2 DEF HeapInv, TypeOK
    <2>6. HeapIsSound'
      BY <2>1, <2>3, <2>5 DEF HeapInv, TypeOK, HeapIsSound, PresentIsCounted, StoredPointsBack
    <2> QED BY <2>3, <2>4, <2>6 DEF HeapInv
  <1> QED BY <1>1, <1>2

LEMMA ReleaseKeepsHeap ==
  ASSUME HeapInv, NEW i \in Interps, NEW n \in Names, Release(i, n)
  PROVE  HeapInv'
  <1>1. CASE Traps(i)
    BY <1>1, TrapKeepsHeap
  <1>2. CASE ~Traps(i)
    <2> DEFINE x == var[i][n].id
    <2>1. /\ x \in objects[i] /\ strong' = [strong EXCEPT ![x] = @ - 1]
          /\ objects' = IF strong[x] - 1 = 0 THEN [objects EXCEPT ![i] = @ \ {x}] ELSE objects
          /\ var' = [var EXCEPT ![i][n] = Copied(var[i][n])]
          /\ UNCHANGED <<nextId, stored, state>> /\ strayed' \in BOOLEAN
      BY <1>2 DEF Release, IsLast, SetVar, Strays, HeapInv, TypeOK
    <2>2. /\ x \in Ids /\ strong[x] \in Nat /\ strong[x] >= 1
          /\ Copied(var[i][n]) \in Refs /\ Copied(var[i][n]).id = x /\ x < nextId
      BY <2>1, CopiedFacts DEF HeapInv, TypeOK, RefsArePast, HeapIsSound, PresentIsCounted
    <2> HIDE DEF x
    <2>3. TypeOK'
      <3>1. strong' \in [Ids -> Nat]
        BY <2>1, <2>2 DEF HeapInv, TypeOK
      <3>2. objects' \in [Interps -> SUBSET Ids]
        BY <2>1 DEF HeapInv, TypeOK
      <3> QED BY <2>1, <2>2, <3>1, <3>2 DEF HeapInv, TypeOK
    <2>4. \A j \in Interps : objects'[j] \subseteq objects[j]
      BY <2>1 DEF HeapInv, TypeOK
    <2>5. RefsArePast'
      BY <2>1, <2>2, <2>4 DEF HeapInv, TypeOK, RefsArePast
    <2>6. PresentIsCounted'
      <3> SUFFICES ASSUME NEW j \in Interps, NEW id \in objects'[j]
                   PROVE  /\ strong'[id] >= 1 /\ id < nextId'
                          /\ \A k \in Interps : id \in objects'[k] => k = j
        BY DEF PresentIsCounted
      <3>1. /\ id \in objects[j] /\ id \in Ids /\ strong[id] >= 1 /\ id < nextId
            /\ \A k \in Interps : id \in objects[k] => k = j
        BY <2>4 DEF HeapInv, TypeOK, HeapIsSound, PresentIsCounted
      <3>2. strong'[id] >= 1
        <4>1. CASE id = x
          <5>1. strong[x] - 1 # 0
            BY <4>1, <2>1, <3>1 DEF HeapInv, TypeOK
          <5> QED BY <5>1, <4>1, <2>1, <2>2 DEF HeapInv, TypeOK
        <4>2. CASE id # x
          BY <4>2, <3>1, <2>1 DEF HeapInv, TypeOK
        <4> QED BY <4>1, <4>2
      <3> QED BY <3>1, <3>2, <2>1, <2>4
    <2>7. StoredPointsBack'
      BY <2>1 DEF HeapInv, HeapIsSound, StoredPointsBack
    <2> QED BY <2>3, <2>5, <2>6, <2>7 DEF HeapInv, HeapIsSound
  <1> QED BY <1>1, <1>2

\* The actions that only bind a reference: what they bind was nameable before.
Binds(i) ==
  \E n, m \in Names :
    \/ ArcLoad(i, n, m) \/ WeakCreate(i, n, m) \/ WeakLoad(i, n, m)
    \/ UnownedCreate(i, n, m) \/ UnownedLoad(i, n, m) \/ Assign(i, n, m)
    \/ \E j \in Tasks : Await(i, j, n, m)

\* They trap, or bind one reference that the counts do not know of.
LEMMA BindsAre ==
  ASSUME HeapInv, NEW i \in Interps, Binds(i)
  PROVE  \/ Traps(i)
         \/ \E m \in Names, r \in Refs :
              /\ Running(i) /\ r.id < nextId /\ r.kind # "arc"
              /\ SetVar(i, m, r) /\ Strays(Loses(i, m))
              /\ UNCHANGED <<nextId, objects, strong, stored, state>>
  <1> DEFINE Answer(m, r) ==
        /\ Running(i) /\ r.id < nextId /\ r.kind # "arc"
        /\ SetVar(i, m, r) /\ Strays(Loses(i, m))
        /\ UNCHANGED <<nextId, objects, strong, stored, state>>
  <1> SUFFICES ASSUME ~Traps(i) PROVE \E m \in Names, r \in Refs : Answer(m, r)
    OBVIOUS
  <1>0. PICK n \in Names, m \in Names :
          \/ ArcLoad(i, n, m) \/ WeakCreate(i, n, m) \/ WeakLoad(i, n, m)
          \/ UnownedCreate(i, n, m) \/ UnownedLoad(i, n, m) \/ Assign(i, n, m)
          \/ \E j \in Tasks : Await(i, j, n, m)
    BY DEF Binds
  <1>1. /\ var[i][n] \in Refs /\ var[i][n].id \in 0 .. MaxId /\ var[i][n].id < nextId
        /\ nextId \in Nat /\ nextId >= 1
    BY IdFacts DEF HeapInv, TypeOK, RefsArePast, Refs
  <1>2. \A k \in Kinds \ {"arc"} :
          Ref(k, var[i][n].id) \in Refs /\ Ref(k, var[i][n].id).id = var[i][n].id
          /\ Ref(k, var[i][n].id).kind # "arc"
    BY <1>1, RefFacts
  <1>3. CASE ArcLoad(i, n, m) \/ UnownedLoad(i, n, m)
    <2> DEFINE r == Copied(stored[var[i][n].id])
    <2>1. /\ var[i][n].id \in objects[i] /\ Running(i)
          /\ SetVar(i, m, r) /\ Strays(Loses(i, m))
          /\ UNCHANGED <<nextId, objects, strong, stored, state>>
      BY <1>3 DEF ArcLoad, UnownedLoad
    <2>2. r \in Refs /\ r.id < nextId /\ r.kind # "arc"
      BY <2>1, LoadedIsPast, CopiedFacts DEF HeapInv, TypeOK
    <2> QED BY <2>1, <2>2
  <1>4. CASE WeakCreate(i, n, m)
    <2>1. Answer(m, Ref("weak", var[i][n].id))
      BY <1>4, <1>1, <1>2 DEF WeakCreate, Kinds
    <2> QED BY <2>1, <1>2 DEF Kinds
  <1>5. CASE WeakLoad(i, n, m)
    <2>1. CASE Owned(var[i][n].id)
      <3>1. Answer(m, Ref("borrowed", var[i][n].id))
        BY <1>5, <2>1, <1>1, <1>2 DEF WeakLoad, Kinds
      <3> QED BY <3>1, <1>2 DEF Kinds
    <2>2. CASE ~Owned(var[i][n].id)
      <3>1. Answer(m, None)
        BY <1>5, <2>2, <1>1, RefFacts DEF WeakLoad
      <3> QED BY <3>1, RefFacts
    <2> QED BY <2>1, <2>2
  <1>6. CASE UnownedCreate(i, n, m)
    <2>1. Answer(m, Ref("unowned", var[i][n].id))
      BY <1>6, <1>1, <1>2 DEF UnownedCreate, Kinds
    <2> QED BY <2>1, <1>2 DEF Kinds
  <1>7. CASE Assign(i, n, m)
    <2>1. Answer(m, Copied(var[i][n]))
      BY <1>7, <1>1, CopiedFacts DEF Assign
    <2> QED BY <2>1, <1>1, CopiedFacts
  <1>8. CASE \E j \in Tasks : Await(i, j, n, m)
    <2>1. PICK j \in Tasks : Await(i, j, n, m)
      BY <1>8
    <2>2. /\ var[j][n] \in Refs /\ var[j][n].id < nextId
          /\ Copied(var[j][n]) \in Refs /\ Copied(var[j][n]).id < nextId
          /\ Copied(var[j][n]).kind # "arc"
      BY CopiedFacts DEF HeapInv, TypeOK, RefsArePast, Interps
    <2>3. Answer(m, Copied(var[j][n]))
      BY <2>1, <2>2 DEF Await
    <2> QED BY <2>3, <2>2
  <1> QED BY <1>0, <1>3, <1>4, <1>5, <1>6, <1>7, <1>8

LEMMA SpawnKeepsHeap ==
  ASSUME HeapInv, NEW i \in Interps, NEW j \in Tasks, Spawn(i, j)
  PROVE  HeapInv'
  <1>1. j \in Interps
    BY DEF Interps
  <1>2. \A n \in Names : Copied(var[i][n]) \in Refs /\ Copied(var[i][n]).id < nextId
    BY CopiedFacts DEF HeapInv, TypeOK, RefsArePast
  <1>3. TypeOK'
    BY <1>1, <1>2 DEF HeapInv, TypeOK, Spawn
  <1>4. RefsArePast'
    BY <1>1, <1>2 DEF HeapInv, TypeOK, RefsArePast, Spawn
  <1>5. HeapIsSound'
    BY DEF HeapInv, HeapIsSound, PresentIsCounted, StoredPointsBack, Spawn
  <1> QED BY <1>3, <1>4, <1>5 DEF HeapInv

LEMMA EndsKeepsHeap ==
  ASSUME HeapInv, NEW i \in Interps, Ends(i)
  PROVE  HeapInv'
  <1>1. TypeOK'
    BY DEF HeapInv, TypeOK, Ends
  <1>2. \A j \in Interps : objects'[j] \subseteq objects[j]
    BY DEF HeapInv, TypeOK, Ends
  <1>3. RefsArePast'
    BY <1>2 DEF HeapInv, RefsArePast, Ends
  <1>4. HeapIsSound'
    BY <1>2 DEF HeapInv, HeapIsSound, PresentIsCounted, StoredPointsBack, Ends
  <1> QED BY <1>1, <1>3, <1>4 DEF HeapInv

\* The disjuncts of Next, grouped as the proofs below need them.
LEMMA NextIs ==
  ASSUME Next
  PROVE  \E i \in Interps :
           \/ \E n, m \in Names : HeapAlloc(i, n, m)
           \/ \E n, m \in Names : Retain(i, n, m)
           \/ \E n \in Names : Release(i, n)
           \/ Traps(i)
           \/ Binds(i)
           \/ \E j \in Tasks : Spawn(i, j)
           \/ Ends(i)
  BY DEF Next, Binds, WrongKind

LEMMA HeapNext == HeapInv /\ [Next]_vars => HeapInv'
  <1> SUFFICES ASSUME HeapInv, [Next]_vars PROVE HeapInv'
    OBVIOUS
  <1>1. CASE UNCHANGED vars
    BY <1>1 DEF HeapInv, TypeOK, RefsArePast, HeapIsSound, PresentIsCounted,
                StoredPointsBack, vars
  <1>2. CASE Next
    <2>1. PICK i \in Interps :
            \/ \E n, m \in Names : HeapAlloc(i, n, m)
            \/ \E n, m \in Names : Retain(i, n, m)
            \/ \E n \in Names : Release(i, n)
            \/ Traps(i)
            \/ Binds(i)
            \/ \E j \in Tasks : Spawn(i, j)
            \/ Ends(i)
      BY <1>2, NextIs
    <2>2. CASE \E n, m \in Names : HeapAlloc(i, n, m)
      BY <2>2, AllocKeepsHeap
    <2>3. CASE \E n, m \in Names : Retain(i, n, m)
      BY <2>3, RetainKeepsHeap
    <2>4. CASE \E n \in Names : Release(i, n)
      BY <2>4, ReleaseKeepsHeap
    <2>5. CASE Binds(i) /\ ~Traps(i)
      <3>1. PICK m \in Names, r \in Refs :
              /\ r.id < nextId /\ SetVar(i, m, r) /\ Strays(Loses(i, m))
              /\ UNCHANGED <<nextId, objects, strong, stored, state>>
        BY <2>5, BindsAre
      <3>2. strayed' \in BOOLEAN
        BY <3>1 DEF Strays, HeapInv, TypeOK, Loses
      <3> QED BY <3>1, <3>2, BindKeepsHeap
    <2>6. CASE \E j \in Tasks : Spawn(i, j)
      BY <2>6, SpawnKeepsHeap
    <2>7. CASE Ends(i)
      BY <2>7, EndsKeepsHeap
    <2>8. CASE Traps(i)
      BY <2>8, TrapKeepsHeap
    <2> QED BY <2>1, <2>2, <2>3, <2>4, <2>5, <2>6, <2>7, <2>8
  <1> QED BY <1>1, <1>2

LEMMA HeapAlways == Spec => []HeapInv
  BY HeapInit, HeapNext, PTL DEF Spec

\* Every variable keeps its type in every reachable state.
THEOREM TypeCorrect == Spec => []TypeOK
  <1>1. HeapInv => TypeOK
    BY DEF HeapInv
  <1> QED BY <1>1, HeapAlways, PTL

(***************************************************************************)
(* However a program misuses its references: no count of a live object is  *)
(* ever zero or below, no object is in two heaps, and no object refers to  *)
(* a younger one (HeapRegistry in arc.rs; the heap needs no cycle          *)
(* collector).                                                             *)
(***************************************************************************)
THEOREM HeapSound == Spec => []HeapIsSound
  <1>1. HeapInv => HeapIsSound
    BY DEF HeapInv
  <1> QED BY <1>1, HeapAlways, PTL

(***************************************************************************)
(* A freed id is never an object again: a reference that outlives its      *)
(* object finds nothing or traps (NEXT_HEAP_ID only grows).                *)
(***************************************************************************)
THEOREM FreedStaysFree == Spec => NoRecycling
  <1> DEFINE Stays == \A id \in Ids : id < nextId /\ ~Owned(id) =>
                        \A i \in Interps : id \notin objects'[i]
  <1>1. HeapInv /\ [Next]_vars => [Stays]_vars
    <2> SUFFICES ASSUME HeapInv, Next, NEW id \in Ids, id < nextId, ~Owned(id),
                        NEW k \in Interps
                 PROVE  id \notin objects'[k]
      BY DEF vars
    <2>0. \A j \in Interps : id \notin objects[j]
      BY DEF Owned
    <2>1. PICK i \in Interps :
            \/ \E n, m \in Names : HeapAlloc(i, n, m)
            \/ \E n, m \in Names : Retain(i, n, m)
            \/ \E n \in Names : Release(i, n)
            \/ Traps(i)
            \/ Binds(i)
            \/ \E j \in Tasks : Spawn(i, j)
            \/ Ends(i)
      BY NextIs
    <2>2. CASE \E n, m \in Names : HeapAlloc(i, n, m)
      <3>1. objects' = [objects EXCEPT ![i] = @ \cup {nextId}]
        BY <2>2 DEF HeapAlloc, Fresh
      <3>2. id # nextId
        BY IdFacts DEF HeapInv, TypeOK
      <3> QED BY <2>0, <3>1, <3>2 DEF HeapInv, TypeOK
    <2>3. CASE ~\E n, m \in Names : HeapAlloc(i, n, m)
      <3>1. objects' = objects \/ \E x : objects' = [objects EXCEPT ![i] = @ \ x]
        <4>1. CASE Binds(i)
          BY <4>1, BindsAre DEF Traps
        <4>2. CASE Ends(i)
          <5>1. objects' = [objects EXCEPT ![i] = @ \ objects[i]]
            BY <4>2 DEF Ends
          <5> QED BY <5>1
        <4>3. CASE \E n \in Names : Release(i, n)
          BY <4>3 DEF Release, Traps
        <4>4. CASE (\E n, m \in Names : Retain(i, n, m)) \/ Traps(i)
          BY <4>4 DEF Retain, Traps
        <4>5. CASE \E j \in Tasks : Spawn(i, j)
          BY <4>5 DEF Spawn
        <4> QED BY <2>1, <2>3, <4>1, <4>2, <4>3, <4>4, <4>5
      <3> QED BY <2>0, <3>1 DEF HeapInv, TypeOK
    <2> QED BY <2>2, <2>3
  <1> QED BY <1>1, HeapAlways, PTL DEF Spec, NoRecycling

-----------------------------------------------------------------------------
(* The counts, as long as programs release what they hold *)

\* The holders of an object are variables of the interpreter that has it.
LEMMA HoldersFinite ==
  ASSUME TypeOK, ArcsAreHome, NEW i \in Interps, NEW id \in objects[i]
  PROVE  IsFiniteSet(Holders(id))
  <1>1. IsFiniteSet({i} \X Names)
    BY ArcHeapAssumption, FS_Singleton, FS_Product
  <1>2. Holders(id) \subseteq {i} \X Names
    BY DEF Holders, ArcsAreHome
  <1> QED BY <1>1, <1>2, FS_Subset

\* Binding a reference the counts do not know of, where none is lost.
LEMMA HoldersKept ==
  ASSUME TypeOK, NEW i \in Interps, NEW m \in Names, NEW r \in Refs,
         r.kind # "arc", SetVar(i, m, r), ~Loses(i, m), NEW id \in Ids
  PROVE  Holders(id)' = Holders(id)
  <1>1. \A k \in Kinds : Ref("arc", id).kind = "arc"
    BY DEF Ref
  <1>2. \A h \in Interps \X Names :
          var'[h[1]][h[2]] = Ref("arc", id) <=> var[h[1]][h[2]] = Ref("arc", id)
    <2> SUFFICES ASSUME NEW j \in Interps, NEW k \in Names
                 PROVE  var'[j][k] = Ref("arc", id) <=> var[j][k] = Ref("arc", id)
      OBVIOUS
    <2>1. CASE j = i /\ k = m
      <3>1. var'[j][k] = r /\ var[j][k].kind # "arc"
        BY <2>1 DEF TypeOK, SetVar, Loses
      <3> QED BY <3>1, <1>1 DEF Ref
    <2>2. CASE ~(j = i /\ k = m)
      BY <2>2 DEF TypeOK, SetVar
    <2> QED BY <2>1, <2>2
  <1> QED BY <1>2 DEF Holders

LEMMA HoldersGain ==
  ASSUME TypeOK, NEW i \in Interps, NEW m \in Names, NEW x \in Ids,
         SetVar(i, m, Ref("arc", x)), ~Loses(i, m), NEW id \in Ids
  PROVE  /\ id = x => /\ Holders(id)' = Holders(id) \cup {<<i, m>>}
                      /\ <<i, m>> \notin Holders(id)
         /\ id # x => Holders(id)' = Holders(id)
  <1>1. \A y \in Ids : Ref("arc", y).kind = "arc" /\ (Ref("arc", y) = Ref("arc", id) => y = id)
    BY DEF Ref
  <1>2. \A j \in Interps, k \in Names :
          var'[j][k] = Ref("arc", id) <=>
            \/ var[j][k] = Ref("arc", id)
            \/ j = i /\ k = m /\ id = x
    <2> SUFFICES ASSUME NEW j \in Interps, NEW k \in Names
                 PROVE  var'[j][k] = Ref("arc", id) <=>
                          \/ var[j][k] = Ref("arc", id)
                          \/ j = i /\ k = m /\ id = x
      OBVIOUS
    <2>1. CASE j = i /\ k = m
      <3>1. var'[j][k] = Ref("arc", x) /\ var[j][k].kind # "arc"
        BY <2>1 DEF TypeOK, SetVar, Loses
      <3> QED BY <3>1, <2>1, <1>1
    <2>2. CASE ~(j = i /\ k = m)
      BY <2>2 DEF TypeOK, SetVar
    <2> QED BY <2>1, <2>2
  <1>3. <<i, m>> \notin Holders(id)
    BY <1>1 DEF Holders, Loses
  <1>4. \A h : h \in Holders(id)' <=>
          h \in Interps \X Names /\ (h \in Holders(id) \/ (h = <<i, m>> /\ id = x))
    BY <1>2 DEF Holders
  <1>5. Holders(id) \subseteq Interps \X Names /\ <<i, m>> \in Interps \X Names
        /\ Holders(id)' \subseteq Interps \X Names
    BY DEF Holders
  <1> QED BY <1>3, <1>4, <1>5

LEMMA HoldersLose ==
  ASSUME TypeOK, NEW i \in Interps, NEW n \in Names, NEW x \in Ids,
         var[i][n] = Ref("arc", x), SetVar(i, n, Copied(var[i][n])), NEW id \in Ids
  PROVE  /\ id = x => /\ Holders(id)' = Holders(id) \ {<<i, n>>}
                      /\ <<i, n>> \in Holders(id)
         /\ id # x => Holders(id)' = Holders(id)
  <1>1. /\ \A y \in Ids : Ref("arc", y).kind = "arc" /\ (Ref("arc", y) = Ref("arc", id) => y = id)
        /\ Copied(var[i][n]).kind # "arc"
    BY CopiedFacts DEF Ref, TypeOK
  <1>2. \A j \in Interps, k \in Names :
          var'[j][k] = Ref("arc", id) <=> var[j][k] = Ref("arc", id) /\ ~(j = i /\ k = n)
    <2> SUFFICES ASSUME NEW j \in Interps, NEW k \in Names
                 PROVE  var'[j][k] = Ref("arc", id) <=>
                          var[j][k] = Ref("arc", id) /\ ~(j = i /\ k = n)
      OBVIOUS
    <2>1. CASE j = i /\ k = n
      BY <2>1, <1>1 DEF TypeOK, SetVar
    <2>2. CASE ~(j = i /\ k = n)
      BY <2>2 DEF TypeOK, SetVar
    <2> QED BY <2>1, <2>2
  <1>3. \A h : h \in Holders(id)' <=> h \in Holders(id) /\ h # <<i, n>>
    BY <1>2 DEF Holders
  <1>4. id = x => <<i, n>> \in Holders(id)
    BY DEF Holders
  <1>5. id # x => <<i, n>> \notin Holders(id)
    BY <1>1 DEF Holders
  <1> QED BY <1>3, <1>4, <1>5

\* The part of the invariant about counts, one object and one program at a time.
CountedIn(i, id) ==
  /\ id \in objects[i] => strong[id] = Cardinality(Holders(id)) /\ Holders(id) # {}
  /\ \A n \in Names : var[i][n] = Ref("arc", id) => id \in objects[i]

LEMMA CountIsHeldIs ==
  CountIsHeld <=>
    (~strayed => \A i \in Interps : Running(i) => \A id \in Ids : CountedIn(i, id))
  BY DEF CountIsHeld, CountedIn

LEMMA BindKeepsCounts ==
  ASSUME IInv, NEW i \in Interps, NEW m \in Names, NEW r \in Refs,
         Running(i), r.kind # "arc", SetVar(i, m, r), Strays(Loses(i, m)),
         UNCHANGED <<nextId, objects, strong, stored, state>>
  PROVE  UnbornIsEmpty' /\ ArcsAreHome' /\ CountIsHeld'
  <1>0. TypeOK
    BY DEF IInv, HeapInv
  <1>1. UnbornIsEmpty'
    BY <1>0 DEF IInv, UnbornIsEmpty, SetVar, Running, TypeOK
  <1>2. \A j \in Interps, k \in Names, id \in Ids :
          var'[j][k] = Ref("arc", id) => var[j][k] = Ref("arc", id)
    <2>1. \A id \in Ids : r # Ref("arc", id)
      BY DEF Ref
    <2> QED BY <2>1, <1>0 DEF SetVar, TypeOK
  <1>3. ArcsAreHome'
    BY <1>0, <1>2 DEF IInv, ArcsAreHome, TypeOK
  <1>4. CountIsHeld'
    <2> SUFFICES ASSUME ~strayed', NEW j \in Interps, Running(j)', NEW id \in Ids
                 PROVE  CountedIn(j, id)'
      BY DEF CountIsHeld, CountedIn
    <2>1. ~strayed /\ ~Loses(i, m)
      BY DEF Strays
    <2>2. Holders(id)' = Holders(id)
      BY <2>1, <1>0, HoldersKept
    <2>3. CountedIn(j, id)
      BY <2>1, CountIsHeldIs DEF IInv, Running
    <2> QED BY <2>2, <2>3, <1>2 DEF CountedIn
  <1> QED BY <1>1, <1>3, <1>4

LEMMA AllocKeepsCounts ==
  ASSUME IInv, NEW i \in Interps, NEW n \in Names, NEW m \in Names,
         HeapAlloc(i, n, m)
  PROVE  UnbornIsEmpty' /\ ArcsAreHome' /\ CountIsHeld'
  <1>0. TypeOK /\ RefsArePast
    BY DEF IInv, HeapInv
  <1>1. /\ nextId \in Ids /\ Running(i) /\ state' = state
        /\ objects' = [objects EXCEPT ![i] = @ \cup {nextId}]
        /\ strong' = [strong EXCEPT ![nextId] = 1]
        /\ SetVar(i, n, Ref("arc", nextId)) /\ Strays(Loses(i, n))
    BY DEF HeapAlloc, Fresh, FirstCount
  <1>2. /\ \A j \in Interps : nextId \notin objects[j]
        /\ \A j \in Interps, k \in Names : var[j][k] # Ref("arc", nextId)
    <2>1. nextId \in Nat /\ \A x \in Ids : Ref("arc", x).id = x
      BY <1>0, IdFacts DEF TypeOK, Ref
    <2> QED BY <2>1, <1>0, <1>1 DEF RefsArePast
  <1>3. UnbornIsEmpty'
    BY <1>0, <1>1 DEF IInv, UnbornIsEmpty, SetVar, Running, TypeOK
  <1>4. ArcsAreHome'
    <2> SUFFICES ASSUME NEW j \in Interps, NEW k \in Interps, NEW id \in objects'[j],
                        NEW l \in Names, var'[k][l] = Ref("arc", id)
                 PROVE  k = j
      BY DEF ArcsAreHome
    <2>1. /\ id \in objects[j] \/ (j = i /\ id = nextId)
          /\ id \in Ids
          /\ var[k][l] = Ref("arc", id) \/ (k = i /\ id = nextId)
      BY <1>0, <1>1 DEF SetVar, TypeOK, Ref
    <2> QED BY <2>1, <1>2 DEF IInv, ArcsAreHome
  <1>5. CountIsHeld'
    <2> SUFFICES ASSUME ~strayed', NEW j \in Interps, Running(j)', NEW id \in Ids
                 PROVE  CountedIn(j, id)'
      BY DEF CountIsHeld, CountedIn
    <2>1. ~strayed /\ ~Loses(i, n)
      BY <1>1 DEF Strays
    <2>0. /\ id = nextId => Holders(id)' = Holders(id) \cup {<<i, n>>}
          /\ id # nextId => Holders(id)' = Holders(id)
      <3>1. PICK x \in Ids : x = nextId /\ SetVar(i, n, Ref("arc", x))
        BY <1>1
      <3>2. /\ id = x => /\ Holders(id)' = Holders(id) \cup {<<i, n>>}
                         /\ <<i, n>> \notin Holders(id)
            /\ id # x => Holders(id)' = Holders(id)
        <4>1. TypeOK /\ ~Loses(i, n) /\ SetVar(i, n, Ref("arc", x))
          BY <3>1, <2>1, <1>0
        <4> QED BY <4>1, HoldersGain
      <3> QED BY <3>1, <3>2
    <2>2. CountedIn(j, id)
      BY <2>1, <1>1, CountIsHeldIs DEF IInv, Running
    <2>3. CASE id = nextId
      <3>1. Holders(id) = {}
        BY <1>2, <2>3 DEF Holders
      <3>0. Holders(id)' = Holders(id) \cup {<<i, n>>}
        BY <2>3, <2>0
      <3>2. Holders(id)' = {<<i, n>>}
        BY <3>0, <3>1
      <3>3. Cardinality(Holders(id)') = 1 /\ Holders(id)' # {}
        BY <3>2, FS_Singleton
      <3>4. id \in objects'[j] => strong'[id] = 1
        BY <2>3, <1>0, <1>1 DEF TypeOK
      <3>5. \A k \in Names : var'[j][k] = Ref("arc", id) => j = i
        BY <2>3, <1>0, <1>1, <1>2 DEF SetVar, TypeOK
      <3>6. id \in objects'[i]
        BY <2>3, <1>0, <1>1 DEF TypeOK
      <3>7. strong'[id] = Cardinality(Holders(id)') \/ id \notin objects'[j]
        BY <3>3, <3>4
      <3> QED BY <3>3, <3>5, <3>6, <3>7 DEF CountedIn
    <2>4. CASE id # nextId
      <3>1. Holders(id)' = Holders(id)
        BY <2>4, <2>0
      <3>2. strong'[id] = strong[id] /\ (id \in objects'[j] <=> id \in objects[j])
        BY <2>4, <1>0, <1>1 DEF TypeOK
      <3>3. \A k \in Names : var'[j][k] = Ref("arc", id) => var[j][k] = Ref("arc", id)
        <4>1. Ref("arc", nextId) # Ref("arc", id)
          BY <2>4 DEF Ref
        <4> QED BY <4>1, <1>0, <1>1 DEF SetVar, TypeOK
      <3> QED BY <3>1, <3>2, <3>3, <2>2 DEF CountedIn
    <2> QED BY <2>3, <2>4
  <1> QED BY <1>3, <1>4, <1>5

LEMMA RetainKeepsCounts ==
  ASSUME IInv, NEW i \in Interps, NEW n \in Names, NEW m \in Names,
         Retain(i, n, m), ~Traps(i)
  PROVE  UnbornIsEmpty' /\ ArcsAreHome' /\ CountIsHeld'
  <1> DEFINE x == var[i][n].id
  <1>0. TypeOK
    BY DEF IInv, HeapInv
  <1>1. /\ x \in objects[i] /\ Running(i)
        /\ strong' = [strong EXCEPT ![x] = @ + 1]
        /\ SetVar(i, m, Ref("arc", x)) /\ Strays(Loses(i, m))
        /\ UNCHANGED <<objects, state>>
    BY DEF Retain, Raise
  <1>2. x \in Ids
    BY <1>0, <1>1 DEF TypeOK
  <1> HIDE DEF x
  <1>3. UnbornIsEmpty'
    BY <1>0, <1>1 DEF IInv, UnbornIsEmpty, SetVar, Running, TypeOK
  <1>4. \A id \in Ids : \A k \in Interps, l \in Names :
          var'[k][l] = Ref("arc", id) =>
            var[k][l] = Ref("arc", id) \/ (k = i /\ id = x)
    BY <1>0, <1>1, <1>2 DEF SetVar, TypeOK, Ref
  <1>5. \A k \in Interps : x \in objects[k] => k = i
    BY <1>1 DEF IInv, HeapInv, HeapIsSound, PresentIsCounted
  <1>6. ArcsAreHome'
    BY <1>0, <1>1, <1>4, <1>5 DEF IInv, ArcsAreHome, TypeOK
  <1>7. CountIsHeld'
    <2> SUFFICES ASSUME ~strayed', NEW j \in Interps, Running(j)', NEW id \in Ids
                 PROVE  CountedIn(j, id)'
      BY DEF CountIsHeld, CountedIn
    <2>1. ~strayed /\ ~Loses(i, m)
      BY <1>1 DEF Strays
    <2>2. CountedIn(j, id)
      BY <2>1, <1>1, CountIsHeldIs DEF IInv, Running
    <2>3. /\ id = x => /\ Holders(id)' = Holders(id) \cup {<<i, m>>}
                       /\ <<i, m>> \notin Holders(id)
          /\ id # x => Holders(id)' = Holders(id)
      BY <2>1, <1>0, <1>1, <1>2, HoldersGain
    <2>4. \A k \in Names : var'[j][k] = Ref("arc", id) => id \in objects'[j]
      BY <2>2, <1>1, <1>4 DEF CountedIn
    <2>5. CASE id = x /\ id \in objects[j]
      <3>1. IsFiniteSet(Holders(id)) /\ Cardinality(Holders(id)) \in Nat
        BY <1>0, <2>5, HoldersFinite, FS_CardinalityType DEF IInv
      <3>2. Cardinality(Holders(id)') = Cardinality(Holders(id)) + 1
        BY <3>1, <2>3, <2>5, FS_AddElement
      <3>3. strong'[id] = strong[id] + 1
        BY <2>5, <1>0, <1>1, <1>2 DEF TypeOK
      <3>4. strong'[id] = Cardinality(Holders(id)')
        BY <3>2, <3>3, <2>2, <2>5 DEF CountedIn
      <3>5. Holders(id)' # {}
        BY <2>3, <2>5
      <3> QED BY <3>4, <3>5, <2>4 DEF CountedIn
    <2>6. CASE ~(id = x /\ id \in objects[j])
      <3>1. CASE id = x
        BY <3>1, <2>6, <2>4, <1>1 DEF CountedIn
      <3>2. CASE id # x
        <4>1. strong'[id] = strong[id]
          BY <3>2, <1>0, <1>1 DEF TypeOK
        <4> QED BY <4>1, <3>2, <2>2, <2>3, <2>4, <1>1 DEF CountedIn
      <3> QED BY <3>1, <3>2
    <2> QED BY <2>5, <2>6
  <1> QED BY <1>3, <1>6, <1>7

LEMMA ReleaseKeepsCounts ==
  ASSUME IInv, NEW i \in Interps, NEW n \in Names, Release(i, n), ~Traps(i)
  PROVE  UnbornIsEmpty' /\ ArcsAreHome' /\ CountIsHeld'
  <1> DEFINE x == var[i][n].id
  <1>0. TypeOK
    BY DEF IInv, HeapInv
  <1>1. /\ x \in objects[i] /\ Running(i)
        /\ strong' = [strong EXCEPT ![x] = @ - 1]
        /\ objects' = IF strong[x] - 1 = 0 THEN [objects EXCEPT ![i] = @ \ {x}] ELSE objects
        /\ SetVar(i, n, Copied(var[i][n])) /\ Strays(var[i][n].kind = "borrowed")
        /\ var[i][n].kind \in {"arc", "borrowed"}
        /\ state' = state
    BY DEF Release, IsLast, IsArc
  <1>2. /\ x \in Ids /\ var[i][n] \in Refs /\ Copied(var[i][n]).kind # "arc"
        /\ var[i][n].kind = "arc" => var[i][n] = Ref("arc", x)
    BY <1>0, <1>1, CopiedFacts DEF TypeOK, Refs, Ref
  <1>3. \A k \in Interps : x \in objects[k] => k = i
    BY <1>1 DEF IInv, HeapInv, HeapIsSound, PresentIsCounted
  <1> HIDE DEF x
  <1>4. \A j \in Interps : objects'[j] \subseteq objects[j]
    BY <1>0, <1>1 DEF TypeOK
  <1>5. \A id \in Ids : \A k \in Interps, l \in Names :
          var'[k][l] = Ref("arc", id) => var[k][l] = Ref("arc", id) /\ <<k, l>> # <<i, n>>
    BY <1>0, <1>1, <1>2 DEF SetVar, TypeOK, Ref
  <1>6. UnbornIsEmpty'
    BY <1>0, <1>1, <1>4 DEF IInv, UnbornIsEmpty, SetVar, Running, TypeOK
  <1>7. ArcsAreHome'
    BY <1>0, <1>4, <1>5 DEF IInv, ArcsAreHome, TypeOK
  <1>8. CountIsHeld'
    <2> SUFFICES ASSUME ~strayed', NEW j \in Interps, Running(j)', NEW id \in Ids
                 PROVE  CountedIn(j, id)'
      BY DEF CountIsHeld, CountedIn
    <2>1. ~strayed /\ var[i][n] = Ref("arc", x)
      BY <1>1, <1>2 DEF Strays
    <2>2. CountedIn(j, id)
      BY <2>1, <1>1, CountIsHeldIs DEF IInv, Running
    <2>3. /\ id = x => /\ Holders(id)' = Holders(id) \ {<<i, n>>}
                       /\ <<i, n>> \in Holders(id)
          /\ id # x => Holders(id)' = Holders(id)
      BY <2>1, <1>0, <1>1, <1>2, HoldersLose
    <2>4. CASE id # x
      <3>1. strong'[id] = strong[id] /\ (id \in objects'[j] <=> id \in objects[j])
        BY <2>4, <1>0, <1>1 DEF TypeOK
      <3> QED BY <3>1, <2>4, <2>2, <2>3, <1>5 DEF CountedIn
    <2>5. CASE id = x /\ j # i
      <3>1. id \notin objects[j] /\ id \notin objects'[j]
        BY <2>5, <1>3, <1>4
      <3> QED BY <3>1, <2>2, <1>5 DEF CountedIn
    <2>6. CASE id = x /\ j = i
      <3>1. /\ IsFiniteSet(Holders(id)) /\ Cardinality(Holders(id)) \in Nat
            /\ strong[id] = Cardinality(Holders(id))
        BY <1>0, <1>1, <2>2, <2>6, HoldersFinite, FS_CardinalityType DEF IInv, CountedIn
      <3>2. /\ IsFiniteSet(Holders(id)')
            /\ Cardinality(Holders(id)') = Cardinality(Holders(id)) - 1
        BY <3>1, <2>3, <2>6, FS_RemoveElement
      <3>3. strong'[id] = Cardinality(Holders(id)')
        BY <3>1, <3>2, <2>6, <1>0, <1>1, <1>2 DEF TypeOK
      <3>4. Holders(id)' = {} <=> Cardinality(Holders(id)') = 0
        BY <3>2, FS_EmptySet
      <3>5. id \in objects'[j] <=> strong[id] - 1 # 0
        BY <2>6, <1>0, <1>1, <1>2 DEF TypeOK
      <3>6. id \in objects'[j] <=> Holders(id)' # {}
        BY <3>1, <3>2, <3>4, <3>5
      <3>7. ASSUME NEW k \in Names, var'[j][k] = Ref("arc", id) PROVE Holders(id)' # {}
        <4>1. <<j, k>> \in Holders(id)'
          BY <3>7 DEF Holders
        <4> QED BY <4>1
      <3> QED BY <3>3, <3>6, <3>7 DEF CountedIn
    <2> QED BY <2>4, <2>5, <2>6
  <1> QED BY <1>6, <1>7, <1>8

LEMMA SpawnKeepsCounts ==
  ASSUME IInv, NEW i \in Interps, NEW j \in Tasks, Spawn(i, j)
  PROVE  UnbornIsEmpty' /\ ArcsAreHome' /\ CountIsHeld'
  <1>0. TypeOK /\ j \in Interps
    BY DEF IInv, HeapInv, Interps
  <1>1. /\ state[j] = "unborn" /\ state' = [state EXCEPT ![j] = "running"]
        /\ var' = [var EXCEPT ![j] = [n \in Names |-> Copied(var[i][n])]]
        /\ UNCHANGED <<objects, strong, strayed>>
    BY DEF Spawn
  <1>2. /\ objects[j] = {}
        /\ \A n \in Names : /\ var[j][n].kind = "none"
                            /\ var'[j][n].kind # "arc"
    BY <1>0, <1>1, CopiedFacts, RefFacts DEF IInv, UnbornIsEmpty, TypeOK
  <1>3. \A id \in Ids : \A k \in Interps, n \in Names :
          var'[k][n] = Ref("arc", id) <=> var[k][n] = Ref("arc", id)
    <2>1. \A id \in Ids : Ref("arc", id).kind = "arc"
      BY DEF Ref
    <2> QED BY <2>1, <1>0, <1>1, <1>2 DEF TypeOK
  <1>4. UnbornIsEmpty'
    BY <1>0, <1>1 DEF IInv, UnbornIsEmpty, TypeOK
  <1>5. ArcsAreHome'
    BY <1>0, <1>1, <1>3 DEF IInv, ArcsAreHome, TypeOK
  <1>6. CountIsHeld'
    <2> SUFFICES ASSUME ~strayed', NEW k \in Interps, Running(k)', NEW id \in Ids
                 PROVE  CountedIn(k, id)'
      BY DEF CountIsHeld, CountedIn
    <2>1. Holders(id)' = Holders(id)
      BY <1>3 DEF Holders
    <2>2. CASE k = j
      <3>1. \A n \in Names : var'[k][n] # Ref("arc", id)
        BY <1>2, <2>2 DEF Ref
      <3> QED BY <3>1, <1>1, <1>2, <2>2 DEF CountedIn
    <2>3. CASE k # j
      <3>1. CountedIn(k, id)
        BY <2>3, <1>0, <1>1, CountIsHeldIs DEF IInv, Running, TypeOK
      <3> QED BY <3>1, <2>1, <1>1, <1>3 DEF CountedIn
    <2> QED BY <2>2, <2>3
  <1> QED BY <1>4, <1>5, <1>6

\* Steps that leave references and counts alone, and take objects from the
\* programs that are no longer running only.
LEMMA StopKeepsCounts ==
  ASSUME IInv, NEW i \in Interps, Running(i),
         \/ Traps(i)
         \/ Ends(i)
  PROVE  UnbornIsEmpty' /\ ArcsAreHome' /\ CountIsHeld'
  <1>0. TypeOK
    BY DEF IInv, HeapInv
  <1>1. /\ UNCHANGED <<strong, var, strayed>>
        /\ state'[i] \in {"trapped", "ended"}
        /\ \A j \in Interps : objects'[j] \subseteq objects[j]
        /\ \A j \in Interps : j # i => objects'[j] = objects[j] /\ state'[j] = state[j]
    BY <1>0 DEF Traps, Ends, TypeOK
  <1>2. UnbornIsEmpty'
    BY <1>0, <1>1 DEF IInv, UnbornIsEmpty
  <1>3. ArcsAreHome'
    BY <1>0, <1>1 DEF IInv, ArcsAreHome
  <1>4. CountIsHeld'
    <2> SUFFICES ASSUME ~strayed', NEW j \in Interps, Running(j)', NEW id \in Ids
                 PROVE  CountedIn(j, id)'
      BY DEF CountIsHeld, CountedIn
    <2>1. j # i /\ Running(j)
      BY <1>1 DEF Running
    <2>2. CountedIn(j, id)
      BY <2>1, <1>1, CountIsHeldIs DEF IInv
    <2>3. Holders(id)' = Holders(id)
      BY <1>1 DEF Holders
    <2> QED BY <2>1, <2>2, <2>3, <1>1 DEF CountedIn
  <1> QED BY <1>2, <1>3, <1>4

\* Only a running program acts.
LEMMA ActsRunning ==
  ASSUME NEW i \in Interps,
         \/ \E n, m \in Names : Retain(i, n, m)
         \/ \E n \in Names : Release(i, n) \/ WrongKind(i, n)
         \/ Binds(i)
         \/ Ends(i)
  PROVE  Running(i)
  BY DEF Retain, Release, WrongKind, Binds, Ends, ArcLoad, WeakCreate, WeakLoad,
         UnownedCreate, UnownedLoad, Assign, Await

LEMMA Inductive == IInv /\ [Next]_vars => IInv'
  <1> SUFFICES ASSUME IInv, [Next]_vars PROVE IInv'
    OBVIOUS
  <1>0. HeapInv'
    BY HeapNext DEF IInv
  <1> SUFFICES UnbornIsEmpty' /\ ArcsAreHome' /\ CountIsHeld'
    BY <1>0 DEF IInv
  <1>1. CASE UNCHANGED vars
    BY <1>1 DEF IInv, UnbornIsEmpty, ArcsAreHome, CountIsHeld, Holders, Running, vars
  <1>2. CASE Next
    <2>1. PICK i \in Interps :
            \/ \E n, m \in Names : HeapAlloc(i, n, m)
            \/ \E n, m \in Names : Retain(i, n, m)
            \/ \E n \in Names : Release(i, n) \/ WrongKind(i, n)
            \/ Binds(i)
            \/ \E j \in Tasks : Spawn(i, j)
            \/ Ends(i)
      BY <1>2 DEF Next, Binds
    <2>2. CASE Running(i) /\ (Traps(i) \/ Ends(i))
      BY <2>2, StopKeepsCounts
    <2>3. CASE \E n, m \in Names : HeapAlloc(i, n, m)
      BY <2>3, AllocKeepsCounts
    <2>4. CASE ~Traps(i) /\ \E n, m \in Names : Retain(i, n, m)
      BY <2>4, RetainKeepsCounts
    <2>5. CASE ~Traps(i) /\ \E n \in Names : Release(i, n)
      BY <2>5, ReleaseKeepsCounts
    <2>6. CASE ~Traps(i) /\ Binds(i)
      <3>1. PICK m \in Names, r \in Refs :
              /\ Running(i) /\ r.id < nextId /\ r.kind # "arc"
              /\ SetVar(i, m, r) /\ Strays(Loses(i, m))
              /\ UNCHANGED <<nextId, objects, strong, stored, state>>
        BY <2>6, BindsAre DEF IInv
      <3> QED BY <3>1, BindKeepsCounts
    <2>7. CASE \E j \in Tasks : Spawn(i, j)
      BY <2>7, SpawnKeepsCounts
    <2>8. (\E n \in Names : WrongKind(i, n)) => Traps(i)
      BY DEF WrongKind
    <2> QED BY <2>1, <2>2, <2>3, <2>4, <2>5, <2>6, <2>7, <2>8, ActsRunning
  <1> QED BY <1>1, <1>2

LEMMA Initial == Init => IInv
  <1> SUFFICES ASSUME Init PROVE IInv
    OBVIOUS
  <1>1. HeapInv
    BY HeapInit
  <1>2. UnbornIsEmpty /\ ArcsAreHome
    BY DEF Init, UnbornIsEmpty, ArcsAreHome
  <1>3. \A id \in Ids : Ref("arc", id) # None
    BY DEF Ref, None
  <1>4. CountIsHeld
    BY <1>3 DEF Init, CountIsHeld
  <1> QED BY <1>1, <1>2, <1>4 DEF IInv

(***************************************************************************)
(* While every program releases what it holds exactly once and before it   *)
(* overwrites it, the strong count of an object is the number of counted   *)
(* references to it, and the object lives exactly as long as there is one: *)
(* retain and release of arc.rs, whatever loads, upgrades and copies do.   *)
(***************************************************************************)
THEOREM CountsAreHeld == Spec => []CountIsHeld
  <1>1. IInv => CountIsHeld
    BY DEF IInv
  <1> QED BY <1>1, Initial, Inductive, PTL DEF Spec

-----------------------------------------------------------------------------
(***************************************************************************)
(* The virtual machine.  A run of a well-formed module, by the value of    *)
(* the call stack fs: every frame is in the code, has been entered where   *)
(* its function starts or from a block that leads to its block, and has    *)
(* written what was handed to its block and what the block wrote so far; a *)
(* frame below the top one waits for the call just before its next         *)
(* instruction.                                                            *)
(***************************************************************************)
IsSeq(s) == Len(s) \in Nat /\ s = [i \in 1 .. Len(s) |-> s[i]]

FrameOf(fn, block, prev, pc, locals, dst) ==
  [fn |-> fn, block |-> block, prev |-> prev, pc |-> pc, locals |-> locals, dst |-> dst]

Code(m, fr) == Instrs(m, fr.fn, fr.block)
At0(m, fr) == Assigned(m, fr.fn)

InCode(m, fr) ==
  /\ fr = FrameOf(fr.fn, fr.block, fr.prev, fr.pc, fr.locals, fr.dst)
  /\ fr.fn \in Fns(m)
  /\ fr.block \in DOMAIN Blocks(m, fr.fn)
  /\ fr.pc \in 1 .. Len(Code(m, fr)) + 1
  /\ DOMAIN fr.locals \subseteq Own(m, fr.fn)

Entered(m, fr) ==
  \/ fr.prev = <<>> /\ fr.block = Entry(m, fr.fn)
  \/ \E p \in DOMAIN Blocks(m, fr.fn) :
       /\ fr.prev = <<p>> /\ Leads(m, fr.fn, p, fr.block)
       /\ Handed(m, fr.fn, At0(m, fr), p) \subseteq DOMAIN fr.locals

HasWritten(m, fr, n) ==
  /\ At0(m, fr)[fr.block] \subseteq DOMAIN fr.locals
  /\ WrittenUpTo(Code(m, fr), n) \subseteq DOMAIN fr.locals

Waits(m, fr, dst) ==
  /\ fr.pc > 1
  /\ Code(m, fr)[fr.pc - 1][1] = "Call" /\ Code(m, fr)[fr.pc - 1][2] = dst
  /\ HasWritten(m, fr, fr.pc - 2)

Stack(m, fs) ==
  /\ IsSeq(fs) /\ Len(fs) > 0
  /\ \A i \in 1 .. Len(fs) : InCode(m, fs[i]) /\ Entered(m, fs[i])
  /\ HasWritten(m, fs[Len(fs)], fs[Len(fs)].pc - 1)
  /\ \A i \in 1 .. Len(fs) - 1 : Waits(m, fs[i], fs[i + 1].dst)

RunInv(m, fs, st, e) ==
  /\ WellFormed(m)
  /\ st \in {"running", "done", "failed"}
  /\ (st = "failed") = (e # "none")
  /\ e \notin {"MalformedCfg", "NoTerminator"}
  /\ st = "running" => Stack(m, fs)

VmInv == RunInv(module, frames, status, err)

-----------------------------------------------------------------------------
(* What a rule says of one function and block.                              *)
LEMMA CodeFacts ==
  ASSUME NEW m, WellFormed(m), NEW f \in Fns(m), NEW b \in DOMAIN Blocks(m, f)
  PROVE  /\ Len(Instrs(m, f, b)) \in Nat /\ DOMAIN Instrs(m, f, b) = 1 .. Len(Instrs(m, f, b))
         /\ Blocks(m, f)[b].term # <<>>
         /\ Blocks(m, f)[b].term[1] \in {"Branch", "CondBranch", "Return", "EarlyReturn", "Unreachable"}
         /\ Targets(Blocks(m, f)[b].term) \subseteq DOMAIN Blocks(m, f)
BY DEF WellFormed, CodeIsThere, BlocksTerminated

LEMMA InstrFacts ==
  ASSUME NEW m, WellFormed(m), NEW f \in Fns(m), NEW b \in DOMAIN Blocks(m, f),
         NEW i \in DOMAIN Instrs(m, f, b), NEW x, x = Instrs(m, f, b)[i]
  PROVE  /\ Written(x) \subseteq Own(m, f)
         /\ x[1] = "Call" => /\ Len(x[4]) \in Nat /\ DOMAIN x[4] = 1 .. Len(x[4])
                             /\ x[3] \in Fns(m) => Len(x[4]) <= m.fns[x[3]].registers
         /\ x[1] = "Phi" => /\ b # Entry(m, f)
                            /\ \A p \in DOMAIN Blocks(m, f) :
                                 Leads(m, f, p, b) => \E j \in DOMAIN x[3] : x[3][j][2] = p
BY DEF WellFormed, RegistersSuffice, PhisCoverPredecessors

LEMMA EntryFacts ==
  ASSUME NEW m, WellFormed(m), NEW f \in Fns(m)
  PROVE  /\ m.fns[f].registers \in Nat
         /\ Entry(m, f) \in DOMAIN Blocks(m, f)
         /\ Assigned(m, f)[Entry(m, f)] \subseteq Passed(m, f)
BY DEF WellFormed, CodeIsThere, DefinitelyAssigned, Justified

LEMMA ReadyFacts ==
  ASSUME NEW m, WellFormed(m), NEW f \in Fns(m), NEW b \in DOMAIN Blocks(m, f)
  PROVE  /\ Ready(m, f, Assigned(m, f), b)
         /\ \A p \in DOMAIN Blocks(m, f) : Leads(m, f, p, b) => ReadyFrom(m, f, Assigned(m, f), p, b)
BY DEF WellFormed, DefinitelyAssigned, Justified

(* What has been written, one instruction later.                            *)
LEMMA NothingWritten ==
  ASSUME NEW s, NEW n, n = 0
  PROVE  WrittenUpTo(s, n) = {}
BY DEF WrittenUpTo

LEMMA WrittenNext ==
  ASSUME NEW s, NEW n \in Nat
  PROVE  WrittenUpTo(s, n + 1) = WrittenUpTo(s, n) \cup Written(s[n + 1])
<1>1. 1 .. n + 1 = (1 .. n) \cup {n + 1}
  OBVIOUS
<1> QED BY <1>1 DEF WrittenUpTo

(* Only a Phi reads by the block control came from.                         *)
LEMMA OperandsOfOthers ==
  ASSUME NEW x, x[1] # "Phi", NEW p, NEW q
  PROVE  Operands(x, p) = Operands(x, q)
BY DEF Operands

-----------------------------------------------------------------------------
(* Sequences, by length and elements. *)
LEMMA SeqOfLength ==
  ASSUME NEW n \in Nat, NEW s, s = [i \in 1 .. n |-> s[i]]
  PROVE  IsSeq(s) /\ Len(s) = n
<1> DEFINE S == {s[i] : i \in 1 .. n}
<1>1. s \in Seq(S)
  OBVIOUS
<1>2. Len(s) = n
  BY <1>1
<1> QED BY <1>2 DEF IsSeq

\* An element of a stack replaced at its end, and one added or taken away there.
Replaced(s, k, x) == [s EXCEPT ![k] = x]
Pushed(s, x) == Append(s, x)

LEMMA SeqReplaced ==
  ASSUME NEW s, IsSeq(s), NEW k \in 1 .. Len(s), NEW x, NEW t, t = Replaced(s, k, x)
  PROVE  IsSeq(t) /\ Len(t) = Len(s) /\ t[k] = x /\ \A i \in 1 .. Len(s) : i # k => t[i] = s[i]
<1>1. Len(s) \in Nat /\ s = [i \in 1 .. Len(s) |-> s[i]]
  BY DEF IsSeq
<1>2. t = [i \in 1 .. Len(s) |-> IF i = k THEN x ELSE s[i]]
  BY <1>1 DEF Replaced
<1>3. t = [i \in 1 .. Len(s) |-> t[i]]
  BY <1>2
<1>4. IsSeq(t) /\ Len(t) = Len(s)
  BY <1>1, <1>3, SeqOfLength
<1> QED BY <1>1, <1>2, <1>4

LEMMA SeqAppended ==
  ASSUME NEW s, IsSeq(s), NEW x, NEW t, t = Pushed(s, x)
  PROVE  /\ IsSeq(t) /\ Len(t) = Len(s) + 1 /\ t[Len(s) + 1] = x
         /\ \A i \in 1 .. Len(s) : t[i] = s[i]
<1> DEFINE n == Len(s)
           S == {s[i] : i \in 1 .. n} \cup {x}
<1>1. n \in Nat /\ s = [i \in 1 .. n |-> s[i]] /\ t = Append(s, x)
  BY DEF IsSeq, Pushed
<1>2. s \in Seq(S)
  BY <1>1
<1>3. /\ t \in Seq(S) /\ Len(t) = n + 1 /\ t[n + 1] = x
      /\ \A i \in 1 .. n : t[i] = s[i]
  <2> HIDE DEF S
  <2>1. x \in S
    BY DEF S
  <2> QED BY <1>1, <1>2, <2>1, AppendProperties
<1>4. t = [i \in 1 .. n + 1 |-> t[i]]
  <2> HIDE DEF S
  <2> QED BY <1>3
<1> QED BY <1>1, <1>3, <1>4 DEF IsSeq

LEMMA SeqFront ==
  ASSUME NEW s, IsSeq(s), Len(s) > 1
  PROVE  /\ IsSeq(Front(s)) /\ Len(Front(s)) = Len(s) - 1
         /\ \A i \in 1 .. Len(s) - 1 : Front(s)[i] = s[i]
<1> DEFINE n == Len(s)
           S == {s[i] : i \in 1 .. n}
<1>1. n \in Nat /\ n > 1 /\ s = [i \in 1 .. n |-> s[i]]
  BY DEF IsSeq
<1>2. s \in Seq(S)
  BY <1>1
<1>3. Front(s) = SubSeq(s, 1, n - 1)
  BY DEF Front
<1>4. SubSeq(s, 1, n - 1) = [i \in 1 .. n - 1 |-> s[i]]
  <2> HIDE DEF S
  <2> QED BY <1>1, <1>2
<1>5. Front(s) = [i \in 1 .. n - 1 |-> Front(s)[i]] /\ n - 1 \in Nat
  BY <1>1, <1>3, <1>4
<1>6. IsSeq(Front(s)) /\ Len(Front(s)) = n - 1
  BY <1>5, SeqOfLength
<1> QED BY <1>1, <1>3, <1>4, <1>6

-----------------------------------------------------------------------------
(***************************************************************************)
(* What becomes of a frame: an instruction done, a block entered, a        *)
(* function entered, a call answered.                                      *)
(***************************************************************************)
LEMMA FrameFields ==
  ASSUME NEW fn, NEW block, NEW prev, NEW pc, NEW locals, NEW dst, NEW x,
         x = FrameOf(fn, block, prev, pc, locals, dst)
  PROVE  /\ x.fn = fn /\ x.block = block /\ x.prev = prev /\ x.pc = pc
         /\ x.locals = locals /\ x.dst = dst
         /\ x = FrameOf(x.fn, x.block, x.prev, x.pc, x.locals, x.dst)
BY DEF FrameOf

LEMMA MoreLocals ==
  ASSUME NEW m, NEW fr, Entered(m, fr), NEW pc, NEW ls, NEW dst, DOMAIN fr.locals \subseteq DOMAIN ls,
         NEW x, x = FrameOf(fr.fn, fr.block, fr.prev, pc, ls, dst)
  PROVE  Entered(m, x)
<1>1. x.fn = fr.fn /\ x.block = fr.block /\ x.prev = fr.prev /\ x.locals = ls
  BY FrameFields
<1>2. CASE fr.prev = <<>> /\ fr.block = Entry(m, fr.fn)
  BY <1>1, <1>2 DEF Entered
<1>3. CASE \E p \in DOMAIN Blocks(m, fr.fn) :
             /\ fr.prev = <<p>> /\ Leads(m, fr.fn, p, fr.block)
             /\ Handed(m, fr.fn, At0(m, fr), p) \subseteq DOMAIN fr.locals
  BY <1>1, <1>3 DEF Entered, At0
<1> QED BY <1>2, <1>3 DEF Entered

LEMMA InstructionDone ==
  ASSUME NEW m, WellFormed(m), NEW fr, InCode(m, fr), Entered(m, fr), HasWritten(m, fr, fr.pc - 1),
         fr.pc <= Len(Code(m, fr)), NEW ls, NEW x,
         DOMAIN ls = DOMAIN fr.locals \cup Written(Code(m, fr)[fr.pc]),
         x = FrameOf(fr.fn, fr.block, fr.prev, fr.pc + 1, ls, fr.dst)
  PROVE  InCode(m, x) /\ Entered(m, x) /\ HasWritten(m, x, x.pc - 1)
<1>1. x.fn = fr.fn /\ x.block = fr.block /\ x.pc = fr.pc + 1 /\ x.locals = ls
      /\ x = FrameOf(x.fn, x.block, x.prev, x.pc, x.locals, x.dst)
  BY FrameFields
<1>2. fr.fn \in Fns(m) /\ fr.block \in DOMAIN Blocks(m, fr.fn) /\ fr.pc \in 1 .. Len(Code(m, fr)) + 1
  BY DEF InCode
<1>3. Len(Code(m, fr)) \in Nat /\ DOMAIN Code(m, fr) = 1 .. Len(Code(m, fr))
  BY <1>2, CodeFacts DEF Code
<1>4. Code(m, x) = Code(m, fr) /\ At0(m, x) = At0(m, fr)
  BY <1>1 DEF Code, At0
<1>5. Written(Code(m, fr)[fr.pc]) \subseteq Own(m, fr.fn)
  BY <1>2, <1>3, InstrFacts DEF Code
<1>6. InCode(m, x)
  BY <1>1, <1>2, <1>3, <1>4, <1>5 DEF InCode
<1>7. Entered(m, x)
  BY MoreLocals
<1>8. HasWritten(m, x, x.pc - 1)
  <2>1. fr.pc - 1 \in Nat /\ fr.pc - 1 + 1 = fr.pc /\ x.pc - 1 = fr.pc
    BY <1>1, <1>2, <1>3
  <2>2. WrittenUpTo(Code(m, fr), fr.pc) = WrittenUpTo(Code(m, fr), fr.pc - 1) \cup Written(Code(m, fr)[fr.pc])
    BY <2>1, WrittenNext
  <2> QED BY <1>1, <1>4, <2>1, <2>2 DEF HasWritten
<1> QED BY <1>6, <1>7, <1>8

LEMMA BlockEntered ==
  ASSUME NEW m, WellFormed(m), NEW fr, InCode(m, fr), HasWritten(m, fr, fr.pc - 1),
         fr.pc > Len(Code(m, fr)), NEW b, Leads(m, fr.fn, fr.block, b),
         NEW x, x = FrameOf(fr.fn, b, <<fr.block>>, 1, fr.locals, fr.dst)
  PROVE  InCode(m, x) /\ Entered(m, x) /\ HasWritten(m, x, x.pc - 1)
<1>1. /\ x.fn = fr.fn /\ x.block = b /\ x.prev = <<fr.block>> /\ x.pc = 1 /\ x.locals = fr.locals
      /\ x = FrameOf(x.fn, x.block, x.prev, x.pc, x.locals, x.dst)
  BY FrameFields
<1>2. fr.fn \in Fns(m) /\ fr.block \in DOMAIN Blocks(m, fr.fn) /\ fr.pc \in 1 .. Len(Code(m, fr)) + 1
  BY DEF InCode
<1>3. Len(Code(m, fr)) \in Nat
  BY <1>2, CodeFacts DEF Code
<1>4. b \in DOMAIN Blocks(m, fr.fn)
  BY <1>2, CodeFacts DEF Leads
<1>5. Len(Code(m, x)) \in Nat
  BY <1>1, <1>2, <1>4, CodeFacts DEF Code
<1>6. InCode(m, x)
  BY <1>1, <1>2, <1>4, <1>5 DEF InCode
<1>7. Handed(m, fr.fn, At0(m, fr), fr.block) \subseteq DOMAIN fr.locals
  <2>1. fr.pc - 1 = Len(Code(m, fr))
    BY <1>2, <1>3
  <2> QED BY <2>1 DEF HasWritten, Handed, WrittenIn, Code
<1>8. Entered(m, x)
  BY <1>1, <1>2, <1>7 DEF Entered, At0
<1>9. At0(m, x)[b] \subseteq DOMAIN x.locals
  <2>1. ReadyFrom(m, fr.fn, Assigned(m, fr.fn), fr.block, b)
    BY <1>2, <1>4, ReadyFacts
  <2> QED BY <1>1, <1>7, <2>1 DEF ReadyFrom, At0
<1>10. WrittenUpTo(Code(m, x), x.pc - 1) = {}
  BY <1>1, NothingWritten
<1> QED BY <1>1, <1>6, <1>8, <1>9, <1>10 DEF HasWritten

LEMMA FunctionEntered ==
  ASSUME NEW m, WellFormed(m), NEW f \in Fns(m), NEW ls, NEW dst,
         DOMAIN ls \subseteq Own(m, f), Passed(m, f) \subseteq DOMAIN ls,
         NEW x, x = FrameOf(f, Entry(m, f), <<>>, 1, ls, dst)
  PROVE  InCode(m, x) /\ Entered(m, x) /\ HasWritten(m, x, x.pc - 1)
<1>1. /\ x.fn = f /\ x.block = Entry(m, f) /\ x.prev = <<>> /\ x.pc = 1 /\ x.locals = ls
      /\ x = FrameOf(x.fn, x.block, x.prev, x.pc, x.locals, x.dst)
  BY FrameFields
<1>2. Entry(m, f) \in DOMAIN Blocks(m, f) /\ Assigned(m, f)[Entry(m, f)] \subseteq Passed(m, f)
  BY EntryFacts
<1>3. Len(Code(m, x)) \in Nat
  BY <1>1, <1>2, CodeFacts DEF Code
<1>4. InCode(m, x)
  BY <1>1, <1>2, <1>3 DEF InCode
<1>5. Entered(m, x)
  BY <1>1 DEF Entered
<1>6. WrittenUpTo(Code(m, x), x.pc - 1) = {}
  BY <1>1, NothingWritten
<1> QED BY <1>1, <1>2, <1>4, <1>5, <1>6 DEF HasWritten, At0

LEMMA CallAnswered ==
  ASSUME NEW m, WellFormed(m), NEW fr, NEW dst, InCode(m, fr), Entered(m, fr), Waits(m, fr, dst),
         NEW ls, DOMAIN ls = DOMAIN fr.locals \cup {dst},
         NEW x, x = FrameOf(fr.fn, fr.block, fr.prev, fr.pc, ls, fr.dst)
  PROVE  InCode(m, x) /\ Entered(m, x) /\ HasWritten(m, x, x.pc - 1)
<1>1. x.fn = fr.fn /\ x.block = fr.block /\ x.pc = fr.pc /\ x.locals = ls
      /\ x = FrameOf(x.fn, x.block, x.prev, x.pc, x.locals, x.dst)
  BY FrameFields
<1>2. fr.fn \in Fns(m) /\ fr.block \in DOMAIN Blocks(m, fr.fn) /\ fr.pc \in 1 .. Len(Code(m, fr)) + 1
  BY DEF InCode
<1>3. Len(Code(m, fr)) \in Nat /\ DOMAIN Code(m, fr) = 1 .. Len(Code(m, fr))
  BY <1>2, CodeFacts DEF Code
<1>4. Code(m, x) = Code(m, fr) /\ At0(m, x) = At0(m, fr)
  BY <1>1 DEF Code, At0
<1>5. fr.pc > 1 /\ Code(m, fr)[fr.pc - 1][1] = "Call" /\ Code(m, fr)[fr.pc - 1][2] = dst
      /\ HasWritten(m, fr, fr.pc - 2)
  BY DEF Waits
<1>6. fr.pc - 1 \in DOMAIN Code(m, fr) /\ fr.pc - 2 \in Nat /\ fr.pc - 2 + 1 = fr.pc - 1
  BY <1>2, <1>3, <1>5
<1>7. Written(Code(m, fr)[fr.pc - 1]) = {dst}
  BY <1>5 DEF Written
<1>8. dst \in Own(m, fr.fn)
  <2>1. fr.pc - 1 \in DOMAIN Instrs(m, fr.fn, fr.block)
    BY <1>6 DEF Code
  <2>2. Written(Instrs(m, fr.fn, fr.block)[fr.pc - 1]) \subseteq Own(m, fr.fn)
    BY <1>2, <2>1, InstrFacts
  <2> QED BY <1>7, <2>2 DEF Code
<1>9. InCode(m, x)
  BY <1>1, <1>2, <1>4, <1>8 DEF InCode
<1>10. Entered(m, x)
  BY MoreLocals
<1>11. WrittenUpTo(Code(m, fr), fr.pc - 1) = WrittenUpTo(Code(m, fr), fr.pc - 2) \cup {dst}
  BY <1>6, <1>7, WrittenNext
<1> QED BY <1>1, <1>4, <1>5, <1>9, <1>10, <1>11 DEF HasWritten

-----------------------------------------------------------------------------
(* What becomes of the stack: its top frame replaced, a frame pushed on it, *)
(* its top frame popped.                                                   *)
LEMMA TopReplaced ==
  ASSUME NEW m, NEW fs, Stack(m, fs), NEW x, NEW gs, gs = Replaced(fs, Len(fs), x),
         InCode(m, x), Entered(m, x), HasWritten(m, x, x.pc - 1), x.dst = fs[Len(fs)].dst
  PROVE  Stack(m, gs)
<1>1. IsSeq(fs) /\ Len(fs) \in Nat /\ Len(fs) > 0 /\ Len(fs) \in 1 .. Len(fs)
  BY DEF Stack, IsSeq
<1>2. /\ IsSeq(gs) /\ Len(gs) = Len(fs) /\ gs[Len(fs)] = x
      /\ \A i \in 1 .. Len(fs) : i # Len(fs) => gs[i] = fs[i]
  BY <1>1, SeqReplaced
<1>3. \A i \in 1 .. Len(gs) : InCode(m, gs[i]) /\ Entered(m, gs[i])
  BY <1>1, <1>2 DEF Stack
<1>4. ASSUME NEW i \in 1 .. Len(gs) - 1 PROVE Waits(m, gs[i], gs[i + 1].dst)
  <2>1. gs[i] = fs[i] /\ gs[i + 1].dst = fs[i + 1].dst
    BY <1>1, <1>2
  <2> QED BY <1>1, <1>2, <2>1 DEF Stack
<1> QED BY <1>1, <1>2, <1>3, <1>4 DEF Stack

LEMMA FramePushed ==
  ASSUME NEW m, NEW fs, Stack(m, fs), NEW y, NEW z, NEW gs,
         gs = Pushed(Replaced(fs, Len(fs), y), z),
         InCode(m, y), Entered(m, y), Waits(m, y, z.dst), y.dst = fs[Len(fs)].dst,
         InCode(m, z), Entered(m, z), HasWritten(m, z, z.pc - 1)
  PROVE  Stack(m, gs)
<1> DEFINE hs == Replaced(fs, Len(fs), y)
           n == Len(fs)
<1>1. IsSeq(fs) /\ n \in Nat /\ n > 0 /\ n \in 1 .. n
  BY DEF Stack, IsSeq
<1>2. /\ IsSeq(hs) /\ Len(hs) = n /\ hs[n] = y
      /\ \A i \in 1 .. n : i # n => hs[i] = fs[i]
  BY <1>1, SeqReplaced
<1>3. /\ IsSeq(gs) /\ Len(gs) = n + 1 /\ gs[n + 1] = z
      /\ \A i \in 1 .. n : gs[i] = hs[i]
  <2>1. gs = Pushed(hs, z)
    OBVIOUS
  <2> HIDE DEF hs
  <2> QED BY <1>2, <2>1, SeqAppended
<1> HIDE DEF hs
<1>4. \A i \in 1 .. Len(gs) : InCode(m, gs[i]) /\ Entered(m, gs[i])
  BY <1>1, <1>2, <1>3 DEF Stack
<1>5. ASSUME NEW i \in 1 .. Len(gs) - 1 PROVE Waits(m, gs[i], gs[i + 1].dst)
  <2>1. CASE i = n
    BY <1>1, <1>2, <1>3, <2>1
  <2>2. CASE i # n
    <3>1. i \in 1 .. Len(fs) - 1 /\ gs[i] = fs[i] /\ gs[i + 1].dst = fs[i + 1].dst
      BY <1>1, <1>2, <1>3, <2>2
    <3> QED BY <3>1 DEF Stack
  <2> QED BY <2>1, <2>2
<1> QED BY <1>1, <1>3, <1>4, <1>5 DEF Stack

LEMMA FramePopped ==
  ASSUME NEW m, NEW fs, Stack(m, fs), Len(fs) > 1, NEW x, NEW gs,
         gs = Replaced(Front(fs), Len(fs) - 1, x),
         InCode(m, x), Entered(m, x), HasWritten(m, x, x.pc - 1), x.dst = fs[Len(fs) - 1].dst
  PROVE  Stack(m, gs)
<1> DEFINE n == Len(fs) - 1
           hs == Front(fs)
<1>1. IsSeq(fs) /\ Len(fs) \in Nat /\ n \in Nat /\ n > 0 /\ n \in 1 .. n
  BY DEF Stack, IsSeq
<1>2. IsSeq(hs) /\ Len(hs) = n /\ \A i \in 1 .. n : hs[i] = fs[i]
  BY <1>1, SeqFront
<1> HIDE DEF hs
<1>3. gs = Replaced(hs, n, x)
  BY DEF hs
<1>4. /\ IsSeq(gs) /\ Len(gs) = n /\ gs[n] = x
      /\ \A i \in 1 .. n : i # n => gs[i] = fs[i]
  BY <1>1, <1>2, <1>3, SeqReplaced
<1>5. \A i \in 1 .. Len(gs) : InCode(m, gs[i]) /\ Entered(m, gs[i])
  BY <1>1, <1>4 DEF Stack
<1>6. ASSUME NEW i \in 1 .. Len(gs) - 1 PROVE Waits(m, gs[i], gs[i + 1].dst)
  <2>1. i \in 1 .. Len(fs) - 1 /\ gs[i] = fs[i] /\ gs[i + 1].dst = fs[i + 1].dst
    BY <1>1, <1>4
  <2> QED BY <2>1 DEF Stack
<1> QED BY <1>1, <1>4, <1>5, <1>6 DEF Stack

-----------------------------------------------------------------------------
(* What an instruction computes is a value, or an error of the data: never   *)
(* one of those a broken rule ends in.                                      *)
DataErrors == {"DivisionByZero", "panic", "TypeMismatch", "OptionUnwrapNone", "ResultUnwrapErr"}

Computed(r) == (\E v : r = Value(v)) \/ (\E e \in DataErrors : r = Trap(e))

LEMMA ComputedFails ==
  ASSUME NEW r, Computed(r), ~r.ok
  PROVE  r.err \in DataErrors
BY DEF Computed, Value, Trap

LEMMA ArithComputes ==
  ASSUME NEW op, NEW a, NEW b
  PROVE  Computed(ArithValues(op, a, b))
BY DEF Computed, ArithValues, DataErrors

LEMMA IcmpComputes ==
  ASSUME NEW op, NEW a, NEW b
  PROVE  Computed(IcmpValues(op, a, b))
BY DEF Computed, IcmpValues, DataErrors

LEMMA UnaryComputes ==
  ASSUME NEW v
  PROVE  Computed(NegValue(v)) /\ Computed(NotValue(v)) /\ Computed(Unwrapped(v)) /\ Computed(Value(v))
BY DEF Computed, NegValue, NotValue, Unwrapped, DataErrors

-----------------------------------------------------------------------------
(* What a frame reads is written. *)
Reading(m, fr) ==
  IF fr.pc <= Len(Code(m, fr)) THEN Code(m, fr)[fr.pc] ELSE Blocks(m, fr.fn)[fr.block].term

LEMMA ReadsAreWritten ==
  ASSUME NEW m, WellFormed(m), NEW fr, InCode(m, fr), Entered(m, fr), HasWritten(m, fr, fr.pc - 1)
  PROVE  Operands(Reading(m, fr), fr.prev) \subseteq DOMAIN fr.locals
<1> DEFINE x == Reading(m, fr)
           at == Assigned(m, fr.fn)
           written == WrittenUpTo(Code(m, fr), fr.pc - 1)
<1>1. fr.fn \in Fns(m) /\ fr.block \in DOMAIN Blocks(m, fr.fn) /\ fr.pc \in 1 .. Len(Code(m, fr)) + 1
  BY DEF InCode
<1>2. /\ Len(Code(m, fr)) \in Nat /\ DOMAIN Code(m, fr) = 1 .. Len(Code(m, fr))
      /\ Blocks(m, fr.fn)[fr.block].term[1] # "Phi"
  BY <1>1, CodeFacts DEF Code
<1>3. at[fr.block] \subseteq DOMAIN fr.locals /\ written \subseteq DOMAIN fr.locals
  BY DEF HasWritten, At0
<1>4. CASE x[1] # "Phi"
  <2>1. Ready(m, fr.fn, at, fr.block)
    BY <1>1, ReadyFacts
  <2>2. x = IF fr.pc \in DOMAIN Code(m, fr) THEN Code(m, fr)[fr.pc] ELSE Blocks(m, fr.fn)[fr.block].term
    BY <1>1, <1>2 DEF Reading
  <2>3. Operands(x, <<>>) \subseteq at[fr.block] \cup written
    <3> HIDE DEF x, at
    <3> QED BY <1>1, <1>4, <2>1, <2>2 DEF Ready, Code
  <2>4. Operands(x, fr.prev) = Operands(x, <<>>)
    BY <1>4, OperandsOfOthers
  <2> QED BY <1>3, <2>3, <2>4
<1>5. CASE x[1] = "Phi"
  <2>1. fr.pc \in DOMAIN Code(m, fr) /\ x = Code(m, fr)[fr.pc]
    BY <1>1, <1>2, <1>5 DEF Reading
  <2>2. fr.block # Entry(m, fr.fn)
    BY <1>1, <1>5, <2>1, InstrFacts DEF Code
  <2>3. PICK p \in DOMAIN Blocks(m, fr.fn) :
          /\ fr.prev = <<p>> /\ Leads(m, fr.fn, p, fr.block)
          /\ Handed(m, fr.fn, At0(m, fr), p) \subseteq DOMAIN fr.locals
    BY <2>2 DEF Entered
  <2>4. ReadyFrom(m, fr.fn, at, p, fr.block)
    BY <1>1, <2>3, ReadyFacts
  <2>5. Operands(x, <<p>>) \subseteq Handed(m, fr.fn, at, p) \cup written
    <3> HIDE DEF x, at
    <3> QED BY <1>5, <2>1, <2>4 DEF ReadyFrom, Code
  <2> QED BY <1>3, <2>3, <2>5 DEF At0
<1> QED BY <1>4, <1>5

\* A Phi that is met has a source for the block control came from.
LEMMA PhiHasSource ==
  ASSUME NEW m, WellFormed(m), NEW fr, InCode(m, fr), Entered(m, fr),
         fr.pc <= Len(Code(m, fr)), NEW x, x = Code(m, fr)[fr.pc], x[1] = "Phi"
  PROVE  \E j \in DOMAIN x[3] : <<x[3][j][2]>> = fr.prev
<1>1. fr.fn \in Fns(m) /\ fr.block \in DOMAIN Blocks(m, fr.fn) /\ fr.pc \in 1 .. Len(Code(m, fr)) + 1
  BY DEF InCode
<1>2. Len(Code(m, fr)) \in Nat /\ DOMAIN Code(m, fr) = 1 .. Len(Code(m, fr))
  BY <1>1, CodeFacts DEF Code
<1>3. fr.pc \in DOMAIN Code(m, fr)
  BY <1>1, <1>2
<1>4. /\ fr.block # Entry(m, fr.fn)
      /\ \A p \in DOMAIN Blocks(m, fr.fn) :
           Leads(m, fr.fn, p, fr.block) => \E j \in DOMAIN x[3] : x[3][j][2] = p
  BY <1>1, <1>3, InstrFacts DEF Code
<1>5. PICK p \in DOMAIN Blocks(m, fr.fn) : fr.prev = <<p>> /\ Leads(m, fr.fn, p, fr.block)
  BY <1>4 DEF Entered
<1> QED BY <1>4, <1>5

-----------------------------------------------------------------------------
(* The steps of the machine. *)
WithPc(fr, y) == [fr EXCEPT !.pc = y]
WithLocals(fr, y) == [fr EXCEPT !.locals = y]
WithBlock(fr, y) == [fr EXCEPT !.block = y]
WithPrev(fr, y) == [fr EXCEPT !.prev = y]

Passing(fs, n) == [fs EXCEPT ![n].pc = @ + 1]
Getting(fs, n, d, v) == [fs EXCEPT ![n].locals = Put(@, d, v)]
Jumping(fs, n, b, p) == [fs EXCEPT ![n] = [@ EXCEPT !.block = b, !.prev = p, !.pc = 1]]
Setting(fs, n, d, v) == [fs EXCEPT ![n].locals = Put(@, d, v), ![n].pc = @ + 1]

LEMMA FrameUpdates ==
  ASSUME NEW fn, NEW block, NEW prev, NEW pc, NEW locals, NEW dst, NEW y, NEW fr,
         fr = FrameOf(fn, block, prev, pc, locals, dst)
  PROVE  /\ WithPc(fr, y) = FrameOf(fn, block, prev, y, locals, dst)
         /\ WithLocals(fr, y) = FrameOf(fn, block, prev, pc, y, dst)
         /\ WithBlock(fr, y) = FrameOf(fn, y, prev, pc, locals, dst)
         /\ WithPrev(fr, y) = FrameOf(fn, block, y, pc, locals, dst)
<1>1. WithPc(fr, y) = FrameOf(fn, block, prev, y, locals, dst)
  BY DEF FrameOf, WithPc, WithLocals, WithBlock, WithPrev
<1>2. WithLocals(fr, y) = FrameOf(fn, block, prev, pc, y, dst)
  BY DEF FrameOf, WithPc, WithLocals, WithBlock, WithPrev
<1>3. WithBlock(fr, y) = FrameOf(fn, y, prev, pc, locals, dst)
  BY DEF FrameOf, WithPc, WithLocals, WithBlock, WithPrev
<1>4. WithPrev(fr, y) = FrameOf(fn, block, y, pc, locals, dst)
  BY DEF FrameOf, WithPc, WithLocals, WithBlock, WithPrev
<1> QED BY <1>1, <1>2, <1>3, <1>4

LEMMA StackUpdates ==
  ASSUME NEW fs, NEW n, n \in DOMAIN fs, NEW d, NEW v, NEW b, NEW p
  PROVE  /\ Passing(fs, n) = Replaced(fs, n, WithPc(fs[n], fs[n].pc + 1))
         /\ Getting(fs, n, d, v) = Replaced(fs, n, WithLocals(fs[n], Put(fs[n].locals, d, v)))
         /\ Jumping(fs, n, b, p)
              = Replaced(fs, n, WithPc(WithPrev(WithBlock(fs[n], b), p), 1))
         /\ Setting(fs, n, d, v)
              = Replaced(fs, n, WithPc(WithLocals(fs[n], Put(fs[n].locals, d, v)), fs[n].pc + 1))
<1>1. Passing(fs, n) = Replaced(fs, n, WithPc(fs[n], fs[n].pc + 1))
  BY DEF Replaced, WithPc, WithLocals, WithBlock, WithPrev, Passing, Getting, Jumping, Setting
<1>2. Getting(fs, n, d, v) = Replaced(fs, n, WithLocals(fs[n], Put(fs[n].locals, d, v)))
  BY DEF Replaced, WithPc, WithLocals, WithBlock, WithPrev, Passing, Getting, Jumping, Setting
<1>3. Jumping(fs, n, b, p)
        = Replaced(fs, n, WithPc(WithPrev(WithBlock(fs[n], b), p), 1))
  BY DEF Replaced, WithPc, WithLocals, WithBlock, WithPrev, Passing, Getting, Jumping, Setting
<1>4. Setting(fs, n, d, v)
        = Replaced(fs, n, WithPc(WithLocals(fs[n], Put(fs[n].locals, d, v)), fs[n].pc + 1))
  BY DEF Replaced, WithPc, WithLocals, WithBlock, WithPrev, Passing, Getting, Jumping, Setting
<1> QED BY <1>1, <1>2, <1>3, <1>4

LEMMA PassingIs ==
  ASSUME NEW fs, NEW n, n \in DOMAIN fs, NEW fr, fr = fs[n],
         fr = FrameOf(fr.fn, fr.block, fr.prev, fr.pc, fr.locals, fr.dst)
  PROVE  Passing(fs, n) = Replaced(fs, n, FrameOf(fr.fn, fr.block, fr.prev, fr.pc + 1, fr.locals, fr.dst))
<1>1. WithPc(fr, fr.pc + 1) = FrameOf(fr.fn, fr.block, fr.prev, fr.pc + 1, fr.locals, fr.dst)
  BY FrameUpdates
<1>2. Passing(fs, n) = Replaced(fs, n, WithPc(fr, fr.pc + 1))
  BY StackUpdates
<1> QED BY <1>1, <1>2

LEMMA GettingIs ==
  ASSUME NEW fs, NEW n, n \in DOMAIN fs, NEW fr, fr = fs[n],
         fr = FrameOf(fr.fn, fr.block, fr.prev, fr.pc, fr.locals, fr.dst), NEW d, NEW v,
         NEW ls, ls = Put(fr.locals, d, v)
  PROVE  Getting(fs, n, d, v) = Replaced(fs, n, FrameOf(fr.fn, fr.block, fr.prev, fr.pc, ls, fr.dst))
<1>1. WithLocals(fr, ls) = FrameOf(fr.fn, fr.block, fr.prev, fr.pc, ls, fr.dst)
  BY FrameUpdates
<1>2. Getting(fs, n, d, v) = Replaced(fs, n, WithLocals(fr, ls))
  BY StackUpdates
<1> QED BY <1>1, <1>2

LEMMA SettingIs ==
  ASSUME NEW fs, NEW n, n \in DOMAIN fs, NEW fr, fr = fs[n],
         fr = FrameOf(fr.fn, fr.block, fr.prev, fr.pc, fr.locals, fr.dst), NEW d, NEW v,
         NEW ls, ls = Put(fr.locals, d, v)
  PROVE  Setting(fs, n, d, v) = Replaced(fs, n, FrameOf(fr.fn, fr.block, fr.prev, fr.pc + 1, ls, fr.dst))
<1>1. WithLocals(fr, ls) = FrameOf(fr.fn, fr.block, fr.prev, fr.pc, ls, fr.dst)
  BY FrameUpdates
<1>2. WithPc(FrameOf(fr.fn, fr.block, fr.prev, fr.pc, ls, fr.dst), fr.pc + 1)
        = FrameOf(fr.fn, fr.block, fr.prev, fr.pc + 1, ls, fr.dst)
  BY FrameUpdates
<1>3. Setting(fs, n, d, v) = Replaced(fs, n, WithPc(WithLocals(fr, ls), fr.pc + 1))
  BY StackUpdates
<1> QED BY <1>1, <1>2, <1>3

LEMMA JumpingIs ==
  ASSUME NEW fs, NEW n, n \in DOMAIN fs, NEW fr, fr = fs[n],
         fr = FrameOf(fr.fn, fr.block, fr.prev, fr.pc, fr.locals, fr.dst), NEW b, NEW p
  PROVE  Jumping(fs, n, b, p) = Replaced(fs, n, FrameOf(fr.fn, b, p, 1, fr.locals, fr.dst))
<1>1. WithBlock(fr, b) = FrameOf(fr.fn, b, fr.prev, fr.pc, fr.locals, fr.dst)
  BY FrameUpdates
<1>2. WithPrev(FrameOf(fr.fn, b, fr.prev, fr.pc, fr.locals, fr.dst), p)
        = FrameOf(fr.fn, b, p, fr.pc, fr.locals, fr.dst)
  BY FrameUpdates
<1>3. WithPc(FrameOf(fr.fn, b, p, fr.pc, fr.locals, fr.dst), 1) = FrameOf(fr.fn, b, p, 1, fr.locals, fr.dst)
  BY FrameUpdates
<1>4. Jumping(fs, n, b, p) = Replaced(fs, n, WithPc(WithPrev(WithBlock(fr, b), p), 1))
  BY StackUpdates
<1> QED BY <1>1, <1>2, <1>3, <1>4

LEMMA TopOfStack ==
  ASSUME NEW m, NEW fs, Stack(m, fs)
  PROVE  /\ Len(fs) \in Nat /\ Len(fs) > 0 /\ DOMAIN fs = 1 .. Len(fs) /\ Len(fs) \in DOMAIN fs
         /\ \A i \in 1 .. Len(fs) : InCode(m, fs[i]) /\ Entered(m, fs[i])
         /\ HasWritten(m, fs[Len(fs)], fs[Len(fs)].pc - 1)
<1>1. Len(fs) \in Nat /\ Len(fs) > 0 /\ DOMAIN fs = 1 .. Len(fs)
  BY DEF Stack, IsSeq
<1> QED BY <1>1 DEF Stack

LEMMA PutDomain ==
  ASSUME NEW ls, NEW d, NEW v
  PROVE  DOMAIN Put(ls, d, v) = DOMAIN ls \cup {d}
BY DEF Put

LEMMA SetKeepsStack ==
  ASSUME NEW m, WellFormed(m), NEW fs, Stack(m, fs), NEW n, n = Len(fs), NEW fr, fr = fs[n],
         fr.pc <= Len(Code(m, fr)), NEW d, Written(Code(m, fr)[fr.pc]) = {d}, NEW v
  PROVE  Stack(m, Setting(fs, n, d, v))
<1>1. n \in DOMAIN fs /\ InCode(m, fr) /\ Entered(m, fr) /\ HasWritten(m, fr, fr.pc - 1)
  BY TopOfStack
<1>2. PICK ls : ls = Put(fr.locals, d, v)
  OBVIOUS
<1>3. PICK x : x = FrameOf(fr.fn, fr.block, fr.prev, fr.pc + 1, ls, fr.dst)
  OBVIOUS
<1>4. DOMAIN ls = DOMAIN fr.locals \cup Written(Code(m, fr)[fr.pc])
  <2>1. DOMAIN ls = DOMAIN fr.locals \cup {d}
    BY <1>2, PutDomain
  <2> QED BY <2>1
<1>5. Setting(fs, n, d, v) = Replaced(fs, n, x)
  BY <1>1, <1>2, <1>3, SettingIs DEF InCode
<1>6. InCode(m, x) /\ Entered(m, x) /\ HasWritten(m, x, x.pc - 1)
  BY <1>1, <1>3, <1>4, InstructionDone
<1>7. x.dst = fr.dst
  BY <1>3, FrameFields
<1>8. Stack(m, Replaced(fs, n, x))
  BY <1>6, <1>7, TopReplaced
<1> QED BY <1>5, <1>8

LEMMA PrintKeepsStack ==
  ASSUME NEW m, WellFormed(m), NEW fs, Stack(m, fs), NEW n, n = Len(fs), NEW fr, fr = fs[n],
         fr.pc <= Len(Code(m, fr)), Written(Code(m, fr)[fr.pc]) = {}
  PROVE  Stack(m, Passing(fs, n))
<1> DEFINE x == FrameOf(fr.fn, fr.block, fr.prev, fr.pc + 1, fr.locals, fr.dst)
<1>1. n \in DOMAIN fs /\ InCode(m, fr) /\ Entered(m, fr) /\ HasWritten(m, fr, fr.pc - 1)
  BY TopOfStack
<1>2. Passing(fs, n) = Replaced(fs, n, x)
  BY <1>1, PassingIs DEF InCode
<1>3. InCode(m, x) /\ Entered(m, x) /\ HasWritten(m, x, x.pc - 1)
  BY <1>1, InstructionDone
<1>4. x.dst = fr.dst
  BY FrameFields
<1> HIDE DEF x
<1>5. Stack(m, Replaced(fs, n, x))
  BY <1>3, <1>4, TopReplaced
<1> QED BY <1>2, <1>5

LEMMA JumpKeepsStack ==
  ASSUME NEW m, WellFormed(m), NEW fs, Stack(m, fs), NEW n, n = Len(fs), NEW fr, fr = fs[n],
         fr.pc > Len(Code(m, fr)), NEW b, Leads(m, fr.fn, fr.block, b)
  PROVE  Stack(m, Jumping(fs, n, b, <<fr.block>>))
<1> DEFINE x == FrameOf(fr.fn, b, <<fr.block>>, 1, fr.locals, fr.dst)
<1>1. n \in DOMAIN fs /\ InCode(m, fr) /\ Entered(m, fr) /\ HasWritten(m, fr, fr.pc - 1)
  BY TopOfStack
<1>2. Jumping(fs, n, b, <<fr.block>>) = Replaced(fs, n, x)
  BY <1>1, JumpingIs DEF InCode
<1>3. InCode(m, x) /\ Entered(m, x) /\ HasWritten(m, x, x.pc - 1)
  BY <1>1, BlockEntered
<1>4. x.dst = fr.dst
  BY FrameFields
<1> HIDE DEF x
<1>5. Stack(m, Replaced(fs, n, x))
  BY <1>3, <1>4, TopReplaced
<1> QED BY <1>2, <1>5

LEMMA CallPasses ==
  ASSUME NEW m, WellFormed(m), NEW fr, InCode(m, fr), fr.pc <= Len(Code(m, fr)),
         NEW x, x = Code(m, fr)[fr.pc], x[1] = "Call", NEW g \in Fns(m), g = x[3]
  PROVE  /\ Len(x[4]) \in Nat /\ DOMAIN x[4] = 1 .. Len(x[4])
         /\ 0 .. Len(x[4]) - 1 \subseteq Own(m, g)
         /\ Passed(m, g) \subseteq 0 .. Len(x[4]) - 1
<1>1. fr.fn \in Fns(m) /\ fr.block \in DOMAIN Blocks(m, fr.fn) /\ fr.pc \in 1 .. Len(Code(m, fr)) + 1
  BY DEF InCode
<1>2. Len(Code(m, fr)) \in Nat /\ DOMAIN Code(m, fr) = 1 .. Len(Code(m, fr))
  BY <1>1, CodeFacts DEF Code
<1>3. fr.pc \in DOMAIN Code(m, fr)
  BY <1>1, <1>2
<1>4. Len(x[4]) \in Nat /\ DOMAIN x[4] = 1 .. Len(x[4]) /\ Len(x[4]) <= m.fns[g].registers
  BY <1>1, <1>3, InstrFacts DEF Code
<1>5. m.fns[g].registers \in Nat
  BY EntryFacts
<1>6. \A r \in Passed(m, g) : r \in Own(m, g) /\ r < Len(x[4])
  <2>1. Calls(g, Code(m, fr)[fr.pc])
    BY DEF Calls
  <2> QED BY <1>1, <1>3, <2>1 DEF Passed, Code
<1>7. 0 .. Len(x[4]) - 1 \subseteq Own(m, g)
  <2>1. PICK n, k : n = Len(x[4]) /\ k = m.fns[g].registers
    OBVIOUS
  <2>2. n \in Nat /\ k \in Nat /\ n <= k
    BY <1>4, <1>5, <2>1
  <2>3. 0 .. n - 1 \subseteq 0 .. k - 1
    BY <2>2
  <2> QED BY <2>1, <2>3 DEF Own
<1>8. Passed(m, g) \subseteq 0 .. Len(x[4]) - 1
  <2>1. ASSUME NEW r \in Passed(m, g) PROVE r \in 0 .. Len(x[4]) - 1
    <3>1. r \in Int /\ r >= 0
      BY <1>5, <1>6 DEF Own
    <3>2. r < Len(x[4])
      BY <1>6
    <3> QED BY <1>4, <3>1, <3>2
  <2> QED BY <2>1
<1> QED BY <1>4, <1>7, <1>8

LEMMA CallKeepsStack ==
  ASSUME NEW m, WellFormed(m), NEW fs, Stack(m, fs), NEW n, n = Len(fs), NEW fr, fr = fs[n],
         fr.pc <= Len(Code(m, fr)), Code(m, fr)[fr.pc][1] = "Call",
         NEW d, Code(m, fr)[fr.pc][2] = d, NEW g \in Fns(m),
         NEW ls, DOMAIN ls \subseteq Own(m, g), Passed(m, g) \subseteq DOMAIN ls,
         NEW z, z = FrameOf(g, Entry(m, g), <<>>, 1, ls, d)
  PROVE  Stack(m, Pushed(Passing(fs, n), z))
<1>1. n \in DOMAIN fs /\ InCode(m, fr) /\ Entered(m, fr) /\ HasWritten(m, fr, fr.pc - 1)
  BY TopOfStack
<1>2. PICK y : y = FrameOf(fr.fn, fr.block, fr.prev, fr.pc + 1, fr.locals, fr.dst)
  OBVIOUS
<1>3. /\ fr.fn \in Fns(m) /\ fr.block \in DOMAIN Blocks(m, fr.fn) /\ fr.pc \in 1 .. Len(Code(m, fr)) + 1
      /\ fr = FrameOf(fr.fn, fr.block, fr.prev, fr.pc, fr.locals, fr.dst)
      /\ DOMAIN fr.locals \subseteq Own(m, fr.fn)
  BY <1>1 DEF InCode
<1>4. Len(Code(m, fr)) \in Nat
  BY <1>3, CodeFacts DEF Code
<1>5. InCode(m, z) /\ Entered(m, z) /\ HasWritten(m, z, z.pc - 1)
  BY FunctionEntered
<1>6. /\ y.fn = fr.fn /\ y.block = fr.block /\ y.pc = fr.pc + 1 /\ y.locals = fr.locals /\ y.dst = fr.dst
      /\ y = FrameOf(y.fn, y.block, y.prev, y.pc, y.locals, y.dst)
  BY <1>2, FrameFields
<1>7. z.dst = d
  BY FrameFields
<1>8. Code(m, y) = Code(m, fr) /\ At0(m, y) = At0(m, fr)
  BY <1>6 DEF Code, At0
<1>9. InCode(m, y)
  BY <1>3, <1>4, <1>6, <1>8 DEF InCode
<1>10. Entered(m, y)
  BY <1>1, <1>2, MoreLocals
<1>11. Waits(m, y, d)
  <2>1. y.pc > 1 /\ y.pc - 1 = fr.pc /\ y.pc - 2 = fr.pc - 1
    BY <1>3, <1>4, <1>6
  <2> QED BY <1>1, <1>6, <1>8, <2>1 DEF Waits, HasWritten
<1>12. Passing(fs, n) = Replaced(fs, n, y)
  BY <1>1, <1>2, <1>3, PassingIs
<1>13. Stack(m, Pushed(Replaced(fs, n, y), z))
  BY <1>5, <1>6, <1>7, <1>9, <1>10, <1>11, FramePushed
<1> QED BY <1>12, <1>13

LEMMA ReturnKeepsStack ==
  ASSUME NEW m, WellFormed(m), NEW fs, Stack(m, fs), Len(fs) # 1, NEW k, k = Len(fs) - 1,
         NEW d, d = fs[Len(fs)].dst, NEW v
  PROVE  Stack(m, Getting(Front(fs), k, d, v))
<1>1. Len(fs) \in Nat /\ Len(fs) > 1 /\ IsSeq(fs)
  BY DEF Stack, IsSeq
<1>2. k \in 1 .. Len(fs) /\ k \in 1 .. Len(fs) - 1 /\ k + 1 = Len(fs)
  BY <1>1
<1>3. PICK fr : fr = fs[k]
  OBVIOUS
<1>4. InCode(m, fr) /\ Entered(m, fr) /\ Waits(m, fr, d)
  BY <1>2, <1>3 DEF Stack
<1>5. PICK ls : ls = Put(fr.locals, d, v)
  OBVIOUS
<1>6. PICK x : x = FrameOf(fr.fn, fr.block, fr.prev, fr.pc, ls, fr.dst)
  OBVIOUS
<1>7. DOMAIN ls = DOMAIN fr.locals \cup {d}
  BY <1>5, PutDomain
<1>8. InCode(m, x) /\ Entered(m, x) /\ HasWritten(m, x, x.pc - 1)
  BY <1>4, <1>6, <1>7, CallAnswered
<1>9. x.dst = fr.dst
  BY <1>6, FrameFields
<1>10. PICK hs : hs = Front(fs)
  OBVIOUS
<1>11. IsSeq(hs) /\ Len(hs) = k /\ hs[k] = fr
  BY <1>1, <1>2, <1>3, <1>10, SeqFront
<1>12. k \in DOMAIN hs
  BY <1>1, <1>2, <1>11 DEF IsSeq
<1>13. Getting(hs, k, d, v) = Replaced(hs, k, x)
  BY <1>4, <1>5, <1>6, <1>11, <1>12, GettingIs DEF InCode
<1>14. Stack(m, Replaced(hs, k, x))
  BY <1>1, <1>3, <1>8, <1>9, <1>10, FramePopped
<1> QED BY <1>10, <1>13, <1>14

-----------------------------------------------------------------------------
(* Every step keeps the invariant.  Step names what a step leaves: the      *)
(* module, and a stack, a status and an error the invariant holds of.       *)
Keeps == module' = module /\ RunInv(module, frames', status', err')

LEMMA TopIs ==
  ASSUME VmInv, status = "running"
  PROVE  /\ WellFormed(module) /\ err = "none"
         /\ Stack(module, frames)
         /\ Top = frames[Len(frames)]
         /\ Code(module, Top) = CurrentBlock.instrs
         /\ Blocks(module, Top.fn)[Top.block] = CurrentBlock
         /\ InCode(module, Top) /\ Entered(module, Top) /\ HasWritten(module, Top, Top.pc - 1)
         /\ Reading(module, Top) = IF Top.pc <= Len(CurrentBlock.instrs) THEN Instr ELSE Terminator
<1>1. WellFormed(module) /\ err = "none" /\ Stack(module, frames)
  BY DEF VmInv, RunInv
<1>2. Top = frames[Len(frames)]
  BY DEF Top
<1>3. Code(module, Top) = CurrentBlock.instrs /\ Blocks(module, Top.fn)[Top.block] = CurrentBlock
  BY DEF Code, Instrs, Blocks, CurrentBlock
<1>4. InCode(module, Top) /\ Entered(module, Top) /\ HasWritten(module, Top, Top.pc - 1)
  BY <1>1, <1>2, TopOfStack
<1>5. Reading(module, Top) = IF Top.pc <= Len(CurrentBlock.instrs) THEN Instr ELSE Terminator
  BY <1>3 DEF Reading, Instr, Terminator
<1> QED BY <1>1, <1>2, <1>3, <1>4, <1>5

\* The run fails with an error of the data, or with another that no broken rule ends in.
LEMMA FailKeeps ==
  ASSUME VmInv, NEW e, Fail(e), e \notin {"none", "MalformedCfg", "NoTerminator"}
  PROVE  Keeps
<1>1. module' = module /\ status' = "failed" /\ err' = e
  BY DEF Fail
<1>2. WellFormed(module)
  BY DEF VmInv, RunInv
<1> QED BY <1>1, <1>2 DEF Keeps, RunInv

\* The run goes on with another stack.
LEMMA GoesOn ==
  ASSUME VmInv, status = "running", UNCHANGED <<module, status, err>>, Stack(module, frames')
  PROVE  Keeps
BY DEF VmInv, RunInv, Keeps

LEMMA SetStep ==
  ASSUME VmInv, status = "running", Top.pc <= Len(CurrentBlock.instrs),
         Written(Instr) = {Instr[2]}, NEW r, Computed(r), Set(Instr[2], r)
  PROVE  Keeps
<1>1. CASE ~r.ok
  <2>1. Fail(r.err)
    BY <1>1 DEF Set
  <2>2. r.err \in DataErrors
    BY <1>1, ComputedFails
  <2> QED BY <2>1, <2>2, FailKeeps DEF DataErrors
<1>2. CASE r.ok /\ Instr[2] >= MaxLocals
  <2>1. Fail("panic")
    BY <1>2 DEF Set
  <2> QED BY <2>1, FailKeeps
<1>3. CASE r.ok /\ ~(Instr[2] >= MaxLocals)
  <2>1. frames' = Setting(frames, Len(frames), Instr[2], r.v) /\ UNCHANGED <<module, out, status, err>>
    BY <1>3 DEF Set, Setting
  <2>2. Instr = Code(module, Top)[Top.pc]
    BY TopIs DEF Instr
  <2>3. Stack(module, Setting(frames, Len(frames), Instr[2], r.v))
    BY <2>2, TopIs, SetKeepsStack
  <2> QED BY <2>1, <2>3, GoesOn
<1> QED BY <1>1, <1>2, <1>3

LEMMA PrintStep ==
  ASSUME VmInv, PrintValue
  PROVE  Keeps
<1>1. /\ status = "running" /\ Top.pc <= Len(CurrentBlock.instrs) /\ Instr[1] = "Print"
      /\ frames' = Passing(frames, Len(frames)) /\ UNCHANGED <<module, status, err>>
  BY DEF PrintValue, Executing, Passing
<1>2. Instr = Code(module, Top)[Top.pc] /\ Written(Instr) = {}
  BY <1>1, TopIs DEF Instr, Written
<1>3. Stack(module, Passing(frames, Len(frames)))
  BY <1>1, <1>2, TopIs, PrintKeepsStack
<1> QED BY <1>1, <1>3, GoesOn

LEMMA PhiStep ==
  ASSUME VmInv, Phi
  PROVE  Keeps
<1> DEFINE from == {i \in DOMAIN Instr[3] : <<Instr[3][i][2]>> = Top.prev}
           first == CHOOSE i \in from : \A j \in from : i <= j
<1>1. status = "running" /\ Top.pc <= Len(CurrentBlock.instrs) /\ Instr[1] = "Phi"
  BY DEF Phi, Executing
<1>2. IF from = {} THEN Fail("MalformedCfg") ELSE Set(Instr[2], Value(Reg(Instr[3][first][1])))
  BY DEF Phi
<1>3. Instr = Code(module, Top)[Top.pc]
  BY <1>1, TopIs DEF Instr
<1>4. \E j \in DOMAIN Instr[3] : <<Instr[3][j][2]>> = Top.prev
  BY <1>1, <1>3, TopIs, PhiHasSource
<1>5. from # {}
  BY <1>4
<1> HIDE DEF from, first
<1>6. PICK r : r = Value(Reg(Instr[3][first][1]))
  OBVIOUS
<1>7. Computed(r) /\ Set(Instr[2], r)
  BY <1>2, <1>5, <1>6, UnaryComputes
<1>8. Written(Instr) = {Instr[2]}
  BY <1>1 DEF Written
<1> QED BY <1>1, <1>7, <1>8, SetStep

\* The instructions that compute a value from registers.
ComputesValue ==
  \/ Load \/ Arith \/ ICmp \/ Unary
  \/ StructNew \/ FieldGet \/ ListLen \/ ListIndex
  \/ EnumTag \/ EnumPayload \/ Wrap \/ TryUnwrap

LEMMA ComputingSets ==
  ASSUME ComputesValue
  PROVE  /\ status = "running" /\ Top.pc <= Len(CurrentBlock.instrs) /\ Instr[1] # "Print"
         /\ \E r : Computed(r) /\ Set(Instr[2], r)
<1>1. CASE Load
  BY <1>1, UnaryComputes DEF Load, Executing
<1>2. CASE Arith
  BY <1>2, ArithComputes DEF Arith, Executing
<1>3. CASE ICmp
  BY <1>3, IcmpComputes DEF ICmp, Executing
<1>4. CASE Unary
  <2>1. Computed(IF Instr[1] = "Neg" THEN NegValue(Reg(Instr[3])) ELSE NotValue(Reg(Instr[3])))
    BY UnaryComputes
  <2> QED BY <1>4, <2>1 DEF Unary, Executing
<1>5. CASE StructNew
  BY <1>5, UnaryComputes DEF StructNew, Executing
<1>6. CASE FieldGet
  BY <1>6, UnaryComputes DEF FieldGet, Executing
<1>7. CASE ListLen
  BY <1>7, UnaryComputes DEF ListLen, Executing
<1>8. CASE ListIndex
  BY <1>8, UnaryComputes DEF ListIndex, Executing
<1>9. CASE EnumTag
  BY <1>9, UnaryComputes DEF EnumTag, Executing
<1>10. CASE EnumPayload
  BY <1>10, UnaryComputes DEF EnumPayload, Executing
<1>11. CASE Wrap
  BY <1>11, UnaryComputes DEF Wrap, Executing
<1>12. CASE TryUnwrap
  BY <1>12, UnaryComputes DEF TryUnwrap, Executing
<1> QED BY <1>1, <1>2, <1>3, <1>4, <1>5, <1>6, <1>7, <1>8, <1>9, <1>10, <1>11, <1>12 DEF ComputesValue

LEMMA ComputingStep ==
  ASSUME VmInv, ComputesValue
  PROVE  Keeps
<1>1. status = "running" /\ Top.pc <= Len(CurrentBlock.instrs) /\ Written(Instr) = {Instr[2]}
  BY ComputingSets DEF Written
<1>2. PICK r : Computed(r) /\ Set(Instr[2], r)
  BY ComputingSets
<1> QED BY <1>1, <1>2, SetStep

LEMMA CallStep ==
  ASSUME VmInv, Call
  PROVE  Keeps
<1>1. status = "running" /\ Top.pc <= Len(CurrentBlock.instrs) /\ Instr[1] = "Call"
  BY DEF Call, Executing
<1>2. CASE Instr[3] \notin DOMAIN module.fns
  <2>1. Fail("FunctionNotFound")
    BY <1>2 DEF Call
  <2> QED BY <2>1, FailKeeps
<1>3. CASE Instr[3] \in DOMAIN module.fns
  <2>1. PICK args : args = Regs(Instr[4])
    OBVIOUS
  <2>2. PICK ls : ls = [i \in 0 .. Len(args) - 1 |-> args[i + 1]]
    OBVIOUS
  <2>3. PICK z : z = FrameOf(Instr[3], Entry(module, Instr[3]), <<>>, 1, ls, Instr[2])
    OBVIOUS
  <2>4. z = NewFrame(Instr[3], args, Instr[2])
    BY <2>2, <2>3 DEF NewFrame, FrameOf, Entry
  <2>5. /\ frames' = Append(Passing(frames, Len(frames)), NewFrame(Instr[3], Regs(Instr[4]), Instr[2]))
        /\ UNCHANGED <<module, status, err>>
    BY <1>3 DEF Call, Passing
  <2>6. frames' = Pushed(Passing(frames, Len(frames)), z)
    BY <2>1, <2>4, <2>5 DEF Pushed
  <2>7. Instr = Code(module, Top)[Top.pc] /\ Instr[3] \in Fns(module)
    BY <1>1, <1>3, TopIs DEF Instr, Fns
  <2>8. /\ Len(Instr[4]) \in Nat /\ DOMAIN Instr[4] = 1 .. Len(Instr[4])
        /\ 0 .. Len(Instr[4]) - 1 \subseteq Own(module, Instr[3])
        /\ Passed(module, Instr[3]) \subseteq 0 .. Len(Instr[4]) - 1
    BY <1>1, <2>7, TopIs, CallPasses
  <2>9. Len(args) = Len(Instr[4])
    <3>1. args = [i \in 1 .. Len(Instr[4]) |-> Reg(Instr[4][i])]
      BY <2>1, <2>8 DEF Regs
    <3>2. args = [i \in 1 .. Len(Instr[4]) |-> args[i]]
      BY <3>1
    <3> QED BY <2>8, <3>2, SeqOfLength
  <2>10. DOMAIN ls = 0 .. Len(Instr[4]) - 1
    BY <2>2, <2>9
  <2>11. Stack(module, Pushed(Passing(frames, Len(frames)), z))
    <3>1. DOMAIN ls \subseteq Own(module, Instr[3]) /\ Passed(module, Instr[3]) \subseteq DOMAIN ls
      BY <2>8, <2>10
    <3> QED BY <1>1, <2>3, <2>7, <3>1, TopIs, CallKeepsStack
  <2> QED BY <1>1, <2>5, <2>6, <2>11, GoesOn
<1> QED BY <1>2, <1>3

LEMMA JumpStep ==
  ASSUME VmInv, status = "running", Top.pc > Len(CurrentBlock.instrs),
         NEW b \in Targets(Terminator), Jump(b)
  PROVE  Keeps
<1>1. /\ frames' = Jumping(frames, Len(frames), b, <<Top.block>>)
      /\ UNCHANGED <<module, status, err>>
  BY DEF Jump, Jumping
<1>2. Leads(module, Top.fn, Top.block, b)
  BY TopIs DEF Leads, Terminator
<1>3. Stack(module, Jumping(frames, Len(frames), b, <<Top.block>>))
  BY <1>2, TopIs, JumpKeepsStack
<1> QED BY <1>1, <1>3, GoesOn

LEMMA LeaveStep ==
  ASSUME VmInv, status = "running", NEW v, Leave1(v)
  PROVE  Keeps
<1>1. CASE Len(frames) = 1
  <2>1. status' = "done" /\ UNCHANGED <<module, err>>
    BY <1>1 DEF Leave1
  <2>2. WellFormed(module) /\ err = "none"
    BY TopIs
  <2> QED BY <2>1, <2>2 DEF Keeps, RunInv
<1>2. CASE Len(frames) # 1
  <2>1. /\ frames' = Getting(Front(frames), Len(frames) - 1, Top.dst, v)
        /\ UNCHANGED <<module, status, err>>
    BY <1>2 DEF Leave1, Getting
  <2>2. Stack(module, frames) /\ Top.dst = frames[Len(frames)].dst /\ WellFormed(module)
    BY TopIs
  <2>3. Stack(module, Getting(Front(frames), Len(frames) - 1, Top.dst, v))
    BY <1>2, <2>2, ReturnKeepsStack
  <2> QED BY <2>1, <2>3, GoesOn
<1> QED BY <1>1, <1>2

\* The instructions of a block over, its terminator takes over.
LEMMA EndingStep ==
  ASSUME VmInv, BranchTo \/ BranchOn \/ Return \/ EarlyReturn \/ Trapped
  PROVE  Keeps
<1>1. CASE BranchTo
  <2>1. status = "running" /\ Top.pc > Len(CurrentBlock.instrs) /\ Terminator[1] = "Branch" /\ Jump(Terminator[2])
    BY <1>1 DEF BranchTo, AtEnd
  <2>2. Terminator[2] \in Targets(Terminator)
    BY <2>1 DEF Targets
  <2> QED BY <2>1, <2>2, JumpStep
<1>2. CASE BranchOn
  <2>1. /\ status = "running" /\ Top.pc > Len(CurrentBlock.instrs) /\ Terminator[1] = "CondBranch"
        /\ Jump(IF IsTruthy(Reg(Terminator[2])) THEN Terminator[3] ELSE Terminator[4])
    BY <1>2 DEF BranchOn, AtEnd
  <2>2. Terminator[3] \in Targets(Terminator) /\ Terminator[4] \in Targets(Terminator)
    BY <2>1 DEF Targets
  <2>3. CASE IsTruthy(Reg(Terminator[2]))
    BY <2>1, <2>2, <2>3, JumpStep
  <2>4. CASE ~IsTruthy(Reg(Terminator[2]))
    BY <2>1, <2>2, <2>4, JumpStep
  <2> QED BY <2>3, <2>4
<1>3. CASE Return
  <2>1. status = "running" /\ Leave1(IF Terminator[2] = <<>> THEN VUnit ELSE Reg(Terminator[2][1]))
    BY <1>3 DEF Return, AtEnd
  <2> QED BY <2>1, LeaveStep
<1>4. CASE EarlyReturn
  <2>1. status = "running" /\ Leave1(Reg(Terminator[2]))
    BY <1>4 DEF EarlyReturn, AtEnd
  <2> QED BY <2>1, LeaveStep
<1>5. CASE Trapped
  <2>1. status = "running" /\ Fail(IF Terminator = <<>> THEN "NoTerminator" ELSE "Unreachable")
    BY <1>5 DEF Trapped
  <2>2. Terminator # <<>>
    <3>1. Top.fn \in Fns(module) /\ Top.block \in DOMAIN Blocks(module, Top.fn)
      BY <2>1, TopIs DEF InCode
    <3>2. Blocks(module, Top.fn)[Top.block].term # <<>>
      BY <2>1, <3>1, TopIs, CodeFacts
    <3> QED BY <2>1, <3>2, TopIs DEF Terminator
  <2>3. Fail("Unreachable")
    BY <2>1, <2>2
  <2> QED BY <2>3, FailKeeps
<1> QED BY <1>1, <1>2, <1>3, <1>4, <1>5

-----------------------------------------------------------------------------
LEMMA StartHolds ==
  ASSUME Start(module), WellFormed(module)
  PROVE  VmInv
<1>1. CASE /\ "main" \in DOMAIN module.fns
           /\ frames = <<[fn |-> "main", block |-> module.fns["main"].entry, prev |-> <<>>, pc |-> 1,
                          locals |-> Empty, dst |-> 0]>>
           /\ status = "running" /\ err = "none"
  <2>1. PICK z : z = FrameOf("main", Entry(module, "main"), <<>>, 1, Empty, 0)
    OBVIOUS
  <2>2. frames = <<z>> /\ "main" \in Fns(module)
    BY <1>1, <2>1 DEF FrameOf, Entry, Fns
  <2>3. DOMAIN Empty = {} /\ Passed(module, "main") = {}
    BY DEF Empty, Passed
  <2>4. InCode(module, z) /\ Entered(module, z) /\ HasWritten(module, z, z.pc - 1)
    BY <2>1, <2>2, <2>3, FunctionEntered
  <2>5. IsSeq(frames) /\ Len(frames) = 1 /\ frames[1] = z
    BY <2>2 DEF IsSeq
  <2>6. Stack(module, frames)
    BY <2>4, <2>5 DEF Stack
  <2> QED BY <1>1, <2>6 DEF VmInv, RunInv
<1>2. CASE /\ status = "failed"
           /\ err = IF module.ice THEN "ice" ELSE "NoMainFunction"
  BY <1>2 DEF VmInv, RunInv
<1> QED BY <1>1, <1>2 DEF Start

LEMMA StepKeeps ==
  ASSUME VmInv, [Execute]_vmVars
  PROVE  VmInv'
<1>1. Keeps => VmInv'
  BY DEF Keeps, VmInv
<1>2. CASE ComputesValue
  BY <1>1, <1>2, ComputingStep
<1>3. CASE Phi
  BY <1>1, <1>3, PhiStep
<1>4. CASE PrintValue
  BY <1>1, <1>4, PrintStep
<1>5. CASE Call
  BY <1>1, <1>5, CallStep
<1>6. CASE BranchTo \/ BranchOn \/ Return \/ EarlyReturn \/ Trapped
  BY <1>1, <1>6, EndingStep
<1>7. CASE UNCHANGED vmVars
  BY <1>7 DEF vmVars, VmInv
<1> QED BY <1>2, <1>3, <1>4, <1>5, <1>6, <1>7 DEF Execute, ComputesValue

\* The code of a run never changes.
LEMMA ModuleStays ==
  ASSUME [Execute]_vmVars
  PROVE  module' = module
<1>1. ASSUME NEW e, Fail(e) PROVE module' = module
  BY <1>1 DEF Fail
<1>2. ASSUME NEW dst, NEW result, Set(dst, result) PROVE module' = module
  BY <1>1, <1>2 DEF Set
<1>3. ASSUME NEW b, Jump(b) PROVE module' = module
  BY <1>3 DEF Jump
<1>4. ASSUME NEW v, Leave1(v) PROVE module' = module
  BY <1>4 DEF Leave1
<1>5. CASE Load \/ Arith \/ ICmp \/ Unary \/ StructNew \/ FieldGet \/ ListLen \/ ListIndex
  BY <1>2, <1>5 DEF Load, Arith, ICmp, Unary, StructNew, FieldGet, ListLen, ListIndex
<1>6. CASE EnumTag \/ EnumPayload \/ Wrap \/ TryUnwrap
  BY <1>2, <1>6 DEF EnumTag, EnumPayload, Wrap, TryUnwrap
<1>7. CASE Phi
  BY <1>1, <1>2, <1>7 DEF Phi
<1>8. CASE PrintValue \/ Call
  BY <1>1, <1>8 DEF PrintValue, Call
<1>9. CASE BranchTo \/ BranchOn \/ Return \/ EarlyReturn \/ Trapped
  BY <1>1, <1>3, <1>4, <1>9 DEF BranchTo, BranchOn, Return, EarlyReturn, Trapped
<1>10. CASE UNCHANGED vmVars
  BY <1>10 DEF vmVars
<1> QED BY <1>5, <1>6, <1>7, <1>8, <1>9, <1>10 DEF Execute

LEMMA InvRunsCleanly ==
  ASSUME VmInv
  PROVE  RunsCleanly
<1>1. err \notin {"MalformedCfg", "NoTerminator"}
  BY DEF VmInv, RunInv
<1>2. FramesWithinCode
  <2>1. status \in {"running", "done", "failed"} /\ (status = "failed") = (err # "none")
    BY DEF VmInv, RunInv
  <2>2. ASSUME status = "running"
        PROVE  /\ frames # <<>>
               /\ \A i \in DOMAIN frames :
                    /\ frames[i].fn \in Fns(module)
                    /\ frames[i].block \in DOMAIN Blocks(module, frames[i].fn)
                    /\ DOMAIN frames[i].locals \subseteq Own(module, frames[i].fn)
    <3>1. Stack(module, frames)
      BY <2>2 DEF VmInv, RunInv
    <3>2. /\ Len(frames) > 0 /\ DOMAIN frames = 1 .. Len(frames)
          /\ \A i \in 1 .. Len(frames) : InCode(module, frames[i])
      BY <3>1, TopOfStack
    <3>3. frames # <<>>
      BY <3>2
    <3> QED BY <3>2, <3>3 DEF InCode
  <2> QED BY <2>1, <2>2 DEF FramesWithinCode
<1>3. ReadsWhatWasWritten
  <2>1. ASSUME status = "running"
        PROVE  Operands(Reading(module, Top), Top.prev) \subseteq DOMAIN Top.locals
    BY <2>1, TopIs, ReadsAreWritten
  <2> QED BY <2>1, TopIs DEF ReadsWhatWasWritten
<1> QED BY <1>1, <1>2, <1>3 DEF RunsCleanly, MeetsNoBreach

THEOREM MachineRunsCleanly == VmRun => []RunsCleanly
<1> DEFINE Inv == WellFormed(module) => VmInv
<1>1. Start(module) => Inv
  BY StartHolds
<1>2. Inv /\ [Execute]_vmVars => Inv'
  <2>1. ASSUME [Execute]_vmVars PROVE module' = module
    BY <2>1, ModuleStays
  <2> QED BY <2>1, StepKeeps
<1>3. Inv => RunsCleanly
  BY InvRunsCleanly DEF RunsCleanly
<1> HIDE DEF Inv
<1> QED BY <1>1, <1>2, <1>3, PTL DEF VmRun

==============================================================================

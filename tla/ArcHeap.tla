------------------------------ MODULE ArcHeap -------------------------------
(***************************************************************************)
(* The managed heap (interp/src/arc.rs and the built-ins over it).  Every  *)
(* interpreter has a heap of its own; ids come from one process counter.   *)
(* A heap owns its objects; a program holds references: an Arc is just an  *)
(* id, a Weak also points at the object itself, an Unowned is an id that   *)
(* traps once the object is gone.  Spawning a task copies values into an   *)
(* interpreter with an empty heap.                                         *)
(*                                                                         *)
(* The heap of the virtual machine (nir/vm.rs) has the same operations,    *)
(* but that its UnownedCreate traps when the object is gone.               *)
(***************************************************************************)
EXTENDS Integers, FiniteSets

CONSTANTS
  Main,        \* the interpreter of the program
  Tasks,       \* interpreters of tasks
  Names,       \* variables of each interpreter
  MaxId,       \* bound: objects ever allocated
  MaxStrong    \* bound: strong count a program reaches

ASSUME ArcHeapAssumption ==
  /\ Main \notin Tasks
  /\ IsFiniteSet(Names)
  /\ MaxId \in Nat /\ MaxStrong \in Nat

Interps == Tasks \cup {Main}
Ids     == 1 .. MaxId

(***************************************************************************)
(* References.  "arc" is one the counts know of (from alloc or retain);    *)
(* "borrowed" is an Arc value they do not know of (from an upgrade, a load,*)
(* a copy, or once released).  The code cannot tell the two apart.         *)
(***************************************************************************)
Kinds == {"none", "data", "arc", "borrowed", "weak", "unowned"}
Refs  == [kind : Kinds, id : 0 .. MaxId]
None  == [kind |-> "none", id |-> 0]
Data  == [kind |-> "data", id |-> 0]
Ref(k, id) == [kind |-> k, id |-> id]
IsArc(r)   == r.kind \in {"arc", "borrowed"}

VARIABLES
  nextId,    \* NEXT_HEAP_ID
  objects,   \* HeapRegistry.objects of each interpreter
  strong,    \* HeapObject.strong_count
  stored,    \* HeapObject.value
  var,       \* the variables of each running program
  state,     \* "unborn", "running", "trapped" or "ended"
  strayed    \* history: some program copied a reference behind the counts,
             \* lost one it had to release, or released one it had lost

vars == <<nextId, objects, strong, stored, var, state, strayed>>

Init ==
  /\ nextId = 1
  /\ objects = [i \in Interps |-> {}]
  /\ strong = [id \in Ids |-> 0]
  /\ stored = [id \in Ids |-> None]
  /\ var = [i \in Interps |-> [n \in Names |-> None]]
  /\ state = [i \in Interps |-> IF i = Main THEN "running" ELSE "unborn"]
  /\ strayed = FALSE

Running(i) == state[i] = "running"

SetVar(i, n, r) == var' = [var EXCEPT ![i][n] = r]

\* RuntimeError::Panic: nothing catches it.
Traps(i) ==
  /\ state' = [state EXCEPT ![i] = "trapped"]
  /\ UNCHANGED <<nextId, objects, strong, stored, var, strayed>>

\* A result overwrites a reference the program still had to release.
Loses(i, n) == var[i][n].kind = "arc"
Strays(bad) == strayed' = (strayed \/ bad)

\* What a value becomes when it is copied: the counts do not see the copy.
Copied(r) == IF r.kind = "arc" THEN Ref("borrowed", r.id) ELSE r


-----------------------------------------------------------------------------
(* Mutants: an id given again after its object is freed (FreshRecycled); a  *)
(* retain that is not counted (RaiseNot).                                  *)
FreshRecycled == CHOOSE id \in Ids : id \notin UNION {objects[i] : i \in Interps}
Fresh         == nextId

FirstCount == 1

HeapAlloc(i, n, m) ==
  /\ Running(i)
  /\ nextId \in Ids
  /\ var[i][m].kind # "none" \/ n = m
  /\ Strays(Loses(i, n))
  /\ objects' = [objects EXCEPT ![i] = @ \cup {Fresh}]
  /\ strong' = [strong EXCEPT ![Fresh] = FirstCount]
  /\ stored' = [stored EXCEPT ![Fresh] = IF n = m THEN Data ELSE Copied(var[i][m])]
  /\ SetVar(i, n, Ref("arc", Fresh))
  /\ nextId' = nextId + 1
  /\ UNCHANGED state

RaiseNot(id) == UNCHANGED strong
Raise(id)    == strong' = [strong EXCEPT ![id] = @ + 1]

Retain(i, n, m) ==
  /\ Running(i)
  /\ IsArc(var[i][n])
  /\ IF var[i][n].id \in objects[i]
     THEN /\ Strays(Loses(i, m))
          /\ strong[var[i][n].id] < MaxStrong
          /\ Raise(var[i][n].id)
          /\ SetVar(i, m, Ref("arc", var[i][n].id))
          /\ UNCHANGED <<nextId, objects, stored, state>>
     ELSE Traps(i)

IsLast(n) == n = 0

Release(i, n) ==
  LET id == var[i][n].id IN
  /\ Running(i)
  /\ IsArc(var[i][n])
  /\ IF id \in objects[i]
     THEN /\ strong' = [strong EXCEPT ![id] = @ - 1]
          /\ objects' = IF IsLast(strong[id] - 1)
                        THEN [objects EXCEPT ![i] = @ \ {id}] ELSE objects
          /\ SetVar(i, n, Copied(var[i][n]))
          /\ Strays(var[i][n].kind = "borrowed")
          /\ UNCHANGED <<nextId, stored, state>>
     ELSE Traps(i)

ArcLoad(i, n, m) ==
  /\ Running(i)
  /\ IsArc(var[i][n])
  /\ IF var[i][n].id \in objects[i]
     THEN /\ Strays(Loses(i, m))
          /\ SetVar(i, m, Copied(stored[var[i][n].id]))
          /\ UNCHANGED <<nextId, objects, strong, stored, state>>
     ELSE Traps(i)

\* HeapRegistry::weak also raises weak_count, which nothing ever reads.
WeakCreate(i, n, m) ==
  /\ Running(i)
  /\ IsArc(var[i][n])
  /\ IF var[i][n].id \in objects[i]
     THEN /\ Strays(Loses(i, m))
          /\ SetVar(i, m, Ref("weak", var[i][n].id))
          /\ UNCHANGED <<nextId, objects, strong, stored, state>>
     ELSE Traps(i)

\* The std Weak upgrades while some registry still owns the object, the one
\* of another interpreter included; no count is raised.
Owned(id) == \E i \in Interps : id \in objects[i]

WeakLoad(i, n, m) ==
  /\ Running(i)
  /\ var[i][n].kind = "weak"
  /\ Strays(Loses(i, m))
  /\ SetVar(i, m, IF Owned(var[i][n].id) THEN Ref("borrowed", var[i][n].id) ELSE None)
  /\ UNCHANGED <<nextId, objects, strong, stored, state>>

\* The interpreter makes the reference without a look at the heap.
UnownedCreate(i, n, m) ==
  /\ Running(i)
  /\ IsArc(var[i][n])
  /\ Strays(Loses(i, m))
  /\ SetVar(i, m, Ref("unowned", var[i][n].id))
  /\ UNCHANGED <<nextId, objects, strong, stored, state>>

UnownedLoad(i, n, m) ==
  /\ Running(i)
  /\ var[i][n].kind = "unowned"
  /\ IF var[i][n].id \in objects[i]
     THEN /\ Strays(Loses(i, m))
          /\ SetVar(i, m, Copied(stored[var[i][n].id]))
          /\ UNCHANGED <<nextId, objects, strong, stored, state>>
     ELSE Traps(i)

\* A built-in given a value of the wrong kind.
WrongKind(i, n) ==
  /\ Running(i)
  /\ var[i][n].kind = "data"
  /\ Traps(i)

\* An assignment copies the value, never the count.
Assign(i, n, m) ==
  /\ Running(i)
  /\ Strays(Loses(i, m))
  /\ SetVar(i, m, Copied(var[i][n]))
  /\ UNCHANGED <<nextId, objects, strong, stored, state>>

\* for_task: the arguments are copied, the heap starts empty.
Spawn(i, j) ==
  /\ Running(i)
  /\ state[j] = "unborn"
  /\ state' = [state EXCEPT ![j] = "running"]
  /\ var' = [var EXCEPT ![j] = [n \in Names |-> Copied(var[i][n])]]
  /\ UNCHANGED <<nextId, objects, strong, stored, strayed>>

\* The program or the task ends: its interpreter is dropped with its heap.
Ends(i) ==
  /\ Running(i)
  /\ state' = [state EXCEPT ![i] = "ended"]
  /\ objects' = [objects EXCEPT ![i] = {}]
  /\ UNCHANGED <<nextId, strong, stored, var, strayed>>

\* await: the task's result is a value of the awaiting program.
Await(i, j, n, m) ==
  /\ Running(i)
  /\ state[j] = "ended"
  /\ Strays(Loses(i, m))
  /\ SetVar(i, m, Copied(var[j][n]))
  /\ UNCHANGED <<nextId, objects, strong, stored, state>>

Next ==
  \E i \in Interps :
    \/ \E n, m \in Names :
         \/ HeapAlloc(i, n, m) \/ Retain(i, n, m) \/ ArcLoad(i, n, m)
         \/ WeakCreate(i, n, m) \/ WeakLoad(i, n, m)
         \/ UnownedCreate(i, n, m) \/ UnownedLoad(i, n, m)
         \/ Assign(i, n, m)
         \/ \E j \in Tasks : Await(i, j, n, m)
    \/ \E n \in Names : Release(i, n) \/ WrongKind(i, n)
    \/ \E j \in Tasks : Spawn(i, j)
    \/ Ends(i)

Spec == Init /\ [][Next]_vars

-----------------------------------------------------------------------------
TypeOK ==
  /\ nextId \in 1 .. MaxId + 1
  /\ objects \in [Interps -> SUBSET Ids]
  /\ strong \in [Ids -> Nat]
  /\ stored \in [Ids -> Refs]
  /\ var \in [Interps -> [Names -> Refs]]
  /\ state \in [Interps -> {"unborn", "running", "trapped", "ended"}]
  /\ strayed \in BOOLEAN

(***************************************************************************)
(* An object is in at most one heap, was handed out by the counter, and    *)
(* has a positive count: however a program misuses its references, no     *)
(* count underflows and no release frees an object of another heap.        *)
(***************************************************************************)
PresentIsCounted ==
  \A i \in Interps : \A id \in objects[i] :
    /\ strong[id] >= 1
    /\ id < nextId
    /\ \A j \in Interps : id \in objects[j] => j = i

\* A freed id stays free: a dangling reference traps or finds nothing, it
\* never reads another object.
NoRecycling ==
  [][\A id \in Ids : id < nextId /\ ~Owned(id) =>
       \A i \in Interps : id \notin objects'[i]]_vars

\* The managed heap is write-once: what an object refers to is older than it,
\* so references never form a cycle (libs/ui/lib/ownership.nv relies on it).
StoredPointsBack ==
  \A id \in Ids : stored[id].kind \notin {"none", "data"} => stored[id].id < id

\* What a program can never do to the heap, whatever it does.
HeapIsSound == PresentIsCounted /\ StoredPointsBack

(***************************************************************************)
(* While programs release what they hold exactly once, before they         *)
(* overwrite it, the strong count is the number of variables that hold a   *)
(* counted reference, the object lives exactly as long, and no counted     *)
(* reference dangles, whatever borrowed copies do.                         *)
(***************************************************************************)
Holders(id) == {h \in Interps \X Names : var[h[1]][h[2]] = Ref("arc", id)}

CountIsHeld ==
  ~strayed =>
    \A i \in Interps : Running(i) => \A id \in Ids :
      /\ id \in objects[i] =>
           strong[id] = Cardinality(Holders(id)) /\ Holders(id) # {}
      /\ \A n \in Names : var[i][n] = Ref("arc", id) => id \in objects[i]
=============================================================================

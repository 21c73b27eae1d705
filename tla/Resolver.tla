------------------------------ MODULE Resolver ------------------------------
(***************************************************************************)
(* Dependency resolution, `resolve` in noct-cli/src/registry.rs.           *)
(*                                                                         *)
(* From a manifest's registry dependencies, passes over the packages named *)
(* so far lock, for each, the highest indexed version satisfying every     *)
(* requirement recorded for it, and record the requirements of the version *)
(* chosen; a pass that changes no pick ends it.  Recorded requirements are *)
(* never taken back, those of a version given up for a lower one included. *)
(*                                                                         *)
(* The index is a directory others may publish to meanwhile.  Requirers'   *)
(* chains only word the errors and are left out.                           *)
(***************************************************************************)
EXTENDS Integers, FiniteSets

CONSTANTS
  Names,       \* package names, as numbers: the order of the BTreeMaps
  Versions,    \* versions, major * 10000 + minor * 100 + patch
  Releases,    \* bound: what a version may be published with, sets of deps
  Indexes,     \* bound: the indexes a resolution starts from
  Manifests,   \* bound: the sets of dependencies of the resolving project
  PassLimit,   \* 1000 in the code
  MaxPublished, \* bound: versions published while a resolution runs
  Moving       \* bound: the indexes somebody publishes to

Tiers   == {"native", "foreign-runtime"}
Sources == {"registry", "path", "git"}

Reqs == [kind : {"caret", "exact"}, base : Versions]
Deps == [name : Names, req : Reqs, tier : Tiers, optIn : BOOLEAN,
         source : Sources]

(* An index: for each name a function from its versions to their deps. *)
IndexedBy(index, n) == DOMAIN index[n]

ASSUME ResolverAssumption ==
  /\ Names \subseteq Nat /\ Versions \subseteq Nat \ {0}
  /\ IsFiniteSet(Names) /\ IsFiniteSet(Versions)
  /\ PassLimit \in Nat \ {0} /\ MaxPublished \in Nat
  /\ \A r \in Releases : r \subseteq Deps
  /\ \A m \in Manifests :   \* the parser wants opt_in of foreign-runtime
       m \subseteq Deps /\ \A d \in m : d.tier = "foreign-runtime" => d.optIn
  /\ \A index \in Indexes :
       /\ DOMAIN index = Names
       /\ \A n \in Names : /\ IndexedBy(index, n) \subseteq Versions
                           /\ \A v \in IndexedBy(index, n) : index[n][v] \subseteq Deps

VARIABLES
  index, top,  \* the index directory; dependencies of the project
  reqs,        \* requirements recorded for each name, with their tiers
  locked,      \* picks; 0 where there is none
  pending,     \* names of this pass's snapshot not yet visited
  changed, passes,
  outcome,     \* "running", "ok" or the kind of error
  published    \* history: versions published meanwhile

vars == <<index, top, reqs, locked, pending, changed, passes, outcome, published>>

Major(v) == v \div 10000
Minor(v) == (v \div 100) % 100

Satisfied(req, v) ==
  IF req.kind = "exact" THEN v = req.base
  ELSE /\ v >= req.base
       /\ IF Major(req.base) > 0 THEN Major(v) = Major(req.base)
          ELSE IF Minor(req.base) > 0
               THEN Major(v) = 0 /\ Minor(v) = Minor(req.base)
               ELSE v = req.base

(* What is recorded of a dependency, for the package it names. *)
Recorded(deps, n) ==
  {[req |-> d.req, tier |-> d.tier] : d \in {e \in deps : e.source = "registry" /\ e.name = n}}

Known == {n \in Names : reqs[n] # {}}
Lowest(S) == CHOOSE n \in S : \A k \in S : n <= k
Highest(S) == CHOOSE v \in S : \A w \in S : w <= v

(* Mutant: one satisfied requirement is enough. *)
CandidatesOfAny(n) ==
  {v \in IndexedBy(index, n) : \E r \in reqs[n] : Satisfied(r.req, v)}

Candidates(n) ==
  {v \in IndexedBy(index, n) : \A r \in reqs[n] : Satisfied(r.req, v)}

(* Mutant: some foreign-runtime opt-in stands for every package. *)
TopOptInAny(n) == \E d \in top : d.tier = "foreign-runtime" /\ d.optIn

TopOptIn(n) ==
  \E d \in top : d.name = n /\ d.tier = "foreign-runtime" /\ d.optIn

Unresolvable(d) ==
  \/ d.source # "registry"
  \/ d.tier = "foreign-runtime" /\ ~TopOptIn(d.name)

Complaint(d) == IF d.source # "registry" THEN "unpublishable" ELSE "foreign"

Init ==
  /\ index \in Indexes /\ top \in Manifests
  /\ LET git == \E d \in top : d.source = "git"
     IN /\ reqs = [n \in Names |-> Recorded(top, n)]
        /\ outcome = IF git THEN "git" ELSE "running"
  /\ locked = [n \in Names |-> 0]
  /\ pending = {n \in Names : reqs[n] # {}}
  /\ changed = FALSE /\ passes = 0 /\ published = 0

Fail(kind) ==
  /\ outcome' = kind
  /\ UNCHANGED <<index, top, reqs, locked, pending, changed, passes, published>>

Next1 == Lowest(pending)

(* One name of the pass: an error, or its pick and what the pick requires. *)
Unknown ==
  /\ IndexedBy(index, Next1) = {}
  /\ Fail("unknown")

Conflict ==
  /\ IndexedBy(index, Next1) # {} /\ Candidates(Next1) = {}
  /\ Fail("conflict")

TierConflict ==
  /\ Candidates(Next1) # {}
  /\ \E r, s \in reqs[Next1] : r.tier # s.tier
  /\ Fail("tiers")

Pick ==
  LET best == Highest(Candidates(Next1))
      deps == index[Next1][best]
  IN /\ Candidates(Next1) # {}
     /\ \A r, s \in reqs[Next1] : r.tier = s.tier
     /\ \/ \E d \in deps : Unresolvable(d) /\ Fail(Complaint(d))
        \/ /\ ~\E d \in deps : Unresolvable(d)
           /\ locked' = [locked EXCEPT ![Next1] = best]
           /\ changed' = (changed \/ locked[Next1] # best)
           /\ reqs' = [n \in Names |-> reqs[n] \cup Recorded(deps, n)]
           /\ pending' = pending \ {Next1}
           /\ UNCHANGED <<index, top, passes, outcome, published>>

Visit ==
  /\ outcome = "running" /\ pending # {}
  /\ Unknown \/ Conflict \/ TierConflict \/ Pick

NextPass ==
  /\ outcome = "running" /\ pending = {} /\ changed /\ passes + 1 < PassLimit
  /\ passes' = passes + 1 /\ changed' = FALSE /\ pending' = Known
  /\ UNCHANGED <<index, top, reqs, locked, outcome, published>>

Finish ==
  /\ outcome = "running" /\ pending = {}
  /\ ~changed \/ passes + 1 >= PassLimit
  /\ outcome' = "ok"
  /\ UNCHANGED <<index, top, reqs, locked, pending, changed, passes, published>>

(* Someone publishes a new version of a package. *)
Publish(n, v, deps) ==
  /\ published < MaxPublished /\ outcome = "running"
  /\ v \notin IndexedBy(index, n)
  /\ index' = [index EXCEPT ![n] =
                 [w \in IndexedBy(index, n) \cup {v} |-> IF w = v THEN deps ELSE index[n][w]]]
  /\ published' = published + 1
  /\ UNCHANGED <<top, reqs, locked, pending, changed, passes, outcome>>

Resolve == Visit \/ NextPass \/ Finish

Next ==
  \/ Resolve
  \/ /\ published > 0 \/ index \in Moving
     /\ \E n \in Names, v \in Versions, deps \in Releases : Publish(n, v, deps)

Spec == Init /\ [][Next]_vars

-----------------------------------------------------------------------------
(* Types. *)
TypeOK ==
  /\ DOMAIN index = Names
  /\ \A n \in Names : /\ IndexedBy(index, n) \subseteq Versions
                      /\ \A v \in IndexedBy(index, n) : index[n][v] \subseteq Deps
  /\ top \subseteq Deps
  /\ reqs \in [Names -> SUBSET [req : Reqs, tier : Tiers]]
  /\ locked \in [Names -> Versions \cup {0}]
  /\ pending \subseteq Names /\ changed \in BOOLEAN
  /\ passes \in 0 .. PassLimit - 1 /\ published \in 0 .. MaxPublished
  /\ outcome \in {"running", "ok", "git", "unknown", "conflict", "tiers",
                  "foreign", "unpublishable"}

Locked == {n \in Names : locked[n] # 0}
Meets(d) ==
  /\ d.name \in Locked /\ Satisfied(d.req, locked[d.name])
  /\ \A r \in reqs[d.name] : r.tier = d.tier
Registered(deps) == {d \in deps : d.source = "registry"}

(* What there is to choose from: the indexed versions of all required names. *)
Choices == {c \in Known \X Versions : c[2] \in IndexedBy(index, c[1])}

(* A resolution that ends with a quiet pass gives a lock in which every     *)
(* requirement of the project and of every locked version is met, by an     *)
(* indexed version and with the tier all its requirers declare; also when   *)
(* versions were published meanwhile ("So: stable means closed").  It does  *)
(* end with one where nobody publishes and there are fewer versions to      *)
(* choose from than passes: the pass limit gives no half-made lock then.    *)
LockIsSound ==
  outcome = "ok" /\ (~changed \/ (published = 0 /\ Cardinality(Choices) < PassLimit)) =>
    /\ \A d \in Registered(top) : Meets(d)
    /\ \A n \in Locked : /\ locked[n] \in IndexedBy(index, n)
                         /\ \A d \in index[n][locked[n]] : Meets(d)

(* A foreign-runtime package is locked only when the project itself declares *)
(* it with `opt_in`, whatever the packages in between say.                   *)
ForeignOnlyByOptIn ==
  outcome = "ok" =>
    \A n \in Locked :
      (\E r \in reqs[n] : r.tier = "foreign-runtime") =>
        \E d \in top : d.name = n /\ d.tier = "foreign-runtime" /\ d.optIn

(* While nobody publishes, a pick only moves down: what the                 *)
(* termination of the fixpoint rests on ("picks only move down").           *)
PicksMoveDown ==
  [][published' = 0 =>
       \A n \in Names : locked[n] # 0 => locked'[n] # 0 /\ locked'[n] <= locked[n]]_vars

(* Claim of the doc comment: the lock is the manifest's closure, so each    *)
(* locked package is required by the project or by a locked version.        *)
LockIsClosure ==
  outcome = "ok" =>
    \A n \in Locked :
      \/ \E d \in Registered(top) : d.name = n
      \/ \E k \in Locked : \E d \in index[k][locked[k]] : d.name = n

(* Some choice of versions for some of the packages meets the project's and *)
(* its own requirements.                                                    *)
Solvable ==
  \E pick \in [Names -> Versions \cup {0}] :
    LET chosen == {n \in Names : pick[n] # 0}
        needs  == Registered(top) \cup UNION {index[n][pick[n]] : n \in chosen}
    IN /\ \A n \in chosen : pick[n] \in IndexedBy(index, n)
       /\ \A d \in needs : d.name \in chosen /\ Satisfied(d.req, pick[d.name])

(* Claim of the module comment: constraints only accumulate, "so no         *)
(* backtracking false-conflicts": a conflict means there is no solution.    *)
NoFalseConflicts == outcome = "conflict" => ~Solvable
=============================================================================

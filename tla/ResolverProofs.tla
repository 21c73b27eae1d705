---------------------------- MODULE ResolverProofs ----------------------------
(***************************************************************************)
(* Resolution is sound for every index, every manifest and any number of   *)
(* versions published meanwhile: a fixpoint that ends with a quiet pass    *)
(* gives a lock that meets every requirement.  The argument is that of the *)
(* comment "stable means closed": what a locked version requires is on     *)
(* record, and a quiet pass has met the record of every name.  A pass that *)
(* is not quiet tries a version it had not tried, so the limit is reached  *)
(* only where there are as many to choose from, or somebody publishes.     *)
(***************************************************************************)
EXTENDS Resolver, WellFoundedInduction, FiniteSetTheorems, TLAPS

-----------------------------------------------------------------------------
(* The inductive invariant *)

Entry(d) == [req |-> d.req, tier |-> d.tier]

\* The project's requirements are on record, with an opt-in where one is due.
TopInv ==
  /\ \A d \in Registered(top) : Entry(d) \in reqs[d.name]
  /\ \A d \in top : d.tier = "foreign-runtime" => d.optIn

\* A pick is indexed, and what it requires is on record.
PickInv ==
  \A n \in Locked : /\ locked[n] \in IndexedBy(index, n)
                    /\ \A d \in index[n][locked[n]] :
                         d.source = "registry" /\ Entry(d) \in reqs[d.name]

Settled(n) ==
  /\ locked[n] # 0
  /\ \A r \in reqs[n] : Satisfied(r.req, locked[n])
  /\ \A r, s \in reqs[n] : r.tier = s.tier

\* As long as a pass is quiet, the names it has visited are settled.
PassInv == ~changed => \A n \in Known \ pending : Settled(n)

EndInv == outcome = "ok" => pending = {}

ForeignInv ==
  \A n \in Names : \A r \in reqs[n] : r.tier = "foreign-runtime" => TopOptIn(n)

\* Requirements only add up: no candidate is above a pick.
LowInv ==
  published = 0 =>
    \A n \in Names : locked[n] # 0 => \A v \in Candidates(n) : v <= locked[n]

IInv == TypeOK /\ TopInv /\ PickInv /\ PassInv /\ EndInv /\ ForeignInv /\ LowInv

-----------------------------------------------------------------------------
(* Lowest and highest elements *)

LEMMA Least ==
  ASSUME NEW S \in SUBSET Nat, S # {}
  PROVE  \E m \in S : \A n \in S : m <= n
  <1>1. IsWellFoundedOn(OpToRel(<, Nat), Nat)
    BY NatLessThanWellFounded
  <1>2. PICK m \in S : \A n \in S : ~ (<<n, m>> \in OpToRel(<, Nat))
    BY <1>1, WFMin
  <1>3. \A n \in S : ~(n < m)
    BY <1>2 DEF OpToRel
  <1> QED BY <1>3

\* A finite set of naturals is bounded: else take the first image that is not.
LEMMA Bounded ==
  ASSUME NEW S \in SUBSET Nat, IsFiniteSet(S)
  PROVE  \E b \in Nat : \A v \in S : v <= b
  <1>0. PICK n \in Nat : ExistsBijection(1..n, S)
    BY FS_NatBijection
  <1>1. PICK f \in [1..n -> S] : \A v \in S : \E i \in 1..n : f[i] = v
    BY <1>0 DEF ExistsBijection, Bijection, Injection, Surjection
  <1> DEFINE Under(k, b) == \A i \in 1..n : i <= k => f[i] <= b
             Bad == {k \in Nat : ~\E b \in Nat : Under(k, b)}
  <1>2. Bad = {}
    <2>1. SUFFICES ASSUME Bad # {} PROVE FALSE
      OBVIOUS
    <2>2. PICK m \in Bad : \A k \in Bad : m <= k
      BY <2>1, Least
    <2>3. m # 0
      <3>1. Under(0, 0)
        OBVIOUS
      <3> QED BY <3>1
    <2>4. m - 1 \in Nat /\ m - 1 \notin Bad
      <3>1. m \in Nat
        OBVIOUS
      <3>2. m - 1 \in Nat /\ ~(m <= m - 1)
        BY <2>3, <3>1
      <3> QED BY <2>2, <3>2
    <2>5. PICK b \in Nat : Under(m - 1, b)
      BY <2>4
    <2>6. CASE m \in 1..n
      <3>1. PICK e \in Nat : e = f[m]
        BY <2>6
      <3>2. PICK c \in Nat : b <= c /\ e <= c
        <4>1. CASE b <= e
          <5>1. b <= e /\ e <= e
            BY <4>1
          <5> QED BY <5>1
        <4>2. CASE e <= b
          <5>1. b <= b /\ e <= b
            BY <4>2
          <5> QED BY <5>1
        <4> QED BY <4>1, <4>2
      <3>3. Under(m, c)
        <4>1. SUFFICES ASSUME NEW i \in 1..n, i <= m PROVE f[i] <= c
          OBVIOUS
        <4>2. CASE i = m
          BY <3>1, <3>2, <4>2
        <4>3. CASE i # m
          <5>1. i <= m - 1
            BY <2>6, <4>1, <4>3
          <5>2. f[i] <= b
            BY <2>5, <5>1
          <5>3. PICK x \in Nat : x = f[i]
            OBVIOUS
          <5> QED BY <3>2, <5>2, <5>3
        <4> QED BY <4>2, <4>3
      <3> QED BY <3>3
    <2>7. CASE m \notin 1..n
      <3>1. Under(m, b)
        BY <2>5, <2>7
      <3> QED BY <3>1
    <2> QED BY <2>6, <2>7
  <1>3. PICK b \in Nat : Under(n, b)
    BY <1>2
  <1>4. \A v \in S : v <= b
    BY <1>1, <1>3
  <1> QED BY <1>4

LEMMA Greatest ==
  ASSUME NEW S \in SUBSET Nat, IsFiniteSet(S), S # {}
  PROVE  Highest(S) \in S /\ \A v \in S : v <= Highest(S)
  <1>1. PICK b \in Nat : \A v \in S : v <= b
    BY Bounded
  <1> DEFINE Gaps == {b - v : v \in S}
  <1>2. Gaps \in SUBSET Nat /\ Gaps # {}
    <2>1. \A v \in S : b - v \in Nat
      BY <1>1
    <2>2. PICK v \in S : TRUE
      OBVIOUS
    <2>3. b - v \in Gaps
      OBVIOUS
    <2> QED BY <2>1, <2>3
  <1>3. PICK g \in Gaps : \A h \in Gaps : g <= h
    BY <1>2, Least
  <1>4. PICK m \in S : g = b - m
    OBVIOUS
  <1>5. \A v \in S : v <= m
    <2>1. \A v \in S : b - v \in Gaps
      OBVIOUS
    <2> QED BY <1>3, <1>4, <2>1
  <1> QED BY <1>5 DEF Highest

LEMMA NextIsPending ==
  ASSUME TypeOK, pending # {}
  PROVE  Next1 \in pending /\ Next1 \in Names
  <1>1. pending \in SUBSET Nat
    BY ResolverAssumption DEF TypeOK
  <1>2. \E n \in pending : \A k \in pending : n <= k
    BY <1>1, Least
  <1> QED BY <1>2 DEF Next1, Lowest, TypeOK

LEMMA BestIsCandidate ==
  ASSUME TypeOK, NEW n \in Names, Candidates(n) # {}
  PROVE  /\ Highest(Candidates(n)) \in Candidates(n)
         /\ \A v \in Candidates(n) : v <= Highest(Candidates(n))
         /\ Highest(Candidates(n)) \in Versions
  <1>1. Candidates(n) \in SUBSET Versions
    BY DEF Candidates, TypeOK
  <1>2. Candidates(n) \in SUBSET Nat /\ IsFiniteSet(Candidates(n))
    BY <1>1, ResolverAssumption, FS_Subset
  <1> QED BY <1>1, <1>2, Greatest

-----------------------------------------------------------------------------
(* The steps: an error, a pick, a new pass, the end, a publication *)

Errors == {"unknown", "conflict", "tiers", "foreign", "unpublishable"}

Best     == Highest(Candidates(Next1))
BestDeps == index[Next1][Best]

PickDone ==
  /\ outcome = "running" /\ pending # {} /\ Candidates(Next1) # {}
  /\ \A r, s \in reqs[Next1] : r.tier = s.tier
  /\ \A d \in BestDeps : ~Unresolvable(d)
  /\ locked' = [locked EXCEPT ![Next1] = Best]
  /\ changed' = (changed \/ locked[Next1] # Best)
  /\ reqs' = [n \in Names |-> reqs[n] \cup Recorded(BestDeps, n)]
  /\ pending' = pending \ {Next1}
  /\ UNCHANGED <<index, top, passes, outcome, published>>

Published ==
  \E n \in Names, v \in Versions, deps \in Releases : Publish(n, v, deps)

LEMMA VisitCases ==
  ASSUME Visit
  PROVE  PickDone \/ \E kind \in Errors : outcome = "running" /\ Fail(kind)
  <1>1. outcome = "running" /\ pending # {}
    BY DEF Visit
  <1>2. CASE Unknown \/ Conflict \/ TierConflict
    BY <1>1, <1>2 DEF Unknown, Conflict, TierConflict, Errors
  <1>3. CASE Pick
    <2>1. CASE \E d \in BestDeps : Unresolvable(d) /\ Fail(Complaint(d))
      BY <1>1, <2>1 DEF Complaint, Errors
    <2>2. CASE ~\E d \in BestDeps : Unresolvable(d) /\ Fail(Complaint(d))
      BY <1>1, <1>3, <2>2 DEF Pick, PickDone, Best, BestDeps
    <2> QED BY <2>1, <2>2
  <1> QED BY <1>2, <1>3 DEF Visit

LEMMA StepCases ==
  ASSUME [Next]_vars
  PROVE  \/ UNCHANGED vars
         \/ \E kind \in Errors : outcome = "running" /\ Fail(kind)
         \/ PickDone \/ NextPass \/ Finish \/ Published
  BY VisitCases DEF Next, Resolve, Published

LEMMA EntryTypes ==
  ASSUME NEW d \in Deps
  PROVE  Entry(d) \in [req : Reqs, tier : Tiers] /\ d.name \in Names
  BY DEF Deps, Entry

LEMMA RecordedTypes ==
  ASSUME NEW deps \in SUBSET Deps, NEW n \in Names
  PROVE  Recorded(deps, n) \subseteq [req : Reqs, tier : Tiers]
  <1>1. Recorded(deps, n) = {Entry(d) : d \in {e \in deps : e.source = "registry" /\ e.name = n}}
    BY DEF Recorded, Entry
  <1> QED BY <1>1, EntryTypes

LEMMA RecordedHas ==
  ASSUME NEW deps \in SUBSET Deps, NEW d \in deps, d.source = "registry"
  PROVE  Entry(d) \in Recorded(deps, d.name)
  BY DEF Recorded, Entry

\* What a pick is: an indexed version, its dependencies typed.
LEMMA PickFacts ==
  ASSUME TypeOK, PickDone
  PROVE  /\ Next1 \in pending /\ Next1 \in Names
         /\ Best \in Candidates(Next1) /\ Best \in Versions /\ Best \in IndexedBy(index, Next1)
         /\ \A v \in Candidates(Next1) : v <= Best
         /\ BestDeps \in SUBSET Deps
         /\ Best # 0
  <1>1. Next1 \in pending /\ Next1 \in Names
    BY NextIsPending DEF PickDone
  <1>2. /\ Best \in Candidates(Next1) /\ Best \in Versions
        /\ \A v \in Candidates(Next1) : v <= Best
    BY <1>1, BestIsCandidate DEF PickDone, Best
  <1>3. Best \in IndexedBy(index, Next1)
    BY <1>2 DEF Candidates
  <1>4. BestDeps \in SUBSET Deps
    BY <1>1, <1>3 DEF TypeOK, BestDeps
  <1>5. Best # 0
    BY <1>2, ResolverAssumption
  <1> QED BY <1>1, <1>2, <1>3, <1>4, <1>5

-----------------------------------------------------------------------------
(* Types *)

LEMMA TypesInitially == Init => TypeOK
  <1> SUFFICES ASSUME Init PROVE TypeOK
    OBVIOUS
  <1>1. /\ DOMAIN index = Names
        /\ \A n \in Names : /\ IndexedBy(index, n) \subseteq Versions
                            /\ \A v \in IndexedBy(index, n) : index[n][v] \subseteq Deps
    BY ResolverAssumption DEF Init
  <1>2. top \in SUBSET Deps
    BY ResolverAssumption DEF Init
  <1>3. reqs \in [Names -> SUBSET [req : Reqs, tier : Tiers]]
    BY <1>2, RecordedTypes DEF Init
  <1>4. passes \in 0 .. PassLimit - 1 /\ published \in 0 .. MaxPublished
    BY ResolverAssumption DEF Init
  <1> QED BY <1>1, <1>2, <1>3, <1>4 DEF Init, TypeOK

LEMMA TypeOKNext == TypeOK /\ [Next]_vars => TypeOK'
  <1> SUFFICES ASSUME TypeOK, [Next]_vars PROVE TypeOK'
    OBVIOUS
  <1>0. CASE UNCHANGED vars
    BY <1>0 DEF vars, TypeOK, IndexedBy
  <1>1. CASE \E kind \in Errors : outcome = "running" /\ Fail(kind)
    BY <1>1 DEF Fail, TypeOK, Errors, IndexedBy
  <1>2. CASE PickDone
    <2>1. locked' \in [Names -> Versions \cup {0}]
      BY <1>2, PickFacts DEF PickDone, TypeOK
    <2>2. BestDeps \in SUBSET Deps
      BY <1>2, PickFacts
    <2>3. \A n \in Names : reqs[n] \cup Recorded(BestDeps, n) \in SUBSET [req : Reqs, tier : Tiers]
      BY <2>2, RecordedTypes DEF TypeOK
    <2>4. reqs' \in [Names -> SUBSET [req : Reqs, tier : Tiers]]
      BY <1>2, <2>3 DEF PickDone
    <2>5. changed' \in BOOLEAN /\ pending' \subseteq Names
      BY <1>2 DEF PickDone, TypeOK
    <2> QED BY <1>2, <2>1, <2>4, <2>5 DEF PickDone, TypeOK, IndexedBy
  <1>3. CASE NextPass
    <2>1. passes' \in 0 .. PassLimit - 1
      BY <1>3, ResolverAssumption DEF NextPass, TypeOK
    <2>2. pending' \subseteq Names /\ changed' \in BOOLEAN
      BY <1>3 DEF NextPass, Known
    <2> QED BY <1>3, <2>1, <2>2 DEF NextPass, TypeOK, IndexedBy
  <1>4. CASE Finish
    BY <1>4 DEF Finish, TypeOK, IndexedBy
  <1>5. CASE Published
    <2>1. PICK n \in Names, v \in Versions, deps \in Releases : Publish(n, v, deps)
      BY <1>5 DEF Published
    <2>2. /\ DOMAIN index' = Names
          /\ \A k \in Names : /\ IndexedBy(index', k) \subseteq Versions
                              /\ \A w \in IndexedBy(index', k) : index'[k][w] \subseteq Deps
      BY <2>1, ResolverAssumption DEF Publish, TypeOK, IndexedBy
    <2>3. published' \in 0 .. MaxPublished
      BY <2>1, ResolverAssumption DEF Publish, TypeOK
    <2> QED BY <2>1, <2>2, <2>3 DEF Publish, TypeOK, IndexedBy
  <1> QED BY <1>0, <1>1, <1>2, <1>3, <1>4, <1>5, StepCases

-----------------------------------------------------------------------------
(* The parts of the invariant *)

LEMMA InvInitially == Init => IInv
  <1> SUFFICES ASSUME Init PROVE IInv
    OBVIOUS
  <1>1. TypeOK
    BY TypesInitially
  <1>2. TopInv
    <2>1. top \in SUBSET Deps /\ \A d \in top : d.tier = "foreign-runtime" => d.optIn
      BY ResolverAssumption DEF Init
    <2>2. \A d \in Registered(top) : Entry(d) \in Recorded(top, d.name) /\ d.name \in Names
      BY <2>1, RecordedHas, EntryTypes DEF Registered
    <2> QED BY <2>1, <2>2 DEF Init, TopInv
  <1>3. PickInv /\ LowInv
    BY DEF Init, PickInv, LowInv, Locked
  <1>4. PassInv /\ EndInv
    BY DEF Init, PassInv, EndInv, Known
  <1>5. ForeignInv
    <2> SUFFICES ASSUME NEW n \in Names, NEW r \in Recorded(top, n), r.tier = "foreign-runtime"
                 PROVE  TopOptIn(n)
      BY DEF Init, ForeignInv
    <2>1. PICK d \in top : d.name = n /\ r = Entry(d)
      BY DEF Recorded, Entry
    <2> QED BY <2>1, <1>2 DEF TopInv, TopOptIn, Entry
  <1> QED BY <1>1, <1>2, <1>3, <1>4, <1>5 DEF IInv

\* Records only grow.
LEMMA ReqsGrow ==
  ASSUME TypeOK, [Next]_vars, NEW n \in Names
  PROVE  reqs[n] \subseteq reqs'[n]
  <1>1. CASE PickDone
    BY <1>1 DEF PickDone
  <1> QED BY <1>1, StepCases
         DEF vars, Fail, NextPass, Finish, Published, Publish

\* Versions are added to the index, never changed.
LEMMA IndexGrows ==
  ASSUME TypeOK, [Next]_vars, NEW n \in Names, NEW v \in IndexedBy(index, n)
  PROVE  v \in IndexedBy(index', n) /\ index'[n][v] = index[n][v]
  <1>1. CASE Published
    BY <1>1 DEF Published, Publish, TypeOK, IndexedBy
  <1> QED BY <1>1, StepCases
         DEF vars, Fail, PickDone, NextPass, Finish, IndexedBy

LEMMA TopStays == [Next]_vars => top' = top
  BY StepCases DEF vars, Fail, PickDone, NextPass, Finish, Published, Publish

LEMMA UntilPublished ==
  ASSUME TypeOK, [Next]_vars, published' = 0
  PROVE  published = 0 /\ index' = index
  <1>1. CASE Published
    <2>1. published' = published + 1
      BY <1>1 DEF Published, Publish
    <2>2. published \in Nat
      BY DEF TypeOK
    <2> QED BY <2>1, <2>2
  <1>2. CASE ~Published
    BY <1>2, StepCases DEF vars, Fail, PickDone, NextPass, Finish
  <1> QED BY <1>1, <1>2

LEMMA TopInvNext == IInv /\ [Next]_vars => TopInv'
  <1> SUFFICES ASSUME IInv, [Next]_vars PROVE TopInv'
    OBVIOUS
  <1>1. top' = top
    BY TopStays
  <1>2. \A d \in Registered(top) : d.name \in Names
    BY EntryTypes DEF IInv, TypeOK, Registered
  <1>3. \A d \in Registered(top) : Entry(d) \in reqs'[d.name]
    BY <1>2, ReqsGrow DEF IInv, TopInv
  <1> QED BY <1>1, <1>3 DEF IInv, TopInv, Registered

LEMMA PickInvNext == IInv /\ [Next]_vars => PickInv'
  <1> SUFFICES ASSUME IInv, [Next]_vars, NEW n \in Names, locked'[n] # 0
               PROVE  /\ locked'[n] \in IndexedBy(index', n)
                      /\ \A d \in index'[n][locked'[n]] :
                           d.source = "registry" /\ Entry(d) \in reqs'[d.name]
    BY DEF PickInv, Locked
  <1>1. CASE locked'[n] = locked[n]
    <2>1. /\ locked[n] \in IndexedBy(index, n)
          /\ \A d \in index[n][locked[n]] : d.source = "registry" /\ Entry(d) \in reqs[d.name]
      BY <1>1 DEF IInv, PickInv, Locked
    <2>2. locked[n] \in IndexedBy(index', n) /\ index'[n][locked[n]] = index[n][locked[n]]
      BY <2>1, IndexGrows DEF IInv
    <2>3. \A d \in index[n][locked[n]] : d.name \in Names
      BY <2>1, EntryTypes DEF IInv, TypeOK
    <2>4. \A d \in index[n][locked[n]] : reqs[d.name] \subseteq reqs'[d.name]
      BY <2>3, ReqsGrow DEF IInv
    <2> QED BY <1>1, <2>1, <2>2, <2>4
  <1>2. CASE locked'[n] # locked[n]
    <2>1. PickDone
      BY <1>2, StepCases DEF vars, Fail, NextPass, Finish, Published, Publish
    <2>2. n = Next1 /\ locked'[n] = Best
      BY <1>2, <2>1, PickFacts DEF PickDone, IInv, TypeOK
    <2>3. index' = index
      BY <2>1 DEF PickDone
    <2>4. Best \in IndexedBy(index, n) /\ BestDeps \in SUBSET Deps
      BY <2>1, <2>2, PickFacts DEF IInv
    <2>5. ASSUME NEW d \in BestDeps PROVE d.source = "registry" /\ Entry(d) \in reqs'[d.name]
      <3>1. d.source = "registry" /\ d.name \in Names
        BY <2>1, <2>4, EntryTypes DEF PickDone, Unresolvable
      <3>2. Entry(d) \in Recorded(BestDeps, d.name)
        BY <2>4, <3>1, RecordedHas
      <3> QED BY <2>1, <3>1, <3>2 DEF PickDone
    <2> QED BY <2>2, <2>3, <2>4, <2>5 DEF BestDeps
  <1> QED BY <1>1, <1>2

LEMMA PassInvNext == IInv /\ [Next]_vars => PassInv'
  <1> SUFFICES ASSUME IInv, [Next]_vars, ~changed' PROVE (\A n \in Known \ pending : Settled(n))'
    BY DEF PassInv
  <1>1. CASE PickDone
    <2>1. ~changed /\ locked[Next1] = Best
      BY <1>1 DEF PickDone
    <2>2. Next1 \in Names /\ Best # 0 /\ Best \in Candidates(Next1) /\ BestDeps \in SUBSET Deps
      BY <1>1, PickFacts DEF IInv
    <2>3. locked' = locked
      BY <1>1, <2>1 DEF PickDone, IInv, TypeOK
    <2>4. \A d \in BestDeps : d.source = "registry" /\ Entry(d) \in reqs[d.name]
      BY <2>1, <2>2 DEF IInv, PickInv, Locked, BestDeps
    <2>5. ASSUME NEW n \in Names PROVE Recorded(BestDeps, n) \subseteq reqs[n]
      BY <2>4 DEF Recorded, Entry
    <2>6. reqs' = reqs
      BY <1>1, <2>5 DEF PickDone, IInv, TypeOK
    <2>7. Settled(Next1)
      BY <1>1, <2>1, <2>2 DEF PickDone, Settled, Candidates
    <2>8. \A n \in Known \ (pending \ {Next1}) : Settled(n)
      BY <2>1, <2>7 DEF IInv, PassInv
    <2>9. pending' = pending \ {Next1}
      BY <1>1 DEF PickDone
    <2> QED BY <2>3, <2>6, <2>8, <2>9 DEF Settled, Known
  <1>2. CASE NextPass
    BY <1>2 DEF NextPass, Known
  <1>3. CASE ~PickDone /\ ~NextPass
    <2>1. UNCHANGED <<reqs, locked, pending, changed>>
      BY <1>3, StepCases DEF vars, Fail, Finish, Published, Publish
    <2> QED BY <2>1 DEF IInv, PassInv, Settled, Known
  <1> QED BY <1>1, <1>2, <1>3

LEMMA EndInvNext == IInv /\ [Next]_vars => EndInv'
  BY StepCases
     DEF IInv, EndInv, vars, Fail, Errors, PickDone, NextPass, Finish,
         Published, Publish

LEMMA ForeignInvNext == IInv /\ [Next]_vars => ForeignInv'
  <1> SUFFICES ASSUME IInv, [Next]_vars, NEW n \in Names, NEW r \in reqs'[n],
                      r.tier = "foreign-runtime"
               PROVE  TopOptIn(n)'
    BY DEF ForeignInv
  <1>1. TopOptIn(n)
    <2>1. CASE r \in reqs[n]
      BY <2>1 DEF IInv, ForeignInv
    <2>2. CASE r \notin reqs[n]
      <3>1. PickDone
        BY <2>2, StepCases DEF vars, Fail, NextPass, Finish, Published, Publish
      <3>2. r \in Recorded(BestDeps, n)
        BY <2>2, <3>1 DEF PickDone
      <3>3. PICK d \in BestDeps : d.name = n /\ r = Entry(d)
        BY <3>2 DEF Recorded, Entry
      <3>4. ~Unresolvable(d)
        BY <3>1 DEF PickDone
      <3> QED BY <3>3, <3>4 DEF Unresolvable, Entry
    <2> QED BY <2>1, <2>2
  <1> QED BY <1>1, TopStays DEF TopOptIn

LEMMA LowInvNext == IInv /\ [Next]_vars => LowInv'
  <1> SUFFICES ASSUME IInv, [Next]_vars, published' = 0, NEW n \in Names, locked'[n] # 0,
                      NEW v \in Candidates(n)'
               PROVE  v <= locked'[n]
    BY DEF LowInv
  <1>1. published = 0 /\ index' = index
    BY UntilPublished DEF IInv
  <1>2. v \in Candidates(n)
    BY <1>1, ReqsGrow DEF Candidates, IInv, IndexedBy
  <1>3. CASE locked'[n] = locked[n]
    BY <1>1, <1>2, <1>3 DEF IInv, LowInv
  <1>4. CASE locked'[n] # locked[n]
    <2>1. PickDone
      BY <1>4, StepCases DEF vars, Fail, NextPass, Finish, Published, Publish
    <2>2. n = Next1 /\ locked'[n] = Best
      BY <1>4, <2>1, PickFacts DEF PickDone, IInv, TypeOK
    <2> QED BY <1>2, <2>1, <2>2, PickFacts DEF IInv
  <1> QED BY <1>3, <1>4

-----------------------------------------------------------------------------
(* The theorems *)

LEMMA Inductive == IInv /\ [Next]_vars => IInv'
  BY TypeOKNext, TopInvNext, PickInvNext, PassInvNext, EndInvNext,
     ForeignInvNext, LowInvNext
     DEF IInv

LEMMA Invariance == Spec => []IInv
  BY InvInitially, Inductive, PTL DEF Spec

(* The resolution keeps every variable in its type. *)
THEOREM TypeCorrect == Spec => []TypeOK
  <1>1. IInv => TypeOK
    BY DEF IInv
  <1> QED BY <1>1, Invariance, PTL

-----------------------------------------------------------------------------
(* The pass limit.  Every pass that changes a pick tries a version that has *)
(* not been tried: the versions from a pick upwards are behind it for good. *)
Tried == {c \in Choices : locked[c[1]] # 0 /\ locked[c[1]] <= c[2]}

LimitInv ==
  /\ Locked \subseteq Known /\ pending \subseteq Known
  /\ published = 0 => passes + (IF changed THEN 1 ELSE 0) <= Cardinality(Tried)
  /\ outcome = "ok" => ~changed \/ passes + 1 >= PassLimit

LEMMA PairsAreFinite ==
  ASSUME NEW pairs \in SUBSET (Names \X Versions)
  PROVE  IsFiniteSet(pairs) /\ Cardinality(pairs) \in Nat
  <1>1. IsFiniteSet(Names \X Versions)
    BY ResolverAssumption, FS_Product
  <1> QED BY <1>1, FS_Subset, FS_CardinalityType

LEMMA TriedArePairs ==
  /\ Tried \subseteq Choices /\ Choices \subseteq Names \X Versions
  /\ Tried' \subseteq Choices' /\ Choices' \subseteq Names \X Versions
  BY DEF Tried, Choices, Known

\* A pick that changes adds to what has been tried.
LEMMA PickTries ==
  ASSUME IInv, LimitInv, PickDone, published = 0
  PROVE  /\ Cardinality(Tried) <= Cardinality(Tried')
         /\ locked[Next1] # Best => Cardinality(Tried) + 1 <= Cardinality(Tried')
  <1>0. TypeOK /\ TypeOK'
    <2>1. [Next]_vars
      <3>1. Visit
        BY DEF PickDone, Visit, Pick, Best, BestDeps
      <3> QED BY <3>1 DEF Next, Resolve
    <2> QED BY <2>1, TypeOKNext DEF IInv
  <1>1. /\ Next1 \in Names /\ Best \in Candidates(Next1) /\ Best \in Versions
        /\ Best \in IndexedBy(index, Next1) /\ Best # 0
    BY <1>0, PickFacts
  <1>2. /\ locked' = [locked EXCEPT ![Next1] = Best] /\ index' = index
        /\ \A n \in Names : reqs[n] \subseteq reqs'[n]
    BY DEF PickDone
  <1>3. Known \subseteq Known' /\ Choices \subseteq Choices'
    BY <1>2 DEF Known, Choices
  <1>4. locked[Next1] # 0 => Best <= locked[Next1]
    BY <1>1 DEF IInv, LowInv
  <1>5. Versions \subseteq Nat /\ \A n \in Names : locked[n] \in Nat
    <2>1. Versions \subseteq Nat
      BY ResolverAssumption
    <2>2. \A n \in Names : locked[n] \in Versions \cup {0}
      BY <1>0 DEF TypeOK
    <2>3. ASSUME NEW n \in Names PROVE locked[n] \in Nat
      <3>1. CASE locked[n] = 0
        BY <3>1
      <3>2. CASE locked[n] \in Versions
        BY <2>1, <3>2
      <3> QED BY <2>2, <3>1, <3>2
    <2> QED BY <2>1, <2>3
  <1>6. Tried \subseteq Tried'
    <2> SUFFICES ASSUME NEW c \in Tried PROVE c \in Tried'
      OBVIOUS
    <2>1. /\ c \in Choices /\ c \in Choices' /\ c[1] \in Names /\ c[2] \in Nat
          /\ locked[c[1]] # 0 /\ locked[c[1]] <= c[2]
      BY <1>3, <1>5 DEF Tried, Choices, Known
    <2>2. locked'[c[1]] # 0 /\ locked'[c[1]] <= c[2]
      <3>1. CASE c[1] = Next1
        <4>1. locked'[c[1]] = Best
          BY <1>0, <1>1, <1>2, <3>1 DEF TypeOK
        <4> QED BY <1>1, <1>4, <1>5, <2>1, <3>1, <4>1
      <3>2. CASE c[1] # Next1
        <4>1. locked'[c[1]] = locked[c[1]]
          BY <1>0, <1>2, <2>1, <3>2 DEF TypeOK
        <4> QED BY <2>1, <4>1
      <3> QED BY <3>1, <3>2
    <2> QED BY <2>1, <2>2 DEF Tried
  <1>7. IsFiniteSet(Tried) /\ IsFiniteSet(Tried') /\ Cardinality(Tried) \in Nat /\ Cardinality(Tried') \in Nat
    BY TriedArePairs, PairsAreFinite
  <1>8. Cardinality(Tried) <= Cardinality(Tried')
    BY <1>6, <1>7, FS_Subset
  <1>9. ASSUME locked[Next1] # Best PROVE Cardinality(Tried) + 1 <= Cardinality(Tried')
    <2> DEFINE new == <<Next1, Best>>
    <2>1. new \notin Tried
      BY <1>1, <1>4, <1>5, <1>9 DEF Tried
    <2>2. new \in Tried'
      <3>1. Next1 \in Known
        BY <1>0, NextIsPending DEF LimitInv, PickDone
      <3>2. new \in Choices'
        BY <1>1, <1>3, <3>1 DEF Choices
      <3>3. locked'[Next1] = Best
        BY <1>0, <1>1, <1>2 DEF TypeOK
      <3> QED BY <1>1, <1>5, <3>2, <3>3 DEF Tried
    <2>3. IsFiniteSet(Tried \cup {new}) /\ Cardinality(Tried \cup {new}) = Cardinality(Tried) + 1
      BY <1>7, <2>1, FS_AddElement
    <2>4. Tried \cup {new} \subseteq Tried'
      BY <1>6, <2>2
    <2>5. Cardinality(Tried \cup {new}) <= Cardinality(Tried')
      BY <1>7, <2>4, FS_Subset
    <2> QED BY <2>3, <2>5
  <1> QED BY <1>8, <1>9

LEMMA LimitInvNext == IInv /\ LimitInv /\ [Next]_vars => LimitInv'
  <1> SUFFICES ASSUME IInv, LimitInv, [Next]_vars PROVE LimitInv'
    OBVIOUS
  <1>0. TypeOK /\ TypeOK' /\ passes \in Nat /\ changed \in BOOLEAN /\ published \in Nat
    BY TypeOKNext DEF IInv, TypeOK
  <1>1. CASE PickDone
    <2>1. Next1 \in pending /\ Next1 \in Names /\ Next1 \in Known
      BY <1>0, <1>1, NextIsPending DEF LimitInv, PickDone
    <2>2. Known \subseteq Known'
      BY <1>1 DEF PickDone, Known
    <2>3. Locked' \subseteq Known' /\ pending' \subseteq Known'
      <3>1. \A n \in Names : n # Next1 => locked'[n] = locked[n]
        BY <1>0, <1>1 DEF PickDone, TypeOK
      <3>2. Locked' \subseteq Locked \cup {Next1}
        BY <3>1 DEF Locked
      <3>3. pending' \subseteq pending
        BY <1>1 DEF PickDone
      <3> QED BY <2>1, <2>2, <3>2, <3>3 DEF LimitInv
    <2>4. ASSUME published' = 0 PROVE passes' + (IF changed' THEN 1 ELSE 0) <= Cardinality(Tried')
      <3>1. published = 0 /\ passes' = passes /\ changed' = (changed \/ locked[Next1] # Best)
        BY <1>1, <2>4 DEF PickDone
      <3>2. passes + (IF changed THEN 1 ELSE 0) <= Cardinality(Tried)
        BY <3>1 DEF LimitInv
      <3>3. Cardinality(Tried) \in Nat /\ Cardinality(Tried') \in Nat
        BY TriedArePairs, PairsAreFinite
      <3>4. /\ Cardinality(Tried) <= Cardinality(Tried')
            /\ locked[Next1] # Best => Cardinality(Tried) + 1 <= Cardinality(Tried')
        BY <1>1, <3>1, PickTries
      <3>5. CASE changed
        BY <1>0, <3>1, <3>2, <3>3, <3>4, <3>5
      <3>6. CASE ~changed /\ locked[Next1] # Best
        BY <1>0, <3>1, <3>2, <3>3, <3>4, <3>6
      <3>7. CASE ~changed /\ locked[Next1] = Best
        BY <1>0, <3>1, <3>2, <3>3, <3>4, <3>7
      <3> QED BY <1>0, <3>5, <3>6, <3>7
    <2>5. outcome' # "ok"
      BY <1>1 DEF PickDone
    <2> QED BY <2>3, <2>4, <2>5 DEF LimitInv
  <1>2. CASE NextPass
    <2>1. UNCHANGED <<index, reqs, locked, published, outcome>>
      BY <1>2 DEF NextPass
    <2>2. UNCHANGED <<Known, Locked, Tried>>
      BY <2>1 DEF Known, Locked, Tried, Choices
    <2>3. changed = TRUE /\ changed' = FALSE /\ passes' = passes + 1 /\ pending' = Known
      BY <1>0, <1>2 DEF NextPass
    <2> QED BY <1>0, <2>1, <2>2, <2>3 DEF LimitInv
  <1>3. CASE Finish
    <2>1. UNCHANGED <<index, reqs, locked, published, passes, changed, pending>>
      BY <1>3 DEF Finish
    <2>2. UNCHANGED <<Known, Locked, Tried>>
      BY <2>1 DEF Known, Locked, Tried, Choices
    <2> QED BY <1>3, <2>1, <2>2 DEF Finish, LimitInv
  <1>4. CASE Published
    <2>1. PICK n \in Names, v \in Versions, deps \in Releases : Publish(n, v, deps)
      BY <1>4 DEF Published
    <2>2. UNCHANGED <<reqs, locked, pending, outcome>> /\ outcome = "running" /\ published' = published + 1
      BY <2>1 DEF Publish
    <2>3. UNCHANGED <<Known, Locked>>
      BY <2>2 DEF Known, Locked
    <2> QED BY <1>0, <2>2, <2>3 DEF LimitInv
  <1>5. CASE UNCHANGED vars \/ \E kind \in Errors : outcome = "running" /\ Fail(kind)
    <2>1. /\ UNCHANGED <<index, reqs, locked, published, passes, changed, pending>>
          /\ outcome' = outcome \/ outcome' # "ok"
      BY <1>5 DEF vars, Fail, Errors
    <2>2. UNCHANGED <<Known, Locked, Tried>>
      BY <2>1 DEF Known, Locked, Tried, Choices
    <2> QED BY <2>1, <2>2 DEF LimitInv
  <1> QED BY <1>1, <1>2, <1>3, <1>4, <1>5, StepCases

LEMMA LimitInvariance == Spec => []LimitInv
  <1>1. Init => LimitInv
    <2> SUFFICES ASSUME Init PROVE LimitInv
      OBVIOUS
    <2>1. Cardinality(Tried) \in Nat
      BY TriedArePairs, PairsAreFinite
    <2> QED BY <2>1 DEF Init, LimitInv, Locked, Known
  <1> QED BY <1>1, LimitInvNext, Invariance, PTL DEF Spec

\* Without publications the limit is not reached before all has been tried.
LEMMA LimitIsAmple ==
  ASSUME IInv, LimitInv, outcome = "ok", published = 0, Cardinality(Choices) < PassLimit
  PROVE  ~changed
  <1>1. /\ Cardinality(Choices) \in Nat /\ Cardinality(Tried) \in Nat
        /\ Cardinality(Tried) <= Cardinality(Choices)
    BY TriedArePairs, PairsAreFinite, FS_Subset
  <1>2. passes \in Nat /\ PassLimit \in Nat
    BY ResolverAssumption DEF IInv, TypeOK
  <1> SUFFICES ASSUME changed PROVE FALSE
    OBVIOUS
  <1>3. passes + 1 <= Cardinality(Tried) /\ passes + 1 >= PassLimit
    BY DEF LimitInv
  <1> QED BY <1>1, <1>2, <1>3

-----------------------------------------------------------------------------
(* "So: stable means closed": a resolution that ends with a quiet pass      *)
(* gives a lock in which every requirement of the project and of every      *)
(* locked version is met, for any index and any publications meanwhile; and *)
(* it ends with one wherever nobody publishes and it has fewer versions to  *)
(* choose from than the limit has passes.                                   *)
THEOREM QuietLockIsSound == Spec => []LockIsSound
  <1>1. IInv /\ LimitInv => LockIsSound
    <2> SUFFICES ASSUME IInv, LimitInv, outcome = "ok",
                        ~changed \/ (published = 0 /\ Cardinality(Choices) < PassLimit)
                 PROVE  /\ \A d \in Registered(top) : Meets(d)
                        /\ \A n \in Locked : /\ locked[n] \in IndexedBy(index, n)
                                             /\ \A d \in index[n][locked[n]] : Meets(d)
      BY DEF LockIsSound
    <2>0. ~changed
      BY LimitIsAmple
    <2>1. \A n \in Known : Settled(n)
      BY <2>0 DEF IInv, PassInv, EndInv
    <2>2. ASSUME NEW d \in Deps, Entry(d) \in reqs[d.name] PROVE Meets(d)
      <3>1. d.name \in Names /\ d.name \in Known
        BY <2>2, EntryTypes DEF Known
      <3>2. Settled(d.name)
        BY <2>1, <3>1
      <3>3. Entry(d).req = d.req /\ Entry(d).tier = d.tier
        BY DEF Entry
      <3> QED BY <2>2, <3>1, <3>2, <3>3 DEF Settled, Meets, Locked
    <2>3. \A d \in Registered(top) : d \in Deps /\ Entry(d) \in reqs[d.name]
      BY DEF IInv, TypeOK, TopInv, Registered
    <2>4. \A n \in Locked : /\ locked[n] \in IndexedBy(index, n)
                           /\ \A d \in index[n][locked[n]] :
                                d \in Deps /\ Entry(d) \in reqs[d.name]
      BY DEF IInv, TypeOK, PickInv, Locked
    <2> QED BY <2>2, <2>3, <2>4
  <1> QED BY <1>1, Invariance, LimitInvariance, PTL

(* top_opt_in: a foreign-runtime package is locked only if the project      *)
(* itself declares it with opt_in, through any chain of requirers.          *)
THEOREM ForeignOptedIn == Spec => []ForeignOnlyByOptIn
  <1>1. IInv => ForeignOnlyByOptIn
    BY DEF IInv, ForeignInv, ForeignOnlyByOptIn, TopOptIn, Locked
  <1> QED BY <1>1, Invariance, PTL

(* "picks only move down": until somebody publishes, a version once picked  *)
(* is only ever replaced by a lower one, the ground of termination.         *)
THEOREM PicksDescend == Spec => PicksMoveDown
  <1>1. IInv /\ [Next]_vars =>
          (published' = 0 =>
             \A n \in Names : locked[n] # 0 => locked'[n] # 0 /\ locked'[n] <= locked[n])
    <2> SUFFICES ASSUME IInv, [Next]_vars, published' = 0, NEW n \in Names, locked[n] # 0
                 PROVE  locked'[n] # 0 /\ locked'[n] <= locked[n]
      OBVIOUS
    <2>1. published = 0
      BY UntilPublished DEF IInv
    <2>2. locked[n] \in Nat
      BY ResolverAssumption DEF IInv, TypeOK
    <2>3. CASE locked'[n] = locked[n]
      BY <2>2, <2>3
    <2>4. CASE locked'[n] # locked[n]
      <3>1. PickDone
        BY <2>4, StepCases DEF vars, Fail, NextPass, Finish, Published, Publish
      <3>2. n = Next1 /\ locked'[n] = Best
        BY <2>4, <3>1, PickFacts DEF PickDone, IInv, TypeOK
      <3>3. Best \in Candidates(n) /\ Best # 0
        BY <3>1, <3>2, PickFacts DEF IInv
      <3> QED BY <2>1, <3>2, <3>3 DEF IInv, LowInv
    <2> QED BY <2>3, <2>4
  <1> QED BY <1>1, Invariance, PTL DEF Spec, PicksMoveDown
=============================================================================

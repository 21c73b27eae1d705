------------------------- MODULE ProjectLockProofs -------------------------
(***************************************************************************)
(* Theorems about ProjectLock: the state keeps its type, an undisturbed    *)
(* add keeps a locked project buildable, and one from the registry repairs *)
(* a stale lock; for every set of packages and whatever they require.      *)
(***************************************************************************)
EXTENDS ProjectLock, TLAPS

\* A manifest requests a name once, and a lock that parses holds it once.
UniqueNames(S) == \A a, b \in S : a.name = b.name => a = b

\* The lock as an add reads it: one that does not parse is read as empty.
Held == IF Parses(lock) THEN lock ELSE {}

\* ClosureIsRequested and PathsAreDependencies, of any manifest.
Requested(deps) ==
  \A d \in deps : d.source = "registry" =>
    \A n \in Requires[d.name] : \E e \in deps : e.name = n /\ e.source = "registry"
PathsOf(deps) == \A d \in deps : d.source = "path" => d.section = "dependencies"

Request(source, r) ==
  [name |-> name, source |-> source, req |-> r, section |-> "dependencies"]
Entry == [name |-> name, source |-> "path", version |-> available[name]]

\* What the running add has asked for and resolved, while nothing is released.
Asking ==
  \/ mode = "path" /\ Request("path", available[name]) \in read /\ resolved = {Entry}
  \/ /\ mode = "registry" /\ \E r \in Versions : Request("registry", r) \in read
     /\ Resolves(read) /\ resolved = Closure(read)

\* What the project it found says of the lock it is about to read.
FoundHolds ==
  /\ foundAccepted /\ foundLocked =>
       /\ \A d \in read : d.name # name => \E e \in Held : Meets(e, d)
       /\ NameOf(Held) \subseteq NameOf(read)
  /\ foundPaths => \A d \in read : d.source = "path" =>
       d.section = "dependencies" /\ \E e \in Held : Meets(e, d)

\* When the new lock is owed to be current, and that it is.
Owed ==
  /\ Requested(read)
  /\ \/ foundAccepted /\ foundLocked /\ (mode = "registry" => PathsOf(read))
     \/ mode = "registry" /\ foundPaths
ResolvedIsCurrent == Owed => UniqueNames(resolved) /\ LockCurrent(read, resolved)

LockInv ==
  /\ TypeOK
  /\ UniqueNames(read)
  /\ manifest # Torn => UniqueNames(manifest)
  /\ pc # "idle" => ~added
  /\ quiet /\ pc \in {"cut manifest", "write manifest", "cut lock"} => Asking /\ FoundHolds
  /\ quiet /\ pc \in {"cut lock", "write lock"} => manifest = read
  /\ quiet /\ pc = "write lock" => ResolvedIsCurrent
  /\ quiet /\ added => manifest = read /\ lock = resolved /\ ResolvedIsCurrent

-----------------------------------------------------------------------------
(* Types *)

LEMMA Contents ==
  /\ \A deps \in SUBSET Dependencies : Readable(deps)
  /\ \A packages \in SUBSET LockedPackages : Readable(packages)
  BY ProjectLockAssumption DEF Readable

LEMMA ClosureType ==
  ASSUME TypeOK, NEW deps \in SUBSET Dependencies
  PROVE  Closure(deps) \in SUBSET LockedPackages
  <1> DEFINE direct == NameOf({d \in deps : d.source = "registry"})
             all == direct \cup UNION {Requires[n] : n \in direct}
  <1>1. direct \subseteq Names
    BY DEF NameOf, Dependencies
  <1>2. all \subseteq Names
    BY <1>1, ProjectLockAssumption
  <1>3. \A n \in all : [name |-> n, source |-> "registry", version |-> available[n]] \in LockedPackages
    BY <1>2 DEF TypeOK, LockedPackages
  <1> QED BY <1>3 DEF Closure

LEMMA TypeInit == Init => TypeOK
  <1> SUFFICES ASSUME Init PROVE TypeOK
    OBVIOUS
  <1>1. Missing \in {Torn, Missing} /\ {} \subseteq Dependencies /\ {} \subseteq LockedPackages
    OBVIOUS
  <1>2. adds \in 0 .. MaxAdds /\ edits \in 0 .. MaxEdits /\ crashes \in 0 .. MaxCrashes
    BY ProjectLockAssumption DEF Init
  <1> QED BY <1>1, <1>2 DEF Init, TypeOK

LEMMA BeginType ==
  ASSUME TypeOK, NEW m \in {"path", "registry"}, NEW n \in Names,
         NEW after \in SUBSET Dependencies, NEW closure \in SUBSET LockedPackages,
         Begin(m, n, after, closure)
  PROVE  TypeOK'
  <1>1. adds' \in 0 .. MaxAdds
    <2>1. MaxAdds \in Nat /\ adds \in 0 .. MaxAdds /\ adds < MaxAdds /\ adds' = adds + 1
      BY ProjectLockAssumption DEF TypeOK, Begin
    <2> QED BY <2>1
  <1>2. {foundAccepted, foundLocked, foundPaths, foundTorn, quiet, added}' \subseteq BOOLEAN
    BY DEF Begin, GateAccepts
  <1> QED BY <1>1, <1>2 DEF TypeOK, Begin

LEMMA Upserted ==
  ASSUME TypeOK, NEW n \in Names, NEW r \in Versions, NEW s \in {"path", "registry"}, Readable(manifest)
  PROVE  Upsert(manifest, [name |-> n, source |-> s, req |-> r, section |-> "dependencies"])
           \in SUBSET Dependencies
  <1>1. manifest \subseteq Dependencies
    BY DEF TypeOK, Readable
  <1> QED BY <1>1 DEF Upsert, Dependencies

LEMMA AddPathType ==
  ASSUME TypeOK, NEW n \in Names, AddPath(n)
  PROVE  TypeOK'
  <1> DEFINE d == [name |-> n, source |-> "path", req |-> available[n], section |-> "dependencies"]
             e == [name |-> n, source |-> "path", version |-> available[n]]
  <1>1. Readable(manifest) /\ available[n] \in Versions
    BY DEF AddPath, Begin, TypeOK
  <1>2. Upsert(manifest, d) \in SUBSET Dependencies
    BY <1>1, Upserted
  <1>3. {e} \in SUBSET LockedPackages
    BY <1>1 DEF LockedPackages
  <1>4. Begin("path", n, Upsert(manifest, d), {e})
    BY DEF AddPath
  <1> QED BY <1>2, <1>3, <1>4, BeginType

LEMMA AddRegistryType ==
  ASSUME TypeOK, NEW n \in Names, NEW r \in Versions, AddRegistry(n, r)
  PROVE  TypeOK'
  <1> DEFINE d == [name |-> n, source |-> "registry", req |-> r, section |-> "dependencies"]
             deps == Upsert(manifest, d)
  <1>1. deps \in SUBSET Dependencies
    BY Upserted DEF AddRegistry
  <1>2. Closure(deps) \in SUBSET LockedPackages
    BY <1>1, ClosureType
  <1>3. Begin("registry", n, deps, Closure(deps))
    BY DEF AddRegistry
  <1> QED BY <1>1, <1>2, <1>3, BeginType

LEMMA KeptType ==
  ASSUME TypeOK
  PROVE  Kept(Held) \in SUBSET LockedPackages
  <1>1. Held \in SUBSET LockedPackages
    BY DEF Held, Parses, Readable, TypeOK
  <1> QED BY <1>1 DEF Kept

LEMMA CutLockIsHeld ==
  ASSUME CutLock PROVE resolved' = resolved \cup Kept(Held)
  BY DEF CutLock, Held

LEMMA TypeStep == TypeOK /\ [Next]_vars => TypeOK'
  <1> SUFFICES ASSUME TypeOK, [Next]_vars PROVE TypeOK'
    OBVIOUS
  <1>1. ASSUME NEW n \in Names, AddPath(n) PROVE TypeOK'
    BY <1>1, AddPathType
  <1>2. ASSUME NEW n \in Names, NEW r \in Versions, AddRegistry(n, r) PROVE TypeOK'
    BY <1>2, AddRegistryType
  <1>3. CASE CutManifest
    BY <1>3 DEF CutManifest, Step, TypeOK, count, found
  <1>4. CASE WriteManifest
    BY <1>4 DEF WriteManifest, Step, TypeOK, count, found
  <1>5. CASE CutLock
    BY <1>5, CutLockIsHeld, KeptType DEF CutLock, Step, TypeOK, count, found
  <1>6. CASE WriteLock
    BY <1>6 DEF WriteLock, Step, TypeOK, count, found
  <1>7. CASE Crash
    <2>1. crashes' \in 0 .. MaxCrashes
      <3>1. MaxCrashes \in Nat /\ crashes \in 0 .. MaxCrashes /\ crashes < MaxCrashes /\ crashes' = crashes + 1
        BY <1>7, ProjectLockAssumption DEF Crash, TypeOK
      <3> QED BY <3>1
    <2> QED BY <1>7, <2>1 DEF Crash, TypeOK, add, history, found
  <1>8. CASE EditManifest
    <2>1. edits' \in 0 .. MaxEdits
      <3>1. MaxEdits \in Nat /\ edits \in 0 .. MaxEdits /\ edits < MaxEdits /\ edits' = edits + 1
        BY <1>8, ProjectLockAssumption DEF EditManifest, TypeOK
      <3> QED BY <3>1
    <2>2. manifest' \subseteq Dependencies
      <3>1. ASSUME NEW n \in Handmade, NEW s \in Sections, Readable(manifest),
                   manifest' = manifest \cup
                     {[name |-> n, source |-> "path", req |-> available[n], section |-> s]}
            PROVE  manifest' \subseteq Dependencies
        <4>1. [name |-> n, source |-> "path", req |-> available[n], section |-> s] \in Dependencies
          BY ProjectLockAssumption DEF TypeOK, Dependencies
        <4>2. manifest \subseteq Dependencies
          BY <3>1 DEF Readable, TypeOK
        <4> QED BY <3>1, <4>1, <4>2
      <3>2. ASSUME NEW d \in IF Readable(manifest) THEN manifest ELSE {}, manifest' = manifest \ {d}
            PROVE  manifest' \subseteq Dependencies
        BY <3>2 DEF Readable, TypeOK
      <3>3. CASE manifest' = read
        BY <3>3 DEF TypeOK
      <3> QED BY <1>8, <3>1, <3>2, <3>3 DEF EditManifest
    <2> QED BY <1>8, <2>1, <2>2 DEF EditManifest, TypeOK, add, found
  <1>9. ASSUME NEW n \in Names, Release(n) PROVE TypeOK'
    <2>1. available' \in [Names -> Versions]
      <3>1. available \in [Names -> Versions] /\ available' = [available EXCEPT ![n] = 2]
        BY <1>9 DEF Release, TypeOK
      <3>2. 2 \in Versions
        BY DEF Versions
      <3> QED BY <3>1, <3>2
    <2> QED BY <1>9, <2>1 DEF Release, TypeOK, add, count, found
  <1>10. CASE UNCHANGED vars
    BY <1>10 DEF TypeOK, vars, add, count, found, history
  <1> QED BY <1>1, <1>2, <1>3, <1>4, <1>5, <1>6, <1>7, <1>8, <1>9, <1>10 DEF Next

-----------------------------------------------------------------------------
(* A new lock is current *)

\* What the gate found of the old lock it still says of the new manifest.
LEMMA FoundAtBegin ==
  ASSUME TypeOK, Readable(manifest), NEW d \in Dependencies,
         GateAccepts, Parses(lock) \/ manifest = {}
  PROVE  /\ \A c \in Upsert(manifest, d) : c.name # d.name => \E e \in Held : Meets(e, c)
         /\ NameOf(Held) \subseteq NameOf(Upsert(manifest, d))
  <1>1. CASE Parses(lock)
    <2>1. Held = lock /\ lock # Missing
      BY <1>1 DEF Held, Parses, Readable
    <2>2. LockCurrent(manifest, lock)
      BY <2>1 DEF GateAccepts
    <2>3. NameOf(manifest) \subseteq NameOf(Upsert(manifest, d))
      BY DEF NameOf, Upsert
    <2> QED BY <2>1, <2>2, <2>3 DEF LockCurrent, Upsert
  <1>2. CASE ~Parses(lock)
    <2>1. Held = {} /\ manifest = {}
      BY <1>2 DEF Held
    <2> QED BY <2>1 DEF Upsert, NameOf
  <1> QED BY <1>1, <1>2

LEMMA UpsertUnique ==
  ASSUME NEW deps, UniqueNames(deps), NEW d
  PROVE  UniqueNames(Upsert(deps, d))
  BY DEF UniqueNames, Upsert

LEMMA HeldUnique == UniqueNames(Held)
  BY DEF UniqueNames, Held, Parses

\* The lock of a path dependency: its entry takes the place of the old one.
LEMMA PathLock ==
  ASSUME TypeOK, UniqueNames(read), mode = "path",
         Request("path", available[name]) \in read, resolved = {Entry},
         \A d \in read : d.name # name => \E e \in Held : Meets(e, d),
         NameOf(Held) \subseteq NameOf(read)
  PROVE  LET after == resolved \cup Kept(Held)
         IN UniqueNames(after) /\ LockCurrent(read, after)
  <1> DEFINE own == Request("path", available[name])
             kept == {e \in Held : e.name # name}
             after == {Entry} \cup kept
  <1>1. resolved \cup Kept(Held) = after
    BY DEF Kept
  <1>2. /\ own.name = name /\ own.source = "path" /\ own.req = available[name]
        /\ Entry.name = name /\ Entry.source = "path" /\ Entry.version = available[name]
    BY DEF Request, Entry
  <1>3. UniqueNames(after)
    BY <1>2, HeldUnique DEF UniqueNames
  <1>4. ASSUME NEW d \in read PROVE \E e \in after : Meets(e, d)
    <2>1. CASE d.name = name
      <3>1. d = own
        BY <2>1, <1>2 DEF UniqueNames
      <3> QED BY <3>1, <1>2 DEF Meets
    <2>2. CASE d.name # name
      <3>1. PICK e \in Held : Meets(e, d)
        BY <2>2
      <3>2. e \in kept
        BY <2>2, <3>1 DEF Meets
      <3> QED BY <3>1, <3>2
    <2> QED BY <2>1, <2>2
  <1>5. NameOf(after) \subseteq NameOf(read)
    BY <1>2 DEF NameOf
  <1> QED BY <1>1, <1>3, <1>4, <1>5 DEF LockCurrent

\* The lock of a registry dependency: the closure and the path entries kept.
LEMMA RegistryLock ==
  ASSUME TypeOK, UniqueNames(read), mode = "registry", Requested(read),
         Resolves(read), resolved = Closure(read),
         \A d \in read : d.source = "path" =>
           d.section = "dependencies" /\ \E e \in Held : Meets(e, d)
  PROVE  LET after == resolved \cup Kept(Held)
         IN UniqueNames(after) /\ LockCurrent(read, after)
  <1> DEFINE direct == NameOf({d \in read : d.source = "registry"})
             all == direct \cup UNION {Requires[n] : n \in direct}
             locked(n) == [name |-> n, source |-> "registry", version |-> available[n]]
             kept == {e \in Held : /\ e.source = "path"
                                   /\ \E d \in read : /\ d.name = e.name /\ d.source = "path"
                                                      /\ d.section = "dependencies"}
             after == Closure(read) \cup kept
  <1>1. resolved \cup Kept(Held) = after
    BY DEF Kept
  <1>2. Closure(read) = {locked(n) : n \in all}
    BY DEF Closure
  <1>3. \A n \in all : \E d \in read : d.name = n /\ d.source = "registry"
    BY DEF NameOf, Requested
  <1>4. \A n : /\ locked(n).name = n /\ locked(n).source = "registry"
               /\ locked(n).version = available[n]
    OBVIOUS
  <1>5. UniqueNames(after)
    <2>1. UniqueNames(Closure(read))
      <3>1. ASSUME NEW e \in Closure(read) PROVE e = locked(e.name)
        <4>1. PICK n \in all : e = locked(n)
          BY <1>2
        <4> QED BY <4>1, <1>4
      <3> QED BY <3>1 DEF UniqueNames
    <2>2. UniqueNames(kept)
      BY HeldUnique DEF UniqueNames
    <2>3. \A e \in Closure(read) : \A f \in kept : e.name # f.name
      <3>1. ASSUME NEW e \in Closure(read), NEW f \in kept, e.name = f.name PROVE FALSE
        <4>1. PICK n \in all : e = locked(n)
          BY <1>2
        <4>2. PICK c \in read : c.name = n /\ c.source = "registry"
          BY <1>3
        <4>3. PICK d \in read : d.name = f.name /\ d.source = "path"
          OBVIOUS
        <4>4. c.name = d.name
          BY <3>1, <4>1, <4>2, <4>3, <1>4
        <4>5. c = d
          BY <4>4 DEF UniqueNames
        <4> QED BY <4>2, <4>3, <4>5
      <3> QED BY <3>1
    <2> QED BY <2>1, <2>2, <2>3 DEF UniqueNames
  <1>6. ASSUME NEW d \in read PROVE \E e \in after : Meets(e, d)
    <2>1. d \in Dependencies /\ d.source \in {"registry", "path"}
      BY DEF TypeOK, Dependencies
    <2>2. CASE d.source = "registry"
      <3>1. d.name \in all
        BY <2>2 DEF NameOf
      <3>2. locked(d.name) \in after
        BY <3>1, <1>2
      <3>3. available[d.name] >= d.req
        BY <2>2 DEF Resolves
      <3>4. Meets(locked(d.name), d)
        BY <2>2, <3>3, <1>4 DEF Meets
      <3> QED BY <3>2, <3>4
    <2>3. CASE d.source = "path"
      <3>1. PICK e \in Held : Meets(e, d)
        BY <2>3
      <3>2. e \in kept
        BY <2>3, <3>1 DEF Meets
      <3> QED BY <3>1, <3>2
    <2> QED BY <2>1, <2>2, <2>3
  <1>7. NameOf(after) \subseteq NameOf(read)
    BY <1>2, <1>3, <1>4 DEF NameOf
  <1> QED BY <1>1, <1>5, <1>6, <1>7 DEF LockCurrent

LEMMA NewLockIsCurrent ==
  ASSUME TypeOK, UniqueNames(read), Asking, FoundHolds, Owed
  PROVE  LET after == resolved \cup Kept(Held)
         IN UniqueNames(after) /\ LockCurrent(read, after)
  <1>1. CASE mode = "path"
    <2>1. Request("path", available[name]) \in read /\ resolved = {Entry}
      BY <1>1 DEF Asking
    <2> QED BY <1>1, <2>1, PathLock DEF FoundHolds, Owed
  <1>2. CASE mode = "registry"
    <2>1. PICK r \in Versions : Request("registry", r) \in read
      BY <1>2 DEF Asking
    <2>2. \A d \in read : d.source = "path" => d.name # name
      BY <2>1 DEF UniqueNames, Request
    <2>3. \A d \in read : d.source = "path" =>
             d.section = "dependencies" /\ \E e \in Held : Meets(e, d)
      BY <1>2, <2>2 DEF Owed, FoundHolds, PathsOf
    <2> QED BY <1>2, <2>3, RegistryLock DEF Asking, Owed
  <1> QED BY <1>1, <1>2 DEF Asking

-----------------------------------------------------------------------------
(* The invariant *)

LEMMA LockInvInit == Init => LockInv
  <1> SUFFICES ASSUME Init PROVE LockInv
    OBVIOUS
  <1>1. TypeOK
    BY TypeInit
  <1>2. UniqueNames(read) /\ UniqueNames(manifest) /\ ~quiet /\ ~added
    BY DEF Init, UniqueNames
  <1> QED BY <1>1, <1>2 DEF LockInv, Init

\* An add begins, in either mode.
LEMMA BeginStep ==
  ASSUME LockInv, NEW m, NEW n, NEW after, NEW closure, Begin(m, n, after, closure),
         TypeOK', NEW d \in Dependencies, d.name = n, after = Upsert(manifest, d), Asking'
  PROVE  LockInv'
  <1>1. /\ read' = after /\ name' = n /\ lock' = lock /\ manifest' = manifest
        /\ pc' = "cut manifest" /\ ~added' /\ Readable(manifest)
        /\ foundAccepted' = GateAccepts /\ foundLocked' = (Parses(lock) \/ manifest = {})
    BY DEF Begin
  <1>2. Held' = Held
    BY <1>1 DEF Held, Parses, Readable
  <1>3. UniqueNames(manifest) /\ TypeOK
    BY <1>1 DEF LockInv, Readable
  <1>4. UniqueNames(read')
    BY <1>1, <1>3, UpsertUnique
  <1>5. FoundHolds'
    <2>1. ASSUME foundAccepted', foundLocked'
          PROVE  /\ \A c \in read' : c.name # name' => \E e \in Held : Meets(e, c)
                 /\ NameOf(Held) \subseteq NameOf(read')
      BY <2>1, <1>1, <1>3, FoundAtBegin
    <2>2. ASSUME foundPaths', NEW c \in read', c.source = "path"
          PROVE  c.section = "dependencies" /\ \E e \in Held : Meets(e, c)
      BY <2>2, <1>1 DEF Begin, Held
    <2> QED BY <2>1, <2>2, <1>2 DEF FoundHolds, Meets, NameOf
  <1> QED BY <1>1, <1>3, <1>4, <1>5 DEF LockInv, UniqueNames

LEMMA AddPathStep ==
  ASSUME LockInv, NEW n \in Names, AddPath(n)
  PROVE  LockInv'
  <1> DEFINE d == [name |-> n, source |-> "path", req |-> available[n], section |-> "dependencies"]
  <1>1. TypeOK /\ TypeOK' /\ d \in Dependencies
    BY AddPathType DEF LockInv, TypeOK, Dependencies
  <1>2. Begin("path", n, Upsert(manifest, d),
              {[name |-> n, source |-> "path", version |-> available[n]]})
    BY DEF AddPath
  <1>3. Asking'
    <2>1. /\ mode' = "path" /\ name' = n /\ available' = available
          /\ read' = Upsert(manifest, d)
          /\ resolved' = {[name |-> n, source |-> "path", version |-> available[n]]}
      BY <1>2 DEF Begin
    <2>2. d \in read'
      BY <2>1 DEF Upsert
    <2> QED BY <2>1, <2>2 DEF Asking, Request, Entry
  <1> QED BY <1>1, <1>2, <1>3, BeginStep

LEMMA AddRegistryStep ==
  ASSUME LockInv, NEW n \in Names, NEW r \in Versions, AddRegistry(n, r)
  PROVE  LockInv'
  <1> DEFINE d == [name |-> n, source |-> "registry", req |-> r, section |-> "dependencies"]
             deps == Upsert(manifest, d)
  <1>1. TypeOK /\ TypeOK' /\ d \in Dependencies
    BY AddRegistryType DEF LockInv, Dependencies
  <1>2. Begin("registry", n, deps, Closure(deps)) /\ Resolves(deps)
    BY DEF AddRegistry
  <1>3. Asking'
    <2>1. /\ mode' = "registry" /\ name' = n /\ available' = available
          /\ read' = deps /\ resolved' = Closure(deps)
      BY <1>2 DEF Begin
    <2>2. d \in deps
      BY DEF Upsert
    <2>3. Resolves(read)' /\ resolved' = Closure(read)'
      BY <2>1, <1>2 DEF Resolves, Closure, NameOf
    <2> QED BY <2>1, <2>2, <2>3 DEF Asking, Request
  <1> QED BY <1>1, <1>2, <1>3, BeginStep

\* What a step that leaves the add and the lock alone keeps.
LEMMA AskingFrame ==
  ASSUME UNCHANGED <<available, mode, name, read, resolved>>
  PROVE  Asking' <=> Asking
  BY DEF Asking, Request, Entry, Resolves, Closure, NameOf

LEMMA FoundFrame ==
  ASSUME UNCHANGED <<lock, name, read, found>>
  PROVE  FoundHolds' <=> FoundHolds
  BY DEF FoundHolds, Held, Parses, Readable, Meets, NameOf, found

LEMMA OwedFrame ==
  ASSUME UNCHANGED <<mode, read, found>>
  PROVE  Owed' <=> Owed
  BY DEF Owed, Requested, PathsOf, found

LEMMA CurrentFrame ==
  ASSUME UNCHANGED <<mode, read, resolved, found>>
  PROVE  ResolvedIsCurrent' <=> ResolvedIsCurrent
  BY OwedFrame DEF ResolvedIsCurrent, UniqueNames, LockCurrent, Meets, NameOf

LEMMA CutManifestStep ==
  ASSUME LockInv, TypeOK', CutManifest PROVE LockInv'
  <1>1. UNCHANGED <<available, mode, name, read, resolved, lock, found, quiet, added>>
    BY DEF CutManifest, Step, count
  <1>2. pc = "cut manifest" /\ pc' = "write manifest" /\ manifest' = Torn
    BY DEF CutManifest, Step
  <1>3. (Asking' <=> Asking) /\ (FoundHolds' <=> FoundHolds)
    BY <1>1, AskingFrame, FoundFrame
  <1> QED BY <1>1, <1>2, <1>3 DEF LockInv, UniqueNames

LEMMA WriteManifestStep ==
  ASSUME LockInv, TypeOK', WriteManifest PROVE LockInv'
  <1>1. UNCHANGED <<available, mode, name, read, resolved, lock, found, quiet, added>>
    BY DEF WriteManifest, Step, count
  <1>2. pc = "write manifest" /\ pc' = "cut lock" /\ manifest' = read
    BY DEF WriteManifest, Step
  <1>3. (Asking' <=> Asking) /\ (FoundHolds' <=> FoundHolds)
    BY <1>1, AskingFrame, FoundFrame
  <1> QED BY <1>1, <1>2, <1>3 DEF LockInv, UniqueNames

LEMMA CutLockStep ==
  ASSUME LockInv, TypeOK', CutLock PROVE LockInv'
  <1>1. UNCHANGED <<available, mode, name, read, manifest, found, quiet, added>>
    BY DEF CutLock, Step, count
  <1>2. pc = "cut lock" /\ pc' = "write lock"
    BY DEF CutLock, Step
  <1>3. resolved' = resolved \cup Kept(Held)
    BY CutLockIsHeld
  <1>4. ASSUME quiet PROVE ResolvedIsCurrent'
    <2>1. Asking /\ FoundHolds /\ UniqueNames(read) /\ TypeOK
      BY <1>2, <1>4 DEF LockInv
    <2>2. Owed' <=> Owed
      BY <1>1, OwedFrame
    <2>3. ASSUME Owed PROVE UniqueNames(resolved') /\ LockCurrent(read, resolved')
      BY <2>1, <2>3, <1>3, NewLockIsCurrent
    <2> QED BY <1>1, <2>2, <2>3 DEF ResolvedIsCurrent, UniqueNames, LockCurrent, Meets, NameOf
  <1> QED BY <1>1, <1>2, <1>4 DEF LockInv, UniqueNames

LEMMA WriteLockStep ==
  ASSUME LockInv, TypeOK', WriteLock PROVE LockInv'
  <1>1. UNCHANGED <<available, mode, name, read, manifest, resolved, found, quiet>>
    BY DEF WriteLock, Step, count
  <1>2. pc = "write lock" /\ pc' = "idle" /\ lock' = resolved
    BY DEF WriteLock, Step
  <1>3. ResolvedIsCurrent' <=> ResolvedIsCurrent
    BY <1>1, CurrentFrame
  <1> QED BY <1>1, <1>2, <1>3 DEF LockInv, UniqueNames

LEMMA CrashStep ==
  ASSUME LockInv, TypeOK', Crash PROVE LockInv'
  <1>1. UNCHANGED <<manifest, lock, read, quiet, added>> /\ pc # "idle" /\ pc' = "idle"
    BY DEF Crash, add, history
  <1> QED BY <1>1 DEF LockInv, UniqueNames

LEMMA EditManifestStep ==
  ASSUME LockInv, TypeOK', EditManifest PROVE LockInv'
  <1>1. ~quiet' /\ ~added' /\ UNCHANGED <<pc, read>>
    BY DEF EditManifest, add
  <1>2. manifest' # Torn => UniqueNames(manifest')
    <2>1. ASSUME NEW n \in Handmade, NEW s \in Sections, Readable(manifest), n \notin NameOf(manifest),
                 manifest' = manifest \cup
                   {[name |-> n, source |-> "path", req |-> available[n], section |-> s]}
          PROVE  UniqueNames(manifest')
      <3> DEFINE d == [name |-> n, source |-> "path", req |-> available[n], section |-> s]
      <3>1. UniqueNames(manifest) /\ d.name = n
        BY <2>1 DEF LockInv, Readable
      <3>2. \A c \in manifest : c.name # n
        BY <2>1 DEF NameOf
      <3>3. manifest' = manifest \cup {d}
        BY <2>1
      <3> HIDE DEF d
      <3> QED BY <3>1, <3>2, <3>3 DEF UniqueNames
    <2>2. ASSUME NEW d \in IF Readable(manifest) THEN manifest ELSE {}, manifest' = manifest \ {d}
          PROVE  UniqueNames(manifest')
      BY <2>2 DEF LockInv, Readable, UniqueNames
    <2>3. CASE manifest' = read
      BY <2>3 DEF LockInv, UniqueNames
    <2> QED BY <2>1, <2>2, <2>3 DEF EditManifest
  <1> QED BY <1>1, <1>2 DEF LockInv, UniqueNames

LEMMA ReleaseStep ==
  ASSUME LockInv, TypeOK', NEW n \in Names, Release(n) PROVE LockInv'
  <1>1. ~quiet' /\ UNCHANGED <<manifest, pc, read, added>>
    BY DEF Release, add
  <1> QED BY <1>1 DEF LockInv, UniqueNames

LEMMA LockStutter ==
  ASSUME LockInv, TypeOK', UNCHANGED vars PROVE LockInv'
  <1>1. UNCHANGED <<available, manifest, lock, pc, mode, name, read, resolved, found, quiet, added>>
    BY DEF vars, add, history
  <1>2. /\ Asking' <=> Asking
        /\ FoundHolds' <=> FoundHolds
        /\ ResolvedIsCurrent' <=> ResolvedIsCurrent
    BY <1>1, AskingFrame, FoundFrame, CurrentFrame
  <1> QED BY <1>1, <1>2 DEF LockInv, UniqueNames

LEMMA LockInvStep == LockInv /\ [Next]_vars => LockInv'
  <1> SUFFICES ASSUME LockInv, [Next]_vars PROVE LockInv'
    OBVIOUS
  <1>1. TypeOK'
    BY TypeStep DEF LockInv
  <1> QED BY <1>1, AddPathStep, AddRegistryStep, CutManifestStep, WriteManifestStep, CutLockStep,
             WriteLockStep, CrashStep, EditManifestStep, ReleaseStep, LockStutter DEF Next

\* The inductive invariant: what a running add has read and resolved and what
\* the project it found says of the old lock, and after it that the new lock is
\* current whenever that is owed.
THEOREM LockInvariant == Spec => []LockInv
  <1> QED BY LockInvInit, LockInvStep, PTL DEF Spec

\* The state keeps its shape: what is in the files is a manifest and a lock.
THEOREM TypeCorrect == Spec => []TypeOK
  <1>1. LockInv => TypeOK
    BY DEF LockInv
  <1> QED BY <1>1, LockInvariant, PTL

LEMMA CurrentIsAccepted ==
  ASSUME LockInv, added, quiet, Owed PROVE GateAccepts
  <1>1. /\ manifest = read /\ lock = resolved /\ TypeOK
        /\ UniqueNames(resolved) /\ LockCurrent(read, resolved)
    BY DEF LockInv, ResolvedIsCurrent
  <1>2. Readable(read) /\ Readable(resolved)
    BY <1>1, Contents DEF TypeOK
  <1>3. lock # Missing
    BY <1>1, <1>2 DEF Readable
  <1> QED BY <1>1, <1>2, <1>3 DEF GateAccepts, Parses, UniqueNames

\* An undisturbed add keeps a locked project buildable (cmd_add.rs and the gate
\* of registry.rs mean the same by a lock), when all it locks is requested and
\* the path requests are where the registry mode looks for them.
THEOREM LockedStaysBuildable == Spec => []AddKeepsLocked
  <1>1. LockInv => AddKeepsLocked
    <2> SUFFICES ASSUME LockInv, added, quiet, foundAccepted, foundLocked, ClosureIsRequested,
                        mode = "registry" => PathsAreDependencies
                 PROVE  GateAccepts
      BY DEF AddKeepsLocked
    <2>1. manifest = read
      BY DEF LockInv
    <2>2. Owed
      BY <2>1 DEF Owed, Requested, PathsOf, ClosureIsRequested, PathsAreDependencies
    <2> QED BY <2>2, CurrentIsAccepted
  <1> QED BY <1>1, LockInvariant, PTL

\* An undisturbed add from the registry repairs a stale lock, whatever made it
\* stale, when the path requests are met by it and all it locks is requested.
THEOREM StaleIsRepaired == Spec => []RegistryAddRepairs
  <1>1. LockInv => RegistryAddRepairs
    <2> SUFFICES ASSUME LockInv, added, quiet, mode = "registry", foundPaths, ClosureIsRequested
                 PROVE  GateAccepts
      BY DEF RegistryAddRepairs
    <2>1. manifest = read
      BY DEF LockInv
    <2>2. Owed
      BY <2>1 DEF Owed, Requested, ClosureIsRequested
    <2> QED BY <2>2, CurrentIsAccepted
  <1> QED BY <1>1, LockInvariant, PTL
=============================================================================

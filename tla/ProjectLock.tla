---------------------------- MODULE ProjectLock ----------------------------
(***************************************************************************)
(* A project's manifest and lock: `noct add` in both modes (cmd_add.rs),   *)
(* the check of a lock against its manifest (`check_lock_current` of       *)
(* nestpkg) and the gate before a build (`require_package_current_in`).    *)
(*                                                                         *)
(* add reads the manifest, writes it with one dependency inserted or       *)
(* replaced, reads the lock and writes it anew; each write empties the     *)
(* file first, and the process may die between any two steps.  The user    *)
(* also writes path dependencies into the manifest by hand.  Resolver      *)
(* tells which versions are locked: here the highest the index has, with   *)
(* what they require.  Tiers are left out: they agree wherever a           *)
(* resolution succeeds.                                                    *)
(***************************************************************************)
EXTENDS Integers, FiniteSets

CONSTANTS
  Names,     \* package names
  Torn,      \* a file emptied and not yet written, which does not parse
  Missing,   \* a file that is not there
  Requires,  \* bound: registry packages a registry package needs
  Sections,  \* bound: the manifest tables in use
  Handmade,  \* bound: packages the user may write into the manifest by hand
  MaxAdds, MaxEdits, MaxCrashes

Versions == 1 .. 2

(* A request of the manifest, an entry of the lock. *)
Dependencies == [name : Names, source : {"registry", "path"}, req : Versions,
                 section : {"dependencies", "dev_dependencies"}]
LockedPackages == [name : Names, source : {"registry", "path"}, version : Versions]

(* A file that is torn or missing has no contents. *)
ASSUME ProjectLockAssumption ==
  /\ IsFiniteSet(Names) /\ Requires \in [Names -> SUBSET Names]
  /\ Sections \subseteq {"dependencies", "dev_dependencies"}
  /\ Handmade \subseteq Names
  /\ MaxAdds \in Nat /\ MaxEdits \in Nat /\ MaxCrashes \in Nat
  /\ Torn # Missing
  /\ \A deps \in SUBSET Dependencies : deps \notin {Torn, Missing}
  /\ \A packages \in SUBSET LockedPackages : packages \notin {Torn, Missing}

VARIABLES
  available,      \* the highest version the index, or the sibling tree, has
  manifest, lock, \* contents of nestpkg.nvpm, nestpkg.lock
  pc, mode, name, \* the running add
  read,           \* the manifest it read
  resolved,       \* its locked closure
  adds, edits, crashes,
  foundAccepted, foundLocked, foundPaths, foundTorn, \* history: the project as the add found it
  quiet,          \* history: nobody else has written since it began
  added           \* history: the last add succeeded

add == <<mode, name, read, resolved>>
count == <<adds, edits, crashes>>
found == <<foundAccepted, foundLocked, foundPaths, foundTorn>>
history == <<found, quiet, added>>
vars == <<available, manifest, lock, pc, add, count, history>>

Readable(file) == file \notin {Torn, Missing}

(* A lock with two entries of one name does not parse: "duplicate key". *)
Parses(file) ==
  /\ Readable(file)
  /\ \A a, b \in file : a.name = b.name => a = b

NameOf(S) == {d.name : d \in S}

Init ==
  /\ available \in [Names -> Versions]
  /\ manifest = {} /\ lock = Missing
  /\ pc = "idle" /\ mode = "registry"
  /\ name \in Names /\ read = {} /\ resolved = {}
  /\ adds = 0 /\ edits = 0 /\ crashes = 0
  /\ foundAccepted = FALSE /\ foundLocked = FALSE /\ foundPaths = FALSE /\ foundTorn = FALSE /\ quiet = FALSE /\ added = FALSE

-----------------------------------------------------------------------------
Meets(e, d) ==
  /\ e.name = d.name /\ e.source = d.source
  /\ IF d.source = "path" THEN e.version = d.req ELSE e.version >= d.req

(* check_lock_current: every request is met by an entry of its source, and  *)
(* every entry is requested.                                                *)
LockCurrent(deps, packages) ==
  /\ \A d \in deps : \E e \in packages : Meets(e, d)
  /\ NameOf(packages) \subseteq NameOf(deps)

(* The gate: a missing lock will do for a project of path dependencies. *)
GateAccepts ==
  /\ Readable(manifest)
  /\ IF lock = Missing THEN \A d \in manifest : d.source = "path"
     ELSE Parses(lock) /\ LockCurrent(manifest, lock)

(* What resolving the registry dependencies of a manifest gives. *)
Closure(deps) ==
  LET direct == NameOf({d \in deps : d.source = "registry"})
      all    == direct \cup UNION {Requires[n] : n \in direct}
  IN {[name |-> n, source |-> "registry", version |-> available[n]] : n \in all}

Resolves(deps) ==
  \A d \in deps : d.source = "registry" => available[d.name] >= d.req

(* upsert_dependency_text: into the table `dependencies`; a name that is in *)
(* the other table as well is refused.                                      *)
Upsert(deps, d) == {e \in deps : e.name # d.name} \cup {d}
Upsertable(deps, n) ==
  ~\E d \in deps : d.name = n /\ d.section = "dev_dependencies"

Begin(m, n, after, closure) ==
  /\ pc = "idle" /\ adds < MaxAdds
  /\ Readable(manifest) /\ Upsertable(manifest, n)
  /\ adds' = adds + 1
  /\ mode' = m /\ name' = n /\ read' = after /\ resolved' = closure
  /\ pc' = "cut manifest"
  /\ foundAccepted' = GateAccepts /\ foundLocked' = (Parses(lock) \/ manifest = {})
  /\ foundTorn' = ~(lock = Missing \/ Parses(lock))
  /\ foundPaths' = \A d \in after : d.source = "path" =>
                      /\ Parses(lock) /\ d.section = "dependencies"
                      /\ \E e \in lock : Meets(e, d)
  /\ quiet' = TRUE /\ added' = FALSE
  /\ UNCHANGED <<available, manifest, lock, edits, crashes>>

(* add_path: the sibling's version is pinned. *)
AddPath(n) ==
  LET d == [name |-> n, source |-> "path", req |-> available[n], section |-> "dependencies"]
  IN Begin("path", n, Upsert(manifest, d),
           {[name |-> n, source |-> "path", version |-> available[n]]})

(* add_registry: nothing is written unless the closure resolves. *)
AddRegistry(n, r) ==
  LET d == [name |-> n, source |-> "registry", req |-> r, section |-> "dependencies"]
      deps == Upsert(manifest, d)
  IN Readable(manifest) /\ Resolves(deps) /\ Begin("registry", n, deps, Closure(deps))

Step(from, to) ==
  /\ pc = from /\ pc' = to
  /\ UNCHANGED <<available, mode, name, read, count, found, quiet>>

CutManifest ==
  /\ Step("cut manifest", "write manifest")
  /\ manifest' = Torn /\ UNCHANGED <<lock, resolved, added>>

WriteManifest ==
  /\ Step("write manifest", "cut lock")
  /\ manifest' = read /\ UNCHANGED <<lock, resolved, added>>

(* Mutant: registry mode keeps every path entry. *)
KeptOfAnySource(packages) ==
  IF mode = "path" THEN {e \in packages : e.name # name}
  ELSE {e \in packages : e.source = "path"}

(* Mutant: path mode does not drop the entry it replaces. *)
KeptOwn(packages) ==
  IF mode = "path" THEN packages
  ELSE {e \in packages : e.source = "path" /\ \E d \in read : d.name = e.name /\ d.source = "path"}

(* The entries kept of a lock that is read as empty when it does not parse: *)
(* in path mode all but the added name's, in registry mode the path entries *)
(* the table `dependencies` still asks for.                                 *)
Kept(packages) ==
  IF mode = "path" THEN {e \in packages : e.name # name}
  ELSE {e \in packages :
          /\ e.source = "path"
          /\ \E d \in read : /\ d.name = e.name /\ d.source = "path"
                             /\ d.section = "dependencies"}

CutLock ==
  /\ Step("cut lock", "write lock")
  /\ resolved' = resolved \cup Kept(IF Parses(lock) THEN lock ELSE {})
  /\ lock' = Torn /\ UNCHANGED <<manifest, added>>

WriteLock ==
  /\ Step("write lock", "idle")
  /\ lock' = resolved /\ added' = TRUE
  /\ UNCHANGED <<manifest, resolved>>

Crash ==
  /\ pc # "idle" /\ crashes < MaxCrashes
  /\ pc' = "idle" /\ crashes' = crashes + 1
  /\ UNCHANGED <<available, manifest, lock, add, adds, edits, history>>

(* The user writes a path dependency into the manifest, takes one out, or    *)
(* restores a manifest an add has destroyed.                                *)
EditManifest ==
  /\ edits < MaxEdits
  /\ edits' = edits + 1 /\ quiet' = FALSE /\ added' = FALSE
  /\ \/ \E n \in Handmade, s \in Sections :
          /\ Readable(manifest) /\ n \notin NameOf(manifest)
          /\ manifest' = manifest \cup
               {[name |-> n, source |-> "path", req |-> available[n], section |-> s]}
     \/ \E d \in IF Readable(manifest) THEN manifest ELSE {} : manifest' = manifest \ {d}
     \/ ~Readable(manifest) /\ manifest' = read
  /\ UNCHANGED <<available, lock, pc, add, adds, crashes, found>>

(* The index, or the sibling's tree, gets a new version. *)
Release(n) ==
  /\ available[n] = 1
  /\ available' = [available EXCEPT ![n] = 2]
  /\ quiet' = FALSE
  /\ UNCHANGED <<manifest, lock, pc, add, count, found, added>>

Next ==
  \/ \E n \in Names : AddPath(n) \/ \E r \in Versions : AddRegistry(n, r)
  \/ CutManifest \/ WriteManifest \/ CutLock \/ WriteLock
  \/ Crash \/ EditManifest \/ \E n \in Names : Release(n)

Spec == Init /\ [][Next]_vars

-----------------------------------------------------------------------------
TypeOK ==
  /\ available \in [Names -> Versions]
  /\ manifest = Torn \/ manifest \subseteq Dependencies
  /\ lock \in {Torn, Missing} \/ lock \subseteq LockedPackages
  /\ pc \in {"idle", "cut manifest", "write manifest", "cut lock", "write lock"}
  /\ mode \in {"path", "registry"} /\ name \in Names
  /\ read \subseteq Dependencies /\ resolved \subseteq LockedPackages
  /\ adds \in 0 .. MaxAdds /\ edits \in 0 .. MaxEdits /\ crashes \in 0 .. MaxCrashes
  /\ {foundAccepted, foundLocked, foundPaths, foundTorn, quiet, added} \subseteq BOOLEAN

(* No registry package of the manifest needs one that the manifest does not *)
(* request from the registry as well.  Outside of it the two readings of a  *)
(* lock part: resolving locks the whole closure, check_lock_current finds   *)
(* an entry nobody requests stale, and a path request of the same name puts *)
(* two entries of one name into the lock.                                   *)
ClosureIsRequested ==
  \A d \in manifest : d.source = "registry" =>
    \A n \in Requires[d.name] :
      \E e \in manifest : e.name = n /\ e.source = "registry"

(* The table `dependencies` makes every path request of the manifest: an add *)
(* from the registry keeps no other path entries (cmd_add.rs:415), while the *)
(* check of the lock asks for those of both tables (nestpkg lib.rs:1363).    *)
PathsAreDependencies == \A d \in manifest : d.source = "path" => d.section = "dependencies"

(* A successful add that nobody interferes with leaves a project the gate   *)
(* accepts, when the gate accepted it before and it had a lock, and when    *)
(* all that gets locked is requested; for an add from the registry only if  *)
(* no path request is of the development table.                             *)
AddKeepsLocked ==
  (/\ added /\ quiet /\ foundAccepted /\ foundLocked /\ ClosureIsRequested
   /\ mode = "registry" => PathsAreDependencies) => GateAccepts

(* An add from the registry repairs a stale lock, whatever made it stale, as *)
(* long as the path dependencies are in it and all that gets locked is      *)
(* requested: "run `noct add` to re-resolve".                               *)
RegistryAddRepairs ==
  added /\ quiet /\ mode = "registry" /\ foundPaths /\ ClosureIsRequested => GateAccepts

(* The same of every project the gate accepted: claim of the gate's comment *)
(* that path dependencies written by hand need no lock.                     *)
AddKeepsAccepted == added /\ quiet /\ foundAccepted => GateAccepts

(* The same of the development table: claim that "still-required path       *)
(* entries" are merged into the new lock (cmd_add.rs:404).                  *)
AddKeepsRequired ==
  added /\ quiet /\ foundAccepted /\ foundLocked /\ ClosureIsRequested => GateAccepts

(* Claim of the messages about a lock that does not parse: `noct add`       *)
(* re-establishes it.                                                       *)
AddReestablishes == added /\ quiet /\ foundTorn => GateAccepts
=============================================================================

--------------------------- MODULE PublisherKeys ---------------------------
(***************************************************************************)
(* Fetching locked packages (noct-cli/src/registry.rs `fetch_locked`,      *)
(* cmd_get.rs, the registry mode of cmd_add.rs) and the trust-on-first-use *)
(* file of publisher keys.                                                 *)
(*                                                                         *)
(* A fetch reads the index entry file by file, compares its hash with the  *)
(* lock's and with the bytes, looks its key id up in the key directory,    *)
(* records the key when the id is new or rotation was asked for, checks    *)
(* the signature and puts the bytes in the store.  Commands of several     *)
(* processes share index, key directory and store, and take no lock.       *)
(*                                                                         *)
(* Contents stand for bytes and for their SHA-256.  How the store places   *)
(* an entry is the subject of Store, the resolution that of Resolver.      *)
(***************************************************************************)
EXTENDS Integers, FiniteSets

CONSTANTS
  Procs,      \* processes running `noct`
  Packages,   \* the locked closure, as numbers: its order
  Contents,   \* what an archive may hold
  PubKeys,    \* publisher public keys
  Nothing,    \* an absent file
  Torn,       \* an empty key file: truncated, not yet written
  Pins,       \* bound: what the key directory holds at first, for one key id
  Signed,     \* bound: the releases the index may serve, see Releases
  MaxMoves,   \* bound: changes of the index
  MaxRuns,    \* bound: commands started
  MaxCrashes, \* bound: commands that die halfway
  Rotating    \* bound: values of --rotate-key used

(* bin: the archive; hash: pkg.hash; sig: signer and signed content. *)
Releases == [bin : Contents, hash : Contents, signer : PubKeys, over : Contents]

ASSUME PublisherKeysAssumption ==
  /\ Packages \subseteq Nat /\ IsFiniteSet(Packages)
  /\ Nothing \notin PubKeys \cup Contents \cup {Torn} /\ Torn \notin PubKeys
  /\ Pins \subseteq PubKeys \cup {Nothing}
  /\ Signed \subseteq Releases
  /\ MaxMoves \in Nat /\ MaxRuns \in Nat /\ MaxCrashes \in Nat
  /\ Rotating \subseteq BOOLEAN

VARIABLES
  index, served, \* release of each package; key served for the one key id
  keys,          \* the recorded key of that id, Torn or Nothing
  store,         \* archives stored, with the checks they passed
  lock,          \* nestpkg.lock: a content for each package, or Nothing
  pc, command, rotate, want, todo, entry, problems, result,
  moves, runs, crashes,
  recorded,      \* history: keys some command recorded, or pinned at first
  touched        \* history: the commands that wrote the key file

world == <<index, served>>
proc  == <<command, rotate, want, todo, entry, problems, result>>
count == <<moves, runs, crashes>>
vars  == <<world, keys, store, lock, pc, proc, count, recorded, touched>>

Points == {"idle", "next", "archive", "signature", "check", "load", "truncate",
           "write", "verify", "put", "finish"}
Results == {"none", "ok", "moved", "hash", "keychanged", "signature", "unusable"}

Nowhere == [k \in Packages |-> Nothing]
NoEntry == [bin |-> Nothing, hash |-> Nothing, signer |-> Nothing, over |-> Nothing,
            key |-> Nothing]
Lowest(S) == CHOOSE k \in S : \A j \in S : k <= j

Init ==
  /\ index \in [Packages -> Signed] /\ served \in PubKeys
  /\ keys \in Pins /\ recorded = {keys} \ {Nothing}
  /\ store = {}
  /\ lock = Nowhere
  /\ pc = [p \in Procs |-> "idle"]
  /\ command = [p \in Procs |-> "none"] /\ rotate = [p \in Procs |-> FALSE]
  /\ want = [p \in Procs |-> Nowhere] /\ todo = [p \in Procs |-> {}]
  /\ entry = [p \in Procs |-> NoEntry]
  /\ problems = [p \in Procs |-> FALSE] /\ result = [p \in Procs |-> "none"]
  /\ moves = 0 /\ runs = 0 /\ crashes = 0 /\ touched = {}

Begin(p, cmd, r, list) ==
  /\ pc[p] = "idle" /\ runs < MaxRuns
  /\ runs' = runs + 1
  /\ command' = [command EXCEPT ![p] = cmd]
  /\ rotate' = [rotate EXCEPT ![p] = r]
  /\ want' = [want EXCEPT ![p] = list]
  /\ todo' = [todo EXCEPT ![p] = Packages]
  /\ problems' = [problems EXCEPT ![p] = FALSE]
  /\ result' = [result EXCEPT ![p] = "none"]
  /\ pc' = [pc EXCEPT ![p] = "next"]
  /\ touched' = touched \ {p}
  /\ UNCHANGED <<world, keys, store, lock, entry, moves, crashes, recorded>>

(* `noct add`: the resolution takes the lock's hashes from the index. *)
Add(p, r) == Begin(p, "add", r, [k \in Packages |-> index[k].hash])

(* `noct get`: the hashes of the lock file; it never rotates a key. *)
Get(p) == lock # Nowhere /\ Begin(p, "get", FALSE, lock)

Package(p) == Lowest(todo[p])
Ready(c) == \E e \in store : e.content = c

Goto(p, point) ==
  /\ pc' = [pc EXCEPT ![p] = point]
  /\ UNCHANGED <<command, rotate, want, todo, problems, result>>

(* get keeps what verifies; add fetches every package. *)
Choose(p) ==
  /\ pc[p] = "next"
  /\ UNCHANGED <<world, keys, store, lock, entry, count, recorded, touched>>
  /\ \/ todo[p] = {} /\ Goto(p, "finish")
     \/ /\ todo[p] # {} /\ command[p] = "get" /\ Ready(want[p][Package(p)])
        /\ todo' = [todo EXCEPT ![p] = @ \ {Package(p)}]
        /\ UNCHANGED <<pc, command, rotate, want, problems, result>>
     \/ /\ todo[p] # {}
        /\ command[p] = "get" => ~Ready(want[p][Package(p)])
        /\ Goto(p, "archive")

ReadArchive(p) ==
  /\ pc[p] = "archive"
  /\ entry' = [entry EXCEPT ![p] = [NoEntry EXCEPT !.bin = index[Package(p)].bin,
                                                  !.hash = index[Package(p)].hash]]
  /\ Goto(p, "signature")
  /\ UNCHANGED <<world, keys, store, lock, count, recorded, touched>>

ReadSignature(p) ==
  /\ pc[p] = "signature"
  /\ entry' = [entry EXCEPT ![p].signer = index[Package(p)].signer,
                            ![p].over = index[Package(p)].over,
                            ![p].key = served]
  /\ Goto(p, "check")
  /\ UNCHANGED <<world, keys, store, lock, count, recorded, touched>>

(* Mutant: the lock is written although a fetch failed. *)
RefuseLate(p, why) ==
  /\ result' = [result EXCEPT ![p] = why]
  /\ pc' = [pc EXCEPT ![p] = "next"]
  /\ todo' = [todo EXCEPT ![p] = @ \ {Package(p)}]
  /\ problems' = [problems EXCEPT ![p] = TRUE]
  /\ UNCHANGED <<command, rotate, want>>

(* An error ends add; get notes the problem and goes on. *)
Refuse(p, why) ==
  /\ result' = [result EXCEPT ![p] = why]
  /\ IF command[p] = "add"
     THEN pc' = [pc EXCEPT ![p] = "idle"] /\ UNCHANGED <<todo, problems>>
     ELSE /\ pc' = [pc EXCEPT ![p] = "next"]
          /\ todo' = [todo EXCEPT ![p] = @ \ {Package(p)}]
          /\ problems' = [problems EXCEPT ![p] = TRUE]
  /\ UNCHANGED <<command, rotate, want>>

(* The digest of the bytes is the one expected. *)
Digests(bin, hash) == bin = hash

Check(p) ==
  /\ pc[p] = "check"
  /\ IF entry[p].hash # want[p][Package(p)] THEN Refuse(p, "moved")
     ELSE IF ~Digests(entry[p].bin, entry[p].hash) THEN Refuse(p, "hash")
     ELSE Goto(p, "load")
  /\ UNCHANGED <<world, keys, store, lock, entry, count, recorded, touched>>

(* Mutant: a key that differs is recorded, rotation asked for or not. *)
LoadKeyTrusting(p) ==
  /\ pc[p] = "load"
  /\ IF keys = entry[p].key THEN Goto(p, "verify") ELSE Goto(p, "truncate")
  /\ UNCHANGED <<world, keys, store, lock, entry, count, recorded, touched>>

LoadKey(p) ==
  /\ pc[p] = "load"
  /\ IF keys = entry[p].key THEN Goto(p, "verify")
     ELSE IF keys = Nothing \/ rotate[p] THEN Goto(p, "truncate")
     ELSE Refuse(p, "keychanged")
  /\ UNCHANGED <<world, keys, store, lock, entry, count, recorded, touched>>

(* store_key_in: the file is created or emptied, then written. *)
TruncateKey(p) ==
  /\ pc[p] = "truncate"
  /\ keys' = Torn
  /\ touched' = touched \cup {p}
  /\ Goto(p, "write")
  /\ UNCHANGED <<world, store, lock, entry, count, recorded>>

WriteKey(p) ==
  /\ pc[p] = "write"
  /\ keys' = entry[p].key
  /\ recorded' = recorded \cup {entry[p].key}
  /\ Goto(p, "verify")
  /\ UNCHANGED <<world, store, lock, entry, count, touched>>

(* Mutant: any signature of the served key will do. *)
SignedByKey(e, content) == e.signer = e.key

(* The signature is the key's, over the name, the version and the hash. *)
Signs(e, content) == e.signer = e.key /\ e.over = content

Verify(p) ==
  /\ pc[p] = "verify"
  /\ IF Signs(entry[p], want[p][Package(p)])
     THEN Goto(p, "put") ELSE Refuse(p, "signature")
  /\ UNCHANGED <<world, keys, store, lock, entry, count, recorded, touched>>

Put(p) ==
  /\ pc[p] = "put"
  /\ store' = store \cup {[content |-> want[p][Package(p)], bytes |-> entry[p].bin,
                           signer |-> entry[p].signer, over |-> entry[p].over]}
  /\ todo' = [todo EXCEPT ![p] = @ \ {Package(p)}]
  /\ pc' = [pc EXCEPT ![p] = "next"]
  /\ UNCHANGED <<world, keys, lock, command, rotate, want, entry, problems, result,
                 count, recorded, touched>>

(* add writes the lock; get reads the store again before it exits with 0. *)
Finish(p) ==
  /\ pc[p] = "finish"
  /\ LET usable == \A k \in Packages : Ready(want[p][k])
     IN /\ IF command[p] = "add"
           THEN /\ lock' = want[p]
                /\ result' = [result EXCEPT ![p] = "ok"]
           ELSE /\ UNCHANGED lock
                /\ result' = [result EXCEPT ![p] = IF problems[p] THEN @
                                                   ELSE IF usable THEN "ok" ELSE "unusable"]
        /\ pc' = [pc EXCEPT ![p] = "idle"]
  /\ UNCHANGED <<world, keys, store, command, rotate, want, todo, entry, problems,
                 count, recorded, touched>>

Crash(p) ==
  /\ crashes < MaxCrashes /\ pc[p] # "idle"
  /\ crashes' = crashes + 1
  /\ pc' = [pc EXCEPT ![p] = "idle"]
  /\ result' = [result EXCEPT ![p] = "none"]
  /\ UNCHANGED <<world, keys, store, lock, command, rotate, want, todo, entry,
                 problems, moves, runs, recorded, touched>>

(* The index serves another release, or another key for the id. *)
Move ==
  /\ moves < MaxMoves
  /\ moves' = moves + 1
  /\ \/ \E k \in Packages, r \in Signed :
          index[k] # r /\ index' = [index EXCEPT ![k] = r] /\ UNCHANGED served
     \/ \E key \in PubKeys \ {served} : served' = key /\ UNCHANGED index
  /\ UNCHANGED <<keys, store, lock, pc, proc, runs, crashes, recorded, touched>>

Step(p) ==
  \/ \E r \in Rotating : Add(p, r)
  \/ Get(p) \/ Choose(p) \/ ReadArchive(p) \/ ReadSignature(p) \/ Check(p)
  \/ LoadKey(p) \/ TruncateKey(p) \/ WriteKey(p) \/ Verify(p) \/ Put(p)
  \/ Finish(p) \/ Crash(p)

Next == (\E p \in Procs : Step(p)) \/ Move

Spec == Init /\ [][Next]_vars

-----------------------------------------------------------------------------
TypeOK ==
  /\ index \in [Packages -> Signed] /\ served \in PubKeys
  /\ keys \in PubKeys \cup {Nothing, Torn}
  /\ store \subseteq [content : Contents, bytes : Contents, signer : PubKeys,
                      over : Contents]
  /\ lock \in [Packages -> Contents \cup {Nothing}]
  /\ pc \in [Procs -> Points]
  /\ command \in [Procs -> {"none", "add", "get"}] /\ rotate \in [Procs -> BOOLEAN]
  /\ want \in [Procs -> [Packages -> Contents \cup {Nothing}]]
  /\ todo \in [Procs -> SUBSET Packages]
  /\ entry \in [Procs -> [bin : Contents \cup {Nothing}, hash : Contents \cup {Nothing},
                          signer : PubKeys \cup {Nothing}, over : Contents \cup {Nothing},
                          key : PubKeys \cup {Nothing}]]
  /\ problems \in [Procs -> BOOLEAN] /\ result \in [Procs -> Results]
  /\ moves \in 0 .. MaxMoves /\ runs \in 0 .. MaxRuns /\ crashes \in 0 .. MaxCrashes
  /\ recorded \subseteq PubKeys /\ touched \subseteq Procs

(* Whatever the index does between the reads of one fetch, a stored archive *)
(* is the one the lock named and its publisher signed that content, under a *)
(* key that was pinned for its id or has been put on record since (trust on *)
(* first use).                                                              *)
ContentIsSigned  == \A e \in store : e.bytes = e.content /\ e.over = e.content
SignerIsOnRecord == \A e \in store : e.signer \in recorded
StoredIsSigned   == ContentIsSigned /\ SignerIsOnRecord

(* Where a key was pinned before the first command, it is replaced only by  *)
(* a command told to rotate: the step that takes it away is of one          *)
(* ("re-records explicitly").  Two first fetches may each find no key.      *)
RotationIsExplicit ==
  [][\A p \in Procs :
       pc[p] \in {"truncate", "write"} /\ pc'[p] # pc[p] /\ keys' # keys
         /\ keys \in PubKeys => rotate[p]]_vars

(* add writes the lock only after every fetch succeeded, so what the lock   *)
(* names is in the store.                                                   *)
LockedIsStored == lock # Nowhere => \A k \in Packages : Ready(lock[k])

(* Claim of cmd_add's comments and tests: a failed add writes nothing, the  *)
(* publisher's key included.                                                *)
FailedAddWritesNothing ==
  \A p \in Procs :
    command[p] = "add" /\ result[p] \in {"moved", "hash", "keychanged", "signature"}
      => p \notin touched

(* Claim of the message "publisher key mismatch (key changed)": some other  *)
(* key was recorded for the id before.                                      *)
MismatchMeansChanged ==
  \A p \in Procs : result[p] = "keychanged" => recorded \ {entry[p].key} # {}
=============================================================================

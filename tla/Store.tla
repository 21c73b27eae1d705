------------------------------- MODULE Store -------------------------------
(***************************************************************************)
(* The content store that every `noct` process of a machine shares         *)
(* (noct-cli/src/store.rs), with the gate that decides what a build may    *)
(* compile (registry.rs), `noct clean` (cmd_clean.rs) and the by-name      *)
(* lookup of a package's tree (compiler/src/modules.rs).                   *)
(*                                                                         *)
(* There is no lock: processes meet on the disk alone, and an action is    *)
(* one access to it.  Stop is a crash, a kill or an I/O error anywhere.    *)
(*                                                                         *)
(* A content hash is the function from a tree's files to their bytes, a    *)
(* fingerprint the function to their (length, mtime) stamps, 0 for a file  *)
(* that is not there.  Every write gets a stamp never seen before.         *)
(***************************************************************************)
EXTENDS Integers

CONSTANTS
  Procs,    \* noct processes
  Cleaners, \* those that may run `noct clean`
  Keys,     \* locked (version, content) entries of one package
  Files,    \* the files of its tree
  NoRecord, \* absence of a record, of a memo entry, of a build
  MaxClock  \* bound: unpacks and edits

ASSUME StoreAssumption ==
  /\ Cleaners \subseteq Procs
  /\ Files # {}
  /\ MaxClock \in Nat

Bytes   == {"none", "true", "edited"}
Records == [tree : [Files -> Bytes], fp : [Files -> Nat]]

ASSUME NoRecordAssumption ==
  NoRecord \notin Records \cup [Files -> Nat]

\* The bytes and stamps of an empty tree, and the bytes of the archive's tree.
NoBytes  == [f \in Files |-> "none"]
NoStamps == [f \in Files |-> 0]
Genuine  == [f \in Files |-> "true"]

VARIABLES
  archive,    \* archives/<hex>.pkg is there
  dir,        \* trees/<hex>: 0 when absent, else which unpack made it
  data, stamp,\* bytes and stamps of the files in it
  record,     \* index/<hex>.record: the tree hash and the fingerprint
  point,      \* points/<name>-<version>.point is there
  clock,      \* the last stamp given out
  pc, job,    \* where a process is, and the lock entry it works for
  caller,     \* who called verify_tree: "gate", "put" or "final"
  memo,       \* MEMO of each process
  note, listing, sum, \* verify_tree: record read, files listed, bytes hashed
  left,       \* files still to be unpacked, to be listed or to be hashed
  temp,       \* bytes in the temp sibling put unpacks into
  ticket,     \* the stamp of that unpack
  mine,       \* put: the record of what it unpacked
  kept,       \* put: placed = false
  reverify,   \* NOCT_STORE_REVERIFY is set for the process
  doomed,     \* the directory remove_dir_all has opened
  built,      \* what a build compiled last
  alone       \* history: nothing else has moved since the process began

disk   == <<archive, dir, data, stamp, record, point>>
verify == <<caller, note, listing, sum, left>>
put    == <<temp, ticket, mine, kept, doomed>>
vars   == <<disk, clock, pc, job, reverify, memo, verify, put, built, alone>>

Init ==
  /\ archive = [k \in Keys |-> FALSE]
  /\ dir = [k \in Keys |-> 0]
  /\ data = [k \in Keys |-> NoBytes]
  /\ stamp = [k \in Keys |-> NoStamps]
  /\ record = [k \in Keys |-> NoRecord]
  /\ point = [k \in Keys |-> FALSE]
  /\ clock = 0
  /\ pc = [p \in Procs |-> "idle"]
  /\ job \in [Procs -> Keys]
  /\ caller = [p \in Procs |-> "gate"]
  /\ memo = [p \in Procs |-> [k \in Keys |-> NoRecord]]
  /\ note = [p \in Procs |-> NoRecord]
  /\ listing = [p \in Procs |-> NoStamps]
  /\ sum = [p \in Procs |-> NoBytes]
  /\ reverify \in [Procs -> BOOLEAN]
  /\ left = [p \in Procs |-> {}]
  /\ temp = [p \in Procs |-> NoBytes]
  /\ ticket = [p \in Procs |-> 0]
  /\ mine = [p \in Procs |-> NoRecord]
  /\ kept = [p \in Procs |-> FALSE]
  /\ doomed = [p \in Procs |-> 0]
  /\ built = [p \in Procs |-> NoRecord]
  /\ alone = [p \in Procs |-> FALSE]

Goto(p, step) == pc' = [pc EXCEPT ![p] = step]

\* A step of p within its job: every other process is no longer alone.
Alone(p) == alone' = [q \in Procs |-> q = p /\ alone[p]]
Acts(p)  == Alone(p) /\ UNCHANGED <<job, built, reverify>>

-----------------------------------------------------------------------------
(***************************************************************************)
(* Store::verify_tree: the stored record against the tree on disk          *)
(***************************************************************************)

ForgetVerify(p) ==
  /\ note' = [note EXCEPT ![p] = NoRecord]
  /\ listing' = [listing EXCEPT ![p] = NoStamps]
  /\ sum' = [sum EXCEPT ![p] = NoBytes]
  /\ left' = [left EXCEPT ![p] = {}]

\* A good tree: the gate lets the build go on, put keeps it and drops its own.
Verified(p) ==
  /\ ForgetVerify(p)
  /\ IF caller[p] = "put"
     THEN /\ Goto(p, "seal")
          /\ kept' = [kept EXCEPT ![p] = TRUE]
          /\ temp' = [temp EXCEPT ![p] = NoBytes]
     ELSE Goto(p, "compile") /\ UNCHANGED <<kept, temp>>
  /\ UNCHANGED <<caller, ticket, mine, doomed>>

\* A tree that does not verify: the gate fetches, put replaces it, and after
\* a fetch it is an error.  (Mutant: put does not remove the drifted tree.)
RejectedTreeStays(p) ==
  /\ ForgetVerify(p)
  /\ Goto(p, CASE caller[p] = "gate" -> "archive"
               [] caller[p] = "put" -> "place"
               [] OTHER -> "failed")
  /\ UNCHANGED <<caller, put>>

Rejected(p) ==
  /\ ForgetVerify(p)
  /\ Goto(p, CASE caller[p] = "gate" -> "archive"
               [] caller[p] = "put" -> "open"
               [] OTHER -> "failed")
  /\ UNCHANGED <<caller, put>>

Memoize(p, fp) == memo' = [memo EXCEPT ![p][job[p]] = fp]

\* Store::state: both halves and the pointer must be there.
Probe(p) ==
  /\ pc[p] = "probe"
  /\ IF archive[job[p]] /\ dir[job[p]] # 0 /\ point[job[p]]
     THEN Goto(p, "record") /\ UNCHANGED <<verify, put>>
     ELSE Rejected(p)
  /\ UNCHANGED <<disk, clock, memo>>
  /\ Acts(p)

ReadRecord(p) ==
  /\ pc[p] = "record"
  /\ IF record[job[p]] = NoRecord
     THEN Rejected(p)
     ELSE /\ note' = [note EXCEPT ![p] = record[job[p]]]
          /\ Goto(p, "list")
          /\ UNCHANGED <<caller, listing, sum, left, put>>
  /\ UNCHANGED <<disk, clock, memo>>
  /\ Acts(p)

\* collect_files opens the tree ...
OpenTree(p) ==
  /\ pc[p] = "list"
  /\ IF dir[job[p]] = 0
     THEN Rejected(p)
     ELSE /\ left' = [left EXCEPT ![p] = Files]
          /\ Goto(p, "stat")
          /\ UNCHANGED <<caller, note, listing, sum, put>>
  /\ UNCHANGED <<disk, clock, memo>>
  /\ Acts(p)

\* ... and takes the metadata of one file after the other; a file that is not
\* there is not listed, or an error if it went between its name and its stat.
\* (A stat inside a directory that was renamed away after it was opened finds
\* what the same stat found before the rename.)
StatFile(p, f) ==
  /\ pc[p] = "stat"
  /\ f \in left[p]
  /\ \/ /\ listing' = [listing EXCEPT ![p][f] = stamp[job[p]][f]]
        /\ left' = [left EXCEPT ![p] = @ \ {f}]
        /\ UNCHANGED <<pc, caller, note, sum, put>>
     \/ data[job[p]][f] = "none" /\ Rejected(p)
  /\ UNCHANGED <<disk, clock, memo>>
  /\ Acts(p)

\* The full hash, when NOCT_STORE_REVERIFY asks for it or the fingerprint is
\* neither the memoized nor the recorded one.
StartHashing(p) ==
  /\ left' = [left EXCEPT ![p] = {f \in Files : listing[p][f] # 0}]
  /\ Goto(p, "read")
  /\ UNCHANGED <<caller, note, listing, sum, put, memo>>

CompareListing(p) ==
  /\ pc[p] = "stat"
  /\ left[p] = {}
  /\ IF ~ reverify[p] /\ listing[p] \in {memo[p][job[p]], note[p].fp}
     THEN Verified(p) /\ Memoize(p, listing[p])
     ELSE StartHashing(p)
  /\ UNCHANGED <<disk, clock>>
  /\ Acts(p)

\* content_hash reads one file after the other, by path.
ReadFile(p, f) ==
  /\ pc[p] = "read"
  /\ f \in left[p]
  /\ IF data[job[p]][f] = "none"
     THEN Rejected(p)
     ELSE /\ sum' = [sum EXCEPT ![p][f] = data[job[p]][f]]
          /\ left' = [left EXCEPT ![p] = @ \ {f}]
          /\ UNCHANGED <<pc, caller, note, listing, put>>
  /\ UNCHANGED <<disk, clock, memo>>
  /\ Acts(p)

\* The hash decides; the record gets the fingerprint of the listing it began
\* with.  (Mutants: the fingerprint of now; no comparison.)
MatchesAnything(p) == TRUE
Matches(p)         == sum[p] = note[p].tree
RefreshedLate(p)   == [tree |-> sum[p], fp |-> stamp[job[p]]]
Refreshed(p)       == [tree |-> sum[p], fp |-> listing[p]]

Judge(p) ==
  /\ pc[p] = "read"
  /\ left[p] = {}
  /\ IF ~ Matches(p)
     THEN Rejected(p) /\ UNCHANGED <<record, memo>>
     ELSE /\ Verified(p)
          /\ IF reverify[p]
             THEN Memoize(p, NoRecord) /\ UNCHANGED record
             ELSE /\ record' = [record EXCEPT ![job[p]] = Refreshed(p)]
                  /\ Memoize(p, listing[p])
  /\ UNCHANGED <<archive, dir, data, stamp, point, clock>>
  /\ Acts(p)

-----------------------------------------------------------------------------
(***************************************************************************)
(* Store::put, after fetch_locked has checked the archive                  *)
(***************************************************************************)

PutArchive(p) ==
  /\ pc[p] = "archive"
  /\ clock < MaxClock
  /\ clock' = clock + 1
  /\ archive' = [archive EXCEPT ![job[p]] = TRUE]
  /\ ticket' = [ticket EXCEPT ![p] = clock + 1]
  /\ left' = [left EXCEPT ![p] = Files]
  /\ Goto(p, "unpack")
  /\ UNCHANGED <<dir, data, stamp, record, point, memo, caller, note, listing,
                 sum, temp, mine, kept, doomed>>
  /\ Acts(p)

\* create_dir_all makes the temp directory anew if it has gone.
UnpackFile(p, f) ==
  /\ pc[p] = "unpack"
  /\ f \in left[p]
  /\ temp' = [temp EXCEPT ![p][f] = "true"]
  /\ left' = [left EXCEPT ![p] = @ \ {f}]
  /\ UNCHANGED <<disk, clock, pc, memo, caller, note, listing, sum,
                 ticket, mine, kept, doomed>>
  /\ Acts(p)

TempStamps(p) == [f \in Files |-> IF temp[p][f] = "none" THEN 0 ELSE ticket[p]]

\* walk_hashes: the record will say what lies in the temp tree now.  (Mutant:
\* what lies in the archive.)
UnpackedAsPacked(p) == [tree |-> Genuine, fp |-> TempStamps(p)]
Unpacked(p)         == [tree |-> temp[p], fp |-> TempStamps(p)]

HashTemp(p) ==
  /\ pc[p] = "unpack"
  /\ left[p] = {}
  /\ IF temp[p] = NoBytes
     THEN Goto(p, "failed") /\ UNCHANGED mine
     ELSE /\ mine' = [mine EXCEPT ![p] = Unpacked(p)]
          /\ Goto(p, "dest")
  /\ UNCHANGED <<disk, clock, memo, verify, temp, ticket, kept, doomed>>
  /\ Acts(p)

ProbeDest(p) ==
  /\ pc[p] = "dest"
  /\ caller' = [caller EXCEPT ![p] = "put"]
  /\ Goto(p, IF dir[job[p]] = 0 THEN "place" ELSE "record")
  /\ UNCHANGED <<disk, clock, memo, note, listing, sum, left, put>>
  /\ Acts(p)

\* remove_dir_all works on the directory it opened, file by file ...
OpenDrifted(p) ==
  /\ pc[p] = "open"
  /\ IF dir[job[p]] = 0
     THEN Goto(p, "failed") /\ UNCHANGED doomed
     ELSE /\ Goto(p, "remove")
          /\ doomed' = [doomed EXCEPT ![p] = dir[job[p]]]
  /\ UNCHANGED <<disk, clock, memo, verify, temp, ticket, mine, kept>>
  /\ Acts(p)

RemoveFile(p, f) ==
  /\ pc[p] = "remove"
  /\ dir[job[p]] = doomed[p]
  /\ data[job[p]][f] # "none"
  /\ data' = [data EXCEPT ![job[p]][f] = "none"]
  /\ stamp' = [stamp EXCEPT ![job[p]][f] = 0]
  /\ UNCHANGED <<archive, dir, record, point, clock, pc, memo, verify, put>>
  /\ Acts(p)

\* ... and then takes away the name, which fails on a directory with files.
\* (Mutant: it goes with the files in it.)
EmptiedOrNot(p) == TRUE
Emptied(p)      == data[job[p]] = NoBytes

RemoveDir(p) ==
  /\ pc[p] = "remove"
  /\ \/ /\ Emptied(p)
        /\ dir' = [dir EXCEPT ![job[p]] = 0]
        /\ Goto(p, "place")
     \/ /\ data[job[p]] # NoBytes
        /\ dir[job[p]] # doomed[p]
        /\ Goto(p, "failed")
        /\ UNCHANGED dir
  /\ doomed' = [doomed EXCEPT ![p] = 0]
  /\ UNCHANGED <<archive, data, stamp, record, point, clock, memo, verify, temp,
                 ticket, mine, kept>>
  /\ Acts(p)

\* Store::place: rename, onto nothing or an empty directory; when it fails
\* because somebody else's tree is there, that tree is taken as it is.
Place(p) ==
  /\ pc[p] = "place"
  /\ \/ /\ temp[p] # NoBytes
        /\ data[job[p]] = NoBytes
        /\ dir' = [dir EXCEPT ![job[p]] = ticket[p]]
        /\ data' = [data EXCEPT ![job[p]] = temp[p]]
        /\ stamp' = [stamp EXCEPT ![job[p]] = TempStamps(p)]
        /\ Goto(p, "seal")
     \/ /\ temp[p] = NoBytes \/ data[job[p]] # NoBytes
        /\ Goto(p, IF dir[job[p]] = 0 THEN "failed" ELSE "seal")
        /\ UNCHANGED <<dir, data, stamp>>
  /\ temp' = [temp EXCEPT ![p] = NoBytes]
  /\ UNCHANGED <<archive, record, point, clock, memo, verify, ticket, mine, kept,
                 doomed>>
  /\ Acts(p)

\* mark_tree_readonly fails on a tree that has gone; the flag deters, no more.
Seal(p) ==
  /\ pc[p] = "seal"
  /\ Goto(p, CASE dir[job[p]] = 0 -> "failed"
               [] kept[p] -> "point"
               [] OTHER -> "index")
  /\ UNCHANGED <<disk, clock, memo, verify, put>>
  /\ Acts(p)

WriteRecord(p) ==
  /\ pc[p] = "index"
  /\ record' = [record EXCEPT ![job[p]] = mine[p]]
  /\ Goto(p, "point")
  /\ UNCHANGED <<archive, dir, data, stamp, point, clock, memo, verify, put>>
  /\ Acts(p)

\* memoize and the pointer end put; then the gate reads the disk again.
WritePoint(p) ==
  /\ pc[p] = "point"
  /\ Memoize(p, mine[p].fp)
  /\ point' = [point EXCEPT ![job[p]] = TRUE]
  /\ mine' = [mine EXCEPT ![p] = NoRecord]
  /\ kept' = [kept EXCEPT ![p] = FALSE]
  /\ ticket' = [ticket EXCEPT ![p] = 0]
  /\ caller' = [caller EXCEPT ![p] = "final"]
  /\ Goto(p, "probe")
  /\ UNCHANGED <<archive, dir, data, stamp, record, clock, note, listing, sum,
                 left, temp, doomed>>
  /\ Acts(p)

-----------------------------------------------------------------------------
(***************************************************************************)
(* The gate and the build behind it; noct clean; the world outside         *)
(***************************************************************************)

Begin(p, k) ==
  /\ pc[p] \in {"idle", "failed"}
  /\ job' = [job EXCEPT ![p] = k]
  /\ caller' = [caller EXCEPT ![p] = "gate"]
  /\ built' = [built EXCEPT ![p] = NoRecord]
  /\ Goto(p, "probe")
  /\ temp' = [temp EXCEPT ![p] = NoBytes]
  /\ ticket' = [ticket EXCEPT ![p] = 0]
  /\ mine' = [mine EXCEPT ![p] = NoRecord]
  /\ kept' = [kept EXCEPT ![p] = FALSE]
  /\ alone' = [q \in Procs |-> q = p]
  /\ UNCHANGED <<disk, clock, reverify, memo, note, listing, sum, left, doomed>>

\* pointer_tree_candidates: the trees of every pointer of the package, in
\* directory order; the first that has the module is compiled.
Candidates == {k \in Keys : point[k] /\ data[k] # NoBytes}

Compile(p) ==
  /\ pc[p] = "compile"
  /\ \/ \E k \in Candidates :
          built' = [built EXCEPT ![p] = [key |-> k, tree |-> data[k]]]
     \/ /\ Candidates = {}
        /\ UNCHANGED built
  /\ Goto(p, "idle")
  /\ Alone(p)
  /\ UNCHANGED <<disk, clock, job, reverify, memo, verify, put>>

\* cmd_clean: each of the four directories is renamed away as a whole, in
\* this order; temp siblings lie among the trees.
CleanBegin(p) ==
  /\ p \in Cleaners
  /\ pc[p] = "idle"
  /\ Goto(p, "clean archives")
  /\ UNCHANGED <<disk, clock, memo, verify, put>>
  /\ Acts(p)

CleanArchives(p) ==
  /\ pc[p] = "clean archives"
  /\ archive' = [k \in Keys |-> FALSE]
  /\ Goto(p, "clean trees")
  /\ UNCHANGED <<dir, data, stamp, record, point, clock, memo, verify, put>>
  /\ Acts(p)

CleanTrees(p) ==
  /\ pc[p] = "clean trees"
  /\ dir' = [k \in Keys |-> 0]
  /\ data' = [k \in Keys |-> NoBytes]
  /\ stamp' = [k \in Keys |-> NoStamps]
  /\ temp' = [q \in Procs |-> NoBytes]
  /\ Goto(p, "clean index")
  /\ UNCHANGED <<archive, record, point, clock, memo, verify, ticket, mine, kept,
                 doomed>>
  /\ Acts(p)

CleanIndex(p) ==
  /\ pc[p] = "clean index"
  /\ record' = [k \in Keys |-> NoRecord]
  /\ Goto(p, "clean points")
  /\ UNCHANGED <<archive, dir, data, stamp, point, clock, memo, verify, put>>
  /\ Acts(p)

CleanPoints(p) ==
  /\ pc[p] = "clean points"
  /\ point' = [k \in Keys |-> FALSE]
  /\ Goto(p, "idle")
  /\ UNCHANGED <<archive, dir, data, stamp, record, clock, memo, verify, put>>
  /\ Acts(p)

\* A crash, a kill, an I/O error or a refused fetch: the process is gone with
\* its memo, and the next one has an environment of its own.  What it left in
\* trees/ under a temp name is never looked at.
Stop(p) ==
  /\ pc[p] # "idle"
  /\ Goto(p, "idle")
  /\ ForgetVerify(p)
  /\ memo' = [memo EXCEPT ![p] = [k \in Keys |-> NoRecord]]
  /\ temp' = [temp EXCEPT ![p] = NoBytes]
  /\ ticket' = [ticket EXCEPT ![p] = 0]
  /\ mine' = [mine EXCEPT ![p] = NoRecord]
  /\ kept' = [kept EXCEPT ![p] = FALSE]
  /\ doomed' = [doomed EXCEPT ![p] = 0]
  /\ \E b \in BOOLEAN : reverify' = [reverify EXCEPT ![p] = b]
  /\ Alone(p)
  /\ UNCHANGED <<disk, clock, job, built, caller>>

\* Somebody rewrites a file of a tree (read-only only deters): other bytes,
\* the same again (touch), or the right ones back.
Edit(k, f, bytes) ==
  /\ data[k][f] # "none"
  /\ clock < MaxClock
  /\ clock' = clock + 1
  /\ data' = [data EXCEPT ![k][f] = bytes]
  /\ stamp' = [stamp EXCEPT ![k][f] = clock + 1]
  /\ alone' = [q \in Procs |-> FALSE]
  /\ UNCHANGED <<archive, dir, record, point, pc, job, reverify, memo, verify, put,
                 built>>

-----------------------------------------------------------------------------
VerifyStep(p) ==
  \/ Probe(p)
  \/ ReadRecord(p)
  \/ OpenTree(p)
  \/ \E f \in Files : StatFile(p, f)
  \/ CompareListing(p)
  \/ \E f \in Files : ReadFile(p, f)
  \/ Judge(p)

PutStep(p) ==
  \/ PutArchive(p)
  \/ \E f \in Files : UnpackFile(p, f)
  \/ HashTemp(p)
  \/ ProbeDest(p)
  \/ OpenDrifted(p)
  \/ \E f \in Files : RemoveFile(p, f)
  \/ RemoveDir(p)
  \/ Place(p)
  \/ Seal(p)
  \/ WriteRecord(p)
  \/ WritePoint(p)

CleanStep(p) ==
  \/ CleanBegin(p)
  \/ CleanArchives(p)
  \/ CleanTrees(p)
  \/ CleanIndex(p)
  \/ CleanPoints(p)

Next ==
  \/ \E p \in Procs :
       \/ \E k \in Keys : Begin(p, k)
       \/ VerifyStep(p)
       \/ PutStep(p)
       \/ Compile(p)
       \/ CleanStep(p)
       \/ Stop(p)
  \/ \E k \in Keys, f \in Files, bytes \in {"true", "edited"} :
       Edit(k, f, bytes)

Spec == Init /\ [][Next]_vars

-----------------------------------------------------------------------------
(***************************************************************************)
(* Properties                                                              *)
(***************************************************************************)

Steps == {"idle", "probe", "record", "list", "stat", "read", "archive",
          "unpack", "dest", "open", "remove", "place", "seal", "index", "point",
          "compile", "failed", "clean archives", "clean trees", "clean index",
          "clean points"}

DiskOK ==
  /\ archive \in [Keys -> BOOLEAN]
  /\ dir \in [Keys -> 0 .. MaxClock]
  /\ data \in [Keys -> [Files -> Bytes]]
  /\ stamp \in [Keys -> [Files -> 0 .. MaxClock]]
  /\ record \in [Keys -> Records \cup {NoRecord}]
  /\ point \in [Keys -> BOOLEAN]
  /\ clock \in 0 .. MaxClock
  /\ \A k \in Keys :
       /\ dir[k] = 0 => data[k] = NoBytes
       /\ \A f \in Files : data[k][f] = "none" <=> stamp[k][f] = 0

LocalsOK ==
  /\ pc \in [Procs -> Steps]
  /\ job \in [Procs -> Keys]
  /\ caller \in [Procs -> {"gate", "put", "final"}]
  /\ memo \in [Procs -> [Keys -> [Files -> Nat] \cup {NoRecord}]]
  /\ note \in [Procs -> Records \cup {NoRecord}]
  /\ listing \in [Procs -> [Files -> 0 .. MaxClock]]
  /\ sum \in [Procs -> [Files -> Bytes]]
  /\ left \in [Procs -> SUBSET Files]
  /\ temp \in [Procs -> [Files -> Bytes]]
  /\ ticket \in [Procs -> 0 .. MaxClock]
  /\ mine \in [Procs -> Records \cup {NoRecord}]

FlagsOK ==
  /\ kept \in [Procs -> BOOLEAN]
  /\ reverify \in [Procs -> BOOLEAN]
  /\ doomed \in [Procs -> 0 .. MaxClock]
  /\ built \in [Procs -> [key : Keys, tree : [Files -> Bytes]] \cup {NoRecord}]
  /\ alone \in [Procs -> BOOLEAN]

\* The shape of the store and of the processes' locals; a directory that is
\* not there has no files, and a file that is not there has no stamp.
TypeOK == DiskOK /\ LocalsOK /\ FlagsOK

\* The stat walk may stand for the content hash: whoever wrote the record, and
\* whatever was edited, removed, replaced or cleaned while it was being
\* computed, a tree whose fingerprint is the recorded one has the recorded
\* bytes.  It rests on taking the listing BEFORE the bytes are read.
FastPathIsSound ==
  \A k \in Keys :
    dir[k] # 0 /\ record[k] # NoRecord /\ record[k].fp = stamp[k]
      => record[k].tree = data[k]

\* The memo is as good: a memoized fingerprint never stands for other bytes
\* than the archive's ("it can never make a tree look verified that was not").
MemoIsSound ==
  Cleaners = {} =>
    \A p \in Procs, k \in Keys :
      dir[k] # 0 /\ memo[p][k] = stamp[k] => data[k] = Genuine

\* The trust root: while nobody cleans the store a record attests the bytes
\* of the archive, through crashes, drift, refreshes and racing fetches.
RecordsAttestTheArchive ==
  \A k \in Keys : record[k] # NoRecord => record[k].tree = Genuine

TrustRootHolds == Cleaners = {} => RecordsAttestTheArchive

\* A tree that is accepted, by the stat walk against a record read some time
\* ago or a memo, or by a full hash, is the archive's but for files written
\* after the walk passed them: no older change of any file, by whomever and
\* whenever, gets past a verification.
AcceptedTreeIsGenuine ==
  [][Cleaners = {} =>
       \A p \in Procs : pc[p] \in {"stat", "read"} /\ pc'[p] \in {"compile", "seal"}
         => \A f \in Files :
              stamp[job[p]][f] = listing[p][f] => data[job[p]][f] = "true"]_vars

\* Wherever earlier processes crashed, and whatever was edited before, a
\* process that then runs undisturbed and may fetch ends with a usable tree,
\* as long as nobody cleans the store.
RecoversWhenUndisturbed ==
  Cleaners = {} => \A p \in Procs : pc[p] = "failed" => ~ alone[p]

(***************************************************************************)
(* The inductive invariant behind the theorems of StoreProofs              *)
(***************************************************************************)

\* Stamp t marks no file and is in no fingerprint anybody may compare with.
Free(t) ==
  /\ \A k \in Keys, f \in Files : stamp[k][f] # t
  /\ \A k \in Keys : record[k] # NoRecord => \A f \in Files : record[k].fp[f] # t
  /\ \A p \in Procs : note[p] # NoRecord => \A f \in Files : note[p].fp[f] # t
  /\ \A p \in Procs, f \in Files : listing[p][f] # t
  /\ \A p \in Procs, k \in Keys :
       memo[p][k] # NoRecord => \A f \in Files : memo[p][k][f] # t

ClockInv ==
  /\ \A t \in 1 .. MaxClock : t > clock => Free(t)
  /\ \A p \in Procs : ticket[p] <= clock
  /\ \A p, q \in Procs : p # q /\ ticket[p] = ticket[q] => ticket[p] = 0

InPut(p) ==
  \/ pc[p] \in {"dest", "open", "remove", "place", "seal", "index", "point"}
  \/ pc[p] \in {"record", "list", "stat", "read"} /\ caller[p] = "put"

BeforePut(p) ==
  \/ pc[p] = "archive"
  \/ pc[p] \in {"probe", "record", "list", "stat", "read"} /\ caller[p] # "put"

\* The stamp of an unpack is its own until the tree has been placed.
TempOf(p) ==
  /\ pc[p] = "unpack" \/ temp[p] # NoBytes => ticket[p] # 0 /\ Free(ticket[p])
  /\ pc[p] \in {"seal", "index", "point"} => temp[p] = NoBytes
  /\ pc[p] = "probe" => caller[p] # "put"
  /\ BeforePut(p) => temp[p] = NoBytes /\ mine[p] = NoRecord
  /\ pc[p] = "unpack" => mine[p] = NoRecord
  /\ InPut(p) => mine[p] # NoRecord
  /\ mine[p] # NoRecord =>
       /\ ticket[p] # 0
       /\ temp[p] # NoBytes => mine[p].tree = temp[p]
       /\ \A f \in Files :
            mine[p].fp[f] = IF mine[p].tree[f] = "none" THEN 0 ELSE ticket[p]

\* File by file, a record whose stamp is still on the disk has the file's bytes.
Agrees(r, k) ==
  r # NoRecord =>
    \A f \in Files : /\ r.fp[f] = 0 <=> r.tree[f] = "none"
                     /\ r.fp[f] = stamp[k][f] => r.tree[f] = data[k][f]

\* And so has a hash in progress, for the files it has read.
HashOf(p) ==
  /\ note[p] # NoRecord <=> pc[p] \in {"list", "stat", "read"}
  /\ pc[p] # "read" => sum[p] = NoBytes
  /\ pc[p] = "read" => \A f \in Files :
       IF f \in left[p]
       THEN listing[p][f] # 0 /\ sum[p][f] = "none"
       ELSE /\ listing[p][f] = 0 <=> sum[p][f] = "none"
            /\ listing[p][f] = stamp[job[p]][f] => sum[p][f] = data[job[p]][f]

ProcInv(p) ==
  /\ TempOf(p)
  /\ HashOf(p)
  /\ Agrees(note[p], job[p])
  /\ Agrees(mine[p], job[p])

FastPathInv ==
  /\ TypeOK
  /\ ClockInv
  /\ \A k \in Keys : Agrees(record[k], k)
  /\ \A p \in Procs : ProcInv(p)

\* Nobody cleans: what a process notes, unpacks or memoizes is genuine.
TrustOf(p) ==
  /\ pc[p] \notin {"clean archives", "clean trees", "clean index", "clean points"}
  /\ note[p] # NoRecord => note[p].tree = Genuine
  /\ mine[p] # NoRecord => mine[p].tree = Genuine
  /\ pc[p] = "unpack" => \A f \in Files \ left[p] : temp[p][f] = "true"
  /\ \A k \in Keys : memo[p][k] # NoRecord =>
       \A f \in Files : /\ memo[p][k][f] # 0
                        /\ memo[p][k][f] = stamp[k][f] => data[k][f] = "true"

TrustInv ==
  Cleaners = {} => RecordsAttestTheArchive /\ \A p \in Procs : TrustOf(p)

IInv == FastPathInv /\ TrustInv

(***************************************************************************)
(* What the documentation says and the code does not do                    *)
(***************************************************************************)

\* put: "never a half-verified tree a build will read".  A put that found no
\* record removes the tree file by file, after another put recorded it.
BuildsReadWholeTrees ==
  \A p \in Procs : built[p] # NoRecord => \A f \in Files : built[p].tree[f] # "none"

\* store.rs: "The build re-verifies the tree against that record before
\* compiling from it".  The gate verifies the locked tree, the resolver takes
\* any tree of the package.
BuildsCompileTheLockedTree ==
  \A p \in Procs : built[p] # NoRecord => built[p].key = job[p]
=============================================================================

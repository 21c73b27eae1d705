---------------------------- MODULE StoreProofs -----------------------------
(***************************************************************************)
(* Theorems about Store, for every number of processes, entries and files. *)
(*                                                                         *)
(* A step is a step of one process or an edit.  Whoever does not take it   *)
(* is a bystander: its locals stay, and what happens to the disk under it  *)
(* is one of three things, file by file (CellsKept).  Frame shows once     *)
(* that this keeps the bystanders' invariant; the lemmas of the actions    *)
(* are then about the process that acts.                                   *)
(***************************************************************************)
EXTENDS Store, TLAPS

ProcStep(p) ==
  \/ \E k \in Keys : Begin(p, k)
  \/ VerifyStep(p)
  \/ PutStep(p)
  \/ Compile(p)
  \/ CleanStep(p)
  \/ Stop(p)

OneActs(Q) == \A p, q \in Procs \ Q : p = q

\* The locals of the bystanders Q.
LocalsKept(Q) ==
  \A q \in Q :
    /\ pc'[q] = pc[q] /\ caller'[q] = caller[q] /\ job'[q] = job[q]
    /\ note'[q] = note[q] /\ listing'[q] = listing[q] /\ sum'[q] = sum[q]
    /\ left'[q] = left[q] /\ memo'[q] = memo[q]
    /\ mine'[q] = mine[q] /\ ticket'[q] = ticket[q]
    /\ temp'[q] \in {temp[q], NoBytes}

\* A file stays, goes, or gets a stamp that nobody can be comparing with.
CellsKept(Q) ==
  \A k \in Keys, f \in Files :
    \/ stamp'[k][f] = stamp[k][f] /\ data'[k][f] = data[k][f]
    \/ stamp'[k][f] = 0 /\ data'[k][f] = "none"
    \/ /\ stamp'[k][f] # 0 /\ Free(stamp'[k][f])
       /\ \A q \in Q : stamp'[k][f] # ticket[q]

\* Free stamps stay free, but for x.
MarksKept(x) == \A t \in 1 .. MaxClock : t # x /\ Free(t) => Free(t)'

ClockKept(Q) ==
  /\ clock' \in {clock, clock + 1}
  /\ \A p \in Procs \ Q :
       \/ ticket'[p] \in {0, ticket[p]}
       \/ ticket'[p] = clock' /\ clock' = clock + 1

\* What a step of p does for everybody.
StepOK(p) == FastPathInv' /\ LocalsKept(Procs \ {p}) /\ CellsKept(Procs \ {p})
EditOK    == FastPathInv' /\ CellsKept(Procs)

\* What the clock, the records and the bystanders keep.
LEMMA Frame ==
  ASSUME FastPathInv, NEW Q \in SUBSET Procs, NEW x \in Nat,
         OneActs(Q), TypeOK', LocalsKept(Q), CellsKept(Q), MarksKept(x), ClockKept(Q),
         x <= clock', \A q \in Q : ticket[q] # 0 => x # ticket[q],
         \A k \in Keys : Agrees(record[k], k)',
         \A p \in Procs \ Q : ProcInv(p)'
  PROVE  FastPathInv'
  <1>1. /\ MaxClock \in Nat /\ clock \in 0 .. MaxClock /\ clock' \in 0 .. MaxClock
        /\ \A p \in Procs : ticket[p] \in 0 .. MaxClock /\ ticket'[p] \in 0 .. MaxClock
    BY StoreAssumption DEF FastPathInv, TypeOK, DiskOK, LocalsOK
  <1>2. ClockInv'
    <2>1. \A t \in 1 .. MaxClock : t > clock' => Free(t)'
      BY <1>1 DEF FastPathInv, ClockInv, MarksKept, ClockKept
    <2>2. \A p \in Procs : ticket'[p] <= clock'
      BY <1>1 DEF FastPathInv, ClockInv, LocalsKept, ClockKept
    <2>3. \A p, q \in Procs : p # q /\ ticket'[p] = ticket'[q] => ticket'[p] = 0
      BY <1>1 DEF FastPathInv, ClockInv, LocalsKept, ClockKept, OneActs
    <2> QED BY <2>1, <2>2, <2>3 DEF ClockInv
  <1>3. ASSUME NEW q \in Q PROVE ProcInv(q)'
    <2>1. ProcInv(q) /\ job[q] \in Keys /\ q \in Procs
      BY DEF FastPathInv, TypeOK, LocalsOK
    <2>2. TempOf(q)'
      <3>1. ticket[q] # 0 /\ Free(ticket[q]) => Free(ticket[q])'
        BY <1>1, <2>1 DEF MarksKept, LocalsKept
      <3>2. /\ InPut(q)' <=> InPut(q)
            /\ BeforePut(q)' <=> BeforePut(q)
        BY <2>1 DEF LocalsKept, InPut, BeforePut
      <3> QED BY <2>1, <3>1, <3>2 DEF ProcInv, TempOf, LocalsKept
    <2>3. HashOf(q)'
      <3>1. \A f \in Files : listing[q][f] = stamp'[job[q]][f] =>
              \/ listing[q][f] = stamp[job[q]][f] /\ data'[job[q]][f] = data[job[q]][f]
              \/ listing[q][f] = 0 /\ data'[job[q]][f] = "none"
        BY <2>1 DEF CellsKept, Free
      <3> QED BY <2>1, <3>1 DEF ProcInv, HashOf, LocalsKept
    <2>4. Agrees(note[q], job[q])'
      <3>1. note[q] # NoRecord => \A f \in Files : note[q].fp[f] = stamp'[job[q]][f] =>
              \/ note[q].fp[f] = stamp[job[q]][f] /\ data'[job[q]][f] = data[job[q]][f]
              \/ note[q].fp[f] = 0 /\ data'[job[q]][f] = "none"
        BY <2>1 DEF CellsKept, Free
      <3> QED BY <2>1, <3>1 DEF ProcInv, Agrees, LocalsKept
    <2>5. Agrees(mine[q], job[q])'
      <3>1. mine[q] # NoRecord => \A f \in Files : mine[q].fp[f] = stamp'[job[q]][f] =>
              \/ mine[q].fp[f] = stamp[job[q]][f] /\ data'[job[q]][f] = data[job[q]][f]
              \/ mine[q].fp[f] = 0 /\ data'[job[q]][f] = "none"
        BY <2>1 DEF CellsKept, ProcInv, TempOf
      <3> QED BY <2>1, <3>1 DEF ProcInv, Agrees, LocalsKept
    <2> QED BY <2>2, <2>3, <2>4, <2>5 DEF ProcInv
  <1> QED BY <1>2, <1>3 DEF FastPathInv

\* A record that stays on the disk stays true of the tree.
LEMMA RecordsKept ==
  ASSUME FastPathInv, NEW Q, CellsKept(Q), UNCHANGED record
  PROVE  \A k \in Keys : Agrees(record[k], k)'
  <1>1. \A k \in Keys : record[k] # NoRecord => \A f \in Files : record[k].fp[f] = stamp'[k][f] =>
          \/ record[k].fp[f] = stamp[k][f] /\ data'[k][f] = data[k][f]
          \/ record[k].fp[f] = 0 /\ data'[k][f] = "none"
    BY DEF CellsKept, Free
  <1> QED BY <1>1 DEF FastPathInv, Agrees

\* A step of p, whatever it does to the disk ...
LEMMA StepFrame ==
  ASSUME FastPathInv, NEW p \in Procs, NEW x \in {0, ticket[p]},
         DiskOK', LocalsOK', FlagsOK', LocalsKept(Procs \ {p}), CellsKept(Procs \ {p}),
         clock' = clock /\ ticket'[p] \in {0, ticket[p]}, MarksKept(x),
         \A k \in Keys : Agrees(record[k], k)', ProcInv(p)'
  PROVE  StepOK(p)
  <1> DEFINE Q == Procs \ {p}
  <1>1. TypeOK' /\ OneActs(Q) /\ ClockKept(Q)
    BY DEF TypeOK, OneActs, ClockKept
  <1>2. /\ clock \in Nat /\ \A q \in Procs : ticket[q] \in Nat /\ ticket[q] <= clock
        /\ \A q \in Q : ticket[q] # 0 => ticket[q] # ticket[p]
    BY DEF FastPathInv, TypeOK, DiskOK, LocalsOK, ClockInv
  <1>3. x \in Nat /\ x <= clock' /\ \A q \in Q : ticket[q] # 0 => x # ticket[q]
    BY <1>2
  <1>4. \A q \in Procs \ Q : q = p
    OBVIOUS
  <1> QED BY <1>1, <1>3, <1>4, Frame DEF StepOK

\* ... and one that leaves files, stamps and records alone.
LEMMA StillFrame ==
  ASSUME FastPathInv, NEW p \in Procs, NEW x \in {0, ticket[p]},
         DiskOK', LocalsOK', FlagsOK', LocalsKept(Procs \ {p}),
         UNCHANGED <<data, stamp, record, clock>>, MarksKept(x),
         ticket'[p] \in {0, ticket[p]}, ProcInv(p)'
  PROVE  StepOK(p)
  <1>1. CellsKept(Procs \ {p})
    BY DEF CellsKept
  <1>2. \A k \in Keys : Agrees(record[k], k)'
    BY <1>1, RecordsKept
  <1> QED BY <1>1, <1>2, StepFrame

LEMMA QuietMarks ==
  ASSUME UNCHANGED <<stamp, record, note, listing, memo>>
  PROVE  MarksKept(0)
  BY DEF MarksKept, Free

LEMMA GotoShape ==
  ASSUME LocalsOK, NEW p \in Procs, NEW s \in Steps, Goto(p, s)
  PROVE  /\ pc' \in [Procs -> Steps] /\ pc'[p] = s
         /\ \A q \in Procs \ {p} : pc'[q] = pc[q]
  BY DEF LocalsOK, Goto

LEMMA ForgetShape ==
  ASSUME LocalsOK, NEW p \in Procs, ForgetVerify(p)
  PROVE  /\ note' \in [Procs -> Records \cup {NoRecord}]
         /\ listing' \in [Procs -> [Files -> 0 .. MaxClock]]
         /\ sum' \in [Procs -> [Files -> Bytes]]
         /\ left' \in [Procs -> SUBSET Files]
         /\ note'[p] = NoRecord /\ listing'[p] = NoStamps /\ sum'[p] = NoBytes /\ left'[p] = {}
         /\ \A q \in Procs \ {p} :
              /\ note'[q] = note[q] /\ listing'[q] = listing[q]
              /\ sum'[q] = sum[q] /\ left'[q] = left[q]
  BY StoreAssumption DEF LocalsOK, ForgetVerify, NoStamps, NoBytes, Bytes

LEMMA ForgetMarks ==
  ASSUME LocalsOK, NEW p \in Procs, ForgetVerify(p), UNCHANGED <<stamp, record>>,
         \A q \in Procs, k \in Keys : memo'[q][k] \in {memo[q][k], NoRecord}
  PROVE  MarksKept(0)
  <1> SUFFICES ASSUME NEW t \in 1 .. MaxClock, Free(t) PROVE Free(t)'
    BY DEF MarksKept
  <1>1. \A q \in Procs : note'[q] # NoRecord => \A f \in Files : note'[q].fp[f] # t
    BY ForgetShape DEF Free
  <1>2. \A q \in Procs, f \in Files : listing'[q][f] # t
    <2>1. \A f \in Files : NoStamps[f] # t
      BY DEF NoStamps
    <2> QED BY SMTT(30), <2>1, ForgetShape DEF Free
  <1>3. \A q \in Procs, k \in Keys :
          memo'[q][k] # NoRecord => \A f \in Files : memo'[q][k][f] # t
    BY DEF Free
  <1> QED BY <1>1, <1>2, <1>3 DEF Free

\* The stamp of an unpack under way stays free.
LEMMA TicketKept ==
  ASSUME LocalsOK, NEW p \in Procs, MarksKept(0), UNCHANGED ticket
  PROVE  ticket[p] # 0 /\ Free(ticket[p]) => Free(ticket[p])'
  <1> SUFFICES ASSUME ticket[p] # 0, Free(ticket[p]) PROVE Free(ticket[p])'
    OBVIOUS
  <1> PICK t \in 1 .. MaxClock : t = ticket[p]
    BY StoreAssumption DEF LocalsOK
  <1>1. Free(t)' <=> Free(ticket[p])'
    BY DEF Free
  <1> QED BY <1>1 DEF MarksKept

LEMMA ActsShape ==
  ASSUME FlagsOK, NEW p \in Procs, Acts(p)
  PROVE  /\ alone' \in [Procs -> BOOLEAN]
         /\ job' = job /\ built' = built /\ reverify' = reverify
  BY DEF FlagsOK, Acts, Alone

LEMMA RejectedKeeps ==
  ASSUME FastPathInv, NEW p \in Procs, pc[p] \in {"probe", "record", "list", "stat", "read"},
         Rejected(p), UNCHANGED <<disk, clock, memo>>, Acts(p)
  PROVE  StepOK(p)
  <1>0. DiskOK /\ LocalsOK /\ FlagsOK /\ ProcInv(p)
    BY DEF FastPathInv, TypeOK
  <1>1. /\ ForgetVerify(p) /\ UNCHANGED <<temp, ticket, mine, kept, doomed, caller>>
        /\ UNCHANGED <<archive, dir, data, stamp, record, point>>
    BY DEF Rejected, put, disk
  <1>2. pc' \in [Procs -> Steps] /\ \A q \in Procs \ {p} : pc'[q] = pc[q]
    BY <1>0, GotoShape DEF Rejected, Steps
  <1>3. pc'[p] = IF caller[p] = "gate" THEN "archive" ELSE IF caller[p] = "put" THEN "open" ELSE "failed"
    BY <1>0 DEF Rejected, Goto, LocalsOK
  <1>4. LocalsOK' /\ LocalsKept(Procs \ {p})
    BY <1>0, <1>1, <1>2, ForgetShape, ActsShape DEF LocalsOK, LocalsKept
  <1>5. DiskOK' /\ FlagsOK'
    BY <1>0, <1>1, ActsShape DEF DiskOK, FlagsOK
  <1>6. MarksKept(0)
    BY <1>0, <1>1, ForgetMarks
  <1>7. TempOf(p)'
    BY <1>0, <1>1, <1>3, <1>6, TicketKept DEF ProcInv, TempOf, InPut, BeforePut
  <1>8. HashOf(p)' /\ Agrees(note[p], job[p])' /\ Agrees(mine[p], job[p])'
    BY <1>0, <1>1, <1>3, ForgetShape, ActsShape DEF ProcInv, HashOf, Agrees
  <1> QED BY <1>0, <1>1, <1>4, <1>5, <1>6, <1>7, <1>8, StillFrame DEF ProcInv

LEMMA VerifiedShape ==
  ASSUME FastPathInv, NEW p \in Procs, pc[p] \in {"stat", "read"}, Verified(p), Acts(p),
         UNCHANGED <<data, stamp>>,
         memo' \in [Procs -> [Keys -> [Files -> Nat] \cup {NoRecord}]],
         \A q \in Procs \ {p} : memo'[q] = memo[q]
  PROVE  /\ LocalsOK' /\ FlagsOK' /\ LocalsKept(Procs \ {p})
         /\ ticket'[p] = ticket[p] /\ ProcInv(p)'
  <1>0. DiskOK /\ LocalsOK /\ FlagsOK /\ ProcInv(p)
    BY DEF FastPathInv, TypeOK
  <1>1. ForgetVerify(p) /\ UNCHANGED <<ticket, mine, doomed, caller>>
    BY DEF Verified
  <1>2. /\ pc' \in [Procs -> Steps] /\ \A q \in Procs \ {p} : pc'[q] = pc[q]
        /\ pc'[p] = IF caller[p] = "put" THEN "seal" ELSE "compile"
    BY <1>0, GotoShape DEF Verified, Steps
  <1>3. /\ temp' \in [Procs -> [Files -> Bytes]] /\ kept' \in [Procs -> BOOLEAN]
        /\ \A q \in Procs \ {p} : temp'[q] = temp[q]
        /\ temp'[p] = IF caller[p] = "put" THEN NoBytes ELSE temp[p]
    <2>1. CASE caller[p] = "put"
      <3>1. /\ kept' = [kept EXCEPT ![p] = TRUE]
            /\ temp' = [temp EXCEPT ![p] = NoBytes]
        BY <2>1 DEF Verified
      <3>2. kept' \in [Procs -> BOOLEAN]
        BY <1>0, <3>1 DEF FlagsOK
      <3>3. NoBytes \in [Files -> Bytes]
        BY DEF NoBytes, Bytes
      <3> QED BY <1>0, <2>1, <3>1, <3>2, <3>3 DEF LocalsOK
    <2>2. CASE caller[p] # "put"
      BY <1>0, <2>2 DEF Verified, LocalsOK, FlagsOK
    <2> QED BY <2>1, <2>2
  <1>4. LocalsOK' /\ LocalsKept(Procs \ {p})
    BY <1>0, <1>1, <1>2, <1>3, ForgetShape, ActsShape DEF LocalsOK, LocalsKept
  <1>5. FlagsOK'
    BY <1>0, <1>1, <1>3, ActsShape DEF FlagsOK
  <1>6. TempOf(p)'
    BY <1>0, <1>1, <1>2, <1>3 DEF ProcInv, TempOf, InPut, BeforePut
  <1>7. HashOf(p)' /\ Agrees(note[p], job[p])' /\ Agrees(mine[p], job[p])'
    BY SMTT(30), <1>0, <1>1, <1>2, ForgetShape, ActsShape DEF ProcInv, HashOf, Agrees
  <1> QED BY <1>1, <1>4, <1>5, <1>6, <1>7 DEF ProcInv

LEMMA UnpackFileKeeps ==
  ASSUME FastPathInv, NEW p \in Procs, NEW f \in Files, UnpackFile(p, f)
  PROVE  StepOK(p)
  <1>0. DiskOK /\ LocalsOK /\ FlagsOK /\ ProcInv(p)
    BY DEF FastPathInv, TypeOK
  <1>1. LocalsOK' /\ LocalsKept(Procs \ {p})
    BY <1>0 DEF LocalsOK, LocalsKept, Steps, Records, NoBytes, Bytes, verify, put, UnpackFile, Acts, Alone
  <1>2. DiskOK' /\ FlagsOK' /\ UNCHANGED <<data, stamp, record, clock>>
    BY <1>0 DEF DiskOK, LocalsOK, FlagsOK, disk, put, UnpackFile, Acts, Alone
  <1>3. MarksKept(0)
    BY <1>0, QuietMarks DEF disk, verify, UnpackFile, Acts, Alone
  <1>4. TempOf(p)'
    BY <1>0, <1>3, TicketKept DEF LocalsOK, ProcInv, TempOf, InPut, BeforePut, NoBytes, disk, verify, put, UnpackFile, Acts, Alone
  <1>5. HashOf(p)'
    BY <1>0 DEF LocalsOK, ProcInv, HashOf, disk, verify, put, UnpackFile, Acts, Alone
  <1>6. Agrees(note[p], job[p])' /\ Agrees(mine[p], job[p])'
    BY <1>0 DEF LocalsOK, DiskOK, ProcInv, TempOf, HashOf, Agrees, disk, verify, put, UnpackFile, Acts, Alone
  <1>7. ticket'[p] \in {0, ticket[p]}
    BY <1>0 DEF LocalsOK, put, UnpackFile, Acts, Alone
  <1> QED BY <1>0, <1>1, <1>2, <1>3, <1>4, <1>5, <1>6, <1>7, StillFrame DEF ProcInv

LEMMA HashTempKeeps ==
  ASSUME FastPathInv, NEW p \in Procs, HashTemp(p)
  PROVE  StepOK(p)
  <1>0. DiskOK /\ LocalsOK /\ FlagsOK /\ ProcInv(p)
    BY DEF FastPathInv, TypeOK
  <1>1. LocalsOK' /\ LocalsKept(Procs \ {p})
    <2>1. TempStamps(p) \in [Files -> Nat] /\ Unpacked(p) \in Records
      BY <1>0, StoreAssumption DEF LocalsOK, TempStamps, Unpacked, Records
    <2>2. mine' \in [Procs -> Records \cup {NoRecord}] /\ \A q \in Procs \ {p} : mine'[q] = mine[q]
      <3>1. mine' = mine \/ mine' = [mine EXCEPT ![p] = Unpacked(p)]
        BY DEF HashTemp
      <3>2. mine \in [Procs -> Records \cup {NoRecord}]
        BY <1>0 DEF LocalsOK
      <3> QED BY <2>1, <3>1, <3>2
    <2>3. pc' \in [Procs -> Steps] /\ \A q \in Procs \ {p} : pc'[q] = pc[q]
      BY <1>0, GotoShape DEF HashTemp, Steps
    <2> QED BY <1>0, <2>2, <2>3, ActsShape DEF LocalsOK, LocalsKept, HashTemp, verify
  <1>2. DiskOK' /\ FlagsOK' /\ UNCHANGED <<data, stamp, record, clock>>
    BY <1>0 DEF DiskOK, LocalsOK, FlagsOK, disk, put, HashTemp, Goto, Unpacked, TempStamps, Acts, Alone
  <1>3. MarksKept(0)
    BY <1>0, QuietMarks DEF disk, verify, HashTemp, Goto, Unpacked, TempStamps, Acts, Alone
  <1>4. TempOf(p)'
    <2>1. Free(ticket[p])' /\ ticket[p] # 0 /\ UNCHANGED <<temp, ticket, caller>>
      BY <1>0, <1>3, TicketKept DEF ProcInv, TempOf, HashTemp, verify
    <2>2. CASE temp[p] = NoBytes
      BY <1>0, <2>1, <2>2 DEF LocalsOK, ProcInv, TempOf, InPut, BeforePut, HashTemp, Goto
    <2>3. CASE temp[p] # NoBytes
      <3>1. pc'[p] = "dest" /\ mine'[p] = [tree |-> temp[p], fp |-> TempStamps(p)]
        BY <1>0, <2>3 DEF LocalsOK, HashTemp, Goto, Unpacked
      <3>2. mine'[p].tree = temp[p] /\ \A f \in Files :
              mine'[p].fp[f] = IF mine'[p].tree[f] = "none" THEN 0 ELSE ticket[p]
        BY <3>1 DEF TempStamps
      <3>3. [tree |-> temp[p], fp |-> TempStamps(p)] \in Records
        BY <1>0, StoreAssumption DEF LocalsOK, TempStamps, Records
      <3>4. mine'[p] # NoRecord
        BY <3>1, <3>3, NoRecordAssumption
      <3> QED BY <2>1, <3>1, <3>2, <3>4 DEF TempOf, InPut, BeforePut
    <2> QED BY <2>2, <2>3
  <1>5. HashOf(p)'
    BY <1>0 DEF LocalsOK, ProcInv, HashOf, disk, verify, put, HashTemp, Goto, Unpacked, TempStamps, Acts, Alone
  <1>6. Agrees(note[p], job[p])' /\ Agrees(mine[p], job[p])'
    <2>1. note[p] = NoRecord /\ mine[p] = NoRecord /\ ticket[p] # 0 /\ Free(ticket[p])
      BY <1>0 DEF ProcInv, HashOf, TempOf, HashTemp
    <2>2. note'[p] = NoRecord /\ job'[p] = job[p] /\ job[p] \in Keys
      BY <1>0, <2>1, ActsShape DEF LocalsOK, HashTemp, verify
    <2>3. \A f \in Files : stamp[job[p]][f] # ticket[p] /\ (data[job[p]][f] = "none" <=> stamp[job[p]][f] = 0)
      BY <1>0, <2>1, <2>2 DEF Free, DiskOK
    <2>4. mine'[p] # NoRecord =>
            /\ mine'[p].tree = temp[p]
            /\ \A f \in Files : mine'[p].fp[f] = IF temp[p][f] = "none" THEN 0 ELSE ticket[p]
      BY <1>0, <2>1 DEF LocalsOK, HashTemp, Unpacked, TempStamps
    <2> QED BY <1>2, <2>1, <2>2, <2>3, <2>4 DEF Agrees
  <1>7. ticket'[p] \in {0, ticket[p]}
    BY <1>0 DEF LocalsOK, put, HashTemp, Goto, Unpacked, TempStamps, Acts, Alone
  <1> QED BY <1>0, <1>1, <1>2, <1>3, <1>4, <1>5, <1>6, <1>7, StillFrame DEF ProcInv

LEMMA ProbeDestKeeps ==
  ASSUME FastPathInv, NEW p \in Procs, ProbeDest(p)
  PROVE  StepOK(p)
  <1>0. DiskOK /\ LocalsOK /\ FlagsOK /\ ProcInv(p)
    BY DEF FastPathInv, TypeOK
  <1>1. LocalsOK' /\ LocalsKept(Procs \ {p})
    BY <1>0 DEF LocalsOK, LocalsKept, Steps, Records, NoBytes, Bytes, verify, put, ProbeDest, Goto, Acts, Alone
  <1>2. DiskOK' /\ FlagsOK' /\ UNCHANGED <<data, stamp, record, clock>>
    BY <1>0 DEF DiskOK, LocalsOK, FlagsOK, disk, put, ProbeDest, Goto, Acts, Alone
  <1>3. MarksKept(0)
    BY <1>0, QuietMarks DEF disk, verify, ProbeDest, Goto, Acts, Alone
  <1>4. TempOf(p)'
    BY <1>0, <1>3, TicketKept DEF LocalsOK, ProcInv, TempOf, InPut, BeforePut, NoBytes, disk, verify, put, ProbeDest, Goto, Acts, Alone
  <1>5. HashOf(p)'
    BY <1>0 DEF LocalsOK, ProcInv, HashOf, disk, verify, put, ProbeDest, Goto, Acts, Alone
  <1>6. Agrees(note[p], job[p])' /\ Agrees(mine[p], job[p])'
    BY <1>0 DEF LocalsOK, DiskOK, ProcInv, TempOf, HashOf, Agrees, disk, verify, put, ProbeDest, Goto, Acts, Alone
  <1>7. ticket'[p] \in {0, ticket[p]}
    BY <1>0 DEF LocalsOK, put, ProbeDest, Goto, Acts, Alone
  <1> QED BY <1>0, <1>1, <1>2, <1>3, <1>4, <1>5, <1>6, <1>7, StillFrame DEF ProcInv

LEMMA OpenDriftedKeeps ==
  ASSUME FastPathInv, NEW p \in Procs, OpenDrifted(p)
  PROVE  StepOK(p)
  <1>0. DiskOK /\ LocalsOK /\ FlagsOK /\ ProcInv(p)
    BY DEF FastPathInv, TypeOK
  <1>1. LocalsOK' /\ LocalsKept(Procs \ {p})
    BY <1>0 DEF LocalsOK, LocalsKept, Steps, Records, NoBytes, Bytes, verify, put, OpenDrifted, Goto, Acts, Alone
  <1>2. DiskOK' /\ FlagsOK' /\ UNCHANGED <<data, stamp, record, clock>>
    <2>1. UNCHANGED <<archive, dir, data, stamp, record, point, clock, kept>>
      BY DEF OpenDrifted, disk
    <2>2. doomed' \in [Procs -> 0 .. MaxClock]
      <3>1. dir[job[p]] \in 0 .. MaxClock
        BY <1>0 DEF DiskOK, LocalsOK
      <3>2. doomed' = doomed \/ doomed' = [doomed EXCEPT ![p] = dir[job[p]]]
        BY DEF OpenDrifted
      <3> QED BY <1>0, <3>1, <3>2 DEF FlagsOK
    <2> QED BY <1>0, <2>1, <2>2, ActsShape DEF DiskOK, FlagsOK, OpenDrifted
  <1>3. MarksKept(0)
    BY <1>0, QuietMarks DEF disk, verify, OpenDrifted, Goto, Acts, Alone
  <1>4. TempOf(p)'
    BY <1>0, <1>3, TicketKept DEF LocalsOK, ProcInv, TempOf, InPut, BeforePut, NoBytes, disk, verify, put, OpenDrifted, Goto, Acts, Alone
  <1>5. HashOf(p)'
    BY <1>0 DEF LocalsOK, ProcInv, HashOf, disk, verify, put, OpenDrifted, Goto, Acts, Alone
  <1>6. Agrees(note[p], job[p])' /\ Agrees(mine[p], job[p])'
    BY <1>0 DEF LocalsOK, DiskOK, ProcInv, TempOf, HashOf, Agrees, disk, verify, put, OpenDrifted, Goto, Acts, Alone
  <1>7. ticket'[p] \in {0, ticket[p]}
    BY <1>0 DEF LocalsOK, put, OpenDrifted, Goto, Acts, Alone
  <1> QED BY <1>0, <1>1, <1>2, <1>3, <1>4, <1>5, <1>6, <1>7, StillFrame DEF ProcInv

LEMMA RemoveDirKeeps ==
  ASSUME FastPathInv, NEW p \in Procs, RemoveDir(p)
  PROVE  StepOK(p)
  <1>0. DiskOK /\ LocalsOK /\ FlagsOK /\ ProcInv(p)
    BY DEF FastPathInv, TypeOK
  <1>1. LocalsOK' /\ LocalsKept(Procs \ {p})
    BY <1>0 DEF LocalsOK, LocalsKept, Steps, Records, NoBytes, Bytes, verify, put, RemoveDir, Goto, Emptied, Acts, Alone
  <1>2. DiskOK' /\ FlagsOK' /\ UNCHANGED <<data, stamp, record, clock>>
    <2>1. UNCHANGED <<archive, data, stamp, record, point, clock, kept>>
      BY DEF RemoveDir
    <2>2. dir' \in [Keys -> 0 .. MaxClock] /\ \A k \in Keys : dir'[k] = 0 => data[k] = NoBytes
      <3>1. \/ dir' = dir
            \/ dir' = [dir EXCEPT ![job[p]] = 0] /\ data[job[p]] = NoBytes
        BY DEF RemoveDir, Emptied
      <3>2. 0 \in 0 .. MaxClock /\ job[p] \in Keys
        BY <1>0, StoreAssumption DEF LocalsOK
      <3> QED BY <1>0, <3>1, <3>2 DEF DiskOK
    <2>3. doomed' \in [Procs -> 0 .. MaxClock]
      BY <1>0, StoreAssumption DEF RemoveDir, FlagsOK
    <2> QED BY <1>0, <2>1, <2>2, <2>3, ActsShape DEF DiskOK, FlagsOK, RemoveDir
  <1>3. MarksKept(0)
    BY <1>0, QuietMarks DEF disk, verify, RemoveDir, Goto, Emptied, Acts, Alone
  <1>4. TempOf(p)'
    BY <1>0, <1>3, TicketKept DEF LocalsOK, ProcInv, TempOf, InPut, BeforePut, NoBytes, disk, verify, put, RemoveDir, Goto, Emptied, Acts, Alone
  <1>5. HashOf(p)'
    BY <1>0 DEF LocalsOK, ProcInv, HashOf, disk, verify, put, RemoveDir, Goto, Emptied, Acts, Alone
  <1>6. Agrees(note[p], job[p])' /\ Agrees(mine[p], job[p])'
    BY <1>0 DEF LocalsOK, DiskOK, ProcInv, TempOf, HashOf, Agrees, disk, verify, put, RemoveDir, Goto, Emptied, Acts, Alone
  <1>7. ticket'[p] \in {0, ticket[p]}
    BY <1>0 DEF LocalsOK, put, RemoveDir, Goto, Emptied, Acts, Alone
  <1> QED BY <1>0, <1>1, <1>2, <1>3, <1>4, <1>5, <1>6, <1>7, StillFrame DEF ProcInv

LEMMA SealKeeps ==
  ASSUME FastPathInv, NEW p \in Procs, Seal(p)
  PROVE  StepOK(p)
  <1>0. DiskOK /\ LocalsOK /\ FlagsOK /\ ProcInv(p)
    BY DEF FastPathInv, TypeOK
  <1>1. LocalsOK' /\ LocalsKept(Procs \ {p})
    BY <1>0 DEF LocalsOK, LocalsKept, Steps, Records, NoBytes, Bytes, verify, put, Seal, Goto, Acts, Alone
  <1>2. DiskOK' /\ FlagsOK' /\ UNCHANGED <<data, stamp, record, clock>>
    BY <1>0 DEF DiskOK, LocalsOK, FlagsOK, disk, put, Seal, Goto, Acts, Alone
  <1>3. MarksKept(0)
    BY <1>0, QuietMarks DEF disk, verify, Seal, Goto, Acts, Alone
  <1>4. TempOf(p)'
    BY <1>0, <1>3, TicketKept DEF LocalsOK, ProcInv, TempOf, InPut, BeforePut, NoBytes, disk, verify, put, Seal, Goto, Acts, Alone
  <1>5. HashOf(p)'
    BY <1>0 DEF LocalsOK, ProcInv, HashOf, disk, verify, put, Seal, Goto, Acts, Alone
  <1>6. Agrees(note[p], job[p])' /\ Agrees(mine[p], job[p])'
    BY <1>0 DEF LocalsOK, DiskOK, ProcInv, TempOf, HashOf, Agrees, disk, verify, put, Seal, Goto, Acts, Alone
  <1>7. ticket'[p] \in {0, ticket[p]}
    BY <1>0 DEF LocalsOK, put, Seal, Goto, Acts, Alone
  <1> QED BY <1>0, <1>1, <1>2, <1>3, <1>4, <1>5, <1>6, <1>7, StillFrame DEF ProcInv

LEMMA WritePointKeeps ==
  ASSUME FastPathInv, NEW p \in Procs, WritePoint(p)
  PROVE  StepOK(p)
  <1>0. DiskOK /\ LocalsOK /\ FlagsOK /\ ProcInv(p)
    BY DEF FastPathInv, TypeOK
  <1>1. LocalsOK' /\ LocalsKept(Procs \ {p})
    <2>1. mine[p] \in Records /\ mine[p].fp \in [Files -> Nat]
      BY <1>0 DEF LocalsOK, ProcInv, TempOf, InPut, WritePoint, Records
    <2>2. /\ memo' \in [Procs -> [Keys -> [Files -> Nat] \cup {NoRecord}]]
          /\ \A q \in Procs \ {p} : memo'[q] = memo[q]
      BY <1>0, <2>1 DEF LocalsOK, WritePoint, Memoize
    <2>3. pc' \in [Procs -> Steps] /\ \A q \in Procs \ {p} : pc'[q] = pc[q]
      BY <1>0, GotoShape DEF WritePoint, Steps
    <2>4. /\ mine' \in [Procs -> Records \cup {NoRecord}] /\ ticket' \in [Procs -> 0 .. MaxClock]
          /\ caller' \in [Procs -> {"gate", "put", "final"}]
          /\ \A q \in Procs \ {p} : mine'[q] = mine[q] /\ ticket'[q] = ticket[q] /\ caller'[q] = caller[q]
      BY <1>0, StoreAssumption DEF LocalsOK, WritePoint
    <2> QED BY <1>0, <2>2, <2>3, <2>4, ActsShape DEF LocalsOK, LocalsKept, WritePoint
  <1>2. DiskOK' /\ FlagsOK' /\ UNCHANGED <<data, stamp, record, clock>>
    BY <1>0 DEF DiskOK, LocalsOK, FlagsOK, disk, put, WritePoint, Goto, Memoize, Acts, Alone
  <1>3. MarksKept(ticket[p])
    <2>1. mine[p] # NoRecord /\ job[p] \in Keys /\ \A f \in Files : mine[p].fp[f] \in {0, ticket[p]}
      BY <1>0 DEF LocalsOK, ProcInv, TempOf, InPut, WritePoint
    <2>2. \A q \in Procs, k \in Keys : memo'[q][k] = memo[q][k] \/ memo'[q][k] = mine[p].fp
      BY <1>0 DEF LocalsOK, WritePoint, Memoize
    <2>3. UNCHANGED <<stamp, record, note, listing>>
      BY DEF WritePoint
    <2>4. ASSUME NEW t \in 1 .. MaxClock, t # ticket[p], Free(t)
          PROVE  \A q \in Procs, k \in Keys :
                   memo'[q][k] # NoRecord => \A f \in Files : memo'[q][k][f] # t
      BY <2>1, <2>2, <2>4 DEF Free
    <2> QED BY <2>3, <2>4 DEF MarksKept, Free
  <1>4. TempOf(p)'
    BY <1>0, <1>3, TicketKept DEF LocalsOK, ProcInv, TempOf, InPut, BeforePut, NoBytes, disk, verify, put, WritePoint, Goto, Memoize, Acts, Alone
  <1>5. HashOf(p)'
    BY <1>0 DEF LocalsOK, ProcInv, HashOf, disk, verify, put, WritePoint, Goto, Memoize, Acts, Alone
  <1>6. Agrees(note[p], job[p])' /\ Agrees(mine[p], job[p])'
    BY <1>0 DEF LocalsOK, DiskOK, ProcInv, TempOf, HashOf, Agrees, disk, verify, put, WritePoint, Goto, Memoize, Acts, Alone
  <1>7. ticket'[p] \in {0, ticket[p]}
    BY <1>0 DEF LocalsOK, put, WritePoint, Goto, Memoize, Acts, Alone
  <1> QED BY <1>0, <1>1, <1>2, <1>3, <1>4, <1>5, <1>6, <1>7, StillFrame DEF ProcInv

LEMMA CompileKeeps ==
  ASSUME FastPathInv, NEW p \in Procs, Compile(p)
  PROVE  StepOK(p)
  <1>0. DiskOK /\ LocalsOK /\ FlagsOK /\ ProcInv(p)
    BY DEF FastPathInv, TypeOK
  <1>1. LocalsOK' /\ LocalsKept(Procs \ {p})
    BY <1>0 DEF LocalsOK, LocalsKept, Steps, Records, NoBytes, Bytes, verify, put, Compile, Goto, Candidates, Alone
  <1>2. DiskOK' /\ FlagsOK' /\ UNCHANGED <<data, stamp, record, clock>>
    <2>1. UNCHANGED <<archive, dir, data, stamp, record, point, clock, kept, doomed, reverify>>
      BY DEF Compile, disk, put
    <2>2. built' \in [Procs -> [key : Keys, tree : [Files -> Bytes]] \cup {NoRecord}]
      BY <1>0 DEF Compile, Candidates, DiskOK, FlagsOK
    <2>3. alone' \in [Procs -> BOOLEAN]
      BY <1>0 DEF Compile, Alone, FlagsOK
    <2> QED BY <1>0, <2>1, <2>2, <2>3 DEF DiskOK, FlagsOK
  <1>3. MarksKept(0)
    BY <1>0, QuietMarks DEF disk, verify, Compile, Goto, Candidates, Alone
  <1>4. TempOf(p)'
    BY <1>0, <1>3, TicketKept DEF LocalsOK, ProcInv, TempOf, InPut, BeforePut, NoBytes, disk, verify, put, Compile, Goto, Candidates, Alone
  <1>5. HashOf(p)'
    BY <1>0 DEF LocalsOK, ProcInv, HashOf, disk, verify, put, Compile, Goto, Candidates, Alone
  <1>6. Agrees(note[p], job[p])' /\ Agrees(mine[p], job[p])'
    BY <1>0 DEF LocalsOK, DiskOK, ProcInv, TempOf, HashOf, Agrees, disk, verify, put, Compile, Goto, Candidates, Alone
  <1>7. ticket'[p] \in {0, ticket[p]}
    BY <1>0 DEF LocalsOK, put, Compile, Goto, Candidates, Alone
  <1> QED BY <1>0, <1>1, <1>2, <1>3, <1>4, <1>5, <1>6, <1>7, StillFrame DEF ProcInv

LEMMA CleanBeginKeeps ==
  ASSUME FastPathInv, NEW p \in Procs, CleanBegin(p)
  PROVE  StepOK(p)
  <1>0. DiskOK /\ LocalsOK /\ FlagsOK /\ ProcInv(p)
    BY DEF FastPathInv, TypeOK
  <1>1. LocalsOK' /\ LocalsKept(Procs \ {p})
    BY <1>0 DEF LocalsOK, LocalsKept, Steps, Records, NoBytes, Bytes, verify, put, CleanBegin, Goto, Acts, Alone
  <1>2. DiskOK' /\ FlagsOK' /\ UNCHANGED <<data, stamp, record, clock>>
    BY <1>0 DEF DiskOK, LocalsOK, FlagsOK, disk, put, CleanBegin, Goto, Acts, Alone
  <1>3. MarksKept(0)
    BY <1>0, QuietMarks DEF disk, verify, CleanBegin, Goto, Acts, Alone
  <1>4. TempOf(p)'
    BY <1>0, <1>3, TicketKept DEF LocalsOK, ProcInv, TempOf, InPut, BeforePut, NoBytes, disk, verify, put, CleanBegin, Goto, Acts, Alone
  <1>5. HashOf(p)'
    BY <1>0 DEF LocalsOK, ProcInv, HashOf, disk, verify, put, CleanBegin, Goto, Acts, Alone
  <1>6. Agrees(note[p], job[p])' /\ Agrees(mine[p], job[p])'
    BY <1>0 DEF LocalsOK, DiskOK, ProcInv, TempOf, HashOf, Agrees, disk, verify, put, CleanBegin, Goto, Acts, Alone
  <1>7. ticket'[p] \in {0, ticket[p]}
    BY <1>0 DEF LocalsOK, put, CleanBegin, Goto, Acts, Alone
  <1> QED BY <1>0, <1>1, <1>2, <1>3, <1>4, <1>5, <1>6, <1>7, StillFrame DEF ProcInv

LEMMA CleanArchivesKeeps ==
  ASSUME FastPathInv, NEW p \in Procs, CleanArchives(p)
  PROVE  StepOK(p)
  <1>0. DiskOK /\ LocalsOK /\ FlagsOK /\ ProcInv(p)
    BY DEF FastPathInv, TypeOK
  <1>1. LocalsOK' /\ LocalsKept(Procs \ {p})
    BY <1>0 DEF LocalsOK, LocalsKept, Steps, Records, NoBytes, Bytes, verify, put, CleanArchives, Goto, Acts, Alone
  <1>2. DiskOK' /\ FlagsOK' /\ UNCHANGED <<data, stamp, record, clock>>
    BY <1>0 DEF DiskOK, LocalsOK, FlagsOK, disk, put, CleanArchives, Goto, Acts, Alone
  <1>3. MarksKept(0)
    BY <1>0, QuietMarks DEF disk, verify, CleanArchives, Goto, Acts, Alone
  <1>4. TempOf(p)'
    BY <1>0, <1>3, TicketKept DEF LocalsOK, ProcInv, TempOf, InPut, BeforePut, NoBytes, disk, verify, put, CleanArchives, Goto, Acts, Alone
  <1>5. HashOf(p)'
    BY <1>0 DEF LocalsOK, ProcInv, HashOf, disk, verify, put, CleanArchives, Goto, Acts, Alone
  <1>6. Agrees(note[p], job[p])' /\ Agrees(mine[p], job[p])'
    BY <1>0 DEF LocalsOK, DiskOK, ProcInv, TempOf, HashOf, Agrees, disk, verify, put, CleanArchives, Goto, Acts, Alone
  <1>7. ticket'[p] \in {0, ticket[p]}
    BY <1>0 DEF LocalsOK, put, CleanArchives, Goto, Acts, Alone
  <1> QED BY <1>0, <1>1, <1>2, <1>3, <1>4, <1>5, <1>6, <1>7, StillFrame DEF ProcInv

LEMMA CleanPointsKeeps ==
  ASSUME FastPathInv, NEW p \in Procs, CleanPoints(p)
  PROVE  StepOK(p)
  <1>0. DiskOK /\ LocalsOK /\ FlagsOK /\ ProcInv(p)
    BY DEF FastPathInv, TypeOK
  <1>1. LocalsOK' /\ LocalsKept(Procs \ {p})
    BY <1>0 DEF LocalsOK, LocalsKept, Steps, Records, NoBytes, Bytes, verify, put, CleanPoints, Goto, Acts, Alone
  <1>2. DiskOK' /\ FlagsOK' /\ UNCHANGED <<data, stamp, record, clock>>
    BY <1>0 DEF DiskOK, LocalsOK, FlagsOK, disk, put, CleanPoints, Goto, Acts, Alone
  <1>3. MarksKept(0)
    BY <1>0, QuietMarks DEF disk, verify, CleanPoints, Goto, Acts, Alone
  <1>4. TempOf(p)'
    BY <1>0, <1>3, TicketKept DEF LocalsOK, ProcInv, TempOf, InPut, BeforePut, NoBytes, disk, verify, put, CleanPoints, Goto, Acts, Alone
  <1>5. HashOf(p)'
    BY <1>0 DEF LocalsOK, ProcInv, HashOf, disk, verify, put, CleanPoints, Goto, Acts, Alone
  <1>6. Agrees(note[p], job[p])' /\ Agrees(mine[p], job[p])'
    BY <1>0 DEF LocalsOK, DiskOK, ProcInv, TempOf, HashOf, Agrees, disk, verify, put, CleanPoints, Goto, Acts, Alone
  <1>7. ticket'[p] \in {0, ticket[p]}
    BY <1>0 DEF LocalsOK, put, CleanPoints, Goto, Acts, Alone
  <1> QED BY <1>0, <1>1, <1>2, <1>3, <1>4, <1>5, <1>6, <1>7, StillFrame DEF ProcInv

LEMMA BeginKeeps ==
  ASSUME FastPathInv, NEW p \in Procs, NEW k \in Keys, Begin(p, k)
  PROVE  StepOK(p)
  <1>0. DiskOK /\ LocalsOK /\ FlagsOK /\ ProcInv(p)
    BY DEF FastPathInv, TypeOK
  <1>1. LocalsOK' /\ LocalsKept(Procs \ {p})
    <2>1. pc' \in [Procs -> Steps] /\ \A q \in Procs \ {p} : pc'[q] = pc[q]
      BY <1>0, GotoShape DEF Begin, Steps
    <2>2. /\ mine' \in [Procs -> Records \cup {NoRecord}] /\ ticket' \in [Procs -> 0 .. MaxClock]
          /\ caller' \in [Procs -> {"gate", "put", "final"}] /\ job' \in [Procs -> Keys]
      BY <1>0, StoreAssumption DEF LocalsOK, Begin
    <2>3. temp' \in [Procs -> [Files -> Bytes]]
      BY <1>0 DEF LocalsOK, Begin, NoBytes, Bytes
    <2>4. \A q \in Procs \ {p} :
            /\ mine'[q] = mine[q] /\ ticket'[q] = ticket[q] /\ caller'[q] = caller[q]
            /\ job'[q] = job[q] /\ temp'[q] = temp[q]
      BY <1>0 DEF LocalsOK, Begin
    <2> QED BY <1>0, <2>1, <2>2, <2>3, <2>4 DEF LocalsOK, LocalsKept, Begin
  <1>2. DiskOK' /\ FlagsOK' /\ UNCHANGED <<data, stamp, record, clock>>
    BY <1>0 DEF DiskOK, LocalsOK, FlagsOK, disk, put, Begin, Goto
  <1>3. MarksKept(0)
    BY <1>0, QuietMarks DEF disk, verify, Begin, Goto
  <1>4. TempOf(p)'
    BY <1>0, <1>3, TicketKept DEF LocalsOK, ProcInv, TempOf, InPut, BeforePut, NoBytes, disk, verify, put, Begin, Goto
  <1>5. HashOf(p)'
    BY <1>0 DEF LocalsOK, ProcInv, HashOf, disk, verify, put, Begin, Goto
  <1>6. Agrees(note[p], job[p])' /\ Agrees(mine[p], job[p])'
    BY <1>0 DEF LocalsOK, DiskOK, ProcInv, TempOf, HashOf, Agrees, disk, verify, put, Begin, Goto
  <1>7. ticket'[p] \in {0, ticket[p]}
    BY <1>0 DEF LocalsOK, put, Begin, Goto
  <1> QED BY <1>0, <1>1, <1>2, <1>3, <1>4, <1>5, <1>6, <1>7, StillFrame DEF ProcInv

LEMMA StopKeeps ==
  ASSUME FastPathInv, NEW p \in Procs, Stop(p)
  PROVE  StepOK(p)
  <1>0. DiskOK /\ LocalsOK /\ FlagsOK /\ ProcInv(p)
    BY DEF FastPathInv, TypeOK
  <1>1. LocalsOK' /\ LocalsKept(Procs \ {p})
    <2>1. pc' \in [Procs -> Steps] /\ \A q \in Procs \ {p} : pc'[q] = pc[q]
      BY <1>0, GotoShape DEF Stop, Steps
    <2>2. /\ mine' \in [Procs -> Records \cup {NoRecord}] /\ ticket' \in [Procs -> 0 .. MaxClock]
          /\ memo' \in [Procs -> [Keys -> [Files -> Nat] \cup {NoRecord}]]
      BY <1>0, StoreAssumption DEF LocalsOK, Stop
    <2>3. temp' \in [Procs -> [Files -> Bytes]]
      BY <1>0 DEF LocalsOK, Stop, NoBytes, Bytes
    <2>4. \A q \in Procs \ {p} :
            /\ mine'[q] = mine[q] /\ ticket'[q] = ticket[q]
            /\ memo'[q] = memo[q] /\ temp'[q] = temp[q]
      BY <1>0 DEF LocalsOK, Stop
    <2> QED BY <1>0, <2>1, <2>2, <2>3, <2>4, ForgetShape DEF LocalsOK, LocalsKept, Stop
  <1>2. DiskOK' /\ FlagsOK' /\ UNCHANGED <<data, stamp, record, clock>>
    <2>1. UNCHANGED <<archive, dir, data, stamp, record, point, clock, built>>
      BY DEF Stop, disk
    <2>2. kept' \in [Procs -> BOOLEAN] /\ doomed' \in [Procs -> 0 .. MaxClock]
      BY <1>0, StoreAssumption DEF Stop, FlagsOK
    <2>3. reverify' \in [Procs -> BOOLEAN]
      BY <1>0 DEF Stop, FlagsOK
    <2>4. alone' \in [Procs -> BOOLEAN]
      BY <1>0 DEF Stop, Alone, FlagsOK
    <2> QED BY <1>0, <2>1, <2>2, <2>3, <2>4 DEF DiskOK, FlagsOK
  <1>3. MarksKept(0)
    <2>1. ForgetVerify(p) /\ UNCHANGED <<stamp, record>>
      BY DEF Stop, disk
    <2>2. \A q \in Procs, k \in Keys : memo'[q][k] \in {memo[q][k], NoRecord}
      BY <1>0 DEF Stop, LocalsOK
    <2> QED BY <1>0, <2>1, <2>2, ForgetMarks
  <1>4. TempOf(p)'
    BY <1>0, <1>3, TicketKept DEF LocalsOK, ProcInv, TempOf, InPut, BeforePut, NoBytes, disk, verify, put, Stop, Goto, ForgetVerify, Alone
  <1>5. HashOf(p)'
    BY <1>0 DEF LocalsOK, ProcInv, HashOf, disk, verify, put, Stop, Goto, ForgetVerify, Alone
  <1>6. Agrees(note[p], job[p])' /\ Agrees(mine[p], job[p])'
    BY <1>0 DEF LocalsOK, DiskOK, ProcInv, TempOf, HashOf, Agrees, disk, verify, put, Stop, Goto, ForgetVerify, Alone
  <1>7. ticket'[p] \in {0, ticket[p]}
    BY <1>0 DEF LocalsOK, put, Stop, Goto, ForgetVerify, Alone
  <1> QED BY <1>0, <1>1, <1>2, <1>3, <1>4, <1>5, <1>6, <1>7, StillFrame DEF ProcInv

LEMMA MemoShape ==
  ASSUME LocalsOK, NEW p \in Procs, NEW fp \in [Files -> Nat] \cup {NoRecord}, Memoize(p, fp)
  PROVE  /\ memo' \in [Procs -> [Keys -> [Files -> Nat] \cup {NoRecord}]]
         /\ \A q \in Procs \ {p} : memo'[q] = memo[q]
         /\ \A k \in Keys : memo'[p][k] \in {memo[p][k], fp}
  BY DEF LocalsOK, Memoize

LEMMA VerifiedMarks ==
  ASSUME LocalsOK, NEW p \in Procs, ForgetVerify(p), UNCHANGED stamp,
         NEW fp \in [Files -> Nat] \cup {NoRecord}, Memoize(p, fp),
         fp = NoRecord \/ fp = listing[p] \/ \E k \in Keys : fp = stamp[k],
         \A k \in Keys : record'[k] = record[k] \/ record'[k].fp = listing[p]
  PROVE  MarksKept(0)
  <1> SUFFICES ASSUME NEW t \in 1 .. MaxClock, Free(t) PROVE Free(t)'
    BY DEF MarksKept
  <1>1. \A q \in Procs : note'[q] # NoRecord => \A f \in Files : note'[q].fp[f] # t
    BY ForgetShape DEF Free
  <1>2. \A q \in Procs, f \in Files : listing'[q][f] # t
    <2>1. \A f \in Files : NoStamps[f] # t
      BY DEF NoStamps
    <2> QED BY <2>1, ForgetShape DEF Free
  <1>3. \A q \in Procs, k \in Keys :
          memo'[q][k] # NoRecord => \A f \in Files : memo'[q][k][f] # t
    <2>1. fp # NoRecord => \A f \in Files : fp[f] # t
      BY DEF Free
    <2> QED BY <2>1, MemoShape DEF Free
  <1>4. \A k \in Keys : record'[k] # NoRecord => \A f \in Files : record'[k].fp[f] # t
    BY DEF Free
  <1> QED BY <1>1, <1>2, <1>3, <1>4 DEF Free

LEMMA ProbeKeeps ==
  ASSUME FastPathInv, NEW p \in Procs, Probe(p)
  PROVE  StepOK(p)
  <1>0. DiskOK /\ LocalsOK /\ FlagsOK /\ ProcInv(p)
    BY DEF FastPathInv, TypeOK
  <1>1. CASE Rejected(p)
    BY <1>1, RejectedKeeps DEF Probe
  <1>2. CASE Goto(p, "record") /\ UNCHANGED <<verify, put>>
    <2>1. pc' \in [Procs -> Steps] /\ pc'[p] = "record" /\ \A q \in Procs \ {p} : pc'[q] = pc[q]
      BY <1>0, <1>2, GotoShape DEF Steps
    <2>2. /\ UNCHANGED <<archive, dir, data, stamp, record, point, clock, memo>>
          /\ UNCHANGED <<caller, note, listing, sum, left, temp, ticket, mine, kept, doomed>>
          /\ UNCHANGED <<job, built, reverify>> /\ alone' \in [Procs -> BOOLEAN]
      BY <1>0, <1>2, ActsShape DEF Probe, disk, verify, put
    <2>3. LocalsOK' /\ LocalsKept(Procs \ {p}) /\ DiskOK' /\ FlagsOK'
      BY <1>0, <2>1, <2>2 DEF LocalsOK, LocalsKept, DiskOK, FlagsOK
    <2>4. MarksKept(0)
      BY <2>2, QuietMarks
    <2>5. TempOf(p)'
      BY <1>0, <2>1, <2>2, <2>4, TicketKept DEF Probe, ProcInv, TempOf, InPut, BeforePut
    <2>6. HashOf(p)' /\ Agrees(note[p], job[p])' /\ Agrees(mine[p], job[p])'
      BY <1>0, <2>1, <2>2 DEF Probe, ProcInv, HashOf, Agrees
    <2> QED BY <1>0, <2>2, <2>3, <2>4, <2>5, <2>6, StillFrame DEF ProcInv
  <1> QED BY <1>1, <1>2 DEF Probe

LEMMA ReadRecordKeeps ==
  ASSUME FastPathInv, NEW p \in Procs, ReadRecord(p)
  PROVE  StepOK(p)
  <1>0. DiskOK /\ LocalsOK /\ FlagsOK /\ ProcInv(p)
    BY DEF FastPathInv, TypeOK
  <1>1. CASE Rejected(p)
    BY <1>1, RejectedKeeps DEF ReadRecord
  <1>2. CASE /\ record[job[p]] # NoRecord
             /\ note' = [note EXCEPT ![p] = record[job[p]]]
             /\ Goto(p, "list")
             /\ UNCHANGED <<caller, listing, sum, left, put>>
    <2>1. pc' \in [Procs -> Steps] /\ pc'[p] = "list" /\ \A q \in Procs \ {p} : pc'[q] = pc[q]
      BY <1>0, <1>2, GotoShape DEF Steps
    <2>2. /\ UNCHANGED <<archive, dir, data, stamp, record, point, clock, memo>>
          /\ UNCHANGED <<caller, listing, sum, left, temp, ticket, mine, kept, doomed>>
          /\ UNCHANGED <<job, built, reverify>> /\ alone' \in [Procs -> BOOLEAN]
      BY <1>0, <1>2, ActsShape DEF ReadRecord, disk, put
    <2>3. /\ note' \in [Procs -> Records \cup {NoRecord}] /\ note'[p] = record[job[p]]
          /\ \A q \in Procs \ {p} : note'[q] = note[q]
          /\ job[p] \in Keys
      BY <1>0, <1>2 DEF LocalsOK, DiskOK
    <2>4. LocalsOK' /\ LocalsKept(Procs \ {p}) /\ DiskOK' /\ FlagsOK'
      BY <1>0, <2>1, <2>2, <2>3 DEF LocalsOK, LocalsKept, DiskOK, FlagsOK
    <2>5. MarksKept(0)
      BY <2>2, <2>3 DEF MarksKept, Free
    <2>6. TempOf(p)'
      BY <1>0, <2>1, <2>2, <2>5, TicketKept DEF ReadRecord, ProcInv, TempOf, InPut, BeforePut
    <2>7. HashOf(p)' /\ Agrees(mine[p], job[p])'
      BY <1>0, <1>2, <2>1, <2>2, <2>3 DEF ReadRecord, ProcInv, HashOf, Agrees
    <2>8. Agrees(note[p], job[p])'
      BY <2>2, <2>3 DEF FastPathInv, Agrees
    <2> QED BY <1>0, <2>2, <2>4, <2>5, <2>6, <2>7, <2>8, StillFrame DEF ProcInv
  <1> QED BY <1>1, <1>2 DEF ReadRecord

LEMMA OpenTreeKeeps ==
  ASSUME FastPathInv, NEW p \in Procs, OpenTree(p)
  PROVE  StepOK(p)
  <1>0. DiskOK /\ LocalsOK /\ FlagsOK /\ ProcInv(p) /\ pc[p] = "list"
    BY DEF FastPathInv, TypeOK, OpenTree
  <1>1. CASE Rejected(p)
    BY <1>0, <1>1, RejectedKeeps DEF OpenTree
  <1>2. CASE /\ left' = [left EXCEPT ![p] = Files]
             /\ Goto(p, "stat")
             /\ UNCHANGED <<caller, note, listing, sum, put>>
    <2>1. pc' \in [Procs -> Steps] /\ pc'[p] = "stat" /\ \A q \in Procs \ {p} : pc'[q] = pc[q]
      BY <1>0, <1>2, GotoShape DEF Steps
    <2>2. /\ UNCHANGED <<archive, dir, data, stamp, record, point, clock, memo>>
          /\ UNCHANGED <<caller, note, listing, sum, temp, ticket, mine, kept, doomed>>
          /\ UNCHANGED <<job, built, reverify>> /\ alone' \in [Procs -> BOOLEAN]
      BY <1>0, <1>2, ActsShape DEF OpenTree, disk, put
    <2>3. /\ left' \in [Procs -> SUBSET Files]
          /\ \A q \in Procs \ {p} : left'[q] = left[q]
      BY <1>0, <1>2 DEF LocalsOK
    <2>4. LocalsOK' /\ LocalsKept(Procs \ {p}) /\ DiskOK' /\ FlagsOK'
      BY <1>0, <2>1, <2>2, <2>3 DEF LocalsOK, LocalsKept, DiskOK, FlagsOK
    <2>5. MarksKept(0)
      BY <2>2, QuietMarks
    <2>6. TempOf(p)'
      BY <1>0, <2>1, <2>2, <2>5, TicketKept DEF ProcInv, TempOf, InPut, BeforePut
    <2>7. HashOf(p)' /\ Agrees(note[p], job[p])' /\ Agrees(mine[p], job[p])'
      BY <1>0, <2>1, <2>2 DEF ProcInv, HashOf, Agrees
    <2> QED BY <1>0, <2>2, <2>4, <2>5, <2>6, <2>7, StillFrame DEF ProcInv
  <1> QED BY <1>1, <1>2 DEF OpenTree

LEMMA StatFileKeeps ==
  ASSUME FastPathInv, NEW p \in Procs, NEW f \in Files, StatFile(p, f)
  PROVE  StepOK(p)
  <1>0. DiskOK /\ LocalsOK /\ FlagsOK /\ ProcInv(p) /\ pc[p] = "stat"
    BY DEF FastPathInv, TypeOK, StatFile
  <1>1. CASE Rejected(p)
    BY <1>0, <1>1, RejectedKeeps DEF StatFile
  <1>2. CASE /\ listing' = [listing EXCEPT ![p][f] = stamp[job[p]][f]]
             /\ left' = [left EXCEPT ![p] = @ \ {f}]
             /\ UNCHANGED <<pc, caller, note, sum, put>>
    <2>1. /\ UNCHANGED <<archive, dir, data, stamp, record, point, clock, memo>>
          /\ UNCHANGED <<pc, caller, note, sum, temp, ticket, mine, kept, doomed>>
          /\ UNCHANGED <<job, built, reverify>> /\ alone' \in [Procs -> BOOLEAN]
      BY <1>0, <1>2, ActsShape DEF StatFile, disk, put
    <2>2. /\ listing' \in [Procs -> [Files -> 0 .. MaxClock]] /\ left' \in [Procs -> SUBSET Files]
          /\ \A g \in Files : listing'[p][g] = IF g = f THEN stamp[job[p]][f] ELSE listing[p][g]
          /\ \A q \in Procs \ {p} : listing'[q] = listing[q] /\ left'[q] = left[q]
          /\ job[p] \in Keys
      BY <1>0, <1>2 DEF LocalsOK, DiskOK
    <2>3. LocalsOK' /\ LocalsKept(Procs \ {p}) /\ DiskOK' /\ FlagsOK'
      BY <1>0, <2>1, <2>2 DEF LocalsOK, LocalsKept, DiskOK, FlagsOK
    <2>4. MarksKept(0)
      BY <2>1, <2>2 DEF MarksKept, Free
    <2>5. TempOf(p)'
      BY <1>0, <2>1, <2>4, TicketKept DEF ProcInv, TempOf, InPut, BeforePut
    <2>6. HashOf(p)' /\ Agrees(note[p], job[p])' /\ Agrees(mine[p], job[p])'
      BY <1>0, <2>1 DEF ProcInv, HashOf, Agrees
    <2> QED BY <1>0, <2>1, <2>3, <2>4, <2>5, <2>6, StillFrame DEF ProcInv
  <1> QED BY <1>1, <1>2 DEF StatFile

LEMMA CompareListingKeeps ==
  ASSUME FastPathInv, NEW p \in Procs, CompareListing(p)
  PROVE  StepOK(p)
  <1>0. DiskOK /\ LocalsOK /\ FlagsOK /\ ProcInv(p) /\ pc[p] = "stat"
    BY DEF FastPathInv, TypeOK, CompareListing
  <1>2. CASE Verified(p) /\ Memoize(p, listing[p])
    <2>1. listing[p] \in [Files -> Nat] /\ job[p] \in Keys
      BY <1>0, StoreAssumption DEF LocalsOK
    <2>2. UNCHANGED <<archive, dir, data, stamp, record, point, clock>> /\ Acts(p)
      BY DEF CompareListing, disk
    <2>3. DiskOK'
      BY <1>0, <2>2 DEF DiskOK
    <2>4. /\ memo' \in [Procs -> [Keys -> [Files -> Nat] \cup {NoRecord}]]
          /\ \A q \in Procs \ {p} : memo'[q] = memo[q]
      BY <1>0, <1>2, <2>1, MemoShape
    <2>5. /\ LocalsOK' /\ FlagsOK' /\ LocalsKept(Procs \ {p})
          /\ ticket'[p] = ticket[p] /\ ProcInv(p)'
      BY <1>0, <1>2, <2>2, <2>4, VerifiedShape
    <2>6. MarksKept(0)
      BY <1>0, <1>2, <2>1, <2>2, VerifiedMarks DEF Verified
    <2> QED BY <2>2, <2>3, <2>5, <2>6, StillFrame
  <1>3. CASE StartHashing(p)
    <2>1. pc' \in [Procs -> Steps] /\ pc'[p] = "read" /\ \A q \in Procs \ {p} : pc'[q] = pc[q]
      BY <1>0, <1>3, GotoShape DEF StartHashing, Steps
    <2>2. /\ UNCHANGED <<archive, dir, data, stamp, record, point, clock, memo>>
          /\ UNCHANGED <<caller, note, listing, sum, temp, ticket, mine, kept, doomed>>
          /\ UNCHANGED <<job, built, reverify>> /\ alone' \in [Procs -> BOOLEAN]
      BY <1>0, <1>3, ActsShape DEF CompareListing, StartHashing, disk, put
    <2>3. /\ left' \in [Procs -> SUBSET Files]
          /\ left'[p] = {f \in Files : listing[p][f] # 0}
          /\ \A q \in Procs \ {p} : left'[q] = left[q]
          /\ job[p] \in Keys
      BY <1>0, <1>3 DEF LocalsOK, StartHashing
    <2>4. LocalsOK' /\ LocalsKept(Procs \ {p}) /\ DiskOK' /\ FlagsOK'
      BY <1>0, <2>1, <2>2, <2>3 DEF LocalsOK, LocalsKept, DiskOK, FlagsOK
    <2>5. MarksKept(0)
      BY <2>2, QuietMarks
    <2>6. TempOf(p)'
      BY <1>0, <2>1, <2>2, <2>5, TicketKept DEF ProcInv, TempOf, InPut, BeforePut
    <2>7. HashOf(p)'
      <3>1. \A f \in Files : data[job[p]][f] = "none" <=> stamp[job[p]][f] = 0
        BY <1>0, <2>3 DEF DiskOK
      <3>2. \A f \in Files : sum[p][f] = "none"
        BY <1>0 DEF ProcInv, HashOf, NoBytes
      <3> QED BY <1>0, <2>1, <2>2, <2>3, <3>1, <3>2 DEF ProcInv, HashOf
    <2>8. Agrees(note[p], job[p])' /\ Agrees(mine[p], job[p])'
      BY <1>0, <2>2 DEF ProcInv, Agrees
    <2> QED BY <1>0, <2>2, <2>4, <2>5, <2>6, <2>7, <2>8, StillFrame DEF ProcInv
  <1> QED BY <1>2, <1>3 DEF CompareListing

LEMMA ReadFileKeeps ==
  ASSUME FastPathInv, NEW p \in Procs, NEW f \in Files, ReadFile(p, f)
  PROVE  StepOK(p)
  <1>0. DiskOK /\ LocalsOK /\ FlagsOK /\ ProcInv(p) /\ pc[p] = "read" /\ f \in left[p]
    BY DEF FastPathInv, TypeOK, ReadFile
  <1>1. CASE Rejected(p)
    BY <1>0, <1>1, RejectedKeeps DEF ReadFile
  <1>2. CASE /\ data[job[p]][f] # "none"
             /\ sum' = [sum EXCEPT ![p][f] = data[job[p]][f]]
             /\ left' = [left EXCEPT ![p] = @ \ {f}]
             /\ UNCHANGED <<pc, caller, note, listing, put>>
    <2>1. /\ UNCHANGED <<archive, dir, data, stamp, record, point, clock, memo>>
          /\ UNCHANGED <<pc, caller, note, listing, temp, ticket, mine, kept, doomed>>
          /\ UNCHANGED <<job, built, reverify>> /\ alone' \in [Procs -> BOOLEAN]
      BY <1>0, <1>2, ActsShape DEF ReadFile, disk, put
    <2>2. /\ sum' \in [Procs -> [Files -> Bytes]] /\ left' \in [Procs -> SUBSET Files]
          /\ left'[p] = left[p] \ {f} /\ job[p] \in Keys
          /\ \A g \in Files : sum'[p][g] = IF g = f THEN data[job[p]][f] ELSE sum[p][g]
          /\ \A q \in Procs \ {p} : sum'[q] = sum[q] /\ left'[q] = left[q]
      BY <1>0, <1>2 DEF LocalsOK, DiskOK
    <2>3. LocalsOK' /\ LocalsKept(Procs \ {p}) /\ DiskOK' /\ FlagsOK'
      BY <1>0, <2>1, <2>2 DEF LocalsOK, LocalsKept, DiskOK, FlagsOK
    <2>4. MarksKept(0)
      BY <2>1, QuietMarks
    <2>5. TempOf(p)'
      BY <1>0, <2>1, <2>4, TicketKept DEF ProcInv, TempOf, InPut, BeforePut
    <2>6. HashOf(p)'
      BY <1>0, <1>2, <2>1, <2>2 DEF ProcInv, HashOf
    <2>7. Agrees(note[p], job[p])' /\ Agrees(mine[p], job[p])'
      BY <1>0, <2>1 DEF ProcInv, Agrees
    <2> QED BY <1>0, <2>1, <2>3, <2>4, <2>5, <2>6, <2>7, StillFrame DEF ProcInv
  <1> QED BY <1>1, <1>2 DEF ReadFile

LEMMA JudgeKeeps ==
  ASSUME FastPathInv, NEW p \in Procs, Judge(p)
  PROVE  StepOK(p)
  <1>0. /\ DiskOK /\ LocalsOK /\ FlagsOK /\ ProcInv(p) /\ pc[p] = "read" /\ left[p] = {}
        /\ UNCHANGED <<archive, dir, data, stamp, point, clock>> /\ Acts(p)
    BY DEF FastPathInv, TypeOK, Judge
  <1>1. CASE Rejected(p) /\ UNCHANGED <<record, memo>>
    BY <1>0, <1>1, RejectedKeeps DEF disk
  <1>2. CASE Verified(p) /\ Memoize(p, NoRecord) /\ UNCHANGED record
    <2>1. /\ memo' \in [Procs -> [Keys -> [Files -> Nat] \cup {NoRecord}]]
          /\ \A q \in Procs \ {p} : memo'[q] = memo[q]
      BY <1>0, <1>2, MemoShape
    <2>2. /\ LocalsOK' /\ FlagsOK' /\ LocalsKept(Procs \ {p})
          /\ ticket'[p] = ticket[p] /\ ProcInv(p)'
      BY <1>0, <1>2, <2>1, VerifiedShape
    <2>3. MarksKept(0)
      BY <1>0, <1>2, VerifiedMarks DEF Verified
    <2>4. DiskOK'
      BY <1>0, <1>2 DEF DiskOK
    <2> QED BY <1>0, <1>2, <2>2, <2>3, <2>4, StillFrame
  <1>3. CASE /\ Verified(p) /\ Memoize(p, listing[p])
             /\ record' = [record EXCEPT ![job[p]] = Refreshed(p)]
    <2>1. listing[p] \in [Files -> Nat] /\ job[p] \in Keys
      BY <1>0, StoreAssumption DEF LocalsOK
    <2>2. Refreshed(p) \in Records /\ Refreshed(p).fp = listing[p] /\ Refreshed(p).tree = sum[p]
      BY <1>0, <2>1 DEF Refreshed, Records, LocalsOK
    <2>3. /\ memo' \in [Procs -> [Keys -> [Files -> Nat] \cup {NoRecord}]]
          /\ \A q \in Procs \ {p} : memo'[q] = memo[q]
      BY <1>0, <1>3, <2>1, MemoShape
    <2>4. /\ LocalsOK' /\ FlagsOK' /\ LocalsKept(Procs \ {p})
          /\ ticket'[p] = ticket[p] /\ ProcInv(p)'
      BY <1>0, <1>3, <2>3, VerifiedShape
    <2>5. \A k \in Keys : record'[k] = IF k = job[p] THEN Refreshed(p) ELSE record[k]
      BY <1>0, <1>3 DEF DiskOK
    <2>6. MarksKept(0)
      BY <1>0, <1>3, <2>1, <2>2, <2>5, VerifiedMarks DEF Verified
    <2>7. DiskOK'
      BY <1>0, <1>3, <2>2 DEF DiskOK
    <2>8. CellsKept(Procs \ {p})
      BY <1>0 DEF CellsKept
    <2>9. \A k \in Keys : Agrees(record[k], k)'
      <3>1. \A f \in Files : /\ listing[p][f] = 0 <=> sum[p][f] = "none"
                             /\ listing[p][f] = stamp[job[p]][f] => sum[p][f] = data[job[p]][f]
        BY <1>0 DEF ProcInv, HashOf
      <3> QED BY <1>0, <2>2, <2>5, <3>1 DEF FastPathInv, Agrees
    <2> QED BY <1>0, <2>4, <2>6, <2>7, <2>8, <2>9, StepFrame
  <1> QED BY <1>1, <1>2, <1>3 DEF Judge

\* A step of p that gives p a new stamp, and changes no file.
LEMMA PutArchiveKeeps ==
  ASSUME FastPathInv, NEW p \in Procs, PutArchive(p)
  PROVE  StepOK(p)
  <1> DEFINE Q == Procs \ {p}
  <1>0. /\ DiskOK /\ LocalsOK /\ FlagsOK /\ ProcInv(p) /\ pc[p] = "archive"
        /\ clock < MaxClock /\ clock' = clock + 1 /\ Acts(p)
    BY DEF FastPathInv, TypeOK, PutArchive
  <1>1. clock \in Nat /\ MaxClock \in Nat /\ clock' \in 1 .. MaxClock
    BY <1>0, StoreAssumption DEF DiskOK
  <1>2. /\ UNCHANGED <<dir, data, stamp, record, point, memo, caller, note, listing, sum, temp,
                       mine, kept, doomed, job, built, reverify>>
        /\ alone' \in [Procs -> BOOLEAN]
    BY <1>0, ActsShape DEF PutArchive
  <1>3. pc' \in [Procs -> Steps] /\ pc'[p] = "unpack" /\ \A q \in Q : pc'[q] = pc[q]
    BY <1>0, GotoShape DEF PutArchive, Steps
  <1>4. /\ ticket' \in [Procs -> 0 .. MaxClock] /\ left' \in [Procs -> SUBSET Files]
        /\ ticket'[p] = clock' /\ \A q \in Q : ticket'[q] = ticket[q] /\ left'[q] = left[q]
    <2>1. ticket' = [ticket EXCEPT ![p] = clock'] /\ left' = [left EXCEPT ![p] = Files]
      BY DEF PutArchive
    <2> QED BY <1>0, <1>1, <2>1 DEF LocalsOK
  <1>5. archive' \in [Keys -> BOOLEAN]
    BY <1>0 DEF PutArchive, DiskOK
  <1>6. TypeOK' /\ LocalsKept(Q)
    <2>1. DiskOK' /\ FlagsOK'
      BY <1>0, <1>1, <1>2, <1>5 DEF DiskOK, FlagsOK
    <2>2. LocalsOK' /\ LocalsKept(Q)
      BY <1>0, <1>2, <1>3, <1>4 DEF LocalsOK, LocalsKept
    <2> QED BY <2>1, <2>2 DEF TypeOK
  <1>7. CellsKept(Q) /\ MarksKept(0)
    BY <1>2, QuietMarks DEF CellsKept
  <1>8. \A k \in Keys : Agrees(record[k], k)'
    BY <1>2, <1>7, RecordsKept
  <1>9. TempOf(p)'
    <2>1. Free(ticket[p])' /\ ticket'[p] # 0
      <3> PICK t \in 1 .. MaxClock : t = clock'
        BY <1>1
      <3>1. Free(t)
        BY <1>0, <1>1 DEF FastPathInv, ClockInv
      <3>2. Free(t)'
        BY <1>7, <3>1 DEF MarksKept
      <3> QED BY <1>1, <1>4, <3>2
    <2>2. temp'[p] = NoBytes /\ mine'[p] = NoRecord
      BY <1>0, <1>2 DEF ProcInv, TempOf, BeforePut
    <2> QED BY <1>3, <2>1, <2>2 DEF TempOf, InPut, BeforePut
  <1>10. HashOf(p)' /\ Agrees(note[p], job[p])' /\ Agrees(mine[p], job[p])'
    BY <1>0, <1>2, <1>3 DEF ProcInv, HashOf, Agrees
  <1>11. OneActs(Q) /\ ClockKept(Q)
    BY <1>0, <1>4 DEF OneActs, ClockKept
  <1>12. \A q \in Procs \ Q : q = p
    OBVIOUS
  <1>13. 0 \in Nat /\ 0 <= clock'
    BY <1>1
  <1> QED BY <1>6, <1>7, <1>8, <1>9, <1>10, <1>11, <1>12, <1>13, Frame DEF ProcInv, StepOK

LEMMA RemoveFileKeeps ==
  ASSUME FastPathInv, NEW p \in Procs, NEW f \in Files, RemoveFile(p, f)
  PROVE  StepOK(p)
  <1>0. DiskOK /\ LocalsOK /\ FlagsOK /\ ProcInv(p) /\ Acts(p) /\ job[p] \in Keys
    BY DEF FastPathInv, TypeOK, RemoveFile, LocalsOK
  <1>1. /\ UNCHANGED <<archive, dir, record, point, clock, pc, memo>>
        /\ UNCHANGED <<caller, note, listing, sum, left, temp, ticket, mine, kept, doomed>>
        /\ UNCHANGED <<job, built, reverify>> /\ alone' \in [Procs -> BOOLEAN]
    BY <1>0, ActsShape DEF RemoveFile, verify, put
  <1>2. \A k \in Keys, g \in Files :
          /\ stamp'[k][g] = IF k = job[p] /\ g = f THEN 0 ELSE stamp[k][g]
          /\ data'[k][g] = IF k = job[p] /\ g = f THEN "none" ELSE data[k][g]
    BY <1>0 DEF RemoveFile, DiskOK
  <1>3. /\ data' \in [Keys -> [Files -> Bytes]]
        /\ stamp' \in [Keys -> [Files -> 0 .. MaxClock]]
    BY <1>0, StoreAssumption DEF RemoveFile, DiskOK, Bytes
  <1>4. \A k \in Keys : dir[k] = 0 => data'[k] = NoBytes
    <2> SUFFICES ASSUME NEW k \in Keys, dir[k] = 0 PROVE data'[k] = NoBytes
      OBVIOUS
    <2>1. \A g \in Files : data'[k][g] = "none"
      BY <1>0, <1>2 DEF DiskOK, NoBytes
    <2>2. data'[k] \in [Files -> Bytes]
      BY <1>3
    <2> QED BY <2>1, <2>2 DEF NoBytes
  <1>5. DiskOK' /\ FlagsOK' /\ LocalsOK' /\ LocalsKept(Procs \ {p})
    <2>1. DiskOK'
      BY <1>0, <1>1, <1>2, <1>3, <1>4 DEF DiskOK
    <2>2. FlagsOK' /\ LocalsOK'
      BY <1>0, <1>1 DEF FlagsOK, LocalsOK
    <2>3. LocalsKept(Procs \ {p})
      BY <1>1 DEF LocalsKept
    <2> QED BY <2>1, <2>2, <2>3
  <1>6. CellsKept(Procs \ {p})
    BY <1>2 DEF CellsKept
  <1>7. MarksKept(0)
    BY <1>1, <1>2 DEF MarksKept, Free
  <1>8. \A k \in Keys : Agrees(record[k], k)'
    BY <1>1, <1>6, RecordsKept
  <1>9. TempOf(p)'
    BY <1>0, <1>1, <1>7, TicketKept DEF ProcInv, TempOf, InPut, BeforePut
  <1>10. HashOf(p)' /\ Agrees(note[p], job[p])' /\ Agrees(mine[p], job[p])'
    <2>1. HashOf(p)' /\ note[p] = NoRecord
      BY <1>0, <1>1 DEF ProcInv, HashOf, RemoveFile
    <2>2. Agrees(mine[p], job[p])'
      BY <1>0, <1>1, <1>2 DEF ProcInv, Agrees
    <2> QED BY <1>1, <2>1, <2>2 DEF Agrees
  <1> QED BY <1>0, <1>1, <1>5, <1>6, <1>7, <1>8, <1>9, <1>10, StepFrame DEF ProcInv

LEMMA PlaceKeeps ==
  ASSUME FastPathInv, NEW p \in Procs, Place(p)
  PROVE  StepOK(p)
  <1>0. /\ DiskOK /\ LocalsOK /\ FlagsOK /\ ProcInv(p) /\ Acts(p) /\ job[p] \in Keys
        /\ pc[p] = "place" /\ mine[p] # NoRecord /\ note[p] = NoRecord
    BY DEF FastPathInv, TypeOK, Place, LocalsOK, ProcInv, TempOf, HashOf, InPut
  <1>1. /\ UNCHANGED <<archive, record, point, clock, memo>>
        /\ UNCHANGED <<caller, note, listing, sum, left, ticket, mine, kept, doomed>>
        /\ UNCHANGED <<job, built, reverify>> /\ alone' \in [Procs -> BOOLEAN]
    BY <1>0, ActsShape DEF Place, verify
  <1>2. /\ pc' \in [Procs -> Steps] /\ \A q \in Procs \ {p} : pc'[q] = pc[q]
        /\ pc'[p] \in {"seal", "failed"}
    BY <1>0, GotoShape DEF Place, Steps
  <1>3. /\ temp' \in [Procs -> [Files -> Bytes]] /\ temp'[p] = NoBytes
        /\ \A q \in Procs \ {p} : temp'[q] = temp[q]
    BY <1>0 DEF Place, LocalsOK, NoBytes, Bytes
  <1>4. LocalsOK' /\ LocalsKept(Procs \ {p}) /\ FlagsOK'
    BY <1>0, <1>1, <1>2, <1>3 DEF LocalsOK, LocalsKept, FlagsOK
  <1>5. TempOf(p)' /\ HashOf(p)'
    BY <1>0, <1>1, <1>2, <1>3 DEF ProcInv, TempOf, HashOf, InPut, BeforePut
  <1>6. Agrees(note[p], job[p])'
    BY <1>0, <1>1 DEF Agrees
  <1>7. CASE UNCHANGED <<dir, data, stamp>>
    <2>1. DiskOK'
      BY <1>0, <1>1, <1>7 DEF DiskOK
    <2>2. Agrees(mine[p], job[p])'
      BY <1>0, <1>1, <1>7 DEF ProcInv, Agrees
    <2>3. MarksKept(0)
      BY <1>1, <1>7, QuietMarks
    <2> QED BY <1>1, <1>4, <1>5, <1>6, <1>7, <2>1, <2>2, <2>3, StillFrame DEF ProcInv
  <1>8. CASE /\ temp[p] # NoBytes
             /\ dir' = [dir EXCEPT ![job[p]] = ticket[p]]
             /\ data' = [data EXCEPT ![job[p]] = temp[p]]
             /\ stamp' = [stamp EXCEPT ![job[p]] = TempStamps(p)]
    <2>1. ticket[p] # 0 /\ Free(ticket[p]) /\ ticket[p] \in 0 .. MaxClock /\ mine[p].tree = temp[p]
      BY <1>0, <1>8 DEF ProcInv, TempOf, LocalsOK
    <2>2. TempStamps(p) \in [Files -> 0 .. MaxClock] /\ temp[p] \in [Files -> Bytes]
      BY <1>0, <2>1, StoreAssumption DEF TempStamps, LocalsOK
    <2>3. \A f \in Files : TempStamps(p)[f] = IF temp[p][f] = "none" THEN 0 ELSE ticket[p]
      BY DEF TempStamps
    <2>4. \A k \in Keys :
            /\ dir'[k] = IF k = job[p] THEN ticket[p] ELSE dir[k]
            /\ data'[k] = IF k = job[p] THEN temp[p] ELSE data[k]
            /\ stamp'[k] = IF k = job[p] THEN TempStamps(p) ELSE stamp[k]
      BY <1>0, <1>8 DEF DiskOK
    <2>5. DiskOK'
      <3>1. /\ dir' \in [Keys -> 0 .. MaxClock]
            /\ data' \in [Keys -> [Files -> Bytes]]
            /\ stamp' \in [Keys -> [Files -> 0 .. MaxClock]]
        BY <1>0, <1>8, <2>1, <2>2 DEF DiskOK
      <3>2. \A k \in Keys :
              /\ dir'[k] = 0 => data'[k] = NoBytes
              /\ \A f \in Files : data'[k][f] = "none" <=> stamp'[k][f] = 0
        BY <1>0, <2>1, <2>3, <2>4 DEF DiskOK
      <3> QED BY <1>0, <1>1, <3>1, <3>2 DEF DiskOK
    <2>6. CellsKept(Procs \ {p})
      <3>1. \A q \in Procs \ {p} : ticket[q] # ticket[p]
        BY <2>1 DEF FastPathInv, ClockInv
      <3>2. \A k \in Keys, f \in Files :
              \/ stamp'[k][f] = stamp[k][f] /\ data'[k][f] = data[k][f]
              \/ stamp'[k][f] = 0 /\ data'[k][f] = "none"
              \/ stamp'[k][f] = ticket[p]
        BY <2>3, <2>4
      <3> QED BY <2>1, <3>1, <3>2 DEF CellsKept
    <2>7. MarksKept(ticket[p])
      <3>1. \A k \in Keys, f \in Files : stamp'[k][f] \in {0, ticket[p], stamp[k][f]}
        BY <2>3, <2>4
      <3> QED BY <1>1, <3>1 DEF MarksKept, Free
    <2>8. \A k \in Keys : Agrees(record[k], k)'
      BY <1>1, <2>6, RecordsKept
    <2>9. Agrees(mine[p], job[p])'
      BY <1>0, <1>1, <2>1, <2>4 DEF ProcInv, Agrees
    <2> QED BY <1>1, <1>4, <1>5, <1>6, <2>5, <2>6, <2>7, <2>8, <2>9, StepFrame DEF ProcInv
  <1> QED BY <1>7, <1>8 DEF Place

LEMMA WriteRecordKeeps ==
  ASSUME FastPathInv, NEW p \in Procs, WriteRecord(p)
  PROVE  StepOK(p)
  <1>0. /\ DiskOK /\ LocalsOK /\ FlagsOK /\ ProcInv(p) /\ Acts(p) /\ job[p] \in Keys
        /\ pc[p] = "index" /\ mine[p] # NoRecord /\ mine[p] \in Records
    BY DEF FastPathInv, TypeOK, WriteRecord, LocalsOK, ProcInv, TempOf, InPut
  <1>1. /\ UNCHANGED <<archive, dir, data, stamp, point, clock, memo>>
        /\ UNCHANGED <<caller, note, listing, sum, left, temp, ticket, mine, kept, doomed>>
        /\ UNCHANGED <<job, built, reverify>> /\ alone' \in [Procs -> BOOLEAN]
    BY <1>0, ActsShape DEF WriteRecord, verify, put
  <1>2. pc' \in [Procs -> Steps] /\ pc'[p] = "point" /\ \A q \in Procs \ {p} : pc'[q] = pc[q]
    BY <1>0, GotoShape DEF WriteRecord, Steps
  <1>3. /\ record' \in [Keys -> Records \cup {NoRecord}]
        /\ \A k \in Keys : record'[k] = IF k = job[p] THEN mine[p] ELSE record[k]
    BY <1>0 DEF WriteRecord, DiskOK
  <1>4. DiskOK' /\ LocalsOK' /\ LocalsKept(Procs \ {p}) /\ FlagsOK'
    BY <1>0, <1>1, <1>2, <1>3 DEF DiskOK, LocalsOK, LocalsKept, FlagsOK
  <1>5. CellsKept(Procs \ {p})
    BY <1>1 DEF CellsKept
  <1>6. MarksKept(ticket[p])
    <2>1. \A f \in Files : mine[p].fp[f] \in {0, ticket[p]}
      BY <1>0 DEF ProcInv, TempOf
    <2> QED BY <1>1, <1>3, <2>1 DEF MarksKept, Free
  <1>7. \A k \in Keys : Agrees(record[k], k)'
    BY <1>0, <1>1, <1>3 DEF FastPathInv, ProcInv, Agrees
  <1>8. TempOf(p)' /\ HashOf(p)'
    BY <1>0, <1>1, <1>2 DEF ProcInv, TempOf, HashOf, InPut, BeforePut
  <1>9. Agrees(note[p], job[p])' /\ Agrees(mine[p], job[p])'
    BY <1>0, <1>1 DEF ProcInv, Agrees
  <1> QED BY <1>1, <1>4, <1>5, <1>6, <1>7, <1>8, <1>9, StepFrame DEF ProcInv

LEMMA CleanTreesKeeps ==
  ASSUME FastPathInv, NEW p \in Procs, CleanTrees(p)
  PROVE  StepOK(p)
  <1>0. /\ DiskOK /\ LocalsOK /\ FlagsOK /\ ProcInv(p) /\ Acts(p) /\ job[p] \in Keys
        /\ pc[p] = "clean trees"
    BY DEF FastPathInv, TypeOK, CleanTrees, LocalsOK
  <1>1. /\ UNCHANGED <<archive, record, point, clock, memo>>
        /\ UNCHANGED <<caller, note, listing, sum, left, ticket, mine, kept, doomed>>
        /\ UNCHANGED <<job, built, reverify>> /\ alone' \in [Procs -> BOOLEAN]
    BY <1>0, ActsShape DEF CleanTrees, verify
  <1>2. pc' \in [Procs -> Steps] /\ pc'[p] = "clean index" /\ \A q \in Procs \ {p} : pc'[q] = pc[q]
    BY <1>0, GotoShape DEF CleanTrees, Steps
  <1>3. NoBytes \in [Files -> Bytes] /\ NoStamps \in [Files -> 0 .. MaxClock]
    BY StoreAssumption DEF NoBytes, NoStamps, Bytes
  <1>4. temp' \in [Procs -> [Files -> Bytes]] /\ \A q \in Procs : temp'[q] = NoBytes
    BY <1>3 DEF CleanTrees
  <1>5. LocalsOK' /\ LocalsKept(Procs \ {p}) /\ FlagsOK'
    BY <1>0, <1>1, <1>2, <1>4 DEF LocalsOK, LocalsKept, FlagsOK
  <1>6. \A k \in Keys : dir'[k] = 0 /\ data'[k] = NoBytes /\ stamp'[k] = NoStamps
    BY DEF CleanTrees
  <1>7. \A f \in Files : NoBytes[f] = "none" /\ NoStamps[f] = 0
    BY DEF NoBytes, NoStamps
  <1>8. DiskOK'
    <2>1. /\ dir' \in [Keys -> 0 .. MaxClock]
          /\ data' \in [Keys -> [Files -> Bytes]]
          /\ stamp' \in [Keys -> [Files -> 0 .. MaxClock]]
      <3>1. 0 \in 0 .. MaxClock
        BY StoreAssumption
      <3> QED BY <1>3, <3>1 DEF CleanTrees
    <2> QED BY <1>0, <1>1, <1>6, <1>7, <2>1 DEF DiskOK
  <1>9. CellsKept(Procs \ {p})
    BY <1>6, <1>7 DEF CellsKept
  <1>10. MarksKept(0)
    <2>1. \A k \in Keys, f \in Files : stamp'[k][f] = 0
      BY <1>6, <1>7
    <2> QED BY <1>1, <2>1 DEF MarksKept, Free
  <1>11. \A k \in Keys : Agrees(record[k], k)'
    BY <1>1, <1>9, RecordsKept
  <1>12. TempOf(p)' /\ HashOf(p)' /\ note[p] = NoRecord
    BY <1>0, <1>1, <1>2, <1>4 DEF ProcInv, TempOf, HashOf, InPut, BeforePut
  <1>13. Agrees(note[p], job[p])' /\ Agrees(mine[p], job[p])'
    <2>1. \A f \in Files : stamp'[job[p]][f] = 0 /\ data'[job[p]][f] = "none"
      BY <1>0, <1>6, <1>7
    <2>2. Agrees(mine[p], job[p])'
      BY <1>0, <1>1, <2>1 DEF ProcInv, Agrees
    <2> QED BY <1>1, <1>12, <2>2 DEF Agrees
  <1> QED BY <1>1, <1>5, <1>8, <1>9, <1>10, <1>11, <1>12, <1>13, StepFrame DEF ProcInv

LEMMA CleanIndexKeeps ==
  ASSUME FastPathInv, NEW p \in Procs, CleanIndex(p)
  PROVE  StepOK(p)
  <1>0. /\ DiskOK /\ LocalsOK /\ FlagsOK /\ ProcInv(p) /\ Acts(p)
        /\ pc[p] = "clean index"
    BY DEF FastPathInv, TypeOK, CleanIndex
  <1>1. /\ UNCHANGED <<archive, dir, data, stamp, point, clock, memo>>
        /\ UNCHANGED <<caller, note, listing, sum, left, temp, ticket, mine, kept, doomed>>
        /\ UNCHANGED <<job, built, reverify>> /\ alone' \in [Procs -> BOOLEAN]
    BY <1>0, ActsShape DEF CleanIndex, verify, put
  <1>2. pc' \in [Procs -> Steps] /\ pc'[p] = "clean points" /\ \A q \in Procs \ {p} : pc'[q] = pc[q]
    BY <1>0, GotoShape DEF CleanIndex, Steps
  <1>3. record' \in [Keys -> Records \cup {NoRecord}] /\ \A k \in Keys : record'[k] = NoRecord
    BY DEF CleanIndex
  <1>4. DiskOK' /\ LocalsOK' /\ LocalsKept(Procs \ {p}) /\ FlagsOK'
    BY <1>0, <1>1, <1>2, <1>3 DEF DiskOK, LocalsOK, LocalsKept, FlagsOK
  <1>5. CellsKept(Procs \ {p})
    BY <1>1 DEF CellsKept
  <1>6. MarksKept(0)
    BY <1>1, <1>3 DEF MarksKept, Free
  <1>7. \A k \in Keys : Agrees(record[k], k)'
    BY <1>3 DEF Agrees
  <1>8. TempOf(p)'
    BY <1>0, <1>1, <1>2, <1>6, TicketKept DEF ProcInv, TempOf, InPut, BeforePut
  <1>9. HashOf(p)' /\ Agrees(note[p], job[p])' /\ Agrees(mine[p], job[p])'
    BY <1>0, <1>1, <1>2 DEF ProcInv, HashOf, Agrees
  <1> QED BY <1>1, <1>4, <1>5, <1>6, <1>7, <1>8, <1>9, StepFrame DEF ProcInv

\* Nobody acts: every process is a bystander.
LEMMA EditKeeps ==
  ASSUME FastPathInv, NEW k \in Keys, NEW f \in Files, NEW bytes \in {"true", "edited"},
         Edit(k, f, bytes)
  PROVE  EditOK
  <1>0. /\ DiskOK /\ LocalsOK /\ FlagsOK
        /\ clock < MaxClock /\ clock' = clock + 1
    BY DEF FastPathInv, TypeOK, Edit
  <1>1. clock \in Nat /\ MaxClock \in Nat /\ clock' \in 1 .. MaxClock
    BY <1>0, StoreAssumption DEF DiskOK
  <1>2. /\ UNCHANGED <<archive, dir, record, point, pc, memo>>
        /\ UNCHANGED <<caller, note, listing, sum, left, temp, ticket, mine, kept, doomed>>
        /\ UNCHANGED <<job, built, reverify>> /\ alone' \in [Procs -> BOOLEAN]
    BY DEF Edit, verify, put
  <1>3. /\ data' = [data EXCEPT ![k][f] = bytes] /\ data[k][f] # "none"
        /\ stamp' = [stamp EXCEPT ![k][f] = clock']
    BY DEF Edit
  <1>4. \A j \in Keys, g \in Files :
          /\ stamp'[j][g] = IF j = k /\ g = f THEN clock' ELSE stamp[j][g]
          /\ data'[j][g] = IF j = k /\ g = f THEN bytes ELSE data[j][g]
    BY <1>0, <1>3 DEF DiskOK
  <1>5. TypeOK'
    <2>1. /\ data' \in [Keys -> [Files -> Bytes]]
          /\ stamp' \in [Keys -> [Files -> 0 .. MaxClock]]
      <3>1. bytes \in Bytes /\ clock' \in 0 .. MaxClock
        BY <1>1 DEF Bytes
      <3> QED BY <1>0, <1>3, <3>1 DEF DiskOK
    <2>2. \A j \in Keys : dir[j] = 0 => data'[j] = NoBytes
      <3> SUFFICES ASSUME NEW j \in Keys, dir[j] = 0 PROVE data'[j] = NoBytes
        OBVIOUS
      <3>1. j # k
        BY <1>0, <1>3 DEF DiskOK, NoBytes
      <3> QED BY <1>0, <1>3, <3>1 DEF DiskOK
    <2>3. \A j \in Keys, g \in Files : data'[j][g] = "none" <=> stamp'[j][g] = 0
      BY <1>0, <1>1, <1>4 DEF DiskOK
    <2>4. DiskOK'
      BY <1>0, <1>1, <1>2, <2>1, <2>2, <2>3 DEF DiskOK
    <2>5. LocalsOK' /\ FlagsOK'
      BY <1>0, <1>2 DEF LocalsOK, FlagsOK
    <2> QED BY <2>4, <2>5 DEF TypeOK
  <1>6. CellsKept(Procs)
    <2>1. Free(clock') /\ clock' # 0
      BY <1>0, <1>1 DEF FastPathInv, ClockInv
    <2>2. \A q \in Procs : clock' # ticket[q]
      BY <1>0, <1>1 DEF FastPathInv, ClockInv, LocalsOK
    <2>3. \A j \in Keys, g \in Files :
            \/ stamp'[j][g] = stamp[j][g] /\ data'[j][g] = data[j][g]
            \/ stamp'[j][g] = clock'
      BY <1>4
    <2> QED BY <2>1, <2>2, <2>3 DEF CellsKept
  <1>7. \A j \in Keys : Agrees(record[j], j)'
    BY <1>2, <1>6, RecordsKept
  <1>8. LocalsKept(Procs) /\ OneActs(Procs) /\ ClockKept(Procs)
    BY <1>0, <1>2 DEF LocalsKept, OneActs, ClockKept
  <1> SUFFICES ASSUME NEW x \in Nat, x = clock' PROVE EditOK
    BY <1>1
  <1>9. MarksKept(x)
    BY <1>2, <1>4 DEF MarksKept, Free
  <1>10. x <= clock' /\ \A q \in Procs : ticket[q] # 0 => x # ticket[q]
    BY <1>0, <1>1 DEF FastPathInv, ClockInv, LocalsOK
  <1> QED BY <1>5, <1>6, <1>7, <1>8, <1>9, <1>10, Frame DEF EditOK

LEMMA FastPathInit == Init => FastPathInv
  <1> SUFFICES ASSUME Init PROVE FastPathInv
    OBVIOUS
  <1>0. MaxClock \in Nat /\ NoBytes \in [Files -> Bytes] /\ NoStamps \in [Files -> 0 .. MaxClock]
    BY StoreAssumption DEF NoBytes, NoStamps, Bytes
  <1>1. \A f \in Files : NoBytes[f] = "none" /\ NoStamps[f] = 0
    BY DEF NoBytes, NoStamps
  <1>2. DiskOK
    BY <1>0, <1>1 DEF Init, DiskOK
  <1>3. LocalsOK
    BY <1>0 DEF Init, LocalsOK, Steps
  <1>4. FlagsOK
    BY <1>0 DEF Init, FlagsOK
  <1>5. ClockInv
    BY <1>0, <1>1 DEF Init, ClockInv, Free
  <1>6. \A k \in Keys : Agrees(record[k], k)
    BY DEF Init, Agrees
  <1>7. ASSUME NEW p \in Procs PROVE ProcInv(p)
    <2>1. TempOf(p) /\ HashOf(p)
      BY DEF Init, TempOf, HashOf, InPut, BeforePut
    <2>2. Agrees(note[p], job[p]) /\ Agrees(mine[p], job[p])
      BY DEF Init, Agrees
    <2> QED BY <2>1, <2>2 DEF ProcInv
  <1> QED BY <1>2, <1>3, <1>4, <1>5, <1>6, <1>7 DEF FastPathInv, TypeOK

LEMMA ProcStepOK ==
  ASSUME FastPathInv, NEW p \in Procs, ProcStep(p)
  PROVE  StepOK(p)
  <1>1. CASE \E k \in Keys : Begin(p, k)
    BY <1>1, BeginKeeps
  <1>2. CASE VerifyStep(p)
    BY <1>2, ProbeKeeps, ReadRecordKeeps, OpenTreeKeeps, StatFileKeeps, CompareListingKeeps, ReadFileKeeps, JudgeKeeps
       DEF VerifyStep
  <1>3. CASE PutStep(p)
    BY <1>3, PutArchiveKeeps, UnpackFileKeeps, HashTempKeeps, ProbeDestKeeps, OpenDriftedKeeps,
       RemoveFileKeeps, RemoveDirKeeps, PlaceKeeps, SealKeeps, WriteRecordKeeps, WritePointKeeps
       DEF PutStep
  <1>4. CASE CleanStep(p)
    BY <1>4, CleanBeginKeeps, CleanArchivesKeeps, CleanTreesKeeps, CleanIndexKeeps,
       CleanPointsKeeps DEF CleanStep
  <1>5. CASE Compile(p) \/ Stop(p)
    BY <1>5, CompileKeeps, StopKeeps
  <1> QED BY <1>1, <1>2, <1>3, <1>4, <1>5 DEF ProcStep

LEMMA FastPathNext == FastPathInv /\ [Next]_vars => FastPathInv'
  <1> SUFFICES ASSUME FastPathInv, [Next]_vars PROVE FastPathInv'
    OBVIOUS
  <1>1. ASSUME NEW p \in Procs, ProcStep(p) PROVE FastPathInv'
    BY <1>1, ProcStepOK DEF StepOK
  <1>2. CASE UNCHANGED vars
    BY SMTT(30), <1>2 DEF vars, disk, verify, put, FastPathInv, TypeOK, DiskOK, LocalsOK, FlagsOK, ClockInv,
       Free, Agrees, ProcInv, TempOf, HashOf, InPut, BeforePut
  <1> QED BY <1>1, <1>2, EditKeeps DEF Next, ProcStep, EditOK

-----------------------------------------------------------------------------
(***************************************************************************)
(* The trust root, when nobody cleans the store                            *)
(***************************************************************************)

Trust == RecordsAttestTheArchive /\ \A p \in Procs : TrustOf(p)

Cleaning == {"clean archives", "clean trees", "clean index", "clean points"}

\* A memoized fingerprint that stands for the archive's bytes.
Attests(fp, k) ==
  fp # NoRecord =>
    \A f \in Files : fp[f] # 0 /\ (fp[f] = stamp[k][f] => data[k][f] = "true")

LEMMA TrustOfParts ==
  ASSUME NEW p \in Procs
  PROVE  TrustOf(p) <=>
           /\ pc[p] \notin Cleaning
           /\ note[p] # NoRecord => note[p].tree = Genuine
           /\ mine[p] # NoRecord => mine[p].tree = Genuine
           /\ pc[p] = "unpack" => \A f \in Files \ left[p] : temp[p][f] = "true"
           /\ \A k \in Keys : Attests(memo[p][k], k)
  BY DEF TrustOf, Attests, Cleaning

\* A fingerprint that was good stays good under whatever happens to the disk.
LEMMA AttestsKept ==
  ASSUME FastPathInv, NEW Q, CellsKept(Q), NEW q \in Procs, NEW k \in Keys,
         Attests(memo[q][k], k)
  PROVE  memo[q][k] # NoRecord =>
           \A f \in Files : /\ memo[q][k][f] # 0
                            /\ memo[q][k][f] = stamp'[k][f] => data'[k][f] = "true"
  BY DEF CellsKept, Free, Attests

\* Without `noct clean` nobody touches another's unpack.
LEMMA TempKept ==
  ASSUME LocalsOK, NEW p \in Procs, ProcStep(p), pc[p] \notin Cleaning, Cleaners = {}
  PROVE  (\A q \in Procs \ {p} : temp'[q] = temp[q]) /\ pc'[p] \notin Cleaning
  <1>1. CASE \E k \in Keys : Begin(p, k)
    BY <1>1 DEF Begin, Goto, LocalsOK, Cleaning
  <1>2. CASE VerifyStep(p)
    <2>1. CASE Rejected(p)
      BY <2>1 DEF Rejected, Goto, put, LocalsOK, Cleaning
    <2>2. CASE Verified(p)
      BY <2>2 DEF Verified, Goto, LocalsOK, Cleaning
    <2>3. CASE UNCHANGED temp /\ (UNCHANGED pc \/ Goto(p, "record") \/ Goto(p, "list") \/ Goto(p, "stat") \/ Goto(p, "read"))
      BY <2>3 DEF Goto, LocalsOK, Cleaning
    <2> QED BY <1>2, <2>1, <2>2, <2>3 DEF VerifyStep, Probe, ReadRecord, OpenTree, StatFile, CompareListing, StartHashing,
               ReadFile, Judge, put
  <1>3. CASE PutStep(p)
    <2>1. CASE PutArchive(p) \/ \E f \in Files : UnpackFile(p, f)
      BY <2>1 DEF PutArchive, UnpackFile, disk, Goto, LocalsOK, Cleaning
    <2>2. CASE HashTemp(p) \/ ProbeDest(p) \/ OpenDrifted(p)
      BY <2>2 DEF HashTemp, ProbeDest, OpenDrifted, put, Goto, LocalsOK, Cleaning
    <2>3. CASE (\E f \in Files : RemoveFile(p, f)) \/ RemoveDir(p) \/ Seal(p)
      BY <2>3 DEF RemoveFile, RemoveDir, Seal, put, Goto, LocalsOK, Cleaning
    <2>4. CASE Place(p)
      BY <2>4 DEF Place, Goto, LocalsOK, Cleaning
    <2>5. CASE WriteRecord(p) \/ WritePoint(p)
      BY <2>5 DEF WriteRecord, WritePoint, put, Goto, LocalsOK, Cleaning
    <2> QED BY <1>3, <2>1, <2>2, <2>3, <2>4, <2>5 DEF PutStep
  <1>4. CASE CleanStep(p)
    BY <1>4 DEF CleanStep, CleanBegin, CleanArchives, CleanTrees, CleanIndex, CleanPoints, Cleaning
  <1>5. CASE Compile(p) \/ Stop(p)
    BY <1>5 DEF Compile, Stop, put, Goto, LocalsOK, Cleaning
  <1> QED BY <1>1, <1>2, <1>3, <1>4, <1>5 DEF ProcStep

\* What is left to show of a step of p.
LEMMA TrustFrame ==
  ASSUME Cleaners = {}, FastPathInv, Trust, NEW p \in Procs, ProcStep(p),
         RecordsAttestTheArchive',
         note'[p] # NoRecord => note'[p].tree = Genuine,
         mine'[p] # NoRecord => mine'[p].tree = Genuine,
         pc'[p] = "unpack" => \A f \in Files \ left'[p] : temp'[p][f] = "true",
         \A k \in Keys : memo'[p][k] = memo[p][k] \/ Attests(memo[p][k], k)'
  PROVE  Trust'
  <1>1. StepOK(p) /\ LocalsOK
    BY ProcStepOK DEF FastPathInv, TypeOK
  <1>2. (\A q \in Procs \ {p} : temp'[q] = temp[q]) /\ pc'[p] \notin Cleaning
    BY <1>1, TempKept, TrustOfParts DEF Trust
  <1>3. \A q \in Procs, k \in Keys : memo'[q][k] = memo[q][k] => Attests(memo[q][k], k)'
    BY <1>1, AttestsKept, TrustOfParts DEF StepOK, Trust, Attests
  <1>4. ASSUME NEW q \in Procs PROVE TrustOf(q)'
    <2>1. CASE q = p
      BY <1>2, <1>3, <2>1 DEF TrustOf, Attests, Cleaning
    <2>2. CASE q # p
      <3>1. TrustOf(q)
        BY DEF Trust
      <3>2. /\ pc'[q] = pc[q] /\ note'[q] = note[q] /\ mine'[q] = mine[q] /\ left'[q] = left[q]
            /\ memo'[q] = memo[q] /\ temp'[q] = temp[q]
        BY <1>1, <1>2, <2>2 DEF StepOK, LocalsKept
      <3>3. \A k \in Keys : Attests(memo[q][k], k)'
        BY <1>3, <3>2
      <3> QED BY <3>1, <3>2, <3>3 DEF TrustOf, Attests
    <2> QED BY <2>1, <2>2
  <1> QED BY <1>4 DEF Trust

LEMMA PlainTrust ==
  ASSUME Cleaners = {}, FastPathInv, Trust, NEW p \in Procs, ProcStep(p),
         record' = record, memo'[p] = memo[p], note'[p] \in {note[p], NoRecord},
         mine'[p] \in {mine[p], NoRecord}, pc'[p] # "unpack"
  PROVE  Trust'
  <1>1. RecordsAttestTheArchive'
    BY DEF Trust, RecordsAttestTheArchive
  <1>2. /\ note'[p] # NoRecord => note'[p].tree = Genuine
        /\ mine'[p] # NoRecord => mine'[p].tree = Genuine
    BY DEF Trust, TrustOf
  <1> QED BY <1>1, <1>2, TrustFrame

LEMMA RejectedTrust ==
  ASSUME Cleaners = {}, FastPathInv, Trust, NEW p \in Procs, ProcStep(p), Rejected(p),
         UNCHANGED <<record, memo>>
  PROVE  Trust'
  <1>1. LocalsOK
    BY DEF FastPathInv, TypeOK
  <1>2. note'[p] = NoRecord /\ mine'[p] = mine[p]
    BY <1>1, ForgetShape DEF Rejected, put
  <1>3. pc'[p] # "unpack"
    BY <1>1 DEF Rejected, Goto, LocalsOK
  <1> QED BY <1>2, <1>3, PlainTrust

LEMMA VerifiedTrust ==
  ASSUME Cleaners = {}, FastPathInv, Trust, NEW p \in Procs, ProcStep(p), Verified(p),
         RecordsAttestTheArchive',
         \A k \in Keys : memo'[p][k] = memo[p][k] \/ Attests(memo[p][k], k)'
  PROVE  Trust'
  <1>1. LocalsOK
    BY DEF FastPathInv, TypeOK
  <1>2. note'[p] = NoRecord /\ mine'[p] = mine[p]
    BY <1>1, ForgetShape DEF Verified
  <1>3. pc'[p] # "unpack"
    BY <1>1 DEF Verified, Goto, LocalsOK
  <1>4. mine'[p] # NoRecord => mine'[p].tree = Genuine
    BY <1>2 DEF Trust, TrustOf
  <1> QED BY <1>2, <1>3, <1>4, TrustFrame

LEMMA GenuineIsTrue == \A f \in Files : Genuine[f] = "true"
  BY DEF Genuine

\* What may be concluded from a stat walk: every file is listed, and one that
\* is still as it was listed is the archive's.
LEMMA FastAccept ==
  ASSUME FastPathInv, Trust, NEW p \in Procs, pc[p] = "stat",
         listing[p] \in {memo[p][job[p]], note[p].fp}
  PROVE  \A f \in Files : /\ listing[p][f] # 0
                          /\ listing[p][f] = stamp[job[p]][f] => data[job[p]][f] = "true"
  <1>0. /\ LocalsOK /\ ProcInv(p) /\ TrustOf(p) /\ job[p] \in Keys
        /\ listing[p] \in [Files -> Nat]
    BY StoreAssumption DEF FastPathInv, TypeOK, LocalsOK, Trust
  <1>1. CASE listing[p] = memo[p][job[p]]
    <2>1. memo[p][job[p]] # NoRecord
      BY <1>0, <1>1, NoRecordAssumption
    <2> QED BY <1>0, <1>1, <2>1 DEF TrustOf
  <1>2. CASE listing[p] = note[p].fp
    <2>1. note[p] # NoRecord /\ note[p].tree = Genuine
      BY <1>0 DEF ProcInv, HashOf, TrustOf
    <2> QED BY <1>0, <1>2, <2>1, GenuineIsTrue DEF ProcInv, Agrees
  <1> QED BY <1>1, <1>2

LEMMA CompareListingTrust ==
  ASSUME Cleaners = {}, FastPathInv, Trust, NEW p \in Procs, CompareListing(p)
  PROVE  Trust'
  <1>0. /\ ProcStep(p) /\ LocalsOK /\ DiskOK /\ job[p] \in Keys /\ pc[p] = "stat"
        /\ UNCHANGED <<data, stamp, record>>
    BY DEF ProcStep, VerifyStep, CompareListing, FastPathInv, TypeOK, LocalsOK, disk
  <1>2. CASE /\ listing[p] \in {memo[p][job[p]], note[p].fp}
             /\ Verified(p) /\ Memoize(p, listing[p])
    <2>1. \A f \in Files : /\ listing[p][f] # 0
                           /\ listing[p][f] = stamp[job[p]][f] => data[job[p]][f] = "true"
      BY <1>0, <1>2, FastAccept
    <2>2. \A k \in Keys : memo'[p][k] = IF k = job[p] THEN listing[p] ELSE memo[p][k]
      BY <1>0, <1>2 DEF Memoize, LocalsOK
    <2>3. \A k \in Keys : memo'[p][k] = memo[p][k] \/ Attests(memo[p][k], k)'
      BY <1>0, <2>1, <2>2 DEF Attests
    <2>4. RecordsAttestTheArchive'
      BY <1>0 DEF Trust, RecordsAttestTheArchive
    <2> QED BY <1>0, <1>2, <2>3, <2>4, VerifiedTrust
  <1>3. CASE StartHashing(p)
    <2>1. note' = note /\ mine' = mine /\ memo' = memo /\ pc'[p] = "read"
      BY <1>0, <1>3 DEF StartHashing, put, Goto, LocalsOK
    <2> QED BY <1>0, <2>1, PlainTrust
  <1> QED BY <1>2, <1>3 DEF CompareListing

\* The walk itself concludes nothing.
LEMMA WalkTrust ==
  ASSUME Cleaners = {}, FastPathInv, Trust, NEW p \in Procs,
         OpenTree(p) \/ \E f \in Files : StatFile(p, f)
  PROVE  Trust'
  <1>0. ProcStep(p) /\ LocalsOK /\ UNCHANGED <<record, memo>>
    BY DEF ProcStep, VerifyStep, OpenTree, StatFile, FastPathInv, TypeOK, disk
  <1>1. CASE Rejected(p)
    BY <1>0, <1>1, RejectedTrust
  <1>2. CASE note' = note /\ put' = put /\ (Goto(p, "stat") \/ (UNCHANGED pc /\ pc[p] = "stat"))
    <2>1. note' = note /\ mine' = mine /\ pc'[p] = "stat"
      BY <1>0, <1>2 DEF put, Goto, LocalsOK
    <2> QED BY <1>0, <2>1, PlainTrust
  <1>3. CASE OpenTree(p)
    <2>1. Rejected(p) \/ (note' = note /\ put' = put /\ Goto(p, "stat"))
      BY <1>3 DEF OpenTree
    <2> QED BY <1>1, <1>2, <2>1
  <1>4. CASE \E f \in Files : StatFile(p, f)
    <2> PICK f \in Files : StatFile(p, f)
      BY <1>4
    <2>1. Rejected(p) \/ (note' = note /\ put' = put /\ UNCHANGED pc /\ pc[p] = "stat")
      BY DEF StatFile
    <2> QED BY <1>1, <1>2, <2>1
  <1> QED BY <1>0, <1>3, <1>4

LEMMA JudgeTrust ==
  ASSUME Cleaners = {}, FastPathInv, Trust, NEW p \in Procs, Judge(p)
  PROVE  Trust'
  <1>0. /\ ProcStep(p) /\ LocalsOK /\ DiskOK /\ job[p] \in Keys /\ pc[p] = "read" /\ left[p] = {}
        /\ UNCHANGED <<data, stamp>> /\ ProcInv(p) /\ TrustOf(p)
    BY DEF ProcStep, VerifyStep, Judge, FastPathInv, TypeOK, LocalsOK, Trust
  <1>1. CASE Rejected(p) /\ UNCHANGED <<record, memo>>
    BY <1>0, <1>1, RejectedTrust
  <1>2. CASE Verified(p) /\ Memoize(p, NoRecord) /\ UNCHANGED record
    <2>1. \A k \in Keys : memo'[p][k] = IF k = job[p] THEN NoRecord ELSE memo[p][k]
      BY <1>0, <1>2 DEF Memoize, LocalsOK
    <2>2. \A k \in Keys : memo'[p][k] = memo[p][k] \/ Attests(memo[p][k], k)'
      BY <2>1 DEF Attests
    <2>3. RecordsAttestTheArchive'
      BY <1>2 DEF Trust, RecordsAttestTheArchive
    <2> QED BY <1>0, <1>2, <2>2, <2>3, VerifiedTrust
  <1>3. CASE /\ Matches(p) /\ Verified(p) /\ Memoize(p, listing[p])
             /\ record' = [record EXCEPT ![job[p]] = Refreshed(p)]
    <2>1. sum[p] = Genuine
      BY <1>0, <1>3 DEF Matches, ProcInv, HashOf, TrustOf
    <2>2. \A f \in Files : /\ listing[p][f] # 0
                           /\ listing[p][f] = stamp[job[p]][f] => data[job[p]][f] = "true"
      BY <1>0, <2>1, GenuineIsTrue DEF ProcInv, HashOf
    <2>3. \A k \in Keys : memo'[p][k] = IF k = job[p] THEN listing[p] ELSE memo[p][k]
      BY <1>0, <1>3 DEF Memoize, LocalsOK
    <2>4. \A k \in Keys : memo'[p][k] = memo[p][k] \/ Attests(memo[p][k], k)'
      BY <1>0, <2>2, <2>3 DEF Attests
    <2>5. RecordsAttestTheArchive'
      BY <1>0, <1>3, <2>1 DEF Trust, RecordsAttestTheArchive, Refreshed, DiskOK
    <2> QED BY <1>0, <1>3, <2>4, <2>5, VerifiedTrust
  <1> QED BY <1>1, <1>2, <1>3 DEF Judge

LEMMA VerifyTrust ==
  ASSUME Cleaners = {}, FastPathInv, Trust, NEW p \in Procs, VerifyStep(p)
  PROVE  Trust'
  <1>0. ProcStep(p) /\ LocalsOK /\ DiskOK /\ job[p] \in Keys
    BY DEF ProcStep, FastPathInv, TypeOK, LocalsOK
  <1>1. CASE Probe(p)
    <2>1. CASE Rejected(p)
      BY <1>0, <1>1, <2>1, RejectedTrust DEF Probe, disk
    <2>2. CASE Goto(p, "record") /\ UNCHANGED <<verify, put>>
      <3>1. note' = note /\ mine' = mine /\ memo' = memo /\ record' = record /\ pc'[p] = "record"
        BY <1>0, <1>1, <2>2 DEF Probe, verify, put, disk, Goto, LocalsOK
      <3> QED BY <1>0, <3>1, PlainTrust
    <2> QED BY <1>1, <2>1, <2>2 DEF Probe
  <1>2. CASE ReadRecord(p)
    <2>1. CASE Rejected(p)
      BY <1>0, <1>2, <2>1, RejectedTrust DEF ReadRecord, disk
    <2>2. CASE /\ record[job[p]] # NoRecord
               /\ note' = [note EXCEPT ![p] = record[job[p]]]
               /\ Goto(p, "list")
               /\ UNCHANGED <<caller, listing, sum, left, put>>
      <3>1. /\ note'[p] = record[job[p]] /\ mine' = mine /\ memo' = memo /\ record' = record
            /\ pc'[p] = "list"
        BY <1>0, <1>2, <2>2 DEF ReadRecord, put, disk, Goto, LocalsOK
      <3>2. note'[p] # NoRecord => note'[p].tree = Genuine
        BY <1>0, <3>1 DEF Trust, RecordsAttestTheArchive
      <3>3. mine'[p] # NoRecord => mine'[p].tree = Genuine
        BY <3>1 DEF Trust, TrustOf
      <3>4. RecordsAttestTheArchive'
        BY <3>1 DEF Trust, RecordsAttestTheArchive
      <3> QED BY <1>0, <3>1, <3>2, <3>3, <3>4, TrustFrame
    <2> QED BY <1>2, <2>1, <2>2 DEF ReadRecord
  <1>3. CASE \E f \in Files : ReadFile(p, f)
    <2>1. CASE Rejected(p)
      BY <1>0, <1>3, <2>1, RejectedTrust DEF ReadFile, disk
    <2>2. CASE UNCHANGED <<pc, caller, note, listing, put>>
      <3>1. note' = note /\ mine' = mine /\ memo' = memo /\ record' = record /\ pc'[p] = "read"
        BY <1>3, <2>2 DEF ReadFile, put, disk
      <3> QED BY <1>0, <3>1, PlainTrust
    <2> QED BY <1>3, <2>1, <2>2 DEF ReadFile
  <1> QED BY <1>1, <1>2, <1>3, WalkTrust, CompareListingTrust, JudgeTrust DEF VerifyStep

LEMMA PutTrust ==
  ASSUME Cleaners = {}, FastPathInv, Trust, NEW p \in Procs, PutStep(p)
  PROVE  Trust'
  <1>0. /\ ProcStep(p) /\ LocalsOK /\ DiskOK /\ job[p] \in Keys /\ ProcInv(p) /\ TrustOf(p)
        /\ record' = record => RecordsAttestTheArchive'
    BY DEF ProcStep, FastPathInv, TypeOK, LocalsOK, Trust, RecordsAttestTheArchive
  <1>1. CASE PutArchive(p)
    <2>1. note' = note /\ mine' = mine /\ memo' = memo /\ record' = record /\ left'[p] = Files
      BY <1>0, <1>1 DEF PutArchive, LocalsOK
    <2> QED BY <1>0, <2>1, TrustFrame DEF TrustOf
  <1>2. CASE \E f \in Files : UnpackFile(p, f)
    <2>1. PICK f \in Files : UnpackFile(p, f)
      BY <1>2
    <2>2. note' = note /\ mine' = mine /\ memo' = memo /\ record' = record
      BY <2>1 DEF UnpackFile, disk
    <2>3. left'[p] = left[p] \ {f} /\ \A g \in Files : temp'[p][g] = IF g = f THEN "true" ELSE temp[p][g]
      BY <1>0, <2>1 DEF UnpackFile, LocalsOK
    <2>4. \A g \in Files \ left'[p] : temp'[p][g] = "true"
      BY <1>0, <2>1, <2>3 DEF UnpackFile, TrustOf
    <2> QED BY <1>0, <2>2, <2>4, TrustFrame DEF TrustOf
  <1>3. CASE HashTemp(p)
    <2>1. temp[p] = Genuine
      <3>1. \A f \in Files : temp[p][f] = "true"
        BY <1>0, <1>3 DEF HashTemp, TrustOf
      <3> QED BY <1>0, <3>1 DEF LocalsOK, Genuine
    <2>2. /\ note' = note /\ memo' = memo /\ record' = record /\ pc'[p] # "unpack"
          /\ mine'[p] = mine[p] \/ mine'[p] = [tree |-> temp[p], fp |-> TempStamps(p)]
      BY <1>0, <1>3 DEF HashTemp, disk, verify, Unpacked, Goto, LocalsOK
    <2>3. mine'[p] # NoRecord => mine'[p].tree = Genuine
      <3>1. mine[p] # NoRecord => mine[p].tree = Genuine
        BY <1>0 DEF TrustOf
      <3>2. [tree |-> temp[p], fp |-> TempStamps(p)].tree = Genuine
        BY <2>1
      <3> QED BY <2>2, <3>1, <3>2
    <2> QED BY <1>0, <2>2, <2>3, TrustFrame DEF TrustOf
  <1>4. CASE ProbeDest(p) \/ OpenDrifted(p) \/ (\E f \in Files : RemoveFile(p, f)) \/ RemoveDir(p)
    <2>1. note' = note /\ mine' = mine /\ memo' = memo /\ record' = record /\ pc'[p] # "unpack"
      BY <1>0, <1>4 DEF ProbeDest, OpenDrifted, RemoveFile, RemoveDir, disk, verify, put, Goto, LocalsOK
    <2> QED BY <1>0, <2>1, PlainTrust
  <1>5. CASE Place(p) \/ Seal(p)
    <2>1. note' = note /\ mine' = mine /\ memo' = memo /\ record' = record /\ pc'[p] # "unpack"
      BY <1>0, <1>5 DEF Place, Seal, disk, verify, put, Goto, LocalsOK
    <2> QED BY <1>0, <2>1, PlainTrust
  <1>6. CASE WriteRecord(p)
    <2>1. /\ note' = note /\ mine' = mine /\ memo' = memo /\ pc'[p] # "unpack"
          /\ \A k \in Keys : record'[k] = IF k = job[p] THEN mine[p] ELSE record[k]
      BY <1>0, <1>6 DEF WriteRecord, verify, put, Goto, LocalsOK, DiskOK
    <2>2. RecordsAttestTheArchive'
      BY <1>0, <2>1 DEF Trust, TrustOf, RecordsAttestTheArchive
    <2> QED BY <1>0, <2>1, <2>2, TrustFrame DEF TrustOf
  <1>7. CASE WritePoint(p)
    <2>1. mine[p] # NoRecord /\ mine[p].tree = Genuine /\ ticket[p] # 0
      BY <1>0, <1>7 DEF WritePoint, ProcInv, TempOf, InPut, TrustOf
    <2>2. /\ note' = note /\ record' = record /\ mine'[p] = NoRecord /\ pc'[p] # "unpack"
          /\ UNCHANGED <<data, stamp>>
          /\ \A k \in Keys : memo'[p][k] = IF k = job[p] THEN mine[p].fp ELSE memo[p][k]
      BY <1>0, <1>7 DEF WritePoint, Goto, Memoize, LocalsOK
    <2>3. \A f \in Files : /\ mine[p].fp[f] # 0
                           /\ mine[p].fp[f] = stamp[job[p]][f] => data[job[p]][f] = "true"
      BY <1>0, <2>1, GenuineIsTrue DEF ProcInv, TempOf, Agrees
    <2>4. \A k \in Keys : memo'[p][k] = memo[p][k] \/ Attests(memo[p][k], k)'
      BY <1>0, <2>2, <2>3 DEF Attests
    <2> QED BY <1>0, <2>2, <2>4, TrustFrame DEF TrustOf
  <1> QED BY <1>1, <1>2, <1>3, <1>4, <1>5, <1>6, <1>7 DEF PutStep

LEMMA TrustNext ==
  ASSUME Cleaners = {}, FastPathInv, Trust, [Next]_vars
  PROVE  Trust'
  <1>0. LocalsOK
    BY DEF FastPathInv, TypeOK
  <1>1. ASSUME NEW p \in Procs, NEW k \in Keys, Begin(p, k) PROVE Trust'
    <2>1. /\ note' = note /\ mine'[p] = NoRecord /\ memo' = memo /\ record' = record
          /\ pc'[p] = "probe" /\ ProcStep(p)
      BY <1>0, <1>1 DEF Begin, disk, Goto, LocalsOK, ProcStep
    <2> QED BY <2>1, PlainTrust
  <1>2. ASSUME NEW p \in Procs, CleanStep(p) PROVE Trust'
    <2>1. p \notin Cleaners /\ pc[p] \notin Cleaning
      BY TrustOfParts DEF Trust
    <2> QED BY <1>2, <2>1 DEF CleanStep, CleanBegin, CleanArchives, CleanTrees, CleanIndex,
               CleanPoints, Cleaning
  <1>3. ASSUME NEW p \in Procs, Compile(p) PROVE Trust'
    <2>1. /\ note' = note /\ mine' = mine /\ memo' = memo /\ record' = record
          /\ pc'[p] = "idle" /\ ProcStep(p)
      BY <1>0, <1>3 DEF Compile, disk, verify, put, Goto, LocalsOK, ProcStep
    <2> QED BY <2>1, PlainTrust
  <1>4. ASSUME NEW p \in Procs, Stop(p) PROVE Trust'
    <2>1. /\ note'[p] = NoRecord /\ mine'[p] = NoRecord /\ record' = record
          /\ pc'[p] = "idle" /\ ProcStep(p) /\ \A k \in Keys : memo'[p][k] = NoRecord
      BY <1>0, <1>4, ForgetShape DEF Stop, disk, Goto, LocalsOK, ProcStep
    <2>2. RecordsAttestTheArchive' /\ \A k \in Keys : Attests(memo[p][k], k)'
      BY <2>1 DEF Trust, RecordsAttestTheArchive, Attests
    <2> QED BY <2>1, <2>2, TrustFrame
  <1>5. ASSUME NEW k \in Keys, NEW f \in Files, NEW bytes \in {"true", "edited"},
               Edit(k, f, bytes)
        PROVE  Trust'
    <2>1. UNCHANGED <<record, pc, note, mine, memo, left, temp>>
      BY <1>5 DEF Edit, verify, put
    <2>2. CellsKept(Procs)
      BY <1>5, EditKeeps DEF EditOK
    <2>3. \A p \in Procs, j \in Keys : Attests(memo[p][j], j)'
      BY <2>1, <2>2, AttestsKept, TrustOfParts DEF Trust, Attests
    <2> QED BY <2>1, <2>3 DEF Trust, TrustOf, RecordsAttestTheArchive, Attests
  <1>6. CASE UNCHANGED vars
    BY <1>6 DEF vars, disk, verify, put, Trust, TrustOf, RecordsAttestTheArchive
  <1> QED BY <1>1, <1>2, <1>3, <1>4, <1>5, <1>6, VerifyTrust, PutTrust DEF Next

-----------------------------------------------------------------------------
(***************************************************************************)
(* A process that runs alone                                               *)
(*                                                                         *)
(* Every step takes `alone' from all processes but the one that acts, so   *)
(* only the actor's own steps matter: the disk is as they left it.         *)
(***************************************************************************)

Verifying(p) == pc[p] \in {"probe", "record", "list", "stat", "read"}

\* The tree is there, whole, and a record attests it.
Usable(k) ==
  archive[k] /\ dir[k] # 0 /\ data[k] = Genuine /\ record[k] # NoRecord

\* Until its own tree is in place, a put has the archive and an unpacked tree,
\* and knows whether there is a tree to be removed.
Putting(p) ==
  /\ InPut(p) \/ pc[p] = "unpack" => archive[job[p]]
  /\ (\/ pc[p] \in {"dest", "open", "remove", "place"}
      \/ Verifying(p) /\ caller[p] = "put") => temp[p] # NoBytes
  /\ (\/ pc[p] \in {"open", "remove"}
      \/ Verifying(p) /\ caller[p] = "put") => dir[job[p]] # 0
  /\ pc[p] = "remove" => doomed[p] = dir[job[p]]
  /\ pc[p] = "place" => data[job[p]] = NoBytes

\* From then on the tree is the archive's, and the record comes before the
\* pointer.
Placed(p) ==
  /\ kept[p] => pc[p] \in {"seal", "point"} /\ record[job[p]] # NoRecord
  /\ pc[p] \in {"seal", "index", "point"} => dir[job[p]] # 0 /\ data[job[p]] = Genuine
  /\ pc[p] = "point" => record[job[p]] # NoRecord
  /\ Verifying(p) /\ caller[p] = "final" => Usable(job[p]) /\ point[job[p]]

\* What a verification has read is what is on the disk.
ReadsTheDisk(p) ==
  /\ pc[p] \in {"list", "stat", "read"} => record[job[p]] = note[p]
  /\ pc[p] = "stat" => \A f \in Files \ left[p] : listing[p][f] = stamp[job[p]][f]
  /\ pc[p] = "read" => listing[p] = stamp[job[p]]

Undisturbed(p) == pc[p] # "failed" /\ Putting(p) /\ Placed(p) /\ ReadsTheDisk(p)

AloneInv == Cleaners = {} => \A p \in Procs : alone[p] => Undisturbed(p)

\* What the lemmas below know of the process before its step.
Steady(p) ==
  /\ FastPathInv /\ Trust
  /\ DiskOK /\ LocalsOK /\ FlagsOK /\ ProcInv(p) /\ TrustOf(p)
  /\ job[p] \in Keys
  /\ Undisturbed(p)

LEMMA GenuineIsSomething == Genuine # NoBytes
  <1> PICK f \in Files : TRUE
    BY StoreAssumption
  <1>1. Genuine[f] = "true" /\ NoBytes[f] = "none"
    BY DEF Genuine, NoBytes
  <1> QED BY <1>1

\* A tree that does not verify, and that is not the one just put.
LEMMA RejectedAlone ==
  ASSUME NEW p \in Procs, Steady(p), Verifying(p), Rejected(p), caller[p] # "final",
         UNCHANGED disk, Acts(p)
  PROVE  Undisturbed(p)'
  <1>1. /\ UNCHANGED <<archive, dir, data, stamp, record, point, job, temp, kept, caller>>
    BY DEF Rejected, Acts, put, disk
  <1>2. /\ pc'[p] = IF caller[p] = "gate" THEN "archive" ELSE "open"
        /\ caller[p] \in {"gate", "put"}
    BY DEF Steady, Rejected, Goto, LocalsOK, ProcInv, TempOf
  <1>3. ~ kept[p] /\ Putting(p) /\ pc[p] \in {"probe", "record", "list", "stat", "read"}
    BY DEF Steady, Undisturbed, Placed, Verifying
  <1>4. caller[p] = "put" => archive[job[p]] /\ temp[p] # NoBytes /\ dir[job[p]] # 0
    <2>1. pc[p] = "probe" => caller[p] # "put"
      BY DEF Steady, ProcInv, TempOf
    <2> QED BY <1>3, <2>1 DEF Putting, InPut, Verifying
  <1>5. Putting(p)'
    <2>1. CASE caller[p] = "gate"
      BY <1>1, <1>2, <2>1 DEF Putting, InPut, Verifying
    <2>2. CASE caller[p] = "put"
      BY <1>1, <1>2, <1>4, <2>2 DEF Putting, InPut, Verifying
    <2> QED BY <1>2, <2>1, <2>2
  <1>6. Placed(p)' /\ ReadsTheDisk(p)'
    BY <1>1, <1>2, <1>3 DEF Placed, ReadsTheDisk, Verifying
  <1> QED BY <1>2, <1>5, <1>6 DEF Undisturbed

\* A tree that verifies is the archive's.
LEMMA VerifiedAlone ==
  ASSUME NEW p \in Procs, Steady(p), Verifying(p), Verified(p), Acts(p),
         UNCHANGED <<archive, dir, data>>, data[job[p]] = Genuine,
         record'[job[p]] # NoRecord, pc[p] # "probe"
  PROVE  Undisturbed(p)'
  <1>1. UNCHANGED <<job, caller>> /\ ~ kept[p]
    BY DEF Steady, Undisturbed, Placed, Verified, Acts, Verifying
  <1>2. CASE caller[p] = "put"
    <2>1. pc'[p] = "seal"
      BY <1>2 DEF Steady, Verified, Goto, LocalsOK
    <2>2. archive[job[p]] /\ dir[job[p]] # 0
      BY <1>2 DEF Steady, Undisturbed, Putting, InPut, Verifying
    <2>3. Putting(p)' /\ ReadsTheDisk(p)'
      BY <1>1, <2>1, <2>2 DEF Putting, InPut, Verifying, ReadsTheDisk
    <2>4. Placed(p)'
      BY <1>1, <2>1, <2>2 DEF Placed, Verifying
    <2> QED BY <2>1, <2>3, <2>4 DEF Undisturbed
  <1>3. CASE caller[p] # "put"
    <2>1. pc'[p] = "compile" /\ ~ kept'[p]
      BY <1>1, <1>3 DEF Steady, Verified, Goto, LocalsOK
    <2> QED BY <1>1, <2>1 DEF Undisturbed, Putting, InPut, Verifying, ReadsTheDisk, Placed
  <1> QED BY <1>2, <1>3

LEMMA ProbeAlone ==
  ASSUME NEW p \in Procs, Steady(p), Probe(p)
  PROVE  Undisturbed(p)'
  <1>1. UNCHANGED <<archive, dir, data, stamp, record, point, job>> /\ pc[p] = "probe"
    BY DEF Probe, Acts, disk
  <1>2. CASE Goto(p, "record") /\ UNCHANGED <<verify, put>>
    <2>1. pc'[p] = "record" /\ UNCHANGED <<caller, kept, temp>>
      BY <1>2 DEF Steady, LocalsOK, Goto, verify, put
    <2>2. caller[p] # "put" /\ ~ kept[p]
      BY <1>1 DEF Steady, Undisturbed, Placed, ProcInv, TempOf
    <2>3. Placed(p)'
      BY <1>1, <2>1, <2>2 DEF Steady, Undisturbed, Placed, Verifying, Usable
    <2> QED BY <1>1, <2>1, <2>2, <2>3 DEF Undisturbed, Putting, InPut, Verifying, ReadsTheDisk
  <1>3. CASE /\ Rejected(p)
             /\ ~ (archive[job[p]] /\ dir[job[p]] # 0 /\ point[job[p]])
    <2>1. Verifying(p) /\ caller[p] # "final"
      BY <1>1, <1>3 DEF Steady, Undisturbed, Placed, Usable, Verifying
    <2> QED BY <1>3, <2>1, RejectedAlone DEF Probe
  <1> QED BY <1>2, <1>3 DEF Probe

LEMMA ReadRecordAlone ==
  ASSUME NEW p \in Procs, Steady(p), ReadRecord(p)
  PROVE  Undisturbed(p)'
  <1>1. UNCHANGED <<archive, dir, data, stamp, record, point, job>> /\ pc[p] = "record"
    BY DEF ReadRecord, Acts, disk
  <1>2. CASE record[job[p]] = NoRecord
    <2>1. Verifying(p) /\ caller[p] # "final"
      BY <1>1, <1>2 DEF Steady, Undisturbed, Placed, Usable, Verifying
    <2> QED BY <1>2, <2>1, RejectedAlone DEF ReadRecord
  <1>3. CASE record[job[p]] # NoRecord
    <2>1. /\ pc'[p] = "list" /\ UNCHANGED <<caller, kept, temp>>
          /\ note'[p] = record[job[p]]
      BY <1>3 DEF Steady, LocalsOK, Goto, ReadRecord, put
    <2>2. ~ kept[p]
      BY <1>1 DEF Steady, Undisturbed, Placed
    <2>3. Placed(p)'
      BY <1>1, <2>1, <2>2 DEF Steady, Undisturbed, Placed, Verifying, Usable
    <2>4. Putting(p)'
      BY <1>1, <2>1 DEF Steady, Undisturbed, Putting, InPut, Verifying
    <2> QED BY <1>1, <2>1, <2>3, <2>4 DEF Undisturbed, ReadsTheDisk
  <1> QED BY <1>2, <1>3

LEMMA OpenTreeAlone ==
  ASSUME NEW p \in Procs, Steady(p), OpenTree(p)
  PROVE  Undisturbed(p)'
  <1>1. /\ UNCHANGED <<archive, dir, data, stamp, record, point, job>> /\ pc[p] = "list"
        /\ note[p] = record[job[p]]
    BY DEF OpenTree, Acts, disk, Steady, Undisturbed, ReadsTheDisk
  <1>2. CASE dir[job[p]] = 0
    <2>1. Verifying(p) /\ caller[p] # "final"
      BY <1>1, <1>2 DEF Steady, Undisturbed, Placed, Usable, Verifying
    <2> QED BY <1>2, <2>1, RejectedAlone DEF OpenTree
  <1>3. CASE dir[job[p]] # 0
    <2>1. pc'[p] = "stat" /\ UNCHANGED <<caller, kept, temp, note>> /\ left'[p] = Files
      BY <1>3 DEF Steady, LocalsOK, Goto, OpenTree, put
    <2>2. ~ kept[p]
      BY <1>1 DEF Steady, Undisturbed, Placed
    <2>3. Placed(p)'
      BY <1>1, <2>1, <2>2 DEF Steady, Undisturbed, Placed, Verifying, Usable
    <2>4. Putting(p)'
      BY <1>1, <2>1 DEF Steady, Undisturbed, Putting, InPut, Verifying
    <2> QED BY <1>1, <2>1, <2>3, <2>4 DEF Undisturbed, ReadsTheDisk
  <1> QED BY <1>2, <1>3

LEMMA StatFileAlone ==
  ASSUME NEW p \in Procs, Steady(p), NEW f \in Files, StatFile(p, f)
  PROVE  Undisturbed(p)'
  <1>1. /\ UNCHANGED <<archive, dir, data, stamp, record, point, job>> /\ pc[p] = "stat"
        /\ Verifying(p) /\ Undisturbed(p)
    BY DEF StatFile, Acts, disk, Steady, Verifying
  <1>2. CASE data[job[p]][f] = "none" /\ Rejected(p)
    <2>1. caller[p] # "final"
      BY <1>1, <1>2, GenuineIsTrue DEF Undisturbed, Placed, Usable
    <2> QED BY <1>1, <1>2, <2>1, RejectedAlone DEF StatFile
  <1>3. CASE /\ listing' = [listing EXCEPT ![p][f] = stamp[job[p]][f]]
             /\ left' = [left EXCEPT ![p] = @ \ {f}]
             /\ UNCHANGED <<pc, caller, note, sum, put>>
    <2>1. UNCHANGED <<pc, caller, kept, temp, note, doomed>>
      BY <1>3 DEF put
    <2>2. /\ left'[p] = left[p] \ {f}
          /\ \A g \in Files : listing'[p][g] = IF g = f THEN stamp[job[p]][f] ELSE listing[p][g]
      BY <1>3 DEF Steady, LocalsOK
    <2>3. ReadsTheDisk(p)'
      BY <1>1, <2>1, <2>2 DEF Undisturbed, ReadsTheDisk
    <2> QED BY <1>1, <2>1, <2>3 DEF Undisturbed, Putting, Placed, InPut, Verifying, Usable
  <1> QED BY <1>2, <1>3 DEF StatFile

LEMMA CompareListingAlone ==
  ASSUME NEW p \in Procs, Steady(p), CompareListing(p)
  PROVE  Undisturbed(p)'
  <1>1. /\ UNCHANGED <<archive, dir, data, stamp, record, point, job>> /\ pc[p] = "stat"
        /\ note[p] = record[job[p]] /\ note[p] # NoRecord
    BY DEF CompareListing, Acts, disk, Steady, Undisturbed, ReadsTheDisk, ProcInv, HashOf
  <1>2. listing[p] = stamp[job[p]]
    <2>1. \A f \in Files : listing[p][f] = stamp[job[p]][f]
      BY <1>1 DEF CompareListing, Steady, Undisturbed, ReadsTheDisk
    <2>2. listing[p] \in [Files -> 0 .. MaxClock] /\ stamp[job[p]] \in [Files -> 0 .. MaxClock]
      BY DEF Steady, LocalsOK, DiskOK
    <2> QED BY <2>1, <2>2
  <1>3. CASE Verified(p) /\ listing[p] \in {memo[p][job[p]], note[p].fp}
    <2>1. \A f \in Files : data[job[p]][f] = "true"
      BY <1>1, <1>2, <1>3, FastAccept DEF Steady
    <2>2. data[job[p]] = Genuine
      BY <2>1 DEF Steady, DiskOK, Genuine
    <2> QED BY <1>1, <1>3, <2>2, VerifiedAlone DEF CompareListing, Verifying
  <1>4. CASE StartHashing(p)
    <2>1. pc'[p] = "read" /\ UNCHANGED <<caller, kept, temp, note, listing>>
      BY <1>4 DEF Steady, LocalsOK, Goto, StartHashing, put
    <2>2. ~ kept[p]
      BY <1>1 DEF Steady, Undisturbed, Placed
    <2>3. Placed(p)'
      BY <1>1, <2>1, <2>2 DEF Steady, Undisturbed, Placed, Verifying, Usable
    <2>4. Putting(p)'
      BY <1>1, <2>1 DEF Steady, Undisturbed, Putting, InPut, Verifying
    <2> QED BY <1>1, <1>2, <2>1, <2>3, <2>4 DEF Undisturbed, ReadsTheDisk
  <1> QED BY <1>3, <1>4 DEF CompareListing

LEMMA ReadFileAlone ==
  ASSUME NEW p \in Procs, Steady(p), NEW f \in Files, ReadFile(p, f)
  PROVE  Undisturbed(p)'
  <1>1. /\ UNCHANGED <<archive, dir, data, stamp, record, point, job>> /\ pc[p] = "read"
        /\ f \in left[p]
    BY DEF ReadFile, Acts, disk
  <1>2. data[job[p]][f] # "none"
    <2>1. listing[p][f] # 0 /\ listing[p] = stamp[job[p]]
      BY <1>1 DEF Steady, ProcInv, HashOf, Undisturbed, ReadsTheDisk
    <2> QED BY <2>1 DEF Steady, DiskOK
  <1>3. UNCHANGED <<pc, caller, kept, temp, note, listing, doomed>>
    BY <1>2 DEF ReadFile, put
  <1> QED BY <1>1, <1>3 DEF Steady, Undisturbed, Putting, Placed, ReadsTheDisk, InPut, Verifying,
             Usable

LEMMA JudgeAlone ==
  ASSUME NEW p \in Procs, Steady(p), Judge(p)
  PROVE  Undisturbed(p)'
  <1>1. /\ UNCHANGED <<archive, dir, data, stamp, job>> /\ pc[p] = "read" /\ left[p] = {}
        /\ note[p] = record[job[p]] /\ note[p] # NoRecord /\ note[p].tree = Genuine
    BY DEF Judge, Acts, Steady, Undisturbed, ReadsTheDisk, ProcInv, HashOf, TrustOf
  <1>2. sum[p] = data[job[p]]
    <2>1. \A f \in Files : listing[p][f] = stamp[job[p]][f] => sum[p][f] = data[job[p]][f]
      BY <1>1 DEF Steady, ProcInv, HashOf
    <2>2. listing[p] = stamp[job[p]]
      BY <1>1 DEF Steady, Undisturbed, ReadsTheDisk
    <2>3. sum[p] \in [Files -> Bytes] /\ data[job[p]] \in [Files -> Bytes]
      BY DEF Steady, LocalsOK, DiskOK
    <2> QED BY <2>1, <2>2, <2>3
  <1>3. CASE ~ Matches(p) /\ Rejected(p) /\ UNCHANGED <<record, memo>>
    <2>1. Verifying(p) /\ caller[p] # "final"
      BY <1>1, <1>2, <1>3 DEF Steady, Undisturbed, Placed, Usable, Verifying, Matches
    <2> QED BY <1>3, <2>1, RejectedAlone DEF Judge, disk
  <1>4. CASE Matches(p)
    <2>1. data[job[p]] = Genuine
      BY <1>1, <1>2, <1>4 DEF Matches
    <2>2. record'[job[p]] # NoRecord
      <3>1. Refreshed(p) # NoRecord
        <4>1. Refreshed(p) \in Records
          BY StoreAssumption DEF Steady, LocalsOK, Refreshed, Records
        <4> QED BY <4>1, NoRecordAssumption
      <3> QED BY <1>1, <1>4, <3>1 DEF Judge, Steady, DiskOK
    <2> QED BY <1>1, <1>4, <2>1, <2>2, VerifiedAlone DEF Judge, Verifying
  <1> QED BY <1>3, <1>4 DEF Judge

LEMMA UnpackAlone ==
  ASSUME NEW p \in Procs, Steady(p),
         PutArchive(p) \/ (\E f \in Files : UnpackFile(p, f)) \/ HashTemp(p) \/ ProbeDest(p)
  PROVE  Undisturbed(p)'
  <1>1. CASE PutArchive(p)
    <2>1. pc'[p] = "unpack" /\ archive'[job[p]] /\ UNCHANGED <<job, kept>> /\ ~ kept[p]
      BY <1>1 DEF PutArchive, Goto, Acts, Steady, LocalsOK, DiskOK, Undisturbed, Placed
    <2> QED BY <2>1 DEF Undisturbed, Putting, Placed, ReadsTheDisk, InPut, Verifying
  <1>2. ASSUME NEW f \in Files, UnpackFile(p, f) PROVE Undisturbed(p)'
    <2>1. pc'[p] = "unpack" /\ UNCHANGED <<archive, job, kept>> /\ ~ kept[p] /\ archive[job[p]]
      BY <1>2 DEF UnpackFile, Acts, disk, Steady, Undisturbed, Placed, Putting
    <2> QED BY <2>1 DEF Undisturbed, Putting, Placed, ReadsTheDisk, InPut, Verifying
  <1>3. CASE HashTemp(p)
    <2>1. /\ pc[p] = "unpack" /\ left[p] = {}
          /\ UNCHANGED <<archive, job, kept, temp>> /\ ~ kept[p] /\ archive[job[p]]
      BY <1>3 DEF HashTemp, Acts, disk, Steady, Undisturbed, Placed, Putting
    <2>2. temp[p] # NoBytes
      <3>1. \A f \in Files : temp[p][f] = "true"
        BY <2>1 DEF Steady, TrustOf
      <3> QED BY <3>1, StoreAssumption DEF NoBytes
    <2>3. pc'[p] = "dest"
      BY <1>3, <2>2 DEF HashTemp, Goto, Steady, LocalsOK
    <2> QED BY <2>1, <2>2, <2>3 DEF Undisturbed, Putting, Placed, ReadsTheDisk, InPut, Verifying
  <1>4. CASE ProbeDest(p)
    <2>1. /\ UNCHANGED <<archive, dir, data, job, kept, temp>> /\ ~ kept[p] /\ archive[job[p]]
          /\ temp[p] # NoBytes /\ caller'[p] = "put"
          /\ pc'[p] = IF dir[job[p]] = 0 THEN "place" ELSE "record"
      BY <1>4 DEF ProbeDest, Acts, disk, put, Goto, Steady, LocalsOK, Undisturbed, Placed, Putting,
         InPut
    <2>2. dir[job[p]] = 0 => data[job[p]] = NoBytes
      BY DEF Steady, DiskOK
    <2>3. Putting(p)'
      BY <2>1, <2>2 DEF Putting, InPut, Verifying
    <2> QED BY <2>1, <2>3 DEF Undisturbed, Placed, ReadsTheDisk, Verifying
  <1> QED BY <1>1, <1>2, <1>3, <1>4

LEMMA RemoveAlone ==
  ASSUME NEW p \in Procs, Steady(p),
         OpenDrifted(p) \/ (\E f \in Files : RemoveFile(p, f)) \/ RemoveDir(p)
  PROVE  Undisturbed(p)'
  <1>1. CASE OpenDrifted(p)
    <2>1. /\ UNCHANGED <<archive, dir, job, kept, temp>> /\ ~ kept[p] /\ archive[job[p]]
          /\ temp[p] # NoBytes /\ dir[job[p]] # 0
      BY <1>1 DEF OpenDrifted, Acts, disk, Steady, Undisturbed, Placed, Putting, InPut
    <2>2. pc'[p] = "remove" /\ doomed'[p] = dir[job[p]]
      BY <1>1, <2>1 DEF OpenDrifted, Goto, Steady, LocalsOK, FlagsOK
    <2> QED BY <2>1, <2>2 DEF Undisturbed, Putting, Placed, ReadsTheDisk, InPut, Verifying
  <1>2. ASSUME NEW f \in Files, RemoveFile(p, f) PROVE Undisturbed(p)'
    <2>1. /\ UNCHANGED <<archive, dir, job, kept, temp, pc, doomed>> /\ pc[p] = "remove"
          /\ ~ kept[p] /\ Putting(p)
      BY <1>2 DEF RemoveFile, Acts, put, Steady, Undisturbed, Placed
    <2> QED BY <2>1 DEF Undisturbed, Putting, Placed, ReadsTheDisk, InPut, Verifying
  <1>3. CASE RemoveDir(p)
    <2>1. /\ UNCHANGED <<archive, data, job, kept, temp>> /\ pc[p] = "remove"
          /\ ~ kept[p] /\ archive[job[p]] /\ temp[p] # NoBytes /\ doomed[p] = dir[job[p]]
      BY <1>3 DEF RemoveDir, Acts, Steady, Undisturbed, Placed, Putting, InPut
    <2>2. data[job[p]] = NoBytes /\ pc'[p] = "place"
      BY <1>3, <2>1 DEF RemoveDir, Emptied, Goto, Steady, LocalsOK
    <2> QED BY <2>1, <2>2 DEF Undisturbed, Putting, Placed, ReadsTheDisk, InPut, Verifying
  <1> QED BY <1>1, <1>2, <1>3

LEMMA PlaceAlone ==
  ASSUME NEW p \in Procs, Steady(p), Place(p)
  PROVE  Undisturbed(p)'
  <1>1. /\ UNCHANGED <<archive, job, kept>> /\ pc[p] = "place" /\ ~ kept[p]
        /\ archive[job[p]] /\ temp[p] # NoBytes /\ data[job[p]] = NoBytes
    BY DEF Place, Acts, Steady, Undisturbed, Placed, Putting, InPut
  <1>2. temp[p] = Genuine /\ ticket[p] # 0
    BY <1>1 DEF Steady, ProcInv, TempOf, InPut, TrustOf
  <1>3. pc'[p] = "seal" /\ dir'[job[p]] # 0 /\ data'[job[p]] = Genuine
    BY <1>1, <1>2 DEF Place, Goto, Steady, LocalsOK, DiskOK
  <1> QED BY <1>1, <1>3 DEF Undisturbed, Putting, Placed, ReadsTheDisk, InPut, Verifying

LEMMA FinishAlone ==
  ASSUME NEW p \in Procs, Steady(p), Seal(p) \/ WriteRecord(p) \/ WritePoint(p)
  PROVE  Undisturbed(p)'
  <1>0. /\ UNCHANGED <<archive, dir, data, job>> /\ pc[p] \in {"seal", "index", "point"}
        /\ archive[job[p]] /\ dir[job[p]] # 0 /\ data[job[p]] = Genuine
    BY DEF Seal, WriteRecord, WritePoint, disk, Acts, Steady, Undisturbed, Placed, Putting, InPut
  <1>1. CASE Seal(p)
    <2>1. /\ UNCHANGED <<kept, record>>
          /\ kept[p] => record[job[p]] # NoRecord
          /\ pc'[p] = IF kept[p] THEN "point" ELSE "index"
      BY <1>0, <1>1 DEF Seal, disk, put, Goto, Steady, LocalsOK, FlagsOK, Undisturbed, Placed
    <2> QED BY <1>0, <2>1 DEF Undisturbed, Putting, Placed, ReadsTheDisk, InPut, Verifying
  <1>2. CASE WriteRecord(p)
    <2>1. /\ UNCHANGED kept /\ ~ kept[p] /\ pc'[p] = "point" /\ record'[job[p]] = mine[p]
          /\ mine[p] # NoRecord
      BY <1>2 DEF WriteRecord, put, Goto, Steady, LocalsOK, DiskOK, Undisturbed, Placed, ProcInv,
         TempOf, InPut
    <2> QED BY <1>0, <2>1 DEF Undisturbed, Putting, Placed, ReadsTheDisk, InPut, Verifying
  <1>3. CASE WritePoint(p)
    <2>1. /\ ~ kept'[p] /\ pc'[p] = "probe" /\ caller'[p] = "final" /\ UNCHANGED record
          /\ record[job[p]] # NoRecord /\ point'[job[p]]
      BY <1>3 DEF WritePoint, Goto, Steady, LocalsOK, DiskOK, FlagsOK, Undisturbed, Placed
    <2>2. Placed(p)'
      BY <1>0, <2>1 DEF Placed, Verifying, Usable
    <2> QED BY <1>0, <2>1, <2>2 DEF Undisturbed, Putting, ReadsTheDisk, InPut, Verifying
  <1> QED BY <1>1, <1>2, <1>3

LEMMA TurnAlone ==
  ASSUME NEW p \in Procs, LocalsOK, FlagsOK,
         \/ \E k \in Keys : Begin(p, k)
         \/ (Compile(p) \/ Stop(p)) /\ (pc[p] = "compile" => ~ kept[p])
  PROVE  Undisturbed(p)'
  <1>1. /\ ~ kept'[p]
        /\ \/ pc'[p] = "idle"
           \/ pc'[p] = "probe" /\ caller'[p] = "gate"
    <2>1. CASE \E k \in Keys : Begin(p, k)
      BY <2>1 DEF Begin, Goto, LocalsOK, FlagsOK
    <2>2. CASE Compile(p) /\ (pc[p] = "compile" => ~ kept[p])
      BY <2>2 DEF Compile, put, Goto, LocalsOK, FlagsOK
    <2>3. CASE Stop(p)
      BY <2>3 DEF Stop, Goto, LocalsOK, FlagsOK
    <2> QED BY <2>1, <2>2, <2>3
  <1> QED BY <1>1 DEF Undisturbed, Putting, Placed, ReadsTheDisk, InPut, Verifying

LEMMA AloneNext ==
  ASSUME Cleaners = {}, FastPathInv, Trust, \A p \in Procs : alone[p] => Undisturbed(p),
         [Next]_vars
  PROVE  \A p \in Procs : alone'[p] => Undisturbed(p)'
  <1> SUFFICES ASSUME NEW p \in Procs, alone'[p] PROVE Undisturbed(p)'
    OBVIOUS
  <1>0. LocalsOK /\ FlagsOK /\ DiskOK
    BY DEF FastPathInv, TypeOK
  <1>1. ASSUME alone[p] PROVE Steady(p)
    BY <1>0, <1>1 DEF Steady, FastPathInv, Trust, LocalsOK
  <1>2. ASSUME NEW q \in Procs, Alone(q) PROVE q = p /\ alone[p]
    BY <1>2 DEF Alone
  <1>3. ASSUME NEW q \in Procs, NEW k \in Keys, Begin(q, k) PROVE Undisturbed(p)'
    <2>1. q = p
      BY <1>3 DEF Begin
    <2> QED BY <1>0, <1>3, <2>1, TurnAlone
  <1>4. ASSUME NEW q \in Procs, VerifyStep(q) PROVE Undisturbed(p)'
    <2>1. Alone(q)
      BY <1>4 DEF VerifyStep, Probe, ReadRecord, OpenTree, StatFile, CompareListing, ReadFile, Judge, Acts
    <2>2. q = p /\ Steady(p)
      BY <1>1, <1>2, <2>1
    <2> QED BY <1>4, <2>2, ProbeAlone, ReadRecordAlone, OpenTreeAlone, StatFileAlone, CompareListingAlone, ReadFileAlone, JudgeAlone
            DEF VerifyStep
  <1>5. ASSUME NEW q \in Procs, PutStep(q) PROVE Undisturbed(p)'
    <2>1. Alone(q)
      BY <1>5 DEF PutStep, PutArchive, UnpackFile, HashTemp, ProbeDest, OpenDrifted, RemoveFile,
         RemoveDir, Place, Seal, WriteRecord, WritePoint, Acts
    <2>2. q = p /\ Steady(p)
      BY <1>1, <1>2, <2>1
    <2> QED BY <1>5, <2>2, UnpackAlone, RemoveAlone, PlaceAlone, FinishAlone DEF PutStep
  <1>6. ASSUME NEW q \in Procs, Compile(q) \/ Stop(q) PROVE Undisturbed(p)'
    <2>1. q = p /\ Steady(p)
      BY <1>1, <1>2, <1>6 DEF Compile, Stop
    <2>2. pc[p] = "compile" => ~ kept[p]
      BY <2>1 DEF Steady, Undisturbed, Placed
    <2> QED BY <1>0, <1>6, <2>1, <2>2, TurnAlone
  <1>7. ASSUME NEW q \in Procs, CleanStep(q) PROVE FALSE
    <2>1. q \notin Cleaners /\ pc[q] \notin Cleaning
      BY TrustOfParts DEF Trust
    <2> QED BY <1>7, <2>1 DEF CleanStep, CleanBegin, CleanArchives, CleanTrees, CleanIndex,
               CleanPoints, Cleaning
  <1>8. ASSUME NEW k \in Keys, NEW f \in Files, NEW bytes \in {"true", "edited"},
               Edit(k, f, bytes)
        PROVE  FALSE
    BY <1>8 DEF Edit
  <1>9. CASE UNCHANGED vars
    <2>1. alone[p] /\ Undisturbed(p)
      BY <1>9 DEF vars
    <2> QED BY <1>9, <2>1 DEF vars, disk, verify, put, Undisturbed, Putting, Placed, ReadsTheDisk,
               InPut, Verifying, Usable
  <1> QED BY <1>3, <1>4, <1>5, <1>6, <1>7, <1>8, <1>9 DEF Next

-----------------------------------------------------------------------------
(***************************************************************************)
(* The theorems                                                            *)
(***************************************************************************)

\* The invariant that carries the others: free stamps, what a record, a note
\* or a hash in progress says of the files whose stamps are still there, and
\* that all of it is the archive's as long as nobody cleans.
THEOREM Invariance == Spec => []IInv
  <1>1. Init => IInv
    <2> SUFFICES ASSUME Init PROVE IInv
      OBVIOUS
    <2>1. FastPathInv
      BY FastPathInit
    <2>2. TrustInv
      BY DEF Init, TrustInv, TrustOf, RecordsAttestTheArchive
    <2> QED BY <2>1, <2>2 DEF IInv
  <1>2. IInv /\ [Next]_vars => IInv'
    <2> SUFFICES ASSUME IInv, [Next]_vars PROVE IInv'
      OBVIOUS
    <2>1. FastPathInv'
      BY FastPathNext DEF IInv
    <2>2. TrustInv'
      BY TrustNext DEF IInv, TrustInv, Trust
    <2> QED BY <2>1, <2>2 DEF IInv
  <1> QED BY <1>1, <1>2, PTL DEF Spec

\* The store and the processes' locals keep their shape: a name without a
\* directory has no files, a file without bytes has no stamp.
THEOREM TypeCorrect == Spec => []TypeOK
  <1>1. IInv => TypeOK
    BY DEF IInv, FastPathInv
  <1> QED BY <1>1, Invariance, PTL

\* A tree whose fingerprint is the recorded one has the recorded bytes: the
\* stat walk of verify_tree may stand for its content hash, with any number of
\* processes that fetch, repair, refresh, crash and clean.
THEOREM FastPathSound == Spec => []FastPathIsSound
  <1>1. IInv => FastPathIsSound
    <2> SUFFICES ASSUME IInv, NEW k \in Keys, record[k] # NoRecord, record[k].fp = stamp[k]
                 PROVE  record[k].tree = data[k]
      BY DEF FastPathIsSound
    <2>1. record[k] \in Records /\ data[k] \in [Files -> Bytes]
      BY DEF IInv, FastPathInv, TypeOK, DiskOK
    <2>2. \A f \in Files : record[k].tree[f] = data[k][f]
      BY DEF IInv, FastPathInv, Agrees
    <2> QED BY <2>1, <2>2 DEF Records
  <1> QED BY <1>1, Invariance, PTL

\* While nobody cleans, a memoized fingerprint never stands for other bytes
\* than the archive's.
THEOREM MemoSound == Spec => []MemoIsSound
  <1>1. IInv => MemoIsSound
    <2> SUFFICES ASSUME IInv, Cleaners = {}, NEW p \in Procs, NEW k \in Keys,
                        memo[p][k] = stamp[k]
                 PROVE  data[k] = Genuine
      BY DEF MemoIsSound
    <2>1. stamp[k] \in [Files -> Nat] /\ data[k] \in [Files -> Bytes]
      BY StoreAssumption DEF IInv, FastPathInv, TypeOK, DiskOK
    <2>2. memo[p][k] # NoRecord
      BY <2>1, NoRecordAssumption
    <2>3. \A f \in Files : data[k][f] = "true"
      BY <2>2 DEF IInv, TrustInv, TrustOf
    <2> QED BY <2>1, <2>3 DEF Genuine
  <1> QED BY <1>1, Invariance, PTL

\* While nobody cleans, a record attests the bytes of the archive, through
\* crashes, drift, refreshes and racing fetches.
THEOREM TrustRoot == Spec => []TrustRootHolds
  <1>1. IInv => TrustRootHolds
    BY DEF IInv, TrustInv, TrustRootHolds
  <1> QED BY <1>1, Invariance, PTL

\* A verification accepts a tree, on its stat walk or on its hash, only when
\* every file that is as the walk found it is the archive's: whatever was
\* edited, replaced or crashed meanwhile, only a file written after the walk
\* had passed it can be anything else.
THEOREM AcceptedGenuine == Spec => AcceptedTreeIsGenuine
  <1>1. ASSUME IInv, [Next]_vars, Cleaners = {}, NEW p \in Procs, pc[p] \in {"stat", "read"},
               pc'[p] \in {"compile", "seal"}
        PROVE  \A f \in Files : stamp[job[p]][f] = listing[p][f] => data[job[p]][f] = "true"
    <2>0. FastPathInv /\ Trust /\ LocalsOK /\ ProcInv(p) /\ TrustOf(p)
      BY <1>1 DEF IInv, TrustInv, Trust, FastPathInv, TypeOK
    <2>1. ASSUME NEW q \in Procs, ProcStep(q) PROVE q = p
      BY <1>1, <2>0, <2>1, ProcStepOK DEF StepOK, LocalsKept
    <2>2. CompareListing(p) \/ Judge(p)
      <3>1. \A k \in Keys, f \in Files, bytes \in {"true", "edited"} : ~ Edit(k, f, bytes)
        BY <1>1 DEF Edit
      <3>2. ~ UNCHANGED vars
        BY <1>1 DEF vars
      <3>3. ProcStep(p)
        BY <1>1, <2>1, <3>1, <3>2 DEF Next, ProcStep
      <3>4. ~ Stop(p)
        BY <1>1, <2>0 DEF Stop, Goto, LocalsOK
      <3>5. ~ PutStep(p) /\ ~ CleanStep(p) /\ ~ Compile(p) /\ \A k \in Keys : ~ Begin(p, k)
        BY <1>1 DEF PutStep, PutArchive, UnpackFile, HashTemp, ProbeDest, OpenDrifted, RemoveFile,
           RemoveDir, Place, Seal, WriteRecord, WritePoint, CleanStep, CleanBegin, CleanArchives,
           CleanTrees, CleanIndex, CleanPoints, Compile, Begin
      <3>6. ~ Probe(p) /\ ~ ReadRecord(p) /\ ~ OpenTree(p)
        BY <1>1 DEF Probe, ReadRecord, OpenTree
      <3>7. ~ Rejected(p)
        BY <1>1, <2>0 DEF Rejected, Goto, LocalsOK
      <3>8. \A f \in Files : ~ StatFile(p, f) /\ ~ ReadFile(p, f)
        BY <1>1, <3>7 DEF StatFile, ReadFile
      <3> QED BY <3>3, <3>4, <3>5, <3>6, <3>8 DEF ProcStep, VerifyStep
    <2>3. ~ Rejected(p) /\ ~ StartHashing(p)
      BY <1>1, <2>0 DEF Rejected, StartHashing, Goto, LocalsOK
    <2>4. CASE CompareListing(p)
      <3>1. pc[p] = "stat" /\ listing[p] \in {memo[p][job[p]], note[p].fp}
        BY <2>3, <2>4 DEF CompareListing
      <3> QED BY <2>0, <3>1, FastAccept
    <2>5. CASE Judge(p)
      <3>1. pc[p] = "read" /\ left[p] = {} /\ sum[p] = note[p].tree
        BY <2>3, <2>5 DEF Judge, Matches
      <3>2. sum[p] = Genuine
        BY <2>0, <3>1 DEF ProcInv, HashOf, TrustOf
      <3> QED BY <2>0, <3>1, <3>2, GenuineIsTrue DEF ProcInv, HashOf
    <2> QED BY <2>2, <2>4, <2>5
  <1>2. IInv /\ [Next]_vars =>
          [Cleaners = {} =>
             \A p \in Procs : pc[p] \in {"stat", "read"} /\ pc'[p] \in {"compile", "seal"}
               => \A f \in Files :
                    stamp[job[p]][f] = listing[p][f] => data[job[p]][f] = "true"]_vars
    BY <1>1
  <1> QED BY <1>2, Invariance, PTL DEF Spec, AcceptedTreeIsGenuine

\* After whatever crashes and edits, a process that then runs undisturbed and
\* may fetch does not fail, with any number of processes, entries and files:
\* what it noted is on the disk, its own unpack is the archive's tree, and it
\* knows whether there is a tree to be removed before it puts its own.
THEOREM UndisturbedRecovers == Spec => []RecoversWhenUndisturbed
  <1>1. Init => AloneInv
    BY DEF Init, AloneInv
  <1>2. IInv /\ AloneInv /\ [Next]_vars => AloneInv'
    BY AloneNext DEF IInv, TrustInv, Trust, AloneInv
  <1>3. AloneInv => RecoversWhenUndisturbed
    BY DEF AloneInv, Undisturbed, RecoversWhenUndisturbed
  <1> QED BY <1>1, <1>2, <1>3, Invariance, PTL DEF Spec
=============================================================================

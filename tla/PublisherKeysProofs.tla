------------------------ MODULE PublisherKeysProofs ------------------------
(***************************************************************************)
(* Fetching packages is safe for any number of commands at once, whatever  *)
(* the index serves between two reads: what is stored is signed by a key   *)
(* on record, what is locked is stored, and a key on record gives way to   *)
(* --rotate-key only.                                                      *)
(***************************************************************************)
EXTENDS PublisherKeys, WellFoundedInduction, TLAPS

-----------------------------------------------------------------------------
(* The inductive invariant *)

Fetching == {"archive", "signature", "check", "load", "truncate", "write", "verify", "put"}
Checked  == {"load", "truncate", "write", "verify", "put"}

\* A fetch has a package; a command past its last package is done with all.
TodoInv ==
  \A p \in Procs : /\ pc[p] \in Fetching => todo[p] # {}
                   /\ pc[p] = "finish" => todo[p] = {}

\* What each check has established for the entry in hand.
EntryInv ==
  \A p \in Procs :
    /\ pc[p] = "signature" => entry[p].bin \in Contents /\ entry[p].hash \in Contents
    /\ pc[p] \in Checked \cup {"check"} =>
         /\ entry[p].bin \in Contents /\ entry[p].hash \in Contents
         /\ entry[p].signer \in PubKeys /\ entry[p].over \in Contents
         /\ entry[p].key \in PubKeys
    /\ pc[p] \in Checked =>
         entry[p].hash = want[p][Package(p)] /\ entry[p].bin = entry[p].hash
    /\ pc[p] \in {"verify", "put"} => entry[p].key \in recorded
    /\ pc[p] = "put" =>
         entry[p].signer = entry[p].key /\ entry[p].over = want[p][Package(p)]

KeyInv == keys \in PubKeys => keys \in recorded

\* An add that is still running has stored the packages it is done with.
AddInv ==
  \A p \in Procs : command[p] = "add" /\ pc[p] # "idle" =>
    \A k \in Packages \ todo[p] : Ready(want[p][k])

IInv == TypeOK /\ TodoInv /\ EntryInv /\ KeyInv /\ AddInv /\ StoredIsSigned /\ LockedIsStored

\* The types of what the steps of a command write.
ProcTypes ==
  /\ pc \in [Procs -> Points]
  /\ command \in [Procs -> {"none", "add", "get"}] /\ rotate \in [Procs -> BOOLEAN]
  /\ want \in [Procs -> [Packages -> Contents \cup {Nothing}]]
  /\ todo \in [Procs -> SUBSET Packages]
  /\ problems \in [Procs -> BOOLEAN] /\ result \in [Procs -> Results]

Entries == [bin : Contents \cup {Nothing}, hash : Contents \cup {Nothing},
            signer : PubKeys \cup {Nothing}, over : Contents \cup {Nothing},
            key : PubKeys \cup {Nothing}]

\* Where a key is pinned from the first, only a rotation is on its way to write.
Turns ==
  /\ keys # Nothing
  /\ \A p \in Procs : pc[p] \in {"truncate", "write"} => rotate[p]

-----------------------------------------------------------------------------
LEMMA Least ==
  ASSUME NEW S \in SUBSET Nat, S # {}
  PROVE  \E m \in S : \A n \in S : m <= n
  <1>1. IsWellFoundedOn(OpToRel(<, Nat), Nat)
    BY NatLessThanWellFounded
  <1>2. PICK m \in S : \A n \in S : ~ (<<n, m>> \in OpToRel(<, Nat))
    BY <1>1, WFMin
  <1>3. \A n \in S : ~(n < m)
    BY <1>2 DEF OpToRel
  <1> QED BY <1>3

\* The package a command works on is one it still has to fetch.
LEMMA PackageIsLeft ==
  ASSUME TypeOK, NEW p \in Procs, todo[p] # {}
  PROVE  Package(p) \in todo[p] /\ Package(p) \in Packages
  <1>1. todo[p] \subseteq Nat /\ todo[p] \subseteq Packages
    BY PublisherKeysAssumption DEF TypeOK
  <1>2. \E k \in todo[p] : \A j \in todo[p] : k <= j
    BY <1>1, Least
  <1> QED BY <1>1, <1>2 DEF Package, Lowest

LEMMA SignedFacts ==
  ASSUME TypeOK, NEW k \in Packages
  PROVE  /\ index[k].bin \in Contents /\ index[k].hash \in Contents
         /\ index[k].signer \in PubKeys /\ index[k].over \in Contents
  <1>1. index[k] \in Releases
    BY PublisherKeysAssumption DEF TypeOK
  <1> QED BY <1>1 DEF Releases

LEMMA GotoTypes ==
  ASSUME TypeOK, NEW p \in Procs, NEW point \in Points, Goto(p, point)
  PROVE  ProcTypes'
  BY DEF TypeOK, ProcTypes, Goto

LEMMA RefuseTypes ==
  ASSUME TypeOK, NEW p \in Procs, NEW why \in Results, Refuse(p, why)
  PROVE  ProcTypes'
  <1>1. result' \in [Procs -> Results]
    BY DEF TypeOK, Refuse
  <1>2. pc' \in [Procs -> Points] /\ todo' \in [Procs -> SUBSET Packages]
        /\ problems' \in [Procs -> BOOLEAN]
    <2>1. CASE command[p] = "add"
      BY <2>1 DEF TypeOK, Refuse, Points
    <2>2. CASE command[p] # "add"
      <3>1. todo' = [todo EXCEPT ![p] = @ \ {Package(p)}]
        BY <2>2 DEF Refuse
      <3>2. todo[p] \ {Package(p)} \in SUBSET Packages
        BY DEF TypeOK
      <3>3. todo' \in [Procs -> SUBSET Packages]
        BY <3>1, <3>2 DEF TypeOK
      <3> QED BY <2>2, <3>3 DEF TypeOK, Refuse, Points
    <2> QED BY <2>1, <2>2
  <1> QED BY <1>1, <1>2 DEF TypeOK, ProcTypes, Refuse

LEMMA TypesTogether ==
  ASSUME TypeOK, ProcTypes', entry' \in [Procs -> Entries],
         UNCHANGED <<index, served, store, lock, moves, runs, crashes, touched>>,
         keys' \in PubKeys \cup {Nothing, Torn}, recorded' \subseteq PubKeys
  PROVE  TypeOK'
  BY DEF TypeOK, ProcTypes, Entries

LEMMA Initial == Init => IInv
  <1> SUFFICES ASSUME Init PROVE IInv
    OBVIOUS
  <1>1. TypeOK
    <2>1. keys \in PubKeys \cup {Nothing, Torn} /\ recorded \subseteq PubKeys
      BY PublisherKeysAssumption DEF Init
    <2>2. NoEntry \in [bin : Contents \cup {Nothing}, hash : Contents \cup {Nothing},
                       signer : PubKeys \cup {Nothing}, over : Contents \cup {Nothing},
                       key : PubKeys \cup {Nothing}]
      BY DEF NoEntry
    <2>3. Nowhere \in [Packages -> Contents \cup {Nothing}]
      BY DEF Nowhere
    <2> QED BY <2>1, <2>2, <2>3, PublisherKeysAssumption
           DEF Init, TypeOK, Points, Results
  <1>2. TodoInv /\ EntryInv /\ AddInv
    BY DEF Init, TodoInv, EntryInv, AddInv, Fetching, Checked
  <1>3. KeyInv
    BY PublisherKeysAssumption DEF Init, KeyInv
  <1>4. StoredIsSigned /\ LockedIsStored
    BY DEF Init, StoredIsSigned, ContentIsSigned, SignerIsOnRecord,
           LockedIsStored
  <1> QED BY <1>1, <1>2, <1>3, <1>4 DEF IInv

LEMMA TypeOKNext == TypeOK /\ TodoInv /\ EntryInv /\ [Next]_vars => TypeOK'
  <1> SUFFICES ASSUME TypeOK /\ TodoInv /\ EntryInv, [Next]_vars PROVE TypeOK'
    OBVIOUS
  <1>0. CASE UNCHANGED vars
    BY <1>0 DEF TypeOK, Points, Results, vars, world, proc, count
  <1>1. CASE \E p \in Procs, r \in Rotating : Add(p, r)
    BY <1>1, PackageIsLeft, SignedFacts, PublisherKeysAssumption
       DEF TypeOK, Points, Results, Add, Begin, world, proc, count
  <1>2. CASE \E p \in Procs : Get(p)
    BY <1>2, PackageIsLeft, SignedFacts, PublisherKeysAssumption
       DEF TypeOK, Points, Results, Get, Begin, world, proc, count
  <1>3. CASE \E p \in Procs : Choose(p)
    <2>0. PICK p \in Procs : Choose(p)
      BY <1>3
    <2>1. ProcTypes'
      <3>1. CASE Goto(p, "finish") \/ Goto(p, "archive")
        BY <3>1, GotoTypes DEF Points
      <3>2. CASE /\ todo' = [todo EXCEPT ![p] = @ \ {Package(p)}]
                 /\ UNCHANGED <<pc, command, rotate, want, problems, result>>
        <4>1. todo[p] \ {Package(p)} \in SUBSET Packages
          BY DEF TypeOK
        <4>2. todo' = [todo EXCEPT ![p] = todo[p] \ {Package(p)}]
          BY <3>2
        <4>3. todo' \in [Procs -> SUBSET Packages]
          BY <4>1, <4>2 DEF TypeOK
        <4> QED BY <3>2, <4>3 DEF TypeOK, ProcTypes
      <3>3. \/ Goto(p, "finish") \/ Goto(p, "archive")
            \/ /\ todo' = [todo EXCEPT ![p] = @ \ {Package(p)}]
               /\ UNCHANGED <<pc, command, rotate, want, problems, result>>
        BY <2>0 DEF Choose
      <3> QED BY <3>1, <3>2, <3>3
    <2>2. entry' \in [Procs -> Entries]
      BY <2>0 DEF TypeOK, Entries, Choose
    <2>8. keys' \in PubKeys \cup {Nothing, Torn} /\ recorded' \subseteq PubKeys
      BY <2>0 DEF TypeOK, Choose
    <2>9. UNCHANGED <<index, served, store, lock, moves, runs, crashes, touched>>
      BY <2>0 DEF Choose, world, count
    <2> QED BY <2>1, <2>2, <2>8, <2>9, TypesTogether
  <1>4. CASE \E p \in Procs : ReadArchive(p)
    <2>0. PICK p \in Procs : ReadArchive(p)
      BY <1>4
    <2>1. ProcTypes'
      BY <2>0, GotoTypes DEF ReadArchive, Points
    <2>2. entry' \in [Procs -> Entries]
      <3>1. todo[p] # {}
        BY <2>0 DEF ReadArchive, TodoInv, Fetching
      <3>2. Package(p) \in Packages
        BY <3>1, PackageIsLeft
      <3>3. PICK b \in Contents, h \in Contents :
              b = index[Package(p)].bin /\ h = index[Package(p)].hash
        BY <3>2, SignedFacts
      <3>4. [NoEntry EXCEPT !.bin = b, !.hash = h] \in Entries
        BY DEF NoEntry, Entries
      <3> QED BY <2>0, <3>3, <3>4 DEF ReadArchive, TypeOK, Entries
    <2>8. keys' \in PubKeys \cup {Nothing, Torn} /\ recorded' \subseteq PubKeys
      BY <2>0 DEF TypeOK, ReadArchive
    <2>9. UNCHANGED <<index, served, store, lock, moves, runs, crashes, touched>>
      BY <2>0 DEF ReadArchive, world, count
    <2> QED BY <2>1, <2>2, <2>8, <2>9, TypesTogether
  <1>5. CASE \E p \in Procs : ReadSignature(p)
    <2>0. PICK p \in Procs : ReadSignature(p)
      BY <1>5
    <2>1. ProcTypes'
      BY <2>0, GotoTypes DEF ReadSignature, Points
    <2>2. entry' \in [Procs -> Entries]
      <3>1. todo[p] # {}
        BY <2>0 DEF ReadSignature, TodoInv, Fetching
      <3>2. Package(p) \in Packages
        BY <3>1, PackageIsLeft
      <3>3. PICK s \in PubKeys, o \in Contents :
              s = index[Package(p)].signer /\ o = index[Package(p)].over
        BY <3>2, SignedFacts
      <3>4. entry[p] \in Entries /\ served \in PubKeys
        BY DEF TypeOK, Entries
      <3>5. [[[entry[p] EXCEPT !.signer = s] EXCEPT !.over = o] EXCEPT !.key = served] \in Entries
        BY <3>4 DEF Entries
      <3>6. entry' = [entry EXCEPT ![p] =
                [[[entry[p] EXCEPT !.signer = s] EXCEPT !.over = o] EXCEPT !.key = served]]
        BY <2>0, <3>3 DEF ReadSignature, TypeOK
      <3> QED BY <3>5, <3>6 DEF TypeOK, Entries
    <2>8. keys' \in PubKeys \cup {Nothing, Torn} /\ recorded' \subseteq PubKeys
      BY <2>0 DEF TypeOK, ReadSignature
    <2>9. UNCHANGED <<index, served, store, lock, moves, runs, crashes, touched>>
      BY <2>0 DEF ReadSignature, world, count
    <2> QED BY <2>1, <2>2, <2>8, <2>9, TypesTogether
  <1>6. CASE \E p \in Procs : Check(p)
    <2>0. PICK p \in Procs : Check(p)
      BY <1>6
    <2>1. ProcTypes'
      <3>1. CASE Goto(p, "load")
        BY <3>1, GotoTypes DEF Points
      <3>2. CASE Refuse(p, "moved") \/ Refuse(p, "hash")
        BY <3>2, RefuseTypes DEF Results
      <3> QED BY <2>0, <3>1, <3>2 DEF Check
    <2>2. entry' \in [Procs -> Entries]
      BY <2>0 DEF TypeOK, Entries, Check
    <2>8. keys' \in PubKeys \cup {Nothing, Torn} /\ recorded' \subseteq PubKeys
      BY <2>0 DEF TypeOK, Check
    <2>9. UNCHANGED <<index, served, store, lock, moves, runs, crashes, touched>>
      BY <2>0 DEF Check, world, count
    <2> QED BY <2>1, <2>2, <2>8, <2>9, TypesTogether
  <1>7. CASE \E p \in Procs : LoadKey(p)
    <2>0. PICK p \in Procs : LoadKey(p)
      BY <1>7
    <2>1. ProcTypes'
      <3>1. CASE Goto(p, "verify") \/ Goto(p, "truncate")
        BY <3>1, GotoTypes DEF Points
      <3>2. CASE Refuse(p, "keychanged")
        BY <3>2, RefuseTypes DEF Results
      <3> QED BY <2>0, <3>1, <3>2 DEF LoadKey
    <2>2. entry' \in [Procs -> Entries]
      BY <2>0 DEF TypeOK, Entries, LoadKey
    <2>8. keys' \in PubKeys \cup {Nothing, Torn} /\ recorded' \subseteq PubKeys
      BY <2>0 DEF TypeOK, LoadKey
    <2>9. UNCHANGED <<index, served, store, lock, moves, runs, crashes, touched>>
      BY <2>0 DEF LoadKey, world, count
    <2> QED BY <2>1, <2>2, <2>8, <2>9, TypesTogether
  <1>8. CASE \E p \in Procs : TruncateKey(p)
    BY <1>8, PackageIsLeft, SignedFacts, PublisherKeysAssumption
       DEF TypeOK, Points, Results, TruncateKey, Goto, world, proc, count
  <1>9. CASE \E p \in Procs : WriteKey(p)
    <2>0. PICK p \in Procs : WriteKey(p)
      BY <1>9
    <2>1. ProcTypes'
      BY <2>0, GotoTypes DEF WriteKey, Points
    <2>2. entry' \in [Procs -> Entries]
      BY <2>0 DEF TypeOK, Entries, WriteKey
    <2>7. entry[p].key \in PubKeys
      BY <2>0 DEF WriteKey, EntryInv, Checked
    <2>8. keys' \in PubKeys \cup {Nothing, Torn} /\ recorded' \subseteq PubKeys
      BY <2>0, <2>7 DEF TypeOK, WriteKey
    <2>9. UNCHANGED <<index, served, store, lock, moves, runs, crashes, touched>>
      BY <2>0 DEF WriteKey, world, count
    <2> QED BY <2>1, <2>2, <2>8, <2>9, TypesTogether
  <1>10. CASE \E p \in Procs : Verify(p)
    <2>0. PICK p \in Procs : Verify(p)
      BY <1>10
    <2>1. ProcTypes'
      <3>1. CASE Goto(p, "put")
        BY <3>1, GotoTypes DEF Points
      <3>2. CASE Refuse(p, "signature")
        BY <3>2, RefuseTypes DEF Results
      <3> QED BY <2>0, <3>1, <3>2 DEF Verify
    <2>2. entry' \in [Procs -> Entries]
      BY <2>0 DEF TypeOK, Entries, Verify
    <2>8. keys' \in PubKeys \cup {Nothing, Torn} /\ recorded' \subseteq PubKeys
      BY <2>0 DEF TypeOK, Verify
    <2>9. UNCHANGED <<index, served, store, lock, moves, runs, crashes, touched>>
      BY <2>0 DEF Verify, world, count
    <2> QED BY <2>1, <2>2, <2>8, <2>9, TypesTogether
  <1>11. CASE \E p \in Procs : Put(p)
    <2>0. PICK p \in Procs : Put(p)
      BY <1>11
    <2>1. todo[p] \ {Package(p)} \in SUBSET Packages
      BY DEF TypeOK
    <2>2. todo' \in [Procs -> SUBSET Packages]
      BY <2>0, <2>1 DEF Put, TypeOK
    <2>3. pc' \in [Procs -> Points]
      BY <2>0 DEF Put, TypeOK, Points
    <2>4. /\ entry[p].bin \in Contents /\ entry[p].hash \in Contents
          /\ entry[p].signer \in PubKeys /\ entry[p].over \in Contents
          /\ entry[p].over = want[p][Package(p)]
      BY <2>0 DEF Put, EntryInv, Checked
    <2>5. store' \subseteq [content : Contents, bytes : Contents, signer : PubKeys,
                           over : Contents]
      BY <2>0, <2>4 DEF Put, TypeOK
    <2> QED BY <2>0, <2>2, <2>3, <2>5 DEF Put, TypeOK, world, count
  <1>12. CASE \E p \in Procs : Finish(p)
    <2>0. PICK p \in Procs : Finish(p)
      BY <1>12
    <2>1. pc' \in [Procs -> Points]
      BY <2>0 DEF Finish, TypeOK, Points
    <2>2. result' \in [Procs -> Results]
      <3>1. CASE command[p] = "add"
        BY <2>0, <3>1 DEF Finish, TypeOK, Results
      <3>2. CASE command[p] # "add"
        <4>1. PICK r \in Results : result' = [result EXCEPT ![p] = r]
          BY <2>0, <3>2 DEF Finish, TypeOK, Results
        <4> QED BY <4>1 DEF TypeOK
      <3> QED BY <3>1, <3>2
    <2>3. lock' \in [Packages -> Contents \cup {Nothing}]
      <3>1. lock' = want[p] \/ lock' = lock
        BY <2>0 DEF Finish
      <3> QED BY <3>1 DEF TypeOK
    <2> QED BY <2>0, <2>1, <2>2, <2>3 DEF Finish, TypeOK, world, count
  <1>13. CASE \E p \in Procs : Crash(p)
    BY <1>13, PackageIsLeft, SignedFacts, PublisherKeysAssumption
       DEF TypeOK, Points, Results, Crash, world, proc, count
  <1>14. CASE Move
    <2>1. index' \in [Packages -> Signed] /\ served' \in PubKeys
      BY <1>14 DEF Move, TypeOK
    <2>2. moves' \in 0 .. MaxMoves
      BY <1>14, PublisherKeysAssumption DEF Move, TypeOK
    <2>3. UNCHANGED <<keys, store, lock, pc, command, rotate, want, todo, entry, problems,
                      result, runs, crashes, recorded, touched>>
      BY <1>14 DEF Move, proc
    <2> QED BY <2>1, <2>2, <2>3 DEF TypeOK
  <1> QED BY <1>0, <1>1, <1>2, <1>3, <1>4, <1>5, <1>6, <1>7, <1>8, <1>9, <1>10,
         <1>11, <1>12, <1>13, <1>14
         DEF Next, Step

LEMMA TodoInvNext == IInv /\ [Next]_vars => TodoInv'
  <1> SUFFICES ASSUME IInv, [Next]_vars PROVE TodoInv'
    OBVIOUS
  <1>0. CASE UNCHANGED vars
    BY <1>0 DEF IInv, TypeOK, TodoInv, Fetching, vars, world, proc, count
  <1>1. CASE \E p \in Procs, r \in Rotating : Add(p, r)
    BY <1>1, PackageIsLeft
       DEF IInv, TypeOK, TodoInv, Fetching, Add, Begin, world, proc, count
  <1>2. CASE \E p \in Procs : Get(p)
    BY <1>2, PackageIsLeft
       DEF IInv, TypeOK, TodoInv, Fetching, Get, Begin, world, proc, count
  <1>3. CASE \E p \in Procs : Choose(p)
    <2>0. PICK p \in Procs : Choose(p)
      BY <1>3
    <2>1. \A q \in Procs \ {p} : pc'[q] = pc[q] /\ todo'[q] = todo[q]
      BY <2>0 DEF IInv, TypeOK, Choose, Goto
    <2>2. \/ todo'[p] = todo[p] /\ todo[p] = {} /\ pc'[p] = "finish"
          \/ pc'[p] = "next"
          \/ todo'[p] = todo[p] /\ todo[p] # {} /\ pc'[p] = "archive"
      BY <2>0 DEF IInv, TypeOK, Choose, Goto
    <2> QED BY <2>1, <2>2 DEF IInv, TodoInv, Fetching
  <1>4. CASE \E p \in Procs : ReadArchive(p)
    BY <1>4, PackageIsLeft
       DEF IInv, TypeOK, TodoInv, Fetching, ReadArchive, Goto, world, proc,
           count
  <1>5. CASE \E p \in Procs : ReadSignature(p)
    BY <1>5, PackageIsLeft
       DEF IInv, TypeOK, TodoInv, Fetching, ReadSignature, Goto, world, proc,
           count
  <1>6. CASE \E p \in Procs : Check(p)
    <2>0. PICK p \in Procs : Check(p)
      BY <1>6
    <2>1. pc[p] \in Fetching /\ \A q \in Procs \ {p} : pc'[q] = pc[q] /\ todo'[q] = todo[q]
      BY <2>0 DEF IInv, TypeOK, Check, Goto, Refuse, Fetching
    <2>2. \/ todo'[p] = todo[p] /\ pc'[p] \in {"load"}
          \/ pc'[p] \in {"idle", "next"}
      BY <2>0 DEF IInv, TypeOK, Check, Goto, Refuse
    <2> QED BY <2>1, <2>2 DEF IInv, TodoInv, Fetching
  <1>7. CASE \E p \in Procs : LoadKey(p)
    <2>0. PICK p \in Procs : LoadKey(p)
      BY <1>7
    <2>1. pc[p] \in Fetching /\ \A q \in Procs \ {p} : pc'[q] = pc[q] /\ todo'[q] = todo[q]
      BY <2>0 DEF IInv, TypeOK, LoadKey, Goto, Refuse, Fetching
    <2>2. \/ todo'[p] = todo[p] /\ pc'[p] \in {"verify", "truncate"}
          \/ pc'[p] \in {"idle", "next"}
      BY <2>0 DEF IInv, TypeOK, LoadKey, Goto, Refuse
    <2> QED BY <2>1, <2>2 DEF IInv, TodoInv, Fetching
  <1>8. CASE \E p \in Procs : TruncateKey(p)
    BY <1>8, PackageIsLeft
       DEF IInv, TypeOK, TodoInv, Fetching, TruncateKey, Goto, world, proc,
           count
  <1>9. CASE \E p \in Procs : WriteKey(p)
    BY <1>9, PackageIsLeft
       DEF IInv, TypeOK, TodoInv, Fetching, WriteKey, Goto, world, proc, count
  <1>10. CASE \E p \in Procs : Verify(p)
    <2>0. PICK p \in Procs : Verify(p)
      BY <1>10
    <2>1. pc[p] \in Fetching /\ \A q \in Procs \ {p} : pc'[q] = pc[q] /\ todo'[q] = todo[q]
      BY <2>0 DEF IInv, TypeOK, Verify, Goto, Refuse, Fetching
    <2>2. \/ todo'[p] = todo[p] /\ pc'[p] \in {"put"}
          \/ pc'[p] \in {"idle", "next"}
      BY <2>0 DEF IInv, TypeOK, Verify, Goto, Refuse
    <2> QED BY <2>1, <2>2 DEF IInv, TodoInv, Fetching
  <1>11. CASE \E p \in Procs : Put(p)
    BY <1>11, PackageIsLeft
       DEF IInv, TypeOK, TodoInv, Fetching, Put, world, proc, count
  <1>12. CASE \E p \in Procs : Finish(p)
    BY <1>12, PackageIsLeft
       DEF IInv, TypeOK, TodoInv, Fetching, Finish, world, proc, count
  <1>13. CASE \E p \in Procs : Crash(p)
    BY <1>13, PackageIsLeft
       DEF IInv, TypeOK, TodoInv, Fetching, Crash, world, proc, count
  <1>14. CASE Move
    BY <1>14, PackageIsLeft
       DEF IInv, TypeOK, TodoInv, Fetching, Move, world, proc, count
  <1> QED BY <1>0, <1>1, <1>2, <1>3, <1>4, <1>5, <1>6, <1>7, <1>8, <1>9, <1>10,
         <1>11, <1>12, <1>13, <1>14
         DEF Next, Step

LEMMA EntryInvNext == IInv /\ [Next]_vars => EntryInv'
  <1> SUFFICES ASSUME IInv, [Next]_vars PROVE EntryInv'
    OBVIOUS
  <1>0. CASE UNCHANGED vars
    BY <1>0
       DEF IInv, TypeOK, TodoInv, EntryInv, KeyInv, Checked, Fetching, Package,
           vars, world, proc, count
  <1>1. CASE \E p \in Procs, r \in Rotating : Add(p, r)
    BY <1>1, PackageIsLeft
       DEF IInv, TypeOK, TodoInv, EntryInv, KeyInv, Checked, Fetching, Package,
           Add, Begin, world, proc, count
  <1>2. CASE \E p \in Procs : Get(p)
    BY <1>2, PackageIsLeft
       DEF IInv, TypeOK, TodoInv, EntryInv, KeyInv, Checked, Fetching, Package,
           Get, Begin, world, proc, count
  <1>3. CASE \E p \in Procs : Choose(p)
    BY <1>3, PackageIsLeft
       DEF IInv, TypeOK, TodoInv, EntryInv, KeyInv, Checked, Fetching, Package,
           Choose, Goto, world, proc, count
  <1>4. CASE \E p \in Procs : ReadArchive(p)
    <2>0. PICK p \in Procs : ReadArchive(p)
      BY <1>4
    <2>1. todo[p] # {}
      BY <2>0 DEF ReadArchive, IInv, TodoInv, Fetching
    <2>2. Package(p) \in Packages
      BY <2>1, PackageIsLeft DEF IInv
    <2>3. PICK b \in Contents, h \in Contents :
            b = index[Package(p)].bin /\ h = index[Package(p)].hash
      BY <2>2, SignedFacts DEF IInv
    <2>4. entry' = [entry EXCEPT ![p] = [NoEntry EXCEPT !.bin = b, !.hash = h]]
      BY <2>0, <2>3 DEF ReadArchive
    <2>5. entry'[p].bin \in Contents /\ entry'[p].hash \in Contents
      BY <2>3, <2>4 DEF IInv, TypeOK, NoEntry
    <2>6. pc' = [pc EXCEPT ![p] = "signature"] /\ UNCHANGED <<want, todo, recorded>>
      BY <2>0 DEF ReadArchive, Goto
    <2>7. \A q \in Procs \ {p} : entry'[q] = entry[q] /\ pc'[q] = pc[q]
      BY <2>4, <2>6 DEF IInv, TypeOK
    <2>8. pc'[p] = "signature"
      BY <2>6 DEF IInv, TypeOK
    <2> QED BY <2>5, <2>6, <2>7, <2>8 DEF IInv, EntryInv, Checked, Package
  <1>5. CASE \E p \in Procs : ReadSignature(p)
    <2>0. PICK p \in Procs : ReadSignature(p)
      BY <1>5
    <2>1. todo[p] # {}
      BY <2>0 DEF ReadSignature, IInv, TodoInv, Fetching
    <2>2. Package(p) \in Packages
      BY <2>1, PackageIsLeft DEF IInv
    <2>3. entry[p].bin \in Contents /\ entry[p].hash \in Contents
      BY <2>0 DEF ReadSignature, IInv, EntryInv
    <2>4. PICK s \in PubKeys, o \in Contents :
            s = index[Package(p)].signer /\ o = index[Package(p)].over
      BY <2>2, SignedFacts DEF IInv
    <2>5. entry[p] \in Entries /\ served \in PubKeys
      BY DEF IInv, TypeOK, Entries
    <2>6. entry' = [entry EXCEPT ![p].signer = s, ![p].over = o, ![p].key = served]
      BY <2>0, <2>4 DEF ReadSignature
    <2>7. entry'[p] = [[[entry[p] EXCEPT !.signer = s] EXCEPT !.over = o] EXCEPT !.key = served]
      BY <2>6 DEF IInv, TypeOK
    <2>8. /\ entry'[p].bin \in Contents /\ entry'[p].hash \in Contents
          /\ entry'[p].signer \in PubKeys /\ entry'[p].over \in Contents
          /\ entry'[p].key \in PubKeys
      BY <2>3, <2>5, <2>7 DEF Entries
    <2>9. pc' = [pc EXCEPT ![p] = "check"] /\ UNCHANGED <<want, todo, recorded>>
      BY <2>0 DEF ReadSignature, Goto
    <2>10. \A q \in Procs \ {p} : entry'[q] = entry[q] /\ pc'[q] = pc[q]
      BY <2>6, <2>9 DEF IInv, TypeOK
    <2>11. pc'[p] = "check"
      BY <2>9 DEF IInv, TypeOK
    <2> QED BY <2>8, <2>9, <2>10, <2>11 DEF IInv, EntryInv, Checked, Package
  <1>6. CASE \E p \in Procs : Check(p)
    BY <1>6, PackageIsLeft
       DEF IInv, TypeOK, TodoInv, EntryInv, KeyInv, Checked, Fetching, Package,
           Check, Refuse, Goto, Digests, world, proc, count
  <1>7. CASE \E p \in Procs : LoadKey(p)
    BY <1>7, PackageIsLeft
       DEF IInv, TypeOK, TodoInv, EntryInv, KeyInv, Checked, Fetching, Package,
           LoadKey, Refuse, Goto, world, proc, count
  <1>8. CASE \E p \in Procs : TruncateKey(p)
    BY <1>8, PackageIsLeft
       DEF IInv, TypeOK, TodoInv, EntryInv, KeyInv, Checked, Fetching, Package,
           TruncateKey, Goto, world, proc, count
  <1>9. CASE \E p \in Procs : WriteKey(p)
    BY <1>9, PackageIsLeft
       DEF IInv, TypeOK, TodoInv, EntryInv, KeyInv, Checked, Fetching, Package,
           WriteKey, Goto, world, proc, count
  <1>10. CASE \E p \in Procs : Verify(p)
    BY <1>10, PackageIsLeft
       DEF IInv, TypeOK, TodoInv, EntryInv, KeyInv, Checked, Fetching, Package,
           Verify, Refuse, Goto, Signs, world, proc, count
  <1>11. CASE \E p \in Procs : Put(p)
    BY <1>11, PackageIsLeft
       DEF IInv, TypeOK, TodoInv, EntryInv, KeyInv, Checked, Fetching, Package,
           Put, world, proc, count
  <1>12. CASE \E p \in Procs : Finish(p)
    BY <1>12, PackageIsLeft
       DEF IInv, TypeOK, TodoInv, EntryInv, KeyInv, Checked, Fetching, Package,
           Finish, world, proc, count
  <1>13. CASE \E p \in Procs : Crash(p)
    BY <1>13, PackageIsLeft
       DEF IInv, TypeOK, TodoInv, EntryInv, KeyInv, Checked, Fetching, Package,
           Crash, world, proc, count
  <1>14. CASE Move
    BY <1>14, PackageIsLeft
       DEF IInv, TypeOK, TodoInv, EntryInv, KeyInv, Checked, Fetching, Package,
           Move, world, proc, count
  <1> QED BY <1>0, <1>1, <1>2, <1>3, <1>4, <1>5, <1>6, <1>7, <1>8, <1>9, <1>10,
         <1>11, <1>12, <1>13, <1>14
         DEF Next, Step

LEMMA KeyInvNext == IInv /\ [Next]_vars => KeyInv'
  <1> SUFFICES ASSUME IInv, [Next]_vars PROVE KeyInv'
    OBVIOUS
  <1>0. CASE UNCHANGED vars
    BY <1>0 DEF IInv, TypeOK, KeyInv, vars, world, proc, count
  <1>1. CASE \E p \in Procs, r \in Rotating : Add(p, r)
    BY <1>1, PublisherKeysAssumption
       DEF IInv, TypeOK, KeyInv, Add, Begin, world, proc, count
  <1>2. CASE \E p \in Procs : Get(p)
    BY <1>2, PublisherKeysAssumption
       DEF IInv, TypeOK, KeyInv, Get, Begin, world, proc, count
  <1>3. CASE \E p \in Procs : Choose(p)
    BY <1>3, PublisherKeysAssumption
       DEF IInv, TypeOK, KeyInv, Choose, Goto, world, proc, count
  <1>4. CASE \E p \in Procs : ReadArchive(p)
    BY <1>4, PublisherKeysAssumption
       DEF IInv, TypeOK, KeyInv, ReadArchive, Goto, world, proc, count
  <1>5. CASE \E p \in Procs : ReadSignature(p)
    BY <1>5, PublisherKeysAssumption
       DEF IInv, TypeOK, KeyInv, ReadSignature, Goto, world, proc, count
  <1>6. CASE \E p \in Procs : Check(p)
    BY <1>6, PublisherKeysAssumption
       DEF IInv, TypeOK, KeyInv, Check, Refuse, Goto, Digests, world, proc,
           count
  <1>7. CASE \E p \in Procs : LoadKey(p)
    BY <1>7, PublisherKeysAssumption
       DEF IInv, TypeOK, KeyInv, LoadKey, Refuse, Goto, world, proc, count
  <1>8. CASE \E p \in Procs : TruncateKey(p)
    BY <1>8, PublisherKeysAssumption
       DEF IInv, TypeOK, KeyInv, TruncateKey, Goto, world, proc, count
  <1>9. CASE \E p \in Procs : WriteKey(p)
    BY <1>9, PublisherKeysAssumption
       DEF IInv, TypeOK, KeyInv, WriteKey, Goto, world, proc, count
  <1>10. CASE \E p \in Procs : Verify(p)
    BY <1>10, PublisherKeysAssumption
       DEF IInv, TypeOK, KeyInv, Verify, Refuse, Goto, Signs, world, proc,
           count
  <1>11. CASE \E p \in Procs : Put(p)
    BY <1>11, PublisherKeysAssumption
       DEF IInv, TypeOK, KeyInv, Put, world, proc, count
  <1>12. CASE \E p \in Procs : Finish(p)
    BY <1>12, PublisherKeysAssumption
       DEF IInv, TypeOK, KeyInv, Finish, world, proc, count
  <1>13. CASE \E p \in Procs : Crash(p)
    BY <1>13, PublisherKeysAssumption
       DEF IInv, TypeOK, KeyInv, Crash, world, proc, count
  <1>14. CASE Move
    BY <1>14, PublisherKeysAssumption
       DEF IInv, TypeOK, KeyInv, Move, world, proc, count
  <1> QED BY <1>0, <1>1, <1>2, <1>3, <1>4, <1>5, <1>6, <1>7, <1>8, <1>9, <1>10,
         <1>11, <1>12, <1>13, <1>14
         DEF Next, Step

LEMMA AddInvNext == IInv /\ [Next]_vars => AddInv'
  <1> SUFFICES ASSUME IInv, [Next]_vars PROVE AddInv'
    OBVIOUS
  <1>0. CASE UNCHANGED vars
    BY <1>0 DEF IInv, TypeOK, AddInv, Ready, vars, world, proc, count
  <1>1. CASE \E p \in Procs, r \in Rotating : Add(p, r)
    BY <1>1, PackageIsLeft
       DEF IInv, TypeOK, AddInv, Ready, Add, Begin, world, proc, count
  <1>2. CASE \E p \in Procs : Get(p)
    BY <1>2, PackageIsLeft
       DEF IInv, TypeOK, AddInv, Ready, Get, Begin, world, proc, count
  <1>3. CASE \E p \in Procs : Choose(p)
    <2>0. PICK p \in Procs : Choose(p)
      BY <1>3
    <2> SUFFICES ASSUME NEW q \in Procs, command'[q] = "add", pc'[q] # "idle",
                        NEW k \in Packages, k \notin todo'[q]
                 PROVE  Ready(want[q][k])'
      BY DEF AddInv
    <2>1. UNCHANGED <<command, want, store>>
      BY <2>0 DEF Choose, Goto
    <2>2. pc[q] # "idle" /\ k \notin todo[q]
      <3>1. CASE q = p
        <4>1. command[p] = "add"
          BY <2>1, <3>1
        <4>2. todo' = todo
          BY <2>0, <4>1 DEF Choose, Goto
        <4> QED BY <2>0, <3>1, <4>2 DEF Choose
      <3>2. CASE q # p
        BY <2>0, <3>2 DEF Choose, Goto, IInv, TypeOK
      <3> QED BY <3>1, <3>2
    <2> QED BY <2>1, <2>2 DEF IInv, AddInv, Ready
  <1>4. CASE \E p \in Procs : ReadArchive(p)
    BY <1>4, PackageIsLeft
       DEF IInv, TypeOK, AddInv, Ready, ReadArchive, Goto, world, proc, count
  <1>5. CASE \E p \in Procs : ReadSignature(p)
    BY <1>5, PackageIsLeft
       DEF IInv, TypeOK, AddInv, Ready, ReadSignature, Goto, world, proc, count
  <1>6. CASE \E p \in Procs : Check(p)
    BY <1>6, PackageIsLeft
       DEF IInv, TypeOK, AddInv, Ready, Check, Refuse, Goto, Digests, world,
           proc, count
  <1>7. CASE \E p \in Procs : LoadKey(p)
    BY <1>7, PackageIsLeft
       DEF IInv, TypeOK, AddInv, Ready, LoadKey, Refuse, Goto, world, proc,
           count
  <1>8. CASE \E p \in Procs : TruncateKey(p)
    BY <1>8, PackageIsLeft
       DEF IInv, TypeOK, AddInv, Ready, TruncateKey, Goto, world, proc, count
  <1>9. CASE \E p \in Procs : WriteKey(p)
    BY <1>9, PackageIsLeft
       DEF IInv, TypeOK, AddInv, Ready, WriteKey, Goto, world, proc, count
  <1>10. CASE \E p \in Procs : Verify(p)
    <2>0. PICK p \in Procs : Verify(p)
      BY <1>10
    <2> SUFFICES ASSUME NEW q \in Procs, command'[q] = "add", pc'[q] # "idle",
                        NEW k \in Packages, k \notin todo'[q]
                 PROVE  Ready(want[q][k])'
      BY DEF AddInv
    <2>1. UNCHANGED <<command, want, store>>
      BY <2>0 DEF Verify, Goto, Refuse
    <2>2. pc[q] # "idle" /\ k \notin todo[q]
      <3>1. CASE Goto(p, "put")
        BY <2>0, <3>1 DEF Verify, Goto, IInv, TypeOK
      <3>2. CASE Refuse(p, "signature") /\ command[p] = "add"
        BY <2>0, <3>2 DEF Verify, Refuse, IInv, TypeOK
      <3>3. CASE Refuse(p, "signature") /\ command[p] # "add"
        <4>1. q # p
          BY <2>1, <3>3
        <4> QED BY <2>0, <3>3, <4>1 DEF Verify, Refuse, IInv, TypeOK
      <3> QED BY <2>0, <3>1, <3>2, <3>3 DEF Verify
    <2> QED BY <2>1, <2>2 DEF IInv, AddInv, Ready
  <1>11. CASE \E p \in Procs : Put(p)
    <2>0. PICK p \in Procs : Put(p)
      BY <1>11
    <2> SUFFICES ASSUME NEW q \in Procs, command'[q] = "add", pc'[q] # "idle",
                        NEW k \in Packages, k \notin todo'[q]
                 PROVE  Ready(want[q][k])'
      BY DEF AddInv
    <2>1. UNCHANGED <<command, want>> /\ store \subseteq store'
      BY <2>0 DEF Put
    <2>2. pc[q] # "idle"
      BY <2>0 DEF Put, IInv, TypeOK
    <2>3. CASE k \notin todo[q]
      BY <2>1, <2>2, <2>3 DEF IInv, AddInv, Ready
    <2>4. CASE k \in todo[q]
      <3>1. q = p /\ k = Package(p)
        BY <2>0, <2>4 DEF Put, IInv, TypeOK
      <3>2. \E e \in store' : e.content = want[p][Package(p)]
        <4> DEFINE new == [content |-> want[p][Package(p)], bytes |-> entry[p].bin,
                           signer |-> entry[p].signer, over |-> entry[p].over]
        <4>1. new \in store'
          BY <2>0 DEF Put
        <4> QED BY <4>1
      <3> QED BY <2>1, <3>1, <3>2 DEF Ready
    <2> QED BY <2>3, <2>4
  <1>12. CASE \E p \in Procs : Finish(p)
    BY <1>12, PackageIsLeft
       DEF IInv, TypeOK, AddInv, Ready, Finish, world, proc, count
  <1>13. CASE \E p \in Procs : Crash(p)
    BY <1>13, PackageIsLeft
       DEF IInv, TypeOK, AddInv, Ready, Crash, world, proc, count
  <1>14. CASE Move
    BY <1>14, PackageIsLeft
       DEF IInv, TypeOK, AddInv, Ready, Move, world, proc, count
  <1> QED BY <1>0, <1>1, <1>2, <1>3, <1>4, <1>5, <1>6, <1>7, <1>8, <1>9, <1>10,
         <1>11, <1>12, <1>13, <1>14
         DEF Next, Step

LEMMA StoredIsSignedNext == IInv /\ [Next]_vars => StoredIsSigned'
  <1> SUFFICES ASSUME IInv, [Next]_vars PROVE StoredIsSigned'
    OBVIOUS
  <1>0. CASE UNCHANGED vars
    BY <1>0
       DEF IInv, TypeOK, StoredIsSigned, ContentIsSigned, SignerIsOnRecord,
           EntryInv, Checked, vars, world, proc, count
  <1>1. CASE \E p \in Procs, r \in Rotating : Add(p, r)
    BY <1>1, PackageIsLeft
       DEF IInv, TypeOK, StoredIsSigned, ContentIsSigned, SignerIsOnRecord,
           EntryInv, Checked, Add, Begin, world, proc, count
  <1>2. CASE \E p \in Procs : Get(p)
    BY <1>2, PackageIsLeft
       DEF IInv, TypeOK, StoredIsSigned, ContentIsSigned, SignerIsOnRecord,
           EntryInv, Checked, Get, Begin, world, proc, count
  <1>3. CASE \E p \in Procs : Choose(p)
    BY <1>3, PackageIsLeft
       DEF IInv, TypeOK, StoredIsSigned, ContentIsSigned, SignerIsOnRecord,
           EntryInv, Checked, Choose, Goto, world, proc, count
  <1>4. CASE \E p \in Procs : ReadArchive(p)
    BY <1>4, PackageIsLeft
       DEF IInv, TypeOK, StoredIsSigned, ContentIsSigned, SignerIsOnRecord,
           EntryInv, Checked, ReadArchive, Goto, world, proc, count
  <1>5. CASE \E p \in Procs : ReadSignature(p)
    BY <1>5, PackageIsLeft
       DEF IInv, TypeOK, StoredIsSigned, ContentIsSigned, SignerIsOnRecord,
           EntryInv, Checked, ReadSignature, Goto, world, proc, count
  <1>6. CASE \E p \in Procs : Check(p)
    BY <1>6, PackageIsLeft
       DEF IInv, TypeOK, StoredIsSigned, ContentIsSigned, SignerIsOnRecord,
           EntryInv, Checked, Check, Refuse, Goto, Digests, world, proc, count
  <1>7. CASE \E p \in Procs : LoadKey(p)
    BY <1>7, PackageIsLeft
       DEF IInv, TypeOK, StoredIsSigned, ContentIsSigned, SignerIsOnRecord,
           EntryInv, Checked, LoadKey, Refuse, Goto, world, proc, count
  <1>8. CASE \E p \in Procs : TruncateKey(p)
    BY <1>8, PackageIsLeft
       DEF IInv, TypeOK, StoredIsSigned, ContentIsSigned, SignerIsOnRecord,
           EntryInv, Checked, TruncateKey, Goto, world, proc, count
  <1>9. CASE \E p \in Procs : WriteKey(p)
    BY <1>9, PackageIsLeft
       DEF IInv, TypeOK, StoredIsSigned, ContentIsSigned, SignerIsOnRecord,
           EntryInv, Checked, WriteKey, Goto, world, proc, count
  <1>10. CASE \E p \in Procs : Verify(p)
    BY <1>10, PackageIsLeft
       DEF IInv, TypeOK, StoredIsSigned, ContentIsSigned, SignerIsOnRecord,
           EntryInv, Checked, Verify, Refuse, Goto, Signs, world, proc, count
  <1>11. CASE \E p \in Procs : Put(p)
    BY <1>11, PackageIsLeft
       DEF IInv, TypeOK, StoredIsSigned, ContentIsSigned, SignerIsOnRecord,
           EntryInv, Checked, Put, world, proc, count
  <1>12. CASE \E p \in Procs : Finish(p)
    BY <1>12, PackageIsLeft
       DEF IInv, TypeOK, StoredIsSigned, ContentIsSigned, SignerIsOnRecord,
           EntryInv, Checked, Finish, world, proc, count
  <1>13. CASE \E p \in Procs : Crash(p)
    BY <1>13, PackageIsLeft
       DEF IInv, TypeOK, StoredIsSigned, ContentIsSigned, SignerIsOnRecord,
           EntryInv, Checked, Crash, world, proc, count
  <1>14. CASE Move
    BY <1>14, PackageIsLeft
       DEF IInv, TypeOK, StoredIsSigned, ContentIsSigned, SignerIsOnRecord,
           EntryInv, Checked, Move, world, proc, count
  <1> QED BY <1>0, <1>1, <1>2, <1>3, <1>4, <1>5, <1>6, <1>7, <1>8, <1>9, <1>10,
         <1>11, <1>12, <1>13, <1>14
         DEF Next, Step

LEMMA LockedIsStoredNext == IInv /\ [Next]_vars => LockedIsStored'
  <1> SUFFICES ASSUME IInv, [Next]_vars PROVE LockedIsStored'
    OBVIOUS
  <1>0. CASE UNCHANGED vars
    BY <1>0
       DEF IInv, TypeOK, LockedIsStored, AddInv, TodoInv, Ready, vars, world,
           proc, count
  <1>1. CASE \E p \in Procs, r \in Rotating : Add(p, r)
    BY <1>1, PackageIsLeft
       DEF IInv, TypeOK, LockedIsStored, AddInv, TodoInv, Ready, Add, Begin,
           world, proc, count
  <1>2. CASE \E p \in Procs : Get(p)
    BY <1>2, PackageIsLeft
       DEF IInv, TypeOK, LockedIsStored, AddInv, TodoInv, Ready, Get, Begin,
           world, proc, count
  <1>3. CASE \E p \in Procs : Choose(p)
    BY <1>3, PackageIsLeft
       DEF IInv, TypeOK, LockedIsStored, AddInv, TodoInv, Ready, Choose, Goto,
           world, proc, count
  <1>4. CASE \E p \in Procs : ReadArchive(p)
    BY <1>4, PackageIsLeft
       DEF IInv, TypeOK, LockedIsStored, AddInv, TodoInv, Ready, ReadArchive,
           Goto, world, proc, count
  <1>5. CASE \E p \in Procs : ReadSignature(p)
    BY <1>5, PackageIsLeft
       DEF IInv, TypeOK, LockedIsStored, AddInv, TodoInv, Ready, ReadSignature,
           Goto, world, proc, count
  <1>6. CASE \E p \in Procs : Check(p)
    BY <1>6, PackageIsLeft
       DEF IInv, TypeOK, LockedIsStored, AddInv, TodoInv, Ready, Check, Refuse,
           Goto, Digests, world, proc, count
  <1>7. CASE \E p \in Procs : LoadKey(p)
    BY <1>7, PackageIsLeft
       DEF IInv, TypeOK, LockedIsStored, AddInv, TodoInv, Ready, LoadKey,
           Refuse, Goto, world, proc, count
  <1>8. CASE \E p \in Procs : TruncateKey(p)
    BY <1>8, PackageIsLeft
       DEF IInv, TypeOK, LockedIsStored, AddInv, TodoInv, Ready, TruncateKey,
           Goto, world, proc, count
  <1>9. CASE \E p \in Procs : WriteKey(p)
    BY <1>9, PackageIsLeft
       DEF IInv, TypeOK, LockedIsStored, AddInv, TodoInv, Ready, WriteKey,
           Goto, world, proc, count
  <1>10. CASE \E p \in Procs : Verify(p)
    BY <1>10, PackageIsLeft
       DEF IInv, TypeOK, LockedIsStored, AddInv, TodoInv, Ready, Verify,
           Refuse, Goto, Signs, world, proc, count
  <1>11. CASE \E p \in Procs : Put(p)
    BY <1>11, PackageIsLeft
       DEF IInv, TypeOK, LockedIsStored, AddInv, TodoInv, Ready, Put, world,
           proc, count
  <1>12. CASE \E p \in Procs : Finish(p)
    <2>0. PICK p \in Procs : Finish(p)
      BY <1>12
    <2>1. UNCHANGED store
      BY <2>0 DEF Finish
    <2>2. CASE command[p] = "add"
      <3>1. todo[p] = {} /\ pc[p] # "idle"
        BY <2>0 DEF Finish, IInv, TodoInv
      <3>2. \A k \in Packages : Ready(want[p][k])
        BY <2>2, <3>1 DEF IInv, AddInv
      <3>3. lock' = want[p]
        BY <2>0, <2>2 DEF Finish
      <3> QED BY <2>1, <3>2, <3>3 DEF LockedIsStored, Ready
    <2>3. CASE command[p] # "add"
      <3>1. lock' = lock
        BY <2>0, <2>3 DEF Finish
      <3> QED BY <2>1, <3>1 DEF IInv, LockedIsStored, Ready
    <2> QED BY <2>2, <2>3
  <1>13. CASE \E p \in Procs : Crash(p)
    BY <1>13, PackageIsLeft
       DEF IInv, TypeOK, LockedIsStored, AddInv, TodoInv, Ready, Crash, world,
           proc, count
  <1>14. CASE Move
    BY <1>14, PackageIsLeft
       DEF IInv, TypeOK, LockedIsStored, AddInv, TodoInv, Ready, Move, world,
           proc, count
  <1> QED BY <1>0, <1>1, <1>2, <1>3, <1>4, <1>5, <1>6, <1>7, <1>8, <1>9, <1>10,
         <1>11, <1>12, <1>13, <1>14
         DEF Next, Step

LEMMA TurnsNext == IInv /\ Turns /\ [Next]_vars => Turns'
  <1> SUFFICES ASSUME IInv /\ Turns, [Next]_vars PROVE Turns'
    OBVIOUS
  <1>0. CASE UNCHANGED vars
    BY <1>0 DEF IInv, TypeOK, Turns, EntryInv, Checked, vars, world, proc, count
  <1>1. CASE \E p \in Procs, r \in Rotating : Add(p, r)
    BY <1>1, PublisherKeysAssumption
       DEF IInv, TypeOK, Turns, EntryInv, Checked, Add, Begin, world, proc,
           count
  <1>2. CASE \E p \in Procs : Get(p)
    BY <1>2, PublisherKeysAssumption
       DEF IInv, TypeOK, Turns, EntryInv, Checked, Get, Begin, world, proc,
           count
  <1>3. CASE \E p \in Procs : Choose(p)
    BY <1>3, PublisherKeysAssumption
       DEF IInv, TypeOK, Turns, EntryInv, Checked, Choose, Goto, world, proc,
           count
  <1>4. CASE \E p \in Procs : ReadArchive(p)
    BY <1>4, PublisherKeysAssumption
       DEF IInv, TypeOK, Turns, EntryInv, Checked, ReadArchive, Goto, world,
           proc, count
  <1>5. CASE \E p \in Procs : ReadSignature(p)
    BY <1>5, PublisherKeysAssumption
       DEF IInv, TypeOK, Turns, EntryInv, Checked, ReadSignature, Goto, world,
           proc, count
  <1>6. CASE \E p \in Procs : Check(p)
    BY <1>6, PublisherKeysAssumption
       DEF IInv, TypeOK, Turns, EntryInv, Checked, Check, Refuse, Goto,
           Digests, world, proc, count
  <1>7. CASE \E p \in Procs : LoadKey(p)
    BY <1>7, PublisherKeysAssumption
       DEF IInv, TypeOK, Turns, EntryInv, Checked, LoadKey, Refuse, Goto,
           world, proc, count
  <1>8. CASE \E p \in Procs : TruncateKey(p)
    BY <1>8, PublisherKeysAssumption
       DEF IInv, TypeOK, Turns, EntryInv, Checked, TruncateKey, Goto, world,
           proc, count
  <1>9. CASE \E p \in Procs : WriteKey(p)
    BY <1>9, PublisherKeysAssumption
       DEF IInv, TypeOK, Turns, EntryInv, Checked, WriteKey, Goto, world, proc,
           count
  <1>10. CASE \E p \in Procs : Verify(p)
    BY <1>10, PublisherKeysAssumption
       DEF IInv, TypeOK, Turns, EntryInv, Checked, Verify, Refuse, Goto, Signs,
           world, proc, count
  <1>11. CASE \E p \in Procs : Put(p)
    BY <1>11, PublisherKeysAssumption
       DEF IInv, TypeOK, Turns, EntryInv, Checked, Put, world, proc, count
  <1>12. CASE \E p \in Procs : Finish(p)
    BY <1>12, PublisherKeysAssumption
       DEF IInv, TypeOK, Turns, EntryInv, Checked, Finish, world, proc, count
  <1>13. CASE \E p \in Procs : Crash(p)
    BY <1>13, PublisherKeysAssumption
       DEF IInv, TypeOK, Turns, EntryInv, Checked, Crash, world, proc, count
  <1>14. CASE Move
    BY <1>14, PublisherKeysAssumption
       DEF IInv, TypeOK, Turns, EntryInv, Checked, Move, world, proc, count
  <1> QED BY <1>0, <1>1, <1>2, <1>3, <1>4, <1>5, <1>6, <1>7, <1>8, <1>9, <1>10,
         <1>11, <1>12, <1>13, <1>14
         DEF Next, Step

-----------------------------------------------------------------------------
(* The theorems *)

LEMMA Inductive == IInv /\ [Next]_vars => IInv'
  BY TypeOKNext, TodoInvNext, EntryInvNext, KeyInvNext, AddInvNext,
     StoredIsSignedNext,
     LockedIsStoredNext DEF IInv

LEMMA Invariance == Spec => []IInv
  BY Initial, Inductive, PTL DEF Spec

(* The fetches keep every variable in its type. *)
THEOREM TypeCorrect == Spec => []TypeOK
  <1>1. IInv => TypeOK
    BY DEF IInv
  <1> QED BY <1>1, Invariance, PTL

(* fetch_locked: whatever the index serves between the reads of a fetch and *)
(* however many commands run, a stored archive is the one its lock named,   *)
(* signed for that content by a key on record.                              *)
THEOREM StoredSigned == Spec => []StoredIsSigned
  <1>1. IInv => StoredIsSigned
    BY DEF IInv
  <1> QED BY <1>1, Invariance, PTL

(* cmd_add writes nestpkg.lock after the last fetch: what the lock names is *)
(* in the store, for any number of packages and of commands at once.        *)
THEOREM LockedStored == Spec => []LockedIsStored
  <1>1. IInv => LockedIsStored
    BY DEF IInv
  <1> QED BY <1>1, Invariance, PTL

(* "re-records explicitly": where the key directory holds a key from the    *)
(* first, only a command told to rotate takes a key off the record.  (With  *)
(* an empty directory two first fetches race, each finding none.)           *)
THEOREM ExplicitRotation ==
  ASSUME Nothing \notin Pins
  PROVE  Spec => RotationIsExplicit
  <1>1. Init => Turns
    BY DEF Init, Turns
  <1>2. IInv /\ Turns /\ [Next]_vars => Turns'
    BY TurnsNext
  <1>3. TypeOK /\ Turns =>
          \A p \in Procs :
            pc[p] \in {"truncate", "write"} /\ pc'[p] # pc[p] /\ keys' # keys
              /\ keys \in PubKeys => rotate[p]
    BY DEF Turns
  <1>4. IInv => TypeOK
    BY DEF IInv
  <1> QED BY <1>1, <1>2, <1>3, <1>4, Invariance, PTL
         DEF Spec, RotationIsExplicit

=============================================================================

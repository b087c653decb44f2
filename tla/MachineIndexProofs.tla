------------------------- MODULE MachineIndexProofs --------------------------
(***************************************************************************)
(* Proofs about MachineIndex, for every set of books and of builders and   *)
(* every bound: what a ready index holds, that deletion is all or nothing, *)
(* and the types.                                                          *)
(***************************************************************************)
EXTENDS MachineIndex, TLAPS

(* The part of the state the proofs are about.  Versions of an index file  *)
(* are not bounded here.                                                   *)
Manual == [manual : BOOLEAN, index : Nat]

Typed ==
  /\ records \subseteq Books
  /\ files \in [Books -> Manual] /\ moved \in [Books -> Manual]
  /\ deleting \in [Books -> {"no", "checked", "moved", "gone"}]
  /\ faults \in Nat /\ crashes \in Nat

(* The manual types of a generation are those of the books in its rows.    *)
Consistent(g) == g.types = DOMAIN g.rows

Generated == Consistent(pointer) /\ Consistent(pending)

Complete(f) == f.manual /\ f.index > 0

(* While a deletion is at work the manual is in place or in quarantine,    *)
(* and its rows go only after it has left its place.                       *)
Placed(b) ==
  /\ deleting[b] \in {"checked", "moved"} => b \in records
  /\ deleting[b] = "gone" => b \notin records
  /\ b \notin records \/ deleting[b] = "moved" => files[b] = Absent
  /\ faults = 0 /\ crashes = 0 /\ b \in records =>
       Complete(IF deleting[b] = "moved" THEN moved[b] ELSE files[b])

IInv == Typed /\ Generated /\ \A b \in Books : Placed(b)

LEMMA AbsentType == Absent \in Manual
  BY DEF Absent, Manual

LEMMA InitIInv == Init => IInv
<1> SUFFICES ASSUME Init PROVE IInv
  OBVIOUS
<1>1. Typed
  BY AbsentType DEF Init, Typed, Manual
<1>2. Generated
  BY DEF Init, Generated, Consistent, Nothing, NoRows
<1>3. \A b \in Books : Placed(b)
  BY DEF Init, Placed, Complete
<1> QED
  BY <1>1, <1>2, <1>3 DEF IInv

---------------------------------------------------------------------------
(* The generations.                                                        *)

LEMMA NextGenerated ==
  ASSUME Generated, [Next]_vars
  PROVE  Generated'
<1>1. Consistent(Nothing)
  BY DEF Consistent, Nothing, NoRows
<1>2. CASE UNCHANGED index
  BY <1>2 DEF Generated, Consistent, index
<1>3. CASE RemoveIndexes
  BY <1>1, <1>3 DEF Generated, Consistent, RemoveIndexes
<1>4. ASSUME NEW p \in Builders, BuildWrite(p)
      PROVE  Generated'
  BY <1>4 DEF Generated, Consistent, BuildWrite
<1>5. ASSUME NEW p \in Builders, BuildPublish(p)
      PROVE  Generated'
  BY <1>1, <1>5 DEF Generated, Consistent, BuildPublish
<1>6. \/ UNCHANGED index \/ RemoveIndexes
      \/ \E p \in Builders : BuildWrite(p) \/ BuildPublish(p)
  BY DEF Next, vars, index, Rechunk, StartWork, EndWork, DeleteCheck, DeleteStep, Quarantine,
         QuarantineFails, DeleteRefused, DeleteRecords, RemoveManual, AssignList, Assign,
         DeleteMachine, BuildList, BuildStep, BuildRead, BuildSkips, BuildFails, SearchList,
         SearchStep, SearchCheck, SearchResolve, SearchRead, SearchEnd, Crash
<1> QED
  BY <1>2, <1>3, <1>4, <1>5, <1>6

---------------------------------------------------------------------------
(* The books.                                                              *)

(* Nothing but the deletion of a book, its work and its chunks touches it. *)
LEMMA BooksAside ==
  ASSUME Typed, \A b \in Books : Placed(b), UNCHANGED <<records, files, moved, deleting>>,
         faults' \in {faults, faults + 1}, crashes' \in {crashes, crashes + 1}
  PROVE  Typed' /\ \A b \in Books : Placed(b)'
  BY DEF Typed, Placed, Complete

LEMMA BookStep ==
  ASSUME IInv, NEW c \in Books, Rechunk(c) \/ DeleteCheck(c) \/ DeleteStep(c)
  PROVE  Typed' /\ \A b \in Books : Placed(b)'
<1> SUFFICES ASSUME NEW b \in Books
             PROVE  Typed' /\ Placed(b)'
  OBVIOUS
<1> USE AbsentType DEF IInv
<1>1. CASE Rechunk(c)
  <2>1. files' \in [Books -> Manual]
    BY <1>1 DEF Rechunk, Typed, Manual
  <2>2. files[c] # Absent
    BY <1>1 DEF Rechunk, HasIndex, Absent
  <2> QED
    BY <1>1, <2>1, <2>2 DEF Rechunk, Typed, Placed, Complete, HasIndex, Manual
<1>2. CASE DeleteCheck(c)
  BY <1>2 DEF DeleteCheck, bounds, Typed, Placed, Complete
<1>3. CASE Quarantine(c)
  BY <1>3 DEF Quarantine, bounds, Typed, Placed, Complete
<1>4. CASE QuarantineFails(c)
  <2>1. PICK first \in BOOLEAN :
             files' = [files EXCEPT ![c].manual = first /\ files[c].manual]
    BY <1>4 DEF QuarantineFails
  <2> DEFINE m == first /\ files[c].manual
  <2>2. m \in BOOLEAN
    BY <2>1
  <2> HIDE DEF m
  <2>3. files' = [files EXCEPT ![c].manual = m]
    BY <2>1 DEF m
  <2>4. files' \in [Books -> Manual] /\ (b # c => files'[b] = files[b])
    BY <2>2, <2>3 DEF Typed, Manual
  <2> QED
    BY <1>4, <2>4 DEF QuarantineFails, Typed, Placed, Complete
<1>5. CASE DeleteRefused(c)
  BY <1>5 DEF DeleteRefused, Restore, bounds, Typed, Placed, Complete
<1>6. CASE DeleteRecords(c)
  BY <1>6 DEF DeleteRecords, bounds, Typed, Placed, Complete
<1>7. CASE RemoveManual(c)
  BY <1>7 DEF RemoveManual, bounds, Typed, Placed, Complete
<1> QED
  BY <1>1, <1>2, <1>3, <1>4, <1>5, <1>6, <1>7 DEF DeleteStep

LEMMA CrashStep ==
  ASSUME IInv, Crash
  PROVE  Typed' /\ \A b \in Books : Placed(b)'
<1>1. Typed' /\ crashes' # 0
  BY AbsentType DEF IInv, Typed, Crash
<1> QED
  BY <1>1 DEF IInv, Typed, Placed, Crash

LEMMA NextIInv == IInv /\ [Next]_vars => IInv'
<1> SUFFICES ASSUME IInv, [Next]_vars PROVE IInv'
  OBVIOUS
<1>1. Generated'
  BY NextGenerated DEF IInv
<1>2. CASE \E c \in Books : Rechunk(c) \/ DeleteCheck(c) \/ DeleteStep(c)
  BY <1>1, <1>2, BookStep DEF IInv
<1>3. CASE Crash
  BY <1>1, <1>3, CrashStep DEF IInv
<1>4. CASE /\ UNCHANGED <<records, files, moved, deleting>>
           /\ faults' \in {faults, faults + 1} /\ crashes' \in {crashes, crashes + 1}
  BY <1>1, <1>4, BooksAside DEF IInv
<1>5. \/ \E c \in Books : Rechunk(c) \/ DeleteCheck(c) \/ DeleteStep(c)
      \/ Crash
      \/ /\ UNCHANGED <<records, files, moved, deleting>>
         /\ faults' \in {faults, faults + 1} /\ crashes' \in {crashes, crashes + 1}
  BY DEF Next, vars, books, bounds, StartWork, EndWork, AssignList, Assign,
         DeleteMachine, BuildList, BuildStep, BuildRead, BuildSkips, BuildFails, BuildWrite,
         BuildPublish, SearchList, SearchStep, SearchCheck, SearchResolve, SearchRead, SearchEnd
<1> QED
  BY <1>2, <1>3, <1>4, <1>5

(* The generations and the places of every manual, for any number of       *)
(* books, builds, deletions, failures and deaths.                          *)
THEOREM Invariance == Spec => []IInv
  BY InitIInv, NextIInv, PTL DEF Spec

(* An index that equipment_hybrid_index_status calls ready holds rows of   *)
(* exactly the manuals the machine has: a build that raced a deletion, an  *)
(* assignment or another build for current.tmp is never taken for one.     *)
THEOREM ReadyIsOfScope == Spec => []ReadyHoldsScope
<1>1. IInv => ReadyHoldsScope
  BY DEF IInv, Generated, Consistent, ReadyHoldsScope, Ready
<1> QED
  BY <1>1, Invariance, PTL

(* quarantine_book_artifacts and delete_book_records are all or nothing:   *)
(* a deletion that is refused at the last moment leaves the manual whole,  *)
(* and one that is done leaves nothing of it, as long as no move fails and *)
(* the process lives.                                                      *)
THEOREM WholeDeletion == Spec => []DeletionIsWhole
<1>1. IInv => DeletionIsWhole
  BY DEF IInv, Placed, Complete, DeletionIsWhole, HasIndex
<1> QED
  BY <1>1, Invariance, PTL

-----------------------------------------------------------------------------
(* The types.  The version of an index file is bounded by the operations.  *)

Bounded == \A b \in Books : files[b].index <= ops + 1 /\ moved[b].index <= ops + 1

BooksType ==
  /\ records \subseteq Books /\ busy \subseteq records
  /\ files \in [Books -> Files] /\ moved \in [Books -> Files]
  /\ deleting \in [Books -> {"no", "checked", "moved", "gone"}]
  /\ ops \in 0 .. MaxOps /\ faults \in 0 .. MaxFaults /\ crashes \in 0 .. MaxCrashes
  /\ Bounded

MachineType ==
  /\ registry \subseteq Books /\ assign \in [on : BOOLEAN, known : SUBSET Books]
  /\ pointer \in Generations /\ pending \in Generations

RequestType ==
  /\ build \in [Builders -> [pc : {"idle", "listed", "read", "written"},
                             known : SUBSET Books, rows : Texts]]
  /\ search \in [pc : {"idle", "listed", "meta", "vectors", "rows", "read", "answered"},
                 known : SUBSET Books, meta : Generations, vectors : Generations,
                 rows : Generations]

TInv == BooksType /\ MachineType /\ RequestType

LEMMA Numbers == MaxOps \in Nat /\ MaxFaults \in Nat /\ MaxCrashes \in Nat
  BY MachineAssumption

LEMMA EmptyTypes ==
  /\ NoRows \in Texts /\ Nothing \in Generations /\ Absent \in Files
  /\ NoBuild \in [pc : {"idle", "listed", "read", "written"}, known : SUBSET Books, rows : Texts]
  /\ NoSearch \in [pc : {"idle", "listed", "meta", "vectors", "rows", "read", "answered"},
                   known : SUBSET Books, meta : Generations, vectors : Generations,
                   rows : Generations]
<1>1. NoRows \in Texts
  <2>1. NoRows \in [{} -> Versions \ {0}]
    BY DEF NoRows
  <2> QED
    BY <2>1 DEF Texts
<1>2. Nothing \in Generations
  BY <1>1 DEF Nothing, Generations
<1>3. Absent \in Files
  BY Numbers DEF Absent, Files, Versions
<1> QED
  BY <1>1, <1>2, <1>3 DEF NoBuild, NoSearch

LEMMA SignaturesType ==
  ASSUME BooksType, NEW scope \in SUBSET Books
  PROVE  Signatures(scope) \in Texts
<1> DEFINE B == {c \in scope : HasIndex(c)}
<1>1. \A b \in B : files[b].index \in Versions \ {0}
  BY Numbers DEF BooksType, HasIndex, Files, Versions
<1>2. Signatures(scope) \in [B -> Versions \ {0}]
  BY <1>1 DEF Signatures
<1> QED
  BY <1>2 DEF Texts

LEMMA InitTypes == Init => TInv
<1> SUFFICES ASSUME Init
             PROVE  TInv
  OBVIOUS
<1>1. BooksType
  <2>1. [manual |-> TRUE, index |-> 1] \in Files
    BY Numbers DEF Files, Versions
  <2> QED
    BY <2>1, EmptyTypes, Numbers DEF Init, BooksType, Bounded, Absent
<1> QED
  BY <1>1, EmptyTypes DEF TInv, Init, MachineType, RequestType

LEMMA BookTypes ==
  ASSUME TInv, NEW b \in Books,
         Rechunk(b) \/ StartWork(b) \/ EndWork(b) \/ DeleteCheck(b) \/ DeleteStep(b)
  PROVE  TInv'
<1>0. BooksType /\ MachineType /\ RequestType
  BY DEF TInv
<1> USE <1>0, EmptyTypes, Numbers
<1>1. CASE Rechunk(b)
  <2>1. files[b].index + 1 \in Versions /\ ops + 1 \in 0 .. MaxOps
    BY <1>1 DEF Rechunk, Spend, BooksType, Bounded, Files, Versions
  <2>2. files' = [files EXCEPT ![b] = [files[b] EXCEPT !.index = files[b].index + 1]]
    BY <1>1 DEF Rechunk, BooksType
  <2>3. [files[b] EXCEPT !.index = files[b].index + 1] \in Files
    BY <2>1 DEF BooksType, Files
  <2>4. files' \in [Books -> Files]
    BY <2>2, <2>3 DEF BooksType
  <2>5. \A c \in Books : files'[c].index <= (ops + 1) + 1 /\ moved[c].index <= (ops + 1) + 1
    BY <2>1, <2>2 DEF BooksType, Bounded, Files, Versions
  <2> QED
    BY <1>1, <2>1, <2>4, <2>5
       DEF TInv, Rechunk, Spend, BooksType, Bounded, MachineType, RequestType, index
<1>2. CASE StartWork(b) \/ EndWork(b) \/ DeleteCheck(b)
  <2>1. (b \in records => busy \cup {b} \subseteq records) /\ busy \ {b} \subseteq records
        /\ (ops < MaxOps => ops + 1 \in 0 .. MaxOps)
    BY DEF BooksType
  <2>2. ops' = ops \/ ops' = ops + 1
    BY <1>2 DEF StartWork, EndWork, DeleteCheck, Spend, bounds
  <2>3. \A c \in Books : files[c].index <= ops' + 1 /\ moved[c].index <= ops' + 1
    BY <2>2 DEF BooksType, Bounded, Files, Versions
  <2> QED
    BY <1>2, <2>1, <2>3 DEF TInv, StartWork, EndWork, DeleteCheck, Spend, bounds, index,
       BooksType, Bounded, MachineType, RequestType
<1>3. CASE Quarantine(b)
  BY <1>3 DEF TInv, Quarantine, bounds, index, BooksType, Bounded, MachineType, RequestType,
     Absent
<1>4. CASE QuarantineFails(b)
  <2>1. PICK first \in BOOLEAN :
             files' = [files EXCEPT ![b].manual = first /\ files[b].manual]
    BY <1>4 DEF QuarantineFails
  <2> DEFINE m == first /\ files[b].manual
  <2>2. m \in BOOLEAN
    BY <2>1
  <2> HIDE DEF m
  <2>3. files' = [files EXCEPT ![b] = [files[b] EXCEPT !.manual = m]]
    BY <2>1 DEF m, BooksType
  <2>4. [files[b] EXCEPT !.manual = m] \in Files
        /\ [files[b] EXCEPT !.manual = m].index = files[b].index
    BY <2>2 DEF BooksType, Files
  <2>5. files' \in [Books -> Files] /\ \A c \in Books : files'[c].index = files[c].index
    BY <2>3, <2>4 DEF BooksType
  <2>6. faults + 1 \in 0 .. MaxFaults
    BY <1>4 DEF QuarantineFails, BooksType
  <2> QED
    BY <1>4, <2>5, <2>6 DEF TInv, QuarantineFails, index, BooksType, Bounded, MachineType,
       RequestType
<1>5. CASE DeleteRefused(b)
  BY <1>5 DEF TInv, DeleteRefused, Restore, bounds, index, BooksType, Bounded, MachineType,
     RequestType, Absent
<1>6. CASE DeleteRecords(b)
  BY <1>6 DEF TInv, DeleteRecords, bounds, index, BooksType, Bounded, MachineType, RequestType
<1>7. CASE RemoveManual(b)
  <2>1. BooksType'
    BY <1>7 DEF RemoveManual, bounds, BooksType, Bounded
  <2>2. MachineType' /\ RequestType'
    BY <1>7 DEF RemoveManual, RemoveIndexes, index, MachineType, RequestType
  <2> QED
    BY <2>1, <2>2 DEF TInv
<1> QED
  BY <1>1, <1>2, <1>3, <1>4, <1>5, <1>6, <1>7 DEF DeleteStep

LEMMA MachineTypes ==
  ASSUME TInv, AssignList \/ (\E manuals \in SUBSET Books : Assign(manuals)) \/ DeleteMachine
               \/ SearchList \/ SearchStep \/ Crash
  PROVE  TInv'
<1>0. BooksType /\ MachineType /\ RequestType
  BY DEF TInv
<1> USE <1>0, EmptyTypes, Numbers
<1>1. ASSUME Spend, UNCHANGED books, faults' = faults, crashes' = crashes
      PROVE  BooksType'
  <2>1. ops' = ops + 1 /\ ops + 1 \in 0 .. MaxOps
    BY <1>1 DEF Spend, BooksType
  <2>2. \A c \in Books : files[c].index <= (ops + 1) + 1 /\ moved[c].index <= (ops + 1) + 1
    BY DEF BooksType, Bounded, Files, Versions
  <2> QED
    BY <1>1, <2>1, <2>2 DEF books, BooksType, Bounded
<1>2. CASE AssignList
  BY <1>1, <1>2 DEF TInv, AssignList, index, BooksType, MachineType, RequestType
<1>3. ASSUME NEW manuals \in SUBSET Books, Assign(manuals)
      PROVE  TInv'
  BY <1>3 DEF TInv, Assign, books, index, bounds, BooksType, Bounded, MachineType, RequestType
<1>4. CASE DeleteMachine
  BY <1>1, <1>4 DEF TInv, DeleteMachine, RemoveIndexes, MachineType, RequestType
<1>5. CASE SearchList
  <2>1. records \in SUBSET Books
    BY DEF BooksType
  <2>2. RequestType'
    BY <1>5, <2>1 DEF SearchList, RequestType, NoSearch
  <2> QED
    BY <1>1, <1>5, <2>2 DEF TInv, SearchList, index, MachineType
<1>6. CASE SearchStep
  <2>1. RequestType'
    BY <1>6 DEF SearchStep, SearchCheck, SearchResolve, SearchRead, SearchEnd, RequestType,
       MachineType
  <2> QED
    BY <1>6, <2>1 DEF TInv, SearchStep, SearchCheck, SearchResolve, SearchRead, SearchEnd,
       books, index, bounds, BooksType, Bounded, MachineType
<1>7. CASE Crash
  <2>1. crashes' \in 0 .. MaxCrashes
    BY <1>7 DEF Crash, BooksType
  <2> QED
    BY <1>7, <2>1 DEF TInv, Crash, index, BooksType, Bounded, MachineType, RequestType, Absent
<1> QED
  BY <1>2, <1>3, <1>4, <1>5, <1>6, <1>7

LEMMA BuildTypes ==
  ASSUME TInv, NEW p \in Builders, BuildList(p) \/ BuildStep(p) \/ BuildFails(p)
  PROVE  TInv'
<1>0. BooksType /\ MachineType /\ RequestType
  BY DEF TInv
<1> USE <1>0, EmptyTypes, Numbers
<1>1. CASE BuildList(p)
  <2>1. RequestType'
    BY <1>1 DEF BuildList, RequestType, BooksType
  <2>2. ops' \in 0 .. MaxOps /\ (ops' = ops \/ ops' = ops + 1)
    BY <1>1 DEF BuildList, Spend, BooksType
  <2>3. \A c \in Books : files[c].index <= ops' + 1 /\ moved[c].index <= ops' + 1
    BY <2>2 DEF BooksType, Bounded, Files, Versions
  <2> QED
    BY <1>1, <2>1, <2>2, <2>3 DEF TInv, BuildList, books, index, BooksType, Bounded,
       MachineType
<1>2. CASE BuildRead(p)
  <2>1. Scope(build[p].known) \in SUBSET Books
    BY DEF Scope, MachineType
  <2>2. Signatures(Scope(build[p].known)) \in Texts
    BY <2>1, SignaturesType
  <2>3. RequestType'
    BY <1>2, <2>2 DEF BuildRead, RequestType
  <2> QED
    BY <1>2, <2>3 DEF TInv, BuildRead, books, index, bounds, BooksType, Bounded, MachineType
<1>3. CASE BuildSkips(p)
  BY <1>3 DEF TInv, BuildSkips, books, index, bounds, BooksType, Bounded, MachineType,
     RequestType
<1>4. CASE BuildFails(p)
  <2>1. faults' \in 0 .. MaxFaults
    BY <1>4 DEF BuildFails, BooksType
  <2> QED
    BY <1>4, <2>1 DEF TInv, BuildFails, books, index, BooksType, Bounded, MachineType,
       RequestType
<1>5. CASE BuildWrite(p)
  <2>1. build[p].rows \in Texts
    BY DEF RequestType
  <2>2. DOMAIN build[p].rows \in SUBSET Books
    BY <2>1 DEF Texts
  <2>3. Signatures(DOMAIN build[p].rows) \in Texts
    BY <2>2, SignaturesType
  <2>4. pending' \in Generations
    BY <1>5, <2>1, <2>2, <2>3 DEF BuildWrite, Generations
  <2>5. RequestType'
    BY <1>5 DEF BuildWrite, RequestType
  <2> QED
    BY <1>5, <2>4, <2>5 DEF TInv, BuildWrite, books, bounds, BooksType, Bounded, MachineType
<1>6. CASE BuildPublish(p)
  BY <1>6 DEF TInv, BuildPublish, books, bounds, BooksType, Bounded, MachineType, RequestType
<1> QED
  BY <1>1, <1>2, <1>3, <1>4, <1>5, <1>6 DEF BuildStep

(* The types of the books, the index, the builds and the searches, for any *)
(* number of each: every generation is of manuals, and no version is       *)
(* beyond what the operations can have made (hybrid_retrieval.py).         *)
THEOREM TypeCorrect == Spec => []TypeOK
<1>1. TInv /\ [Next]_vars => TInv'
  <2> SUFFICES ASSUME TInv, [Next]_vars
               PROVE  TInv'
    OBVIOUS
  <2>1. CASE UNCHANGED vars
    BY <2>1 DEF TInv, BooksType, MachineType, RequestType, Bounded, vars
  <2> QED
    BY <2>1, BookTypes, MachineTypes, BuildTypes DEF Next
<1>2. TInv => TypeOK
  BY DEF TInv, BooksType, MachineType, RequestType, TypeOK
<1> QED
  BY <1>1, <1>2, InitTypes, PTL DEF Spec
=============================================================================

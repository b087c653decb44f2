------------------------ MODULE ConversionQueueProofs ------------------------
(***************************************************************************)
(* Proofs about ConversionQueue, for every set of documents and file names *)
(* and every bound.                                                        *)
(***************************************************************************)
EXTENDS ConversionQueue, TLAPS

Table == [Ids -> RowType]

(* What the invariant says about the table alone.                          *)
TableInv == QueuedOnce /\ RowInv /\ OrderInv

(* How a method other than the insertion may change a row: not at all; or  *)
(* an existing row keeps its document, and its output name, unless it gets *)
(* its first; or it is deleted.                                            *)
Kept(i, r) ==
  /\ Exists(i) /\ r.status \notin {"absent", "deleted"}
  /\ r.doc = rows[i].doc /\ RowOK(r)
  /\ r.out = rows[i].out \/ r.out = OutputName(i)
Legal(i, r) == r = rows[i] \/ Kept(i, r) \/ (Exists(i) /\ r = Deleted)

---------------------------------------------------------------------------
(* Names and numbers.                                                      *)

LEMMA Names1 ==
  ASSUME NEW d \in Docs
  PROVE  /\ Base(d) \in Paths /\ Versioned(d) \in Paths
         /\ Base(d) # NoPath /\ Versioned(d) # NoPath
         /\ NameOf[d] \in Names
         /\ \A e \in Docs : /\ Base(d) # Versioned(e)
                            /\ Versioned(d) = Versioned(e) => d = e
  BY ConversionAssumption DEF Base, Versioned, Paths, SomeDoc

(* One output file name comes from one stem.                               *)
LEMMA Names2 ==
  ASSUME NEW d \in Docs, NEW e \in Docs, Base(d) = Base(e)
  PROVE  StemOf[NameOf[d]] = StemOf[NameOf[e]]
<1>1. Base(d)[1] = Base(e)[1]
  OBVIOUS
<1> QED
  BY <1>1 DEF Base

(* What a row that was never inserted, a deleted one, and a new one hold.  *)
LEMMA Statuses ==
  /\ Absent.status = "absent" /\ Deleted.status = "deleted"
  /\ Absent.task = 0 /\ Deleted.task = 0
  /\ \A d : /\ Pending(d).status = "pending" /\ Pending(d).doc = d
            /\ Pending(d).task = 0 /\ Pending(d).out = NoPath
            /\ Pending(d).error = "none"
  BY DEF Absent, Deleted, Pending

(* A new row is consistent with its status 'pending'.                      *)
LEMMA PendingOK ==
  ASSUME NEW d \in Docs
  PROVE  RowOK(Pending(d))
  BY Statuses DEF RowOK

---------------------------------------------------------------------------
(* The table.                                                              *)

(* Legal changes of rows keep the invariant of the table.                  *)
LEMMA LegalSteps ==
  ASSUME TableInv, rows \in Table, rows' \in Table,
         \A i \in Ids : Legal(i, rows'[i])
  PROVE  TableInv'
<1> USE DEF TableInv
<1>1. \A i \in Ids : /\ Exists(i)' => Exists(i) /\ rows'[i].doc = rows[i].doc
                     /\ rows'[i].status = "absent" <=> rows[i].status = "absent"
  BY Statuses DEF Legal, Kept, Exists
<1>2. QueuedOnce'
  BY <1>1 DEF QueuedOnce
<1>3. RowInv'
  <2> SUFFICES ASSUME NEW i \in Ids
               PROVE  RowOK(rows'[i])
    BY DEF RowInv
  <2>1. CASE rows'[i] = Deleted
    BY <2>1, Statuses DEF RowOK, Deleted, Absent
  <2> QED
    BY <2>1 DEF Legal, Kept, RowInv
<1>4. OrderInv'
  <2> SUFFICES ASSUME NEW i \in Ids, NEW k \in Ids, i < k
               PROVE  /\ rows'[k].status # "absent" => rows'[i].status # "absent"
                      /\ Exists(i)' /\ Exists(k)' /\ NameOfRow(i)' = NameOfRow(k)'
                           => rows'[k].out # Base(rows'[k].doc)
    BY DEF OrderInv
  <2>1. rows'[k].status # "absent" => rows'[i].status # "absent"
    BY <1>1 DEF OrderInv
  <2>2. ASSUME Exists(i)', Exists(k)', NameOfRow(i)' = NameOfRow(k)'
        PROVE  rows'[k].out # Base(rows'[k].doc)
    <3>1. /\ Exists(i) /\ Exists(k) /\ NameOfRow(i) = NameOfRow(k)
          /\ rows'[k].doc = rows[k].doc
      BY <1>1, <2>2 DEF NameOfRow
    <3>2. rows[k].out # Base(rows[k].doc) /\ HasEarlier(k)
      BY <3>1 DEF OrderInv, HasEarlier
    <3>3. rows[k].doc \in Docs
      BY <3>1 DEF RowInv, RowOK, Exists
    <3>4. OutputName(k) # Base(rows[k].doc)
      BY <3>2, <3>3, Names1 DEF OutputName
    <3>5. rows'[k].out = rows[k].out \/ rows'[k].out = OutputName(k)
      BY <2>2, Statuses DEF Legal, Kept, Exists
    <3> QED
      BY <3>1, <3>2, <3>4, <3>5
  <2> QED
    BY <2>1, <2>2
<1> QED
  BY <1>2, <1>3, <1>4

(* create_pending_once inserts under the next identifier.                  *)
LEMMA Insertion ==
  ASSUME TableInv, rows \in Table, NEW d \in Docs,
         rows' = [i \in Ids |-> IF NextId(i) /\ ~Tracked(d)
                                  THEN Pending(d) ELSE rows[i]]
  PROVE  TableInv'
<1> USE DEF TableInv
<1>1. CASE Tracked(d) \/ ~\E i \in Ids : NextId(i)
  <2>1. \A i \in Ids : rows'[i] = rows[i]
    BY <1>1
  <2> QED
    BY <2>1, LegalSteps DEF Legal, Table
<1>2. ASSUME NEW n \in Ids, NextId(n), ~Tracked(d)
      PROVE  TableInv'
  <2>1. \A i \in Ids \ {n} : ~NextId(i)
    BY <1>2 DEF NextId, Ids
  <2>2. rows'[n] = Pending(d) /\ \A i \in Ids \ {n} : rows'[i] = rows[i]
    BY <1>2, <2>1
  <2>3. Exists(n)' /\ \A i \in Ids \ {n} : Exists(i)' <=> Exists(i)
    BY <2>2, Statuses DEF Exists
  <2>4. \A i \in Ids : Exists(i) => rows[i].doc # d
    BY <1>2 DEF Tracked
  <2>5. QueuedOnce'
    BY <2>2, <2>3, <2>4, Statuses DEF QueuedOnce
  <2>6. RowInv'
    BY <2>2, PendingOK DEF RowInv
  <2>7. \A i \in Ids : n < i => rows[i].status = "absent"
    BY <1>2 DEF NextId, OrderInv
  <2>8. OrderInv'
    <3> SUFFICES ASSUME NEW i \in Ids, NEW k \in Ids, i < k
                 PROVE  /\ rows'[k].status # "absent" => rows'[i].status # "absent"
                        /\ Exists(i)' /\ Exists(k)' /\ NameOfRow(i)' = NameOfRow(k)'
                             => rows'[k].out # Base(rows'[k].doc)
      BY DEF OrderInv
    <3>1. CASE k = n
      <4>1. rows[i].status # "absent" /\ rows'[i] = rows[i]
        BY <1>2, <2>2, <3>1 DEF NextId, Ids
      <4> QED
        BY <2>2, <3>1, <4>1, Names1, Statuses
    <3>2. CASE i = n
      BY <2>2, <2>7, <3>2 DEF Exists, Ids
    <3>3. CASE i # n /\ k # n
      BY <2>2, <2>3, <3>3 DEF OrderInv, NameOfRow
    <3> QED
      BY <3>1, <3>2, <3>3
  <2> QED
    BY <2>5, <2>6, <2>8
<1> QED
  BY <1>1, <1>2

---------------------------------------------------------------------------
(* Types.                                                                  *)

LEMMA RowTypes ==
  /\ Absent \in RowType /\ Deleted \in RowType
  /\ \A d \in Docs : Pending(d) \in RowType
  /\ Resting \in WorkerType /\ NoDeletion \in DeletionType
<1> USE ConversionAssumption DEF SomeDoc, Status
<1>1. Absent \in RowType
  BY DEF Absent, RowType
<1>2. Deleted \in RowType
  BY DEF Absent, Deleted, RowType
<1>3. ASSUME NEW d \in Docs
      PROVE  Pending(d) \in RowType
  <2>1. d \in SomeDoc
    BY <1>3
  <2> QED
    BY <1>1, <2>1 DEF Pending, RowType
<1>4. Resting \in WorkerType
  BY DEF Resting, WorkerType, WorkerPc
<1>5. NoDeletion \in DeletionType
  BY DEF NoDeletion, DeletionType
<1> QED
  BY <1>1, <1>2, <1>3, <1>4, <1>5

(* The rows that the worker and a deletion have are rows with a document.  *)
LEMMA AtWork ==
  ASSUME IInv
  PROVE  /\ worker.job # 0 =>
              /\ worker.job \in Ids /\ Exists(worker.job)
              /\ rows[worker.job].doc \in Docs
              /\ NameOfRow(worker.job) \in Names
         /\ deletion.pc # "idle" =>
              /\ deletion.job \in Ids /\ Exists(deletion.job)
              /\ rows[deletion.job].doc \in Docs
              /\ NameOfRow(deletion.job) \in Names
<1> USE DEF IInv
<1>1. ASSUME worker.job # 0
      PROVE  worker.job \in Ids /\ Exists(worker.job)
  <2>1. worker.job \in Ids /\ worker.pc \in WorkerPc \ {"top", "resume", "scan"}
    BY <1>1 DEF TypeOK, WorkerType, Ids
  <2> QED
    BY <2>1 DEF WorkerInv, WorkerPc, Exists
<1>2. ASSUME deletion.pc # "idle"
      PROVE  deletion.job \in Ids /\ Exists(deletion.job)
  <2>1. deletion.job \in Ids
    BY <1>2 DEF TypeOK, DeletionInv, DeletionType, Ids
  <2> QED
    BY <1>2, <2>1 DEF DeletionInv, Exists
<1>3. ASSUME NEW i \in Ids, Exists(i)
      PROVE  rows[i].doc \in Docs /\ NameOfRow(i) \in Names
  BY <1>3, ConversionAssumption DEF RowInv, RowOK, Exists, NameOfRow
<1> QED
  BY <1>1, <1>2, <1>3

TypeRest ==
  /\ managed \subseteq Ids
  /\ input \in [Names -> SomeDoc] /\ folder \in [Paths -> SomeDoc]
  /\ remote \in [Tasks -> TaskType]
  /\ auto \in BOOLEAN /\ batch \subseteq Ids /\ alive \in BOOLEAN
  /\ seen \in [Callers -> SomeDoc]
  /\ starting \in BOOLEAN /\ joining \in 0 .. MaxRows
  /\ ops \in 0 .. MaxOps /\ drops \in 0 .. MaxDrops
  /\ faults \in 0 .. MaxFaults
TypeWorker ==
  /\ worker \in WorkerType
  /\ worker.job = 0 <=> worker.pc \in {"top", "resume", "scan"}
  /\ worker.pc \in {"save", "poll", "fetch", "finish"} => worker.task # 0

(* The type invariant, cut into the parts that one group of steps changes. *)
LEMMA TypeParts ==
  TypeOK <=> rows \in Table /\ TypeRest /\ TypeWorker /\ deletion \in DeletionType
BY DEF TypeOK, Table, TypeRest, TypeWorker

(* The empty queue and the initial folder are of their types.              *)
LEMMA TypeInit == Init => TypeOK
<1> SUFFICES ASSUME Init PROVE TypeOK
  OBVIOUS
<1>1. rows \in Table
  BY RowTypes DEF Init, Table
<1>2. TypeRest
  <2>1. /\ managed \subseteq Ids /\ batch \subseteq Ids
        /\ auto \in BOOLEAN /\ alive \in BOOLEAN
        /\ input \in [Names -> SomeDoc] /\ folder \in [Paths -> SomeDoc]
        /\ seen \in [Callers -> SomeDoc] /\ starting \in BOOLEAN
    BY DEF Init, SomeDoc
  <2>2. remote \in [Tasks -> TaskType]
    BY DEF Init, SomeDoc, TaskType
  <2>3. /\ joining \in 0 .. MaxRows /\ ops \in 0 .. MaxOps
        /\ drops \in 0 .. MaxDrops /\ faults \in 0 .. MaxFaults
    BY ConversionAssumption DEF Init
  <2> QED
    BY <2>1, <2>2, <2>3 DEF TypeRest
<1>3. TypeWorker /\ deletion \in DeletionType
  BY RowTypes DEF Init, TypeWorker, Resting
<1> QED
  BY <1>1, <1>2, <1>3, TypeParts

(* A change of one row that keeps the columns in range.                    *)
LEMMA RowChange ==
  ASSUME rows \in Table, NEW i \in Ids, NEW r \in RowType,
         rows' = [rows EXCEPT ![i] = r]
  PROVE  /\ rows' \in Table /\ rows'[i] = r
         /\ \A k \in Ids \ {i} : rows'[k] = rows[k]
  BY DEF Table

(* The worker's steps keep the types of everything but the table.          *)
LEMMA TypeWork ==
  ASSUME IInv, Work
  PROVE  TypeRest' /\ TypeWorker' /\ deletion' \in DeletionType
<1>1. deletion' = deletion /\ deletion \in DeletionType
  BY DEF IInv, TypeOK, Work, Progress, PollErrors, StartPass, NothingToResume,
     NothingToDo, Resume, Select, SourceMatches, SourceFails, ReserveOutput,
     MarkProcessing, Accept, Refuse, SaveTask, PollSuccess, PollFailure,
     PollNotFound, ClearTask, WriteResult, ResultFails, MarkCompleted,
     MarkFailed, calls
<1>2. TypeWorker'
  <2> USE DEF WorkerPc, At, Goto, Raise
  <2>a. TypeWorker
    BY TypeParts DEF IInv
  <2>b. \A i \in Ids : i \in 0 .. MaxRows /\ i # 0
    BY ConversionAssumption DEF Ids
  <2>c. \A t \in Tasks : t \in 0 .. MaxTasks /\ t # 0
    BY ConversionAssumption DEF Tasks
  <2>1. ASSUME NEW pc \in WorkerPc, Goto(pc),
               pc \in {"top", "resume", "scan"}
                 <=> worker.pc \in {"top", "resume", "scan"},
               pc \in {"save", "poll", "fetch", "finish"} =>
                 worker.pc \in {"save", "poll", "fetch", "finish"}
        PROVE  TypeWorker'
    BY <2>1, <2>a DEF TypeWorker, WorkerType
  <2>2. ASSUME NEW e \in {"none", "remote", "gone", "other"}, Raise(e),
               worker.pc \notin {"top", "resume", "scan"}
        PROVE  TypeWorker'
    BY <2>2, <2>a DEF TypeWorker, WorkerType
  <2>3. ASSUME Done
        PROVE  TypeWorker'
    BY <2>3, RowTypes DEF Done, TypeWorker, Resting
  <2>4. CASE StartPass
    BY <2>4, <2>a DEF StartPass, TypeWorker, WorkerType, IInv, TypeOK
  <2>5. CASE NothingToResume \/ SourceMatches \/ ReserveOutput \/ MarkProcessing
             \/ SaveTask \/ PollSuccess \/ WriteResult
    BY <2>5, <2>1
    DEF NothingToResume, SourceMatches, ReserveOutput, MarkProcessing,
        SaveTask, PollSuccess, WriteResult
  <2>6. CASE NothingToDo
    BY <2>6, RowTypes DEF NothingToDo, TypeWorker, Resting
  <2>7. ASSUME NEW i \in Ids, Resume(i)
        PROVE  TypeWorker'
    <3>1. rows[i].task \in 0 .. MaxTasks /\ rows[i].task # 0 /\ i # 0
      BY <2>7 DEF Resume, Resumable, IInv, TypeOK, RowType, Ids
    <3> DEFINE tracked == worker.manual /\ i \in batch
    <3>2. tracked \in BOOLEAN
      OBVIOUS
    <3> HIDE DEF tracked
    <3>3. worker' = [worker EXCEPT !.pc = "poll", !.job = i,
                                   !.tracked = tracked, !.task = rows[i].task]
      BY <2>7, <2>a DEF Resume, TypeWorker, WorkerType, tracked
    <3>4. worker' \in WorkerType
      BY <2>a, <2>b, <3>1, <3>2, <3>3 DEF TypeWorker, WorkerType
    <3>5. worker'.pc = "poll" /\ worker'.job = i /\ worker'.task = rows[i].task
      BY <2>a, <3>3 DEF TypeWorker, WorkerType
    <3> QED
      BY <3>1, <3>4, <3>5 DEF TypeWorker
  <2>8. ASSUME NEW i \in Ids, Select(i)
        PROVE  TypeWorker'
    BY <2>8, <2>a, <2>b DEF Select, TypeWorker, WorkerType
  <2>9. CASE SourceFails \/ MarkCompleted \/ MarkFailed
    BY <2>9, <2>3 DEF SourceFails, MarkCompleted, MarkFailed
  <2>10. ASSUME NEW t \in Tasks, Accept(t)
         PROVE  TypeWorker'
    <3>1. CASE Raise("other")
      BY <2>2, <2>10, <3>1 DEF Accept
    <3>2. CASE worker' = [worker EXCEPT !.pc = "save", !.task = t]
      BY <2>10, <2>a, <2>c, <3>2 DEF Accept, TypeWorker, WorkerType
    <3> QED
      BY <2>10, <3>1, <3>2 DEF Accept
  <2>11. CASE Refuse \/ PollFailure \/ PollNotFound \/ ResultFails \/ PollErrors
    BY <2>2, <2>11
    DEF Refuse, PollFailure, PollNotFound, ResultFails, PollErrors, ClearTask
  <2> QED
    BY <2>4, <2>5, <2>6, <2>7, <2>8, <2>9, <2>10, <2>11 DEF Work, Progress
<1>3. TypeRest'
  <2>a. TypeRest
    BY TypeParts DEF IInv
  <2>b. Done => batch' \subseteq Ids
    BY <2>a DEF Done, TypeRest
  <2>1. ASSUME NEW t \in Tasks, Accept(t)
        PROVE  TypeRest'
    <3>1. /\ input[NameOfRow(worker.job)] \in SomeDoc
          /\ UNCHANGED <<table, disk, mode, alive, seen, calls, bounds>>
      BY <2>a, <2>1, AtWork
      DEF Accept, At, TypeRest, IInv, TypeOK
    <3>2. remote' \in [Tasks -> TaskType]
      BY <2>a, <2>1, <3>1 DEF Accept, TypeRest, TaskType
    <3> QED
      BY <2>a, <3>1, <3>2
      DEF TypeRest, table, disk, mode, calls, bounds
  <2>2. CASE WriteResult
    <3>1. worker.task \in Tasks
      BY <2>2 DEF WriteResult, At, IInv, TypeOK, WorkerType, Tasks
    <3>2. folder' \in [Paths -> SomeDoc]
      BY <2>a, <2>2, <3>1 DEF WriteResult, TypeRest, TaskType
    <3> QED
      BY <2>a, <2>2, <3>2
      DEF WriteResult, TypeRest, table, mode, calls, bounds
  <2>3. CASE SourceFails \/ MarkCompleted \/ MarkFailed
    BY <2>a, <2>b, <2>3
    DEF SourceFails, MarkCompleted, MarkFailed, TypeRest, disk, calls, bounds
  <2>4. CASE \/ StartPass \/ NothingToResume \/ NothingToDo
             \/ \E i \in Ids : Resume(i) \/ Select(i)
             \/ SourceMatches \/ ReserveOutput \/ MarkProcessing
             \/ Refuse \/ SaveTask \/ PollSuccess \/ PollFailure
             \/ PollNotFound \/ PollErrors \/ ResultFails
    <3>1. UNCHANGED <<managed, disk, remote, mode, alive, seen, calls, bounds>>
      BY <2>4
      DEF StartPass, NothingToResume, NothingToDo, Resume, Select,
          SourceMatches, ReserveOutput, MarkProcessing, Refuse, SaveTask,
          PollSuccess, PollFailure, PollNotFound, PollErrors, ResultFails,
          ClearTask, table
    <3> QED
      BY <2>a, <3>1 DEF TypeRest, disk, mode, calls, bounds
  <2> QED
    BY <2>1, <2>2, <2>3, <2>4 DEF Work, Progress
<1> QED
  BY <1>1, <1>2, <1>3

(* The input folder, discovery, and Docling.                               *)
LEMMA TypeOutside ==
  ASSUME IInv,
         \/ \E n \in Names, d \in SomeDoc : Drop(n, d)
         \/ \E c \in Callers :
              DiscoverInsert(c) \/ \E n \in Names : DiscoverHash(c, n)
         \/ \E t \in Tasks : RemoteEnds(t) \/ RemoteForgets(t)
         \/ \E i \in Ids : Manage(i)
         \/ Crash \/ Restart
  PROVE  TypeRest' /\ TypeWorker' /\ deletion' \in DeletionType
<1>a. TypeRest /\ TypeWorker /\ deletion \in DeletionType
  BY TypeParts DEF IInv
<1> USE ConversionAssumption DEF TypeRest, TypeWorker
<1>1. ASSUME NEW n \in Names, NEW d \in SomeDoc, Drop(n, d)
      PROVE  TypeRest' /\ TypeWorker' /\ deletion' \in DeletionType
  BY <1>a, <1>1 DEF Drop, table, mode, calls
<1>2. ASSUME NEW c \in Callers, DiscoverInsert(c)
      PROVE  TypeRest' /\ TypeWorker' /\ deletion' \in DeletionType
  BY <1>a, <1>2 DEF DiscoverInsert, SomeDoc, disk, mode, calls, bounds
<1>3. ASSUME NEW c \in Callers, NEW n \in Names, DiscoverHash(c, n)
      PROVE  TypeRest' /\ TypeWorker' /\ deletion' \in DeletionType
  BY <1>a, <1>3 DEF DiscoverHash, table, disk, mode, calls, bounds
<1>4. ASSUME NEW t \in Tasks, RemoteEnds(t) \/ RemoteForgets(t)
      PROVE  TypeRest' /\ TypeWorker' /\ deletion' \in DeletionType
  <2>1. PICK s \in {"success", "failure", "gone"} :
          remote' = [remote EXCEPT ![t].state = s]
    BY <1>4 DEF RemoteEnds, RemoteForgets
  <2>2. remote' \in [Tasks -> TaskType]
    BY <1>a, <2>1 DEF TaskType
  <2>3. faults' \in 0 .. MaxFaults
    BY <1>a, <1>4 DEF RemoteEnds, RemoteForgets, bounds
  <2> QED
    BY <1>a, <1>4, <2>2, <2>3
    DEF RemoteEnds, RemoteForgets, table, disk, mode, calls, bounds
<1>5. ASSUME NEW i \in Ids, Manage(i)
      PROVE  TypeRest' /\ TypeWorker' /\ deletion' \in DeletionType
  BY <1>a, <1>5 DEF Manage, disk, mode, calls, bounds
<1>6. CASE Crash
  <2>1. TypeWorker' /\ deletion' \in DeletionType
    BY <1>6, RowTypes DEF Crash, Resting
  <2>2. seen' \in [Callers -> SomeDoc]
    BY <1>6 DEF Crash, SomeDoc
  <2>3. joining' \in 0 .. MaxRows /\ faults' \in 0 .. MaxFaults
    BY <1>a, <1>6 DEF Crash
  <2>4. /\ UNCHANGED <<managed, input, folder, remote, auto, ops, drops>>
        /\ batch' = {} /\ alive' = FALSE /\ starting' = FALSE
    BY <1>6 DEF Crash, table, disk
  <2> QED
    BY <1>a, <2>1, <2>2, <2>3, <2>4
<1>7. CASE Restart
  BY <1>a, <1>7 DEF Restart, disk, mode, calls, bounds
<1> QED
  BY <1>1, <1>2, <1>3, <1>4, <1>5, <1>6, <1>7

(* The requests.                                                           *)
LEMMA TypeRequests ==
  ASSUME IInv, Operate \/ Continue
  PROVE  TypeRest' /\ TypeWorker' /\ deletion' \in DeletionType
<1>a. TypeRest /\ TypeWorker /\ deletion \in DeletionType
  BY TypeParts DEF IInv
<1>b. \A i \in Ids : i \in 0 .. MaxRows /\ rows[i].status \in Status
  BY ConversionAssumption DEF Ids, IInv, TypeOK, RowType
<1>c. Request => ops' \in 0 .. MaxOps
  BY <1>a, ConversionAssumption DEF TypeRest, Request
<1>d. worker' = worker => TypeWorker'
  BY <1>a DEF TypeWorker
<1> USE DEF TypeRest
<1>1. CASE PressStart
  BY <1>a, <1>c, <1>d, <1>1 DEF PressStart, table, disk, mode
<1>2. ASSUME NEW enabled \in BOOLEAN, SetAutoRun(enabled)
      PROVE  TypeRest' /\ TypeWorker' /\ deletion' \in DeletionType
  BY <1>a, <1>c, <1>d, <1>2 DEF SetAutoRun, table, disk, calls
<1>3. ASSUME NEW i \in Ids, Retry(i)
      PROVE  TypeRest' /\ TypeWorker' /\ deletion' \in DeletionType
  BY <1>a, <1>b, <1>c, <1>d, <1>3 DEF Retry, disk, mode
<1>4. ASSUME NEW i \in Ids, ReserveDeletion(i)
      PROVE  TypeRest' /\ TypeWorker' /\ deletion' \in DeletionType
  <2>1. deletion' \in DeletionType
    BY <1>b, <1>4, RowTypes DEF ReserveDeletion, DeletionType
  <2> QED
    BY <1>a, <1>c, <1>d, <1>4, <2>1 DEF ReserveDeletion, disk, mode
<1>5. CASE StartBatch
  <2>1. InQueue \subseteq Ids
    BY DEF InQueue
  <2> QED
    BY <1>a, <1>d, <1>5, <2>1 DEF StartBatch, table, disk, bounds
<1>6. CASE JoinBatch
  <2>1. joining # 0 => joining \in Ids
    BY <1>a, ConversionAssumption DEF Ids
  <2>2. batch' \subseteq Ids /\ joining' \in 0 .. MaxRows
    BY <1>a, <1>6, <2>1, ConversionAssumption DEF JoinBatch
  <2> QED
    BY <1>a, <1>d, <1>6, <2>2 DEF JoinBatch, table, disk, bounds
<1>7. CASE Quarantine \/ QuarantineFails \/ DeleteRow \/ DeleteRowFails
  <2> DEFINE i == deletion.job
  <2>1. /\ i \in Ids /\ NameOfRow(i) \in Names
        /\ UNCHANGED <<managed, remote, mode, alive, seen, starting, joining,
                       bounds>>
        /\ worker' = worker
    BY <1>7, AtWork
    DEF Quarantine, QuarantineFails, DeleteRow, DeleteRowFails, table, disk
  <2>2. /\ SourceGone(i) \in [Names -> SomeDoc]
        /\ OutputGone(i) \in [Paths -> SomeDoc]
    BY <1>a DEF SourceGone, OutputGone, SomeDoc
  <2>3. input' \in [Names -> SomeDoc] /\ folder' \in [Paths -> SomeDoc]
    <3>1. CASE Quarantine \/ QuarantineFails \/ DeleteRow
      BY <1>a, <2>2, <3>1 DEF Quarantine, QuarantineFails, DeleteRow, disk
    <3>2. CASE DeleteRowFails
      <4>1. deletion.source \in SomeDoc /\ deletion.output \in SomeDoc
        BY <1>a DEF DeletionType
      <4> QED
        BY <1>a, <3>2, <4>1 DEF DeleteRowFails
    <3> QED
      BY <1>7, <3>1, <3>2
  <2>4. deletion' \in DeletionType
    <3>1. CASE Quarantine
      <4>1. rows[i] \in RowType
        BY <2>1 DEF IInv, TypeOK
      <4>2. OutputOf(i) \in SomeDoc
        BY <1>a, <4>1 DEF OutputOf, RowType, SomeDoc
      <4>3. input[NameOfRow(i)] \in SomeDoc
        BY <1>a, <2>1
      <4> QED
        BY <1>a, <3>1, <4>2, <4>3 DEF Quarantine, DeletionType
    <3>2. CASE QuarantineFails \/ DeleteRow \/ DeleteRowFails
      BY <3>2, RowTypes
      DEF QuarantineFails, DeleteRow, DeleteRowFails, CancelDeletion
    <3> QED
      BY <1>7, <3>1, <3>2
  <2> QED
    BY <1>a, <1>d, <2>1, <2>3, <2>4 DEF mode, bounds
<1> QED
  BY <1>1, <1>2, <1>3, <1>4, <1>5, <1>6, <1>7 DEF Operate, Continue

---------------------------------------------------------------------------
(* What the worker does to the table.                                      *)

(* The row it works on, and the columns it may write.                      *)
LEMMA WorkRow ==
  ASSUME IInv, worker.job # 0
  PROVE  /\ worker.job \in Ids /\ rows[worker.job] \in RowType
         /\ rows[worker.job].status \in {"pending", "processing"}
         /\ Exists(worker.job) /\ RowOK(rows[worker.job])
         /\ rows[worker.job].doc \in Docs /\ rows \in Table
<1>1. worker.job \in Ids /\ Exists(worker.job) /\ rows[worker.job].doc \in Docs
  BY AtWork
<1>2. worker.pc \in WorkerPc \ {"top", "resume", "scan"}
  BY DEF IInv, TypeOK, WorkerType
<1> QED
  BY <1>1, <1>2 DEF IInv, TypeOK, Table, RowInv, WorkerInv, WorkerPc

(* Every change of that row is legal if it keeps the document and RowOK.   *)
LEMMA WorkLegal ==
  ASSUME IInv, worker.job # 0, NEW r \in RowType,
         rows' = [rows EXCEPT ![worker.job] = r],
         Kept(worker.job, r)
  PROVE  /\ rows' \in Table /\ \A i \in Ids : Legal(i, rows'[i])
         /\ rows'[worker.job] = r
         /\ \A i \in Ids \ {worker.job} : rows'[i] = rows[i]
  BY WorkRow, RowChange DEF Legal

(* mark_failed and mark_completed make a legal change of the worker's row. *)
LEMMA WorkOutcome ==
  ASSUME IInv, worker.job # 0, NEW status, NEW error,
         Outcome(status, error),
         status \in {"failed", "processing", "completed"},
         error \in {"none", "remote", "gone", "other"},
         error = "remote" => rows[worker.job].task = 0,
         status = "processing" => error = "none",
         status \in {"processing", "completed"} => rows[worker.job].out # NoPath
  PROVE  /\ rows' \in Table /\ \A i \in Ids : Legal(i, rows'[i])
         /\ rows'[worker.job].status = status
         /\ rows'[worker.job].task = rows[worker.job].task
         /\ rows'[worker.job].out = rows[worker.job].out
         /\ \A i \in Ids \ {worker.job} : rows'[i] = rows[i]
<1> DEFINE j == worker.job
           r == [rows[j] EXCEPT !.status = status, !.error = error]
<1>a. j \in Ids /\ rows[j] \in RowType /\ RowOK(rows[j]) /\ Exists(j)
      /\ rows[j].doc \in Docs /\ rows \in Table
  BY WorkRow
<1>1. /\ r \in RowType /\ r.status = status /\ r.error = error
      /\ r.doc = rows[j].doc /\ r.task = rows[j].task /\ r.out = rows[j].out
  BY <1>a DEF RowType, Status
<1>2. rows' = [rows EXCEPT ![j] = r]
  BY <1>a DEF Outcome, Table
<1>3. Kept(j, r)
  <2> HIDE DEF r, j
  <2> QED
    BY <1>a, <1>1 DEF Kept, RowOK, Exists, j
<1> HIDE DEF r
<1> QED
  BY <1>1, <1>2, <1>3, WorkLegal

(* set_task_id and clear_task_id.                                          *)
LEMMA WorkTask ==
  ASSUME IInv, worker.job # 0, NEW t \in 0 .. MaxTasks,
         rows[worker.job].status = "processing",
         rows' = [rows EXCEPT ![worker.job].task = t]
  PROVE  /\ rows' \in Table /\ \A i \in Ids : Legal(i, rows'[i])
         /\ rows'[worker.job].status = "processing"
         /\ rows'[worker.job].task = t
         /\ rows'[worker.job].out = rows[worker.job].out
         /\ \A i \in Ids \ {worker.job} : rows'[i] = rows[i]
<1> DEFINE j == worker.job
           r == [rows[j] EXCEPT !.task = t]
<1>a. j \in Ids /\ rows[j] \in RowType /\ RowOK(rows[j]) /\ Exists(j)
      /\ rows[j].doc \in Docs /\ rows \in Table
  BY WorkRow
<1>1. /\ r \in RowType /\ r.status = "processing" /\ r.error = rows[j].error
      /\ r.doc = rows[j].doc /\ r.task = t /\ r.out = rows[j].out
  BY <1>a DEF RowType, Status
<1>2. rows' = [rows EXCEPT ![j] = r]
  BY <1>a DEF Table
<1>3. Kept(j, r)
  <2> HIDE DEF r, j
  <2> QED
    BY <1>a, <1>1 DEF Kept, RowOK, Exists, j
<1> HIDE DEF r
<1> QED
  BY <1>1, <1>2, <1>3, WorkLegal

(* set_output_filename.                                                    *)
LEMMA WorkOutput ==
  ASSUME IInv, ReserveOutput
  PROVE  /\ rows' \in Table /\ \A i \in Ids : Legal(i, rows'[i])
         /\ rows'[worker.job].status = "pending"
         /\ rows'[worker.job].task = rows[worker.job].task
         /\ rows'[worker.job].out # NoPath
         /\ \A i \in Ids \ {worker.job} : rows'[i] = rows[i]
<1> DEFINE j == worker.job
           r == [rows[j] EXCEPT !.out = OutputName(j)]
<1>0. worker.job # 0 /\ rows[j].status = "pending"
  BY DEF ReserveOutput, At, IInv, TypeOK, WorkerInv
<1>a. j \in Ids /\ rows[j] \in RowType /\ RowOK(rows[j]) /\ Exists(j)
      /\ rows[j].doc \in Docs /\ rows \in Table
  BY <1>0, WorkRow
<1>b. /\ OutputName(j) \in {rows[j].out, Base(rows[j].doc),
                            Versioned(rows[j].doc)}
      /\ OutputName(j) \in Paths
  <2>1. rows[j].out \in Paths \cup {NoPath}
    BY <1>a DEF RowType
  <2> QED
    BY <1>a, <2>1, Names1 DEF OutputName
<1>c. OutputName(j) # NoPath
  BY <1>a, <1>b, Names1 DEF OutputName
<1> DEFINE out == OutputName(j)
<1> HIDE DEF out
<1>1. /\ r \in RowType /\ r.status = rows[j].status /\ r.error = rows[j].error
      /\ r.doc = rows[j].doc /\ r.task = rows[j].task /\ r.out = OutputName(j)
  BY <1>a, <1>b DEF RowType
<1>2. rows' = [rows EXCEPT ![j] = r]
  BY <1>a DEF ReserveOutput, Table
<1>3. Kept(j, r)
  <2> HIDE DEF r, j
  <2> QED
    BY <1>0, <1>a, <1>b, <1>c, <1>1 DEF Kept, RowOK, Exists, j
<1> HIDE DEF r
<1> QED
  BY <1>0, <1>1, <1>2, <1>3, <1>c, WorkLegal

(* The worker is at rest while the process is dead.                        *)
LEMMA WorkAlive ==
  ASSUME IInv, Work
  PROVE  alive
<1> SUFFICES ASSUME ~alive PROVE FALSE
  OBVIOUS
<1>1. worker.pc = "top"
  BY DEF IInv, DeadInv, Resting
<1> QED
  BY <1>1
  DEF Work, Progress, PollErrors, StartPass, NothingToResume, NothingToDo,
      Resume, Select, SourceMatches, SourceFails, ReserveOutput,
      MarkProcessing, Accept, Refuse, SaveTask, PollSuccess, PollFailure,
      PollNotFound, ClearTask, WriteResult, ResultFails, MarkCompleted,
      MarkFailed, At

(* One step of the worker: it changes its own row, or none, and leaves     *)
(* that row as WorkerInv wants it at the new place.                        *)
LEMMA WorkSteps ==
  ASSUME IInv, Work
  PROVE  /\ rows' \in Table /\ \A i \in Ids : Legal(i, rows'[i])
         /\ WorkerInv'
         /\ \A i \in Ids : rows'[i] = rows[i] \/ i = worker.job
         /\ \A i \in Ids : rows'[i].status = "processing" =>
                             rows'[i].task # 0 \/ worker'.job = i
<1>a. /\ rows \in Table /\ worker \in WorkerType
      /\ worker.job = 0 <=> worker.pc \in {"top", "resume", "scan"}
      /\ worker.task \in 0 .. MaxTasks
  BY DEF IInv, TypeOK, Table, WorkerType
<1>b. \A i \in Ids : alive /\ rows[i].status = "processing" =>
                       rows[i].task # 0 \/ worker.job = i
  BY DEF IInv, NoStrandedConversion
<1>c. alive
  BY WorkAlive
<1>d. ASSUME UNCHANGED rows, WorkerInv',
             worker'.job = worker.job \/ worker.job = 0
      PROVE  /\ rows' \in Table /\ \A i \in Ids : Legal(i, rows'[i])
             /\ WorkerInv'
             /\ \A i \in Ids : rows'[i] = rows[i] \/ i = worker.job
             /\ \A i \in Ids : rows'[i].status = "processing" =>
                                 rows'[i].task # 0 \/ worker'.job = i
  BY <1>a, <1>b, <1>c, <1>d DEF Legal, Ids
<1>e. ASSUME rows' \in Table, \A i \in Ids : Legal(i, rows'[i]), WorkerInv',
             \A i \in Ids \ {worker.job} : rows'[i] = rows[i],
             worker.job \in Ids,
             \/ worker'.job = worker.job
             \/ rows'[worker.job].status # "processing"
      PROVE  /\ rows' \in Table /\ \A i \in Ids : Legal(i, rows'[i])
             /\ WorkerInv'
             /\ \A i \in Ids : rows'[i] = rows[i] \/ i = worker.job
             /\ \A i \in Ids : rows'[i].status = "processing" =>
                                 rows'[i].task # 0 \/ worker'.job = i
  BY <1>b, <1>c, <1>e
<1>f. ASSUME Done
      PROVE  WorkerInv'
  BY <1>f DEF Done, Resting, WorkerInv
<1>g. WorkerInv
  BY DEF IInv
<1>h. ASSUME NEW pc, Goto(pc)
      PROVE  worker'.pc = pc /\ worker'.job = worker.job /\ worker'.task = worker.task
  BY <1>a, <1>h DEF Goto, WorkerType
<1>i. ASSUME NEW e, Raise(e)
      PROVE  /\ worker'.pc = "fail" /\ worker'.job = worker.job
             /\ worker'.error = e
  BY <1>a, <1>i DEF Raise, WorkerType
<1>1. CASE StartPass \/ NothingToResume
  <2>1. UNCHANGED rows /\ worker'.pc \in {"resume", "scan"} /\ worker.job = 0
    BY <1>1, <1>a DEF StartPass, NothingToResume, Goto, At, WorkerType, table
  <2>2. WorkerInv'
    BY <2>1 DEF WorkerInv
  <2> QED
    BY <1>d, <2>1, <2>2
<1>2. CASE NothingToDo
  <2>1. UNCHANGED rows /\ worker'.pc = "top" /\ worker.job = 0
    BY <1>2, <1>a DEF NothingToDo, At, Resting, table
  <2>2. WorkerInv'
    BY <2>1 DEF WorkerInv
  <2> QED
    BY <1>d, <2>1, <2>2
<1>3. ASSUME NEW i \in Ids, Resume(i)
      PROVE  /\ UNCHANGED rows /\ worker.job = 0 /\ WorkerInv'
  <2>1. UNCHANGED rows /\ worker.job = 0 /\ rows[i].status = "processing"
    BY <1>3, <1>a DEF Resume, Resumable, At, table
  <2>2. worker'.pc = "poll" /\ worker'.job = i /\ worker'.task = rows[i].task
    BY <1>3, <1>a DEF Resume, WorkerType
  <2> QED
    BY <2>1, <2>2 DEF WorkerInv
<1>4. ASSUME NEW i \in Ids, Select(i)
      PROVE  /\ UNCHANGED rows /\ worker.job = 0 /\ WorkerInv'
  <2>1. UNCHANGED rows /\ worker.job = 0 /\ rows[i].status = "pending"
    BY <1>4, <1>a DEF Select, Eligible, InQueue, At, table
  <2>2. worker'.pc = "check" /\ worker'.job = i
    BY <1>4, <1>a DEF Select, WorkerType
  <2> QED
    BY <2>1, <2>2 DEF WorkerInv
<1>5. CASE SourceMatches \/ PollSuccess \/ WriteResult
  <2>1. UNCHANGED rows
    BY <1>5 DEF SourceMatches, PollSuccess, WriteResult, table
  <2>2. PICK pc : /\ Goto(pc)
                  /\ \/ pc = "reserve" /\ worker.pc = "check"
                     \/ pc = "fetch" /\ worker.pc = "poll"
                     \/ pc = "finish" /\ worker.pc = "fetch"
    BY <1>5 DEF SourceMatches, PollSuccess, WriteResult, At
  <2>3. WorkerInv' /\ worker'.job = worker.job
    BY <1>g, <1>h, <2>1, <2>2 DEF WorkerInv
  <2> QED
    BY <1>d, <2>1, <2>3
<1>6. CASE SourceFails
  <2>1. worker.pc = "check" /\ Outcome("failed", "other") /\ Done
    BY <1>6 DEF SourceFails, At
  <2>2. worker.job # 0 /\ worker.job \in Ids
    BY <1>a, <2>1, WorkRow
  <2> QED
    BY <1>e, <1>f, <2>1, <2>2, WorkOutcome
<1>7. CASE ReserveOutput
  <2>1. worker.pc = "reserve" /\ Goto("mark")
    BY <1>7 DEF ReserveOutput, At
  <2>2. worker.job # 0 /\ worker.job \in Ids
    BY <1>a, <2>1, WorkRow
  <2>3. WorkerInv' /\ worker'.job = worker.job
    BY <1>7, <1>h, <2>1, <2>2, WorkOutput DEF WorkerInv
  <2> QED
    BY <1>7, <1>e, <2>2, <2>3, WorkOutput
<1>8. CASE MarkProcessing
  <2>1. worker.pc = "mark" /\ Goto("submit") /\ Outcome("processing", "none")
    BY <1>8 DEF MarkProcessing, At
  <2>2. /\ worker.job # 0 /\ worker.job \in Ids
        /\ rows[worker.job].out # NoPath /\ rows[worker.job].task = 0
    BY <1>a, <1>g, <2>1, WorkRow DEF WorkerInv, RowOK
  <2>3. /\ rows' \in Table /\ \A i \in Ids : Legal(i, rows'[i])
        /\ rows'[worker.job].status = "processing"
        /\ rows'[worker.job].task = rows[worker.job].task
        /\ \A i \in Ids \ {worker.job} : rows'[i] = rows[i]
    BY <2>1, <2>2, WorkOutcome
  <2>4. WorkerInv' /\ worker'.job = worker.job
    BY <1>h, <2>1, <2>2, <2>3 DEF WorkerInv
  <2> QED
    BY <1>e, <2>2, <2>3, <2>4
<1>9. ASSUME NEW t \in Tasks, Accept(t)
      PROVE  /\ UNCHANGED rows /\ worker'.job = worker.job /\ WorkerInv'
  <2>1. UNCHANGED rows /\ worker.pc = "submit"
    BY <1>9 DEF Accept, At, table
  <2>2. \/ worker' = [worker EXCEPT !.pc = "save", !.task = t]
        \/ Raise("other")
    BY <1>9 DEF Accept
  <2>3. CASE worker' = [worker EXCEPT !.pc = "save", !.task = t]
    <3>1. worker'.pc = "save" /\ worker'.job = worker.job
      BY <1>a, <2>3 DEF WorkerType
    <3> QED
      BY <1>g, <2>1, <3>1 DEF WorkerInv
  <2>4. CASE Raise("other")
    BY <1>g, <1>i, <2>1, <2>4 DEF WorkerInv
  <2> QED
    BY <2>2, <2>3, <2>4
<1>10. CASE Refuse \/ PollErrors \/ ResultFails
            \/ (PollNotFound /\ UNCHANGED rows)
  <2>1. /\ UNCHANGED rows /\ worker.pc \in {"submit", "poll", "fetch"}
        /\ Raise("other") \/ Raise("gone")
    BY <1>10
    DEF Refuse, PollErrors, ResultFails, PollNotFound, ClearTask, At, table
  <2>2. WorkerInv' /\ worker'.job = worker.job
    BY <1>g, <1>i, <2>1 DEF WorkerInv
  <2> QED
    BY <1>d, <2>1, <2>2
<1>11. CASE SaveTask
  <2>1. /\ worker.pc = "save" /\ Goto("poll")
        /\ rows' = [rows EXCEPT ![worker.job].task = worker.task]
    BY <1>11 DEF SaveTask, At
  <2>2. /\ worker.job # 0 /\ worker.job \in Ids
        /\ rows[worker.job].status = "processing"
    BY <1>a, <1>g, <2>1, WorkRow DEF WorkerInv
  <2>3. /\ rows' \in Table /\ \A i \in Ids : Legal(i, rows'[i])
        /\ rows'[worker.job].status = "processing"
        /\ rows'[worker.job].task = worker.task
        /\ \A i \in Ids \ {worker.job} : rows'[i] = rows[i]
    BY <1>a, <2>1, <2>2, WorkTask
  <2>4. WorkerInv' /\ worker'.job = worker.job
    BY <1>h, <2>1, <2>2, <2>3 DEF WorkerInv
  <2> QED
    BY <1>e, <2>2, <2>3, <2>4
<1>12. ASSUME NEW e \in {"remote", "gone"}, worker.pc = "poll", ClearTask(e)
       PROVE  /\ rows' \in Table /\ \A i \in Ids : Legal(i, rows'[i])
              /\ WorkerInv' /\ worker.job \in Ids /\ worker'.job = worker.job
              /\ \A i \in Ids \ {worker.job} : rows'[i] = rows[i]
  <2>1. rows' = [rows EXCEPT ![worker.job].task = 0] /\ Raise(e)
    BY <1>12 DEF ClearTask
  <2>2. /\ worker.job # 0 /\ worker.job \in Ids
        /\ rows[worker.job].status = "processing"
    BY <1>a, <1>g, <1>12, WorkRow DEF WorkerInv
  <2>3. /\ rows' \in Table /\ \A i \in Ids : Legal(i, rows'[i])
        /\ rows'[worker.job].status = "processing"
        /\ rows'[worker.job].task = 0
        /\ \A i \in Ids \ {worker.job} : rows'[i] = rows[i]
    <3>1. 0 \in 0 .. MaxTasks
      BY ConversionAssumption
    <3> QED
      BY <2>1, <2>2, <3>1, WorkTask
  <2>4. WorkerInv' /\ worker'.job = worker.job
    BY <1>i, <2>1, <2>3 DEF WorkerInv
  <2> QED
    BY <2>2, <2>3, <2>4
<1>13. CASE PollFailure \/ (PollNotFound /\ ClearTask("gone"))
  <2>1. worker.pc = "poll" /\ (ClearTask("remote") \/ ClearTask("gone"))
    BY <1>13 DEF PollFailure, PollNotFound, At
  <2> QED
    BY <1>e, <1>12, <2>1
<1>14. CASE MarkCompleted
  <2>1. worker.pc = "finish" /\ Outcome("completed", "none") /\ Done
    BY <1>14 DEF MarkCompleted, At
  <2>2. /\ worker.job # 0 /\ worker.job \in Ids
        /\ rows[worker.job].out # NoPath
    BY <1>a, <1>g, <2>1, WorkRow DEF WorkerInv, RowOK
  <2> QED
    BY <1>e, <1>f, <2>1, <2>2, WorkOutcome
<1>15. CASE MarkFailed
  <2>1. worker.pc = "fail" /\ Outcome("failed", worker.error) /\ Done
    BY <1>15 DEF MarkFailed, At
  <2>2. /\ worker.job # 0 /\ worker.job \in Ids
        /\ worker.error \in {"none", "remote", "gone", "other"}
        /\ worker.error = "remote" => rows[worker.job].task = 0
    BY <1>a, <1>g, <2>1, WorkRow DEF WorkerInv, WorkerType
  <2> QED
    BY <1>e, <1>f, <2>1, <2>2, WorkOutcome
<1>16. PollNotFound => (PollNotFound /\ UNCHANGED rows) \/ ClearTask("gone")
  BY DEF PollNotFound, table
<1>17. (\E i \in Ids : Resume(i) \/ Select(i)) \/ (\E t \in Tasks : Accept(t))
       => UNCHANGED rows /\ WorkerInv' /\ (worker'.job = worker.job \/ worker.job = 0)
  BY <1>3, <1>4, <1>9
<1> QED
  BY <1>1, <1>2, <1>5, <1>6, <1>7, <1>8, <1>10, <1>11, <1>13, <1>14, <1>15,
     <1>16, <1>17, <1>d DEF Work, Progress

---------------------------------------------------------------------------
(* What the others do to the table.                                        *)

(* A request or the discovery never touches a row that is pending or being *)
(* converted, nor one that is part of a book.                              *)
Aside(i, r) ==
  \/ r = rows[i]
  \/ /\ rows[i].status \notin {"pending", "processing"} /\ i \notin managed
     /\ r.status = "processing" => r.task # 0

(* Discovery inserts a row and keeps the invariant of the table.           *)
LEMMA DiscoverStep ==
  ASSUME IInv, NEW c \in Callers, DiscoverInsert(c)
  PROVE  /\ rows' \in Table /\ TableInv'
         /\ \A i \in Ids : Aside(i, rows'[i])
         /\ \A i \in Ids : rows[i].status = "deleting" => rows'[i] = rows[i]
<1>a. rows \in Table /\ TableInv /\ seen[c] \in Docs
  BY DEF IInv, TypeOK, Table, TableInv, DiscoverInsert, SomeDoc
<1>b. rows' = [i \in Ids |-> IF NextId(i) /\ ~Tracked(seen[c])
                               THEN Pending(seen[c]) ELSE rows[i]]
  BY DEF DiscoverInsert
<1>1. \A i \in Ids : rows'[i] = rows[i]
        \/ (rows[i].status = "absent" /\ rows'[i] = Pending(seen[c]))
  BY <1>b DEF NextId
<1>2. rows' \in Table
  BY <1>a, <1>b, RowTypes DEF Table
<1>3. TableInv'
  BY <1>a, <1>b, Insertion
<1>4. \A i \in Ids : rows[i].status = "absent" => i \notin managed
  BY DEF IInv, ManagedIsCompleted
<1> QED
  BY <1>1, <1>2, <1>3, <1>4, Statuses DEF Aside

(* retry_failed makes a legal change of the row.                           *)
LEMMA RetryStep ==
  ASSUME IInv, NEW i \in Ids, Retry(i)
  PROVE  /\ rows' \in Table /\ \A k \in Ids : Legal(k, rows'[k])
         /\ \A k \in Ids : Aside(k, rows'[k])
         /\ \A k \in Ids : rows[k].status = "deleting" => rows'[k] = rows[k]
<1>a. /\ rows \in Table /\ rows[i] \in RowType /\ RowOK(rows[i])
      /\ rows[i].status = "failed" /\ i \notin managed
      /\ rows' = [rows EXCEPT ![i] = Retried(i)]
  BY DEF IInv, TypeOK, Table, RowInv, Retry, ManagedIsCompleted
<1>b. rows[i].doc \in Docs /\ Exists(i)
  BY <1>a DEF RowOK, Exists
<1>1. /\ Retried(i) \in RowType
      /\ Retried(i).status \in {"pending", "processing"}
      /\ Retried(i).status = "pending" => Retried(i).task = 0
      /\ Retried(i).status = "processing" =>
           Retried(i).task # 0 /\ Retried(i).out # NoPath
      /\ Retried(i).task \in {0, rows[i].task}
      /\ Retried(i).doc = rows[i].doc /\ Retried(i).out = rows[i].out
      /\ Retried(i).error = "none"
  <2>1. CASE rows[i].task # 0 /\ rows[i].error # "remote"
    <3>1. Retried(i) = [rows[i] EXCEPT !.status = "processing",
                                       !.error = "none"]
      BY <2>1 DEF Retried
    <3> QED
      BY <1>a, <2>1, <3>1 DEF RowType, Status, RowOK
  <2>2. CASE ~(rows[i].task # 0 /\ rows[i].error # "remote")
    <3>1. Retried(i) = [rows[i] EXCEPT !.status = "pending",
                                       !.error = "none", !.task = 0]
      BY <2>2 DEF Retried
    <3>2. 0 \in 0 .. MaxTasks
      BY ConversionAssumption
    <3>3. Retried(i) \in RowType
      BY <1>a, <3>1, <3>2 DEF RowType, Status
    <3> QED
      BY <1>a, <3>1, <3>3 DEF RowType
  <2> QED
    BY <2>1, <2>2
<1>2. /\ rows' \in Table /\ rows'[i] = Retried(i)
      /\ \A k \in Ids \ {i} : rows'[k] = rows[k]
  BY <1>a, <1>1, RowChange
<1>3. Kept(i, Retried(i))
  BY <1>a, <1>b, <1>1 DEF Kept, RowOK, Exists
<1> QED
  BY <1>a, <1>1, <1>2, <1>3 DEF Legal, Aside

(* Reserving a terminal row for deletion makes a legal change.             *)
LEMMA ReserveStep ==
  ASSUME IInv, NEW i \in Ids, ReserveDeletion(i)
  PROVE  /\ rows' \in Table /\ \A k \in Ids : Legal(k, rows'[k])
         /\ \A k \in Ids : Aside(k, rows'[k])
         /\ DeletionInv'
<1>a. /\ rows \in Table /\ rows[i] \in RowType /\ RowOK(rows[i])
      /\ rows[i].status \in {"failed", "completed"} /\ i \notin managed
      /\ rows' = [rows EXCEPT ![i].status = "deleting"]
      /\ deletion' = [NoDeletion EXCEPT !.pc = "reserved", !.job = i,
                                        !.was = rows[i].status]
  BY DEF IInv, TypeOK, Table, RowInv, ReserveDeletion
<1> DEFINE r == [rows[i] EXCEPT !.status = "deleting"]
<1>b. rows[i].doc \in Docs /\ Exists(i)
  BY <1>a DEF RowOK, Exists
<1>1. /\ r \in RowType /\ r.status = "deleting" /\ r.task = rows[i].task
      /\ r.doc = rows[i].doc /\ r.out = rows[i].out
      /\ r.error = rows[i].error
  BY <1>a DEF RowType, Status
<1>2. rows' = [rows EXCEPT ![i] = r]
  BY <1>a DEF Table
<1> HIDE DEF r
<1>3. /\ rows' \in Table /\ rows'[i] = r
      /\ \A k \in Ids \ {i} : rows'[k] = rows[k]
  BY <1>a, <1>1, <1>2, RowChange
<1>4. Kept(i, r)
  BY <1>a, <1>b, <1>1 DEF Kept, RowOK, Exists
<1>5. DeletionInv'
  <2>1. deletion'.job = i /\ deletion'.was = rows[i].status /\ i # 0
    BY <1>a DEF NoDeletion, Ids
  <2>2. rows[i].status = "completed" => rows[i].out # NoPath
    BY <1>a DEF RowOK
  <2> QED
    BY <1>a, <1>1, <1>3, <2>1, <2>2 DEF DeletionInv
<1> QED
  BY <1>a, <1>1, <1>3, <1>4, <1>5 DEF Legal, Aside

(* The steps of a deletion after the reservation.                          *)
LEMMA DeletionStep ==
  ASSUME IInv, Quarantine \/ QuarantineFails \/ DeleteRow \/ DeleteRowFails
  PROVE  /\ rows' \in Table /\ \A k \in Ids : Legal(k, rows'[k])
         /\ \A k \in Ids : Aside(k, rows'[k])
         /\ DeletionInv'
         /\ \A k \in Ids : k # deletion.job => rows'[k] = rows[k]
<1> DEFINE i == deletion.job
<1>a. /\ rows \in Table /\ deletion.pc # "idle"
      /\ deletion \in DeletionType
  BY DEF IInv, TypeOK, Table, Quarantine, QuarantineFails, DeleteRow,
         DeleteRowFails
<1>b. /\ i \in Ids /\ rows[i].doc \in Docs /\ Exists(i)
      /\ rows[i].status = "deleting"
      /\ deletion.was \in {"failed", "completed"}
      /\ deletion.was = "completed" => rows[i].out # NoPath
  BY <1>a, AtWork DEF DeletionInv, IInv
<1>c. i \notin managed /\ RowOK(rows[i]) /\ rows[i] \in RowType
  BY <1>a, <1>b DEF IInv, ManagedIsCompleted, RowInv, TypeOK
<1>d. NoDeletion.pc = "idle"
  BY DEF NoDeletion
<1>1. CASE Quarantine
  <2>1. rows' = rows
    BY <1>1 DEF Quarantine, table
  <2>2. deletion'.job = i /\ deletion'.was = deletion.was
    BY <1>1, <1>a DEF Quarantine, DeletionType
  <2>3. DeletionInv'
    BY <1>a, <1>b, <2>1, <2>2 DEF DeletionInv, Ids
  <2> QED
    BY <1>a, <2>1, <2>3 DEF Legal, Aside
<1>2. CASE QuarantineFails \/ DeleteRowFails
  <2> DEFINE r == [rows[i] EXCEPT !.status = deletion.was]
  <2>1. rows' = [rows EXCEPT ![i] = r] /\ deletion' = NoDeletion
    BY <1>2, <1>a DEF QuarantineFails, DeleteRowFails, CancelDeletion, Table
  <2>2. /\ r \in RowType /\ r.status = deletion.was /\ r.task = rows[i].task
        /\ r.doc = rows[i].doc /\ r.out = rows[i].out
        /\ r.error = rows[i].error
    BY <1>b, <1>c DEF RowType, Status
  <2> HIDE DEF r
  <2>3. /\ rows' \in Table /\ rows'[i] = r
        /\ \A k \in Ids \ {i} : rows'[k] = rows[k]
    BY <1>a, <1>b, <2>1, <2>2, RowChange
  <2>4. Kept(i, r)
    BY <1>b, <1>c, <2>2 DEF Kept, RowOK, Exists
  <2>5. DeletionInv'
    BY <1>d, <2>1 DEF DeletionInv
  <2> QED
    BY <1>b, <1>c, <2>2, <2>3, <2>4, <2>5 DEF Legal, Aside
<1>3. CASE DeleteRow
  <2>1. rows' = [rows EXCEPT ![i] = Deleted] /\ deletion' = NoDeletion
    BY <1>3 DEF DeleteRow
  <2>2. /\ rows' \in Table /\ rows'[i] = Deleted
        /\ \A k \in Ids \ {i} : rows'[k] = rows[k]
    BY <1>a, <1>b, <2>1, RowTypes, RowChange
  <2>3. DeletionInv'
    BY <1>d, <2>1 DEF DeletionInv
  <2> QED
    BY <1>b, <1>c, <2>2, <2>3, Statuses DEF Legal, Aside
<1> QED
  BY <1>1, <1>2, <1>3

---------------------------------------------------------------------------
(* The invariant.                                                          *)

LEMMA InvInit == Init => IInv
<1> SUFFICES ASSUME Init PROVE IInv
  OBVIOUS
<1>1. TypeOK
  BY TypeInit
<1>2. \A i \in Ids : rows[i] = Absent
  BY DEF Init
<1>3. QueuedOnce /\ OrderInv /\ NoStrandedConversion
  BY <1>2, Statuses DEF QueuedOnce, OrderInv, NoStrandedConversion, Exists
<1>4. RowInv
  BY <1>2 DEF RowInv, RowOK, Absent
<1>5. ManagedIsCompleted /\ WorkerInv /\ DeletionInv /\ DeadInv
  BY DEF Init, ManagedIsCompleted, WorkerInv, DeletionInv, DeadInv, Resting,
     NoDeletion
<1> QED
  BY <1>1, <1>3, <1>4, <1>5 DEF IInv

(* What everybody but the worker keeps, if it leaves the rows aside.       *)
LEMMA AsideKeeps ==
  ASSUME IInv, UNCHANGED <<alive, worker, managed>>,
         \A i \in Ids : Aside(i, rows'[i])
  PROVE  NoStrandedConversion' /\ ManagedIsCompleted' /\ WorkerInv'
<1>1. worker.job # 0 => rows'[worker.job] = rows[worker.job]
  BY WorkRow DEF Aside
<1>2. WorkerInv'
  <2>1. worker.job = 0 => worker.pc \in {"top", "resume", "scan"}
    BY DEF IInv, TypeOK
  <2> QED
    BY <1>1, <2>1 DEF WorkerInv, IInv
<1>3. NoStrandedConversion'
  BY DEF Aside, IInv, NoStrandedConversion
<1>4. ManagedIsCompleted'
  BY DEF Aside, IInv, ManagedIsCompleted, TypeOK
<1> QED
  BY <1>2, <1>3, <1>4

(* A step that leaves the rows in 'deleting' alone keeps the deletion.     *)
LEMMA DeletionKeeps ==
  ASSUME IInv, deletion' = deletion,
         \A i \in Ids : rows[i].status = "deleting" => rows'[i] = rows[i]
  PROVE  DeletionInv'
<1>1. deletion.pc # "idle" => rows'[deletion.job] = rows[deletion.job]
  BY AtWork DEF IInv, DeletionInv
<1> QED
  BY <1>1 DEF IInv, DeletionInv

(* The table does not change.                                              *)
LEMMA SameTable ==
  ASSUME IInv, UNCHANGED rows
  PROVE  /\ rows' \in Table /\ TableInv'
         /\ \A i \in Ids : Aside(i, rows'[i])
         /\ \A i \in Ids : rows[i].status = "deleting" => rows'[i] = rows[i]
<1>1. rows \in Table /\ TableInv
  BY DEF IInv, TypeOK, Table, TableInv
<1> QED
  BY <1>1, LegalSteps DEF Aside, Legal

(* The worker's steps keep the invariant.                                  *)
LEMMA InvWork ==
  ASSUME IInv, Work
  PROVE  IInv'
<1>1. TypeOK'
  BY TypeWork, WorkSteps, TypeParts DEF Table, TypeRest, TypeWorker, TypeOK
<1>2. TableInv'
  BY WorkSteps, LegalSteps DEF IInv, TypeOK, Table, TableInv
<1>3. UNCHANGED <<managed, alive, deletion>>
  BY DEF Work, Progress, PollErrors, StartPass, NothingToResume,
     NothingToDo, Resume, Select, SourceMatches, SourceFails, ReserveOutput,
     MarkProcessing, Accept, Refuse, SaveTask, PollSuccess, PollFailure,
     PollNotFound, ClearTask, WriteResult, ResultFails, MarkCompleted,
     MarkFailed, calls, table
<1>4. \A i \in Ids : rows[i].status \notin {"pending", "processing"} =>
                       rows'[i] = rows[i]
  <2> SUFFICES ASSUME NEW i \in Ids,
                      rows[i].status \notin {"pending", "processing"}
               PROVE  rows'[i] = rows[i]
    OBVIOUS
  <2>1. i # 0
    BY DEF Ids
  <2> QED
    BY <2>1, WorkRow, WorkSteps
<1>5. ManagedIsCompleted'
  BY <1>3, <1>4 DEF IInv, ManagedIsCompleted, TypeOK
<1>6. DeletionInv'
  BY <1>3, <1>4, DeletionKeeps
<1>7. NoStrandedConversion'
  BY WorkSteps DEF NoStrandedConversion
<1>8. DeadInv'
  BY <1>3, WorkAlive DEF DeadInv
<1> QED
  BY <1>1, <1>2, <1>5, <1>6, <1>7, <1>8, WorkSteps DEF IInv, TableInv

(* The folder, discovery, Docling, and the registration of books.          *)
LEMMA InvOutside ==
  ASSUME IInv,
         \/ \E n \in Names, d \in SomeDoc : Drop(n, d)
         \/ \E c \in Callers :
              DiscoverInsert(c) \/ \E n \in Names : DiscoverHash(c, n)
         \/ \E t \in Tasks : RemoteEnds(t) \/ RemoteForgets(t)
         \/ \E i \in Ids : Manage(i)
  PROVE  IInv'
<1>1. /\ rows' \in Table /\ TableInv'
      /\ \A i \in Ids : Aside(i, rows'[i])
      /\ \A i \in Ids : rows[i].status = "deleting" => rows'[i] = rows[i]
  <2>1. CASE UNCHANGED rows
    BY <2>1, SameTable
  <2>2. ASSUME NEW c \in Callers, DiscoverInsert(c)
        PROVE  /\ rows' \in Table /\ TableInv'
               /\ \A i \in Ids : Aside(i, rows'[i])
               /\ \A i \in Ids : rows[i].status = "deleting" =>
                                   rows'[i] = rows[i]
    BY <2>2, DiscoverStep
  <2> QED
    BY <2>1, <2>2 DEF Drop, DiscoverHash, RemoteEnds, RemoteForgets, Manage,
                      table
<1>2. UNCHANGED <<alive, worker, deletion, starting, joining>>
  BY DEF Drop, DiscoverInsert, DiscoverHash, RemoteEnds, RemoteForgets, Manage,
     calls
<1>3. TypeOK'
  BY <1>1, TypeOutside, TypeParts DEF Table, TypeRest, TypeWorker, TypeOK
<1>4. NoStrandedConversion' /\ ManagedIsCompleted' /\ WorkerInv'
  <2>1. CASE managed' = managed
    BY <1>1, <1>2, <2>1, AsideKeeps
  <2>2. ASSUME NEW i \in Ids, Manage(i)
        PROVE  NoStrandedConversion' /\ ManagedIsCompleted' /\ WorkerInv'
    BY <1>2, <2>2
    DEF Manage, IInv, NoStrandedConversion, ManagedIsCompleted, WorkerInv
  <2> QED
    BY <2>1, <2>2
    DEF Drop, DiscoverInsert, DiscoverHash, RemoteEnds, RemoteForgets, table
<1>5. DeletionInv'
  BY <1>1, <1>2, DeletionKeeps
<1>6. DeadInv'
  <2> SUFFICES ASSUME ~alive
               PROVE  seen' = seen
    BY <1>2 DEF IInv, DeadInv
  <2>1. \A c \in Callers : /\ ~DiscoverInsert(c)
                            /\ \A n \in Names : ~DiscoverHash(c, n)
    BY DEF DiscoverInsert, DiscoverHash, IInv, DeadInv
  <2> QED
    BY <2>1 DEF Drop, RemoteEnds, RemoteForgets, Manage
<1> QED
  BY <1>1, <1>3, <1>4, <1>5, <1>6 DEF IInv, TableInv

(* The operator's requests keep the invariant.                             *)
LEMMA InvRequests ==
  ASSUME IInv, Operate \/ Continue
  PROVE  IInv'
<1>a. rows \in Table /\ TableInv
  BY DEF IInv, TypeOK, Table, TableInv
<1>1. UNCHANGED <<alive, worker, managed, seen>> /\ alive
  <2>1. UNCHANGED <<alive, worker, managed, seen>>
    BY DEF Operate, Continue, PressStart, SetAutoRun, Retry, ReserveDeletion,
       StartBatch, JoinBatch, Quarantine, QuarantineFails, DeleteRow,
       DeleteRowFails, table
  <2>2. alive
    <3> SUFFICES ASSUME ~alive PROVE FALSE
      OBVIOUS
    <3>1. ~starting /\ joining = 0 /\ deletion.pc = "idle"
      BY DEF IInv, DeadInv, NoDeletion
    <3> QED
      BY <3>1
      DEF Operate, Continue, PressStart, SetAutoRun, Retry, ReserveDeletion,
          Request, StartBatch, JoinBatch, Quarantine, QuarantineFails,
          DeleteRow, DeleteRowFails
  <2> QED
    BY <2>1, <2>2
<1>2. /\ rows' \in Table /\ TableInv' /\ DeletionInv'
      /\ \A i \in Ids : Aside(i, rows'[i])
  <2>1. CASE PressStart \/ StartBatch \/ JoinBatch
             \/ \E enabled \in BOOLEAN : SetAutoRun(enabled)
    <3>1. UNCHANGED <<rows, deletion>>
      BY <2>1 DEF PressStart, StartBatch, JoinBatch, SetAutoRun, calls, table
    <3> QED
      BY <3>1, SameTable, DeletionKeeps
  <2>2. ASSUME NEW i \in Ids, Retry(i)
        PROVE  /\ rows' \in Table /\ TableInv' /\ DeletionInv'
               /\ \A k \in Ids : Aside(k, rows'[k])
    <3>1. deletion' = deletion
      BY <2>2 DEF Retry
    <3> QED
      BY <1>a, <2>2, <3>1, RetryStep, LegalSteps, DeletionKeeps
  <2>3. ASSUME NEW i \in Ids, ReserveDeletion(i)
        PROVE  /\ rows' \in Table /\ TableInv' /\ DeletionInv'
               /\ \A k \in Ids : Aside(k, rows'[k])
    BY <1>a, <2>3, ReserveStep, LegalSteps
  <2>4. CASE Quarantine \/ QuarantineFails \/ DeleteRow \/ DeleteRowFails
    BY <1>a, <2>4, DeletionStep, LegalSteps
  <2> QED
    BY <2>1, <2>2, <2>3, <2>4 DEF Operate, Continue
<1>3. TypeOK'
  BY <1>2, TypeRequests, TypeParts DEF Table, TypeRest, TypeWorker, TypeOK
<1> QED
  BY <1>1, <1>2, <1>3, AsideKeeps DEF IInv, TableInv, DeadInv

(* The restart queues what has no task, so that the rest can be resumed.   *)
LEMMA InvProcess ==
  ASSUME IInv, Crash \/ Restart
  PROVE  IInv'
<1>a. rows \in Table /\ TableInv
  BY DEF IInv, TypeOK, Table, TableInv
<1>1. CASE Crash
  <2>1. UNCHANGED <<rows, managed>> /\ ~alive'
        /\ worker' = Resting /\ deletion' = NoDeletion
        /\ seen' = [c \in Callers |-> NoDoc] /\ ~starting' /\ joining' = 0
    BY <1>1 DEF Crash, table
  <2>2. rows' \in Table /\ TableInv'
    BY <2>1, SameTable
  <2>3. TypeOK'
    BY <1>1, <2>2, TypeOutside, TypeParts DEF Table, TypeRest, TypeWorker, TypeOK
  <2>4. NoStrandedConversion' /\ ManagedIsCompleted' /\ DeadInv'
    BY <2>1 DEF IInv, NoStrandedConversion, ManagedIsCompleted, DeadInv
  <2>5. WorkerInv' /\ DeletionInv'
    BY <2>1 DEF WorkerInv, DeletionInv, Resting, NoDeletion
  <2> QED
    BY <2>2, <2>3, <2>4, <2>5 DEF IInv, TableInv
<1>2. CASE Restart
  <2>a. ~alive /\ alive' /\ worker.pc = "top" /\ deletion.pc = "idle"
        /\ UNCHANGED <<managed, worker, deletion>>
        /\ rows' = RecoverInterrupted
    BY <1>2 DEF Restart, IInv, DeadInv, Resting, NoDeletion, calls
  <2>1. ASSUME NEW i \in Ids
        PROVE  /\ rows'[i] \in RowType /\ Legal(i, rows'[i])
               /\ rows'[i] = rows[i] \/ rows[i].status = "processing"
               /\ rows'[i].status = "processing" => rows'[i].task # 0
    <3> DEFINE r == [rows[i] EXCEPT !.status = "pending", !.error = "none"]
    <3>a. rows[i] \in RowType /\ RowOK(rows[i])
      BY <1>a DEF Table, TableInv, RowInv
    <3>1. CASE rows[i].status = "processing" /\ rows[i].task = 0
      <4>1. rows'[i] = r
        BY <2>a, <3>1 DEF RecoverInterrupted
      <4>2. /\ r \in RowType /\ r.status = "pending" /\ r.error = "none"
            /\ r.doc = rows[i].doc /\ r.out = rows[i].out /\ r.task = 0
        BY <3>a, <3>1 DEF RowType, Status
      <4> HIDE DEF r
      <4>3. Kept(i, r)
        BY <3>a, <3>1, <4>2 DEF Kept, RowOK, Exists
      <4> QED
        BY <3>1, <4>1, <4>2, <4>3 DEF Legal
    <3>2. CASE ~(rows[i].status = "processing" /\ rows[i].task = 0)
      <4>1. rows'[i] = rows[i]
        BY <2>a, <3>2 DEF RecoverInterrupted
      <4> QED
        BY <3>a, <3>2, <4>1 DEF Legal
    <3> QED
      BY <3>1, <3>2
  <2>2. rows' \in Table
    BY <2>a, <2>1 DEF RecoverInterrupted, Table
  <2>3. TableInv'
    BY <1>a, <2>1, <2>2, LegalSteps
  <2>4. TypeOK'
    BY <1>2, <2>2, TypeOutside, TypeParts DEF Table, TypeRest, TypeWorker, TypeOK
  <2>5. NoStrandedConversion'
    BY <2>1 DEF NoStrandedConversion
  <2>6. ManagedIsCompleted'
    BY <2>a, <2>1 DEF IInv, ManagedIsCompleted, TypeOK
  <2>7. WorkerInv' /\ DeletionInv' /\ DeadInv'
    BY <2>a DEF WorkerInv, DeletionInv, DeadInv
  <2> QED
    BY <2>3, <2>4, <2>5, <2>6, <2>7 DEF IInv, TableInv
<1> QED
  BY <1>1, <1>2

(* Every step keeps the invariant, so that it is inductive.                *)
LEMMA InvNext == IInv /\ [Next]_vars => IInv'
<1> SUFFICES ASSUME IInv, [Next]_vars PROVE IInv'
  OBVIOUS
<1>1. CASE UNCHANGED vars
  BY <1>1
  DEF vars, IInv, TypeOK, QueuedOnce, NoStrandedConversion,
      ManagedIsCompleted, RowInv, OrderInv, WorkerInv, DeletionInv, DeadInv,
      Exists, NameOfRow
<1> QED
  BY <1>1, InvWork, InvOutside, InvRequests, InvProcess DEF Next

(* The invariant that carries the theorems below.                          *)
THEOREM Invariance == Spec => []IInv
  BY InvInit, InvNext, PTL DEF Spec

(* Every variable keeps its type.                                          *)
THEOREM TypeCorrect == Spec => []TypeOK
<1>1. IInv => TypeOK
  BY DEF IInv
<1> QED
  BY <1>1, Invariance, PTL

(* However discovery and start requests interleave, a document has one     *)
(* row.                                                                    *)
THEOREM OneRowPerDocument == Spec => []QueuedOnce
<1>1. IInv => QueuedOnce
  BY DEF IInv
<1> QED
  BY <1>1, Invariance, PTL

(* A row in 'processing' can always go on.                                 *)
THEOREM NothingStranded == Spec => []NoStrandedConversion
<1>1. IInv => NoStrandedConversion
  BY DEF IInv
<1> QED
  BY <1>1, Invariance, PTL

(* Deletion and retry leave the rows of books alone.                       *)
THEOREM BooksAreCompleted == Spec => []ManagedIsCompleted
<1>1. IInv => ManagedIsCompleted
  BY DEF IInv
<1> QED
  BY <1>1, Invariance, PTL

---------------------------------------------------------------------------
(* What a step may not do.                                                 *)

TaskStep ==
  \A i \in Ids :
    rows[i].task # 0 /\ rows'[i].task # rows[i].task =>
      \/ remote[rows[i].task].state \in {"failure", "gone"}
      \/ rows'[i].status = "deleted"

(* The worker gives up a task only where TaskKept allows it.               *)
LEMMA TaskWork ==
  ASSUME IInv, Work
  PROVE  TaskStep
<1> DEFINE j == worker.job
<1>a. /\ worker.job = 0 <=> worker.pc \in {"top", "resume", "scan"}
      /\ WorkerInv
  BY DEF IInv, TypeOK
<1>b. \A i \in Ids \ {j} : rows'[i] = rows[i]
  BY WorkSteps
<1>1. ASSUME j \in Ids => rows'[j].task = rows[j].task
      PROVE  TaskStep
  BY <1>b, <1>1 DEF TaskStep
<1>2. CASE UNCHANGED rows
  BY <1>1, <1>2
<1>3. CASE SourceFails \/ MarkCompleted \/ MarkFailed \/ MarkProcessing
  <2>1. PICK status, error : Outcome(status, error)
    BY <1>3 DEF SourceFails, MarkCompleted, MarkFailed, MarkProcessing
  <2>2. j \in Ids => rows'[j].task = rows[j].task
    BY <2>1 DEF Outcome, IInv, TypeOK, RowType
  <2> QED
    BY <1>1, <2>2
<1>4. CASE ReserveOutput
  BY <1>1, <1>4, WorkOutput
<1>5. CASE SaveTask
  <2>1. rows[j].task = 0
    BY <1>a, <1>5 DEF SaveTask, At, WorkerInv
  <2> QED
    BY <1>b, <2>1 DEF TaskStep
<1>6. CASE PollFailure \/ PollNotFound
  <2>1. /\ rows[j].task = worker.task
        /\ remote[worker.task].state \in {"failure", "gone"}
    BY <1>a, <1>6 DEF PollFailure, PollNotFound, At, WorkerInv
  <2> QED
    BY <1>b, <2>1 DEF TaskStep
<1> QED
  BY <1>2, <1>3, <1>4, <1>5, <1>6
  DEF Work, Progress, PollErrors, StartPass, NothingToResume, NothingToDo,
      Resume, Select, SourceMatches, Accept, Refuse, PollSuccess, WriteResult,
      ResultFails, table

(* Discovery, requests, and Docling itself give up no other task.          *)
LEMMA TaskOthers ==
  ASSUME IInv, Next, ~Work
  PROVE  TaskStep
<1>a. rows \in Table /\ \A i \in Ids : RowOK(rows[i])
  BY DEF IInv, TypeOK, Table, RowInv
<1>1. CASE UNCHANGED rows
  BY <1>1 DEF TaskStep
<1>2. ASSUME NEW c \in Callers, DiscoverInsert(c)
      PROVE  TaskStep
  <2>1. \A i \in Ids : rows'[i] = rows[i] \/ rows[i].status = "absent"
    BY <1>2 DEF DiscoverInsert, NextId
  <2>2. \A i \in Ids : rows[i].status = "absent" => rows[i].task = 0
    BY <1>a, Statuses DEF RowOK
  <2> QED
    BY <2>1, <2>2 DEF TaskStep
<1>3. ASSUME NEW i \in Ids, Retry(i)
      PROVE  TaskStep
  <2>1. rows' = [rows EXCEPT ![i] = Retried(i)]
    BY <1>3 DEF Retry
  <2>2. rows[i].task # 0 => rows[i].error # "remote"
    BY <1>a DEF RowOK
  <2>3. rows[i].task # 0 => Retried(i).task = rows[i].task
    BY <1>a, <2>2 DEF Retried, Table, RowType
  <2> QED
    BY <1>a, <2>1, <2>3 DEF TaskStep, Table
<1>4. ASSUME NEW i \in Ids, ReserveDeletion(i)
      PROVE  TaskStep
  <2>1. rows' = [rows EXCEPT ![i].status = "deleting"]
    BY <1>4 DEF ReserveDeletion
  <2> QED
    BY <1>a, <2>1 DEF TaskStep, Table, RowType
<1>5. CASE QuarantineFails \/ DeleteRowFails
  <2>1. rows' = [rows EXCEPT ![deletion.job].status = deletion.was]
    BY <1>5 DEF QuarantineFails, DeleteRowFails, CancelDeletion
  <2> QED
    BY <1>a, <2>1 DEF TaskStep, Table, RowType
<1>6. CASE DeleteRow
  <2>1. rows' = [rows EXCEPT ![deletion.job] = Deleted]
    BY <1>6 DEF DeleteRow
  <2> QED
    BY <1>a, <2>1, Statuses DEF TaskStep, Table
<1>7. CASE Restart
  <2>1. rows' = RecoverInterrupted
    BY <1>7 DEF Restart
  <2> QED
    BY <1>a, <2>1 DEF TaskStep, RecoverInterrupted, Table, RowType
<1>8. \/ UNCHANGED rows
      \/ \E c \in Callers : DiscoverInsert(c)
      \/ \E i \in Ids : Retry(i) \/ ReserveDeletion(i)
      \/ QuarantineFails \/ DeleteRowFails \/ DeleteRow \/ Restart
  BY DEF Next, Drop, DiscoverHash, RemoteEnds, RemoteForgets, Manage, Operate,
         Continue, PressStart, SetAutoRun, StartBatch, JoinBatch, Quarantine,
         Crash, table, calls
<1> QED
  BY <1>1, <1>2, <1>3, <1>4, <1>5, <1>6, <1>7, <1>8

(* The identifier of an accepted task is given up only when Docling has    *)
(* reported its end without a result, or has lost it, or with the row.     *)
THEOREM TasksAreKept == Spec => TaskKept
<1>1. IInv /\ [Next]_vars => [TaskStep]_vars
  BY TaskWork, TaskOthers
<1> QED
  BY <1>1, Invariance, PTL DEF Spec, TaskKept, TaskStep

---------------------------------------------------------------------------
(* Output files.                                                           *)

UniqueStems == \A m, n \in Names : StemOf[m] = StemOf[n] => m = n

(* Two rows never own one output file.                                     *)
LEMMA OutputsDistinct ==
  ASSUME IInv, UniqueStems, NEW i \in Ids, NEW k \in Ids, i # k,
         Exists(i), Exists(k), rows[i].out # NoPath
  PROVE  rows[i].out # rows[k].out
<1>a. \A j \in {i, k} :
        /\ rows[j].doc \in Docs
        /\ rows[j].out \in {NoPath, Base(rows[j].doc), Versioned(rows[j].doc)}
  BY DEF IInv, RowInv, RowOK, Exists
<1>b. rows[i].doc # rows[k].doc
  BY DEF IInv, QueuedOnce
<1> SUFFICES ASSUME rows[i].out = rows[k].out
             PROVE  FALSE
  OBVIOUS
<1>1. rows[i].out = Base(rows[i].doc) /\ rows[k].out = Base(rows[k].doc)
  BY <1>a, <1>b, Names1
<1>2. NameOfRow(i) = NameOfRow(k)
  <2>1. Base(rows[i].doc) = Base(rows[k].doc)
    BY <1>1
  <2>2. StemOf[NameOf[rows[i].doc]] = StemOf[NameOf[rows[k].doc]]
    BY <1>a, <2>1, Names2
  <2> QED
    BY <1>a, <2>2, Names1 DEF UniqueStems, NameOfRow
<1>3. i < k \/ k < i
  BY ConversionAssumption DEF Ids
<1> QED
  BY <1>1, <1>2, <1>3 DEF IInv, OrderInv

OutputStep ==
  \A i \in Ids :
    rows[i].status = "completed" /\ rows'[i].status = "completed" =>
      folder'[rows[i].out] = folder[rows[i].out]

(* No step changes the output file of a row that stays completed.          *)
LEMMA OutputsKept ==
  ASSUME IInv, UniqueStems, Next
  PROVE  OutputStep
<1> SUFFICES ASSUME NEW i \in Ids, rows[i].status = "completed"
             PROVE  folder'[rows[i].out] = folder[rows[i].out]
  BY DEF OutputStep
<1> DEFINE p == rows[i].out
<1>a. p \in Paths /\ p # NoPath /\ Exists(i)
  BY DEF IInv, TypeOK, RowType, RowInv, RowOK, Exists
<1>b. folder \in [Paths -> SomeDoc]
  BY DEF IInv, TypeOK
<1>1. CASE UNCHANGED folder
  BY <1>1
<1>2. CASE WriteResult
  <2>1. /\ worker.job \in Ids /\ Exists(worker.job)
        /\ rows[worker.job].status = "processing"
    BY <1>2, AtWork DEF WriteResult, At, IInv, TypeOK, WorkerInv
  <2>2. rows[worker.job].out # p
    BY <1>a, <2>1, OutputsDistinct
  <2> QED
    BY <1>a, <1>b, <1>2, <2>2 DEF WriteResult
<1>3. CASE Quarantine \/ QuarantineFails \/ DeleteRowFails
  <2>1. /\ deletion.job \in Ids /\ Exists(deletion.job)
        /\ rows[deletion.job].status = "deleting"
    BY <1>3, AtWork
    DEF Quarantine, QuarantineFails, DeleteRowFails, IInv, DeletionInv
  <2>2. rows[deletion.job].out # p
    BY <1>a, <2>1, OutputsDistinct
  <2> QED
    BY <1>a, <1>b, <1>3, <2>2
    DEF Quarantine, QuarantineFails, DeleteRowFails, OutputGone, disk
<1>4. \/ UNCHANGED folder \/ WriteResult
      \/ Quarantine \/ QuarantineFails \/ DeleteRowFails
  BY DEF Next, Drop, DiscoverInsert, DiscoverHash, RemoteEnds, RemoteForgets,
         Manage, Operate, Continue, PressStart, SetAutoRun, Retry,
         ReserveDeletion, StartBatch, JoinBatch, DeleteRow, Crash, Restart,
         Work, Progress, PollErrors, StartPass, NothingToResume, NothingToDo,
         Resume, Select, SourceMatches, SourceFails, ReserveOutput,
         MarkProcessing, Accept, Refuse, SaveTask, PollSuccess, PollFailure,
         PollNotFound, ClearTask, ResultFails, MarkCompleted, MarkFailed, disk
<1> QED
  BY <1>1, <1>2, <1>3, <1>4

(* Where no two file names share a stem, the output of a completed         *)
(* conversion stays what it is, whatever is converted, retried or deleted  *)
(* beside it.                                                              *)
THEOREM OutputsAreKept == UniqueStems => (Spec => CompletedOutputKept)
<1> SUFFICES ASSUME UniqueStems
             PROVE  Spec => CompletedOutputKept
  OBVIOUS
<1>1. IInv /\ [Next]_vars => [OutputStep]_vars
  BY OutputsKept
<1> QED
  BY <1>1, Invariance, PTL DEF Spec, CompletedOutputKept, OutputStep
===========================================================================

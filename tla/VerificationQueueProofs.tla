----------------------- MODULE VerificationQueueProofs -----------------------
(***************************************************************************)
(* Proofs about VerificationQueue, for every set of books, rows, devices   *)
(* and every bound.                                                        *)
(***************************************************************************)
EXTENDS VerificationQueue, TLAPS

Table == [Jobs -> RowType]

(* What every store method but the claims and the outcomes of a run does   *)
(* to the rows that are being verified: it adds none, takes no sweep out,  *)
(* and gives no row a higher retry count.                                  *)
Quiet(old, new) ==
  /\ new \in Table
  /\ \A j \in Jobs :
       /\ new[j].status = "processing" => old[j].status = "processing"
       /\ j \in Sweeps /\ old[j].status = "processing"
            => new[j].status = "processing"
       /\ new[j].retry <= old[j].retry

(* The two things a quiet method does to one row.                          *)
Same(r, s)  == s \in RowType /\ s.status = r.status /\ s.retry = r.retry
Reset(r, s) == /\ s \in RowType /\ s.retry = 0
               /\ s.status # "processing" /\ r.status # "processing"

---------------------------------------------------------------------------
(* The store methods, one by one.                                          *)

LEMMA FreshRow ==
  Fresh \in RowType /\ Fresh.retry = 0 /\ Fresh.status = "pending"
  BY DEF Fresh, Absent, RowType, Status

(* A write that keeps or resets each row is quiet.                         *)
LEMMA QuietRows ==
  ASSUME NEW t \in Table, NEW u, u = [j \in Jobs |-> u[j]],
         \A j \in Jobs : Same(t[j], u[j]) \/ Reset(t[j], u[j])
  PROVE  Quiet(t, u)
<1>1. \A j \in Jobs : t[j].retry \in Nat
  BY DEF RowType, Table
<1>2. u \in Table
  BY DEF Same, Reset, Table
<1>3. \A j \in Jobs : u[j].retry <= t[j].retry
  BY <1>1 DEF Same, Reset
<1> QED
  BY <1>2, <1>3 DEF Same, Reset, Quiet

(* So is no write at all.                                                  *)
LEMMA QuietSame ==
  ASSUME NEW t \in Table
  PROVE  Quiet(t, t)
<1>1. \A j \in Jobs : Same(t[j], t[j])
  BY DEF Same, Table
<1> QED
  BY <1>1, QuietRows DEF Table

(* sync_routes is quiet.                                                   *)
LEMMA QuietSync ==
  ASSUME NEW t \in Table, NEW b, NEW g
  PROVE  Quiet(t, SyncRoutes(t, b, g))
<1> DEFINE u == SyncRoutes(t, b, g)
<1>1. ASSUME NEW j \in Jobs
      PROVE  Same(t[j], u[j]) \/ Reset(t[j], u[j])
  <2>1. t[j] \in RowType
    BY DEF Table
  <2>2. CASE t[j].status = "absent" /\ u[j] = Fresh
    BY <2>2, FreshRow DEF Reset
  <2>3. CASE \/ u[j] = t[j]
             \/ u[j] = [t[j] EXCEPT !.current = FALSE]
             \/ u[j] = [t[j] EXCEPT !.current = TRUE]
    BY <2>1, <2>3 DEF Same, RowType
  <2> QED
    BY <2>2, <2>3 DEF SyncRoutes
<1>2. u = [j \in Jobs |-> u[j]]
  BY DEF SyncRoutes
<1> QED
  BY <1>1, <1>2, QuietRows

(* Superseding the sweeps that normal routes cover is quiet.               *)
LEMMA QuietSuppress ==
  ASSUME NEW t \in Table, NEW b, NEW c
  PROVE  Quiet(t, SuppressOverlapping(t, b, c))
<1> DEFINE u == SuppressOverlapping(t, b, c)
<1>1. ASSUME NEW j \in Jobs
      PROVE  Same(t[j], u[j]) \/ Reset(t[j], u[j])
  <2>1. t[j] \in RowType
    BY DEF Table
  <2>2. \/ u[j] = t[j]
        \/ u[j] = [t[j] EXCEPT !.current = FALSE, !.auth = FALSE]
    BY DEF SuppressOverlapping
  <2> QED
    BY <2>1, <2>2 DEF Same, RowType, Status
<1>2. u = [j \in Jobs |-> u[j]]
  BY DEF SuppressOverlapping
<1> QED
  BY <1>1, <1>2, QuietRows

(* Inserting the sweeps of a book is quiet.                                *)
LEMMA QuietCreate ==
  ASSUME NEW t \in Table, NEW b, NEW g, NEW c
  PROVE  Quiet(t, CreateSweeps(t, b, g, c))
<1> DEFINE u == CreateSweeps(t, b, g, c)
<1>1. ASSUME NEW j \in Jobs
      PROVE  Same(t[j], u[j]) \/ Reset(t[j], u[j])
  <2>1. t[j] \in RowType
    BY DEF Table
  <2>2. u[j] = t[j] \/ (t[j].status = "absent" /\ u[j] = Fresh)
    BY DEF CreateSweeps
  <2> QED
    BY <2>1, <2>2, FreshRow DEF Same, Reset
<1>2. u = [j \in Jobs |-> u[j]]
  BY DEF CreateSweeps
<1> QED
  BY <1>1, <1>2, QuietRows

(* Clearing the authorization of a target is quiet.                        *)
LEMMA QuietClear ==
  ASSUME NEW t \in Table, NEW w
  PROVE  Quiet(t, ClearManual(t, w))
<1> DEFINE u == ClearManual(t, w)
<1>1. ASSUME NEW j \in Jobs
      PROVE  Same(t[j], u[j]) \/ Reset(t[j], u[j])
  <2>1. t[j] \in RowType
    BY DEF Table
  <2>2. \/ u[j] = t[j]
        \/ u[j] = [t[j] EXCEPT !.auth = FALSE, !.armed = FALSE]
    BY DEF ClearManual
  <2> QED
    BY <2>1, <2>2 DEF Same, RowType, Status
<1>2. u = [j \in Jobs |-> u[j]]
  BY DEF ClearManual
<1> QED
  BY <1>1, <1>2, QuietRows

(* Starting a manual batch is quiet.                                       *)
LEMMA QuietBatch ==
  ASSUME NEW t \in Table, NEW w
  PROVE  Quiet(t, StartManualBatch(t, w))
<1> DEFINE u == StartManualBatch(t, w)
<1>1. ASSUME NEW j \in Jobs
      PROVE  Same(t[j], u[j]) \/ Reset(t[j], u[j])
  <2>1. t[j] \in RowType
    BY DEF Table
  <2>2. \/ u[j] = t[j]
        \/ u[j] = [t[j] EXCEPT !.auth = TRUE, !.armed = FALSE]
        \/ u[j] = [t[j] EXCEPT !.auth = FALSE, !.armed = TRUE]
    BY DEF StartManualBatch
  <2> QED
    BY <2>1, <2>2 DEF Same, RowType, Status
<1>2. u = [j \in Jobs |-> u[j]]
  BY DEF StartManualBatch
<1> QED
  BY <1>1, <1>2, QuietRows

(* Arming sweeps is quiet.                                                 *)
LEMMA QuietArm ==
  ASSUME NEW t \in Table, NEW S
  PROVE  Quiet(t, ArmSweeps(t, S))
<1> DEFINE u == ArmSweeps(t, S)
<1>1. ASSUME NEW j \in Jobs
      PROVE  Same(t[j], u[j]) \/ Reset(t[j], u[j])
  <2>1. t[j] \in RowType
    BY DEF Table
  <2>2. \/ u[j] = t[j]
        \/ u[j] = [t[j] EXCEPT !.auth = FALSE, !.armed = TRUE, !.due = TRUE]
    BY DEF ArmSweeps
  <2> QED
    BY <2>1, <2>2 DEF Same, RowType, Status
<1>2. u = [j \in Jobs |-> u[j]]
  BY DEF ArmSweeps
<1> QED
  BY <1>1, <1>2, QuietRows

(* Starting one book is quiet.                                             *)
LEMMA QuietBook ==
  ASSUME NEW t \in Table, NEW b
  PROVE  Quiet(t, StartManualBook(t, b))
<1> DEFINE u == StartManualBook(t, b)
<1>1. ASSUME NEW j \in Jobs
      PROVE  Same(t[j], u[j]) \/ Reset(t[j], u[j])
  <2>1. t[j] \in RowType
    BY DEF Table
  <2>2. \/ u[j] = t[j]
        \/ u[j] = [t[j] EXCEPT !.auth = FALSE, !.armed = TRUE, !.due = TRUE]
        \/ u[j] = [t[j] EXCEPT !.auth = TRUE, !.armed = FALSE, !.due = TRUE]
    BY DEF StartManualBook, ArmBook, ArmSweeps
  <2> QED
    BY <2>1, <2>2 DEF Same, RowType, Status
<1>2. u = [j \in Jobs |-> u[j]]
  BY DEF StartManualBook
<1> QED
  BY <1>1, <1>2, QuietRows

(* Releasing the armed sweeps of finished books is quiet.                  *)
LEMMA QuietRelease ==
  ASSUME NEW t \in Table, NEW S
  PROVE  Quiet(t, ReleaseReady(t, S))
<1> DEFINE u == ReleaseReady(t, S)
<1>1. ASSUME NEW j \in Jobs
      PROVE  Same(t[j], u[j]) \/ Reset(t[j], u[j])
  <2>1. t[j] \in RowType
    BY DEF Table
  <2>2. \/ u[j] = t[j]
        \/ u[j] = [t[j] EXCEPT !.auth = TRUE, !.armed = FALSE, !.due = TRUE]
    BY DEF ReleaseReady
  <2> QED
    BY <2>1, <2>2 DEF Same, RowType, Status
<1>2. u = [j \in Jobs |-> u[j]]
  BY DEF ReleaseReady
<1> QED
  BY <1>1, <1>2, QuietRows

(* A rerun of rows that may be rerun is quiet.                             *)
LEMMA QuietRequeue ==
  ASSUME NEW t \in Table, NEW S \in SUBSET Rerunnable(t)
  PROVE  Quiet(t, Requeue(t, S))
<1> DEFINE u == Requeue(t, S)
           s(r) == [r EXCEPT !.status = "pending", !.auth = TRUE,
                          !.armed = FALSE, !.due = TRUE, !.retry = 0]
<1>1. ASSUME NEW j \in Jobs
      PROVE  Same(t[j], u[j]) \/ Reset(t[j], u[j])
  <2>1. t[j] \in RowType
    BY DEF Table
  <2>2. \/ u[j] = t[j]
        \/ t[j].status # "processing" /\ u[j] = s(t[j])
    BY DEF Requeue, Rerunnable
  <2>3. s(t[j]) \in RowType /\ s(t[j]).retry = 0 /\ s(t[j]).status = "pending"
    BY <2>1 DEF RowType, Status
  <2> QED
    BY <2>1, <2>2, <2>3 DEF Same, Reset
<1>2. u = [j \in Jobs |-> u[j]]
  BY DEF Requeue
<1> QED
  BY <1>1, <1>2, QuietRows

(* Retrying the failed sweeps is quiet.                                    *)
LEMMA QuietRetrySweeps ==
  ASSUME NEW t \in Table
  PROVE  Quiet(t, RetryFailedSweeps(t))
<1> DEFINE u == RetryFailedSweeps(t)
           s(r) == [r EXCEPT !.status = "pending", !.auth = FALSE,
                          !.armed = TRUE, !.due = TRUE, !.retry = 0]
<1>1. ASSUME NEW j \in Jobs
      PROVE  Same(t[j], u[j]) \/ Reset(t[j], u[j])
  <2>1. t[j] \in RowType
    BY DEF Table
  <2>2. \/ u[j] = t[j]
        \/ t[j].status # "processing" /\ u[j] = s(t[j])
    BY DEF RetryFailedSweeps, Failed
  <2>3. s(t[j]) \in RowType /\ s(t[j]).retry = 0 /\ s(t[j]).status = "pending"
    BY <2>1 DEF RowType, Status
  <2> QED
    BY <2>1, <2>2, <2>3 DEF Same, Reset
<1>2. u = [j \in Jobs |-> u[j]]
  BY DEF RetryFailedSweeps
<1> QED
  BY <1>1, <1>2, QuietRows

(* The end of a row's back-off is quiet.                                   *)
LEMMA QuietElapse ==
  ASSUME NEW t \in Table, NEW i \in Jobs
  PROVE  Quiet(t, [t EXCEPT ![i].due = TRUE])
<1> DEFINE u == [t EXCEPT ![i].due = TRUE]
<1>1. ASSUME NEW j \in Jobs
      PROVE  Same(t[j], u[j]) \/ Reset(t[j], u[j])
  <2>1. t[j] \in RowType
    BY DEF Table
  <2>2. u[j] = t[j] \/ u[j] = [t[j] EXCEPT !.due = TRUE]
    BY DEF Table
  <2> HIDE DEF u
  <2> QED
    BY <2>1, <2>2 DEF Same, RowType, Status
<1>2. u = [j \in Jobs |-> u[j]]
  BY DEF Table
<1> QED
  BY <1>1, <1>2, QuietRows

(* The result of one row, whatever its state: the row is the only one that *)
(* changes, and it has one of the four outcomes.                           *)
Outcome(old, new, i) ==
  /\ new \in Table
  /\ new[i].status \in {"pending", "completed", "failed"}
  /\ \A j \in Jobs \ {i} : new[j] = old[j]

(* The four ways in which a run ends change the row of that run only.      *)
LEMMA Outcomes ==
  ASSUME NEW t \in Table, NEW i \in Jobs
  PROVE  /\ Outcome(t, MarkCompleted(t, i), i)
         /\ Outcome(t, MarkDeferred(t, i), i)
         /\ Outcome(t, MarkRetryable(t, i), i)
         /\ Outcome(t, MarkFailed(t, i), i)
         /\ MarkCompleted(t, i)[i].retry = 0
         /\ MarkDeferred(t, i)[i].retry = t[i].retry
         /\ MarkRetryable(t, i)[i].retry = t[i].retry + 1
         /\ MarkFailed(t, i)[i].retry = t[i].retry
<1> DEFINE r == t[i]
           c == [r EXCEPT !.status = "completed", !.auth = FALSE,
                          !.due = TRUE, !.retry = 0]
           d == [r EXCEPT !.status = "pending", !.due = FALSE]
           e == [r EXCEPT !.status = "pending", !.due = FALSE,
                          !.retry = r.retry + 1]
           f == [r EXCEPT !.status = "failed", !.auth = FALSE, !.due = TRUE]
<1>1. r \in RowType
  BY DEF Table
<1>2. c \in RowType /\ c.status = "completed" /\ c.retry = 0
  BY <1>1 DEF RowType, Status
<1>3. d \in RowType /\ d.status = "pending" /\ d.retry = r.retry
  BY <1>1 DEF RowType, Status
<1>4. e \in RowType /\ e.status = "pending" /\ e.retry = r.retry + 1
  <2>1. r.retry + 1 \in Nat
    BY <1>1 DEF RowType
  <2> QED
    BY <1>1, <2>1 DEF RowType, Status
<1>5. f \in RowType /\ f.status = "failed" /\ f.retry = r.retry
  BY <1>1 DEF RowType, Status
<1>6. MarkCompleted(t, i) = [t EXCEPT ![i] = c]
  BY <1>1 DEF MarkCompleted, Table
<1>7. MarkDeferred(t, i) = [t EXCEPT ![i] = d]
  BY <1>1 DEF MarkDeferred, Table
<1>8. MarkRetryable(t, i) = [t EXCEPT ![i] = e]
  BY <1>1 DEF MarkRetryable, Table
<1>9. MarkFailed(t, i) = [t EXCEPT ![i] = f]
  BY <1>1 DEF MarkFailed, Table
<1>10. ASSUME NEW x \in RowType, x.status \in {"pending", "completed", "failed"}
       PROVE  Outcome(t, [t EXCEPT ![i] = x], i) /\ [t EXCEPT ![i] = x][i] = x
  BY <1>10 DEF Outcome, Table
<1> HIDE DEF c, d, e, f
<1> QED
  BY <1>2, <1>3, <1>4, <1>5, <1>6, <1>7, <1>8, <1>9, <1>10

(* mark_processing changes the claimed row only.                           *)
LEMMA Claim ==
  ASSUME NEW t \in Table, NEW i \in Jobs
  PROVE  /\ Processing(t, i) \in Table
         /\ Processing(t, i)[i].status = "processing"
         /\ Processing(t, i)[i].retry = t[i].retry
         /\ \A j \in Jobs \ {i} : Processing(t, i)[j] = t[j]
<1> DEFINE r == t[i]
           p == [r EXCEPT !.status = "processing", !.armed = FALSE,
                          !.due = TRUE]
<1>1. r \in RowType
  BY DEF Table
<1>2. p \in RowType /\ p.status = "processing" /\ p.retry = r.retry
  BY <1>1 DEF RowType, Status
<1>3. Processing(t, i) = [t EXCEPT ![i] = p]
  BY <1>1 DEF Processing, Table
<1> HIDE DEF p
<1> QED
  BY <1>2, <1>3 DEF Table

(* Completing a text row again by revalidation is quiet.                   *)
LEMMA QuietRevalidation ==
  ASSUME NEW t \in Table, NEW i \in Texts
  PROVE  Quiet(t, MarkCompleted(t, i))
<1>1. i \in Jobs /\ i \notin Sweeps
  BY QueueAssumption DEF Normals
<1>2. \A j \in Jobs : t[j].retry \in Nat
  BY DEF Table, RowType
<1>3. /\ Outcome(t, MarkCompleted(t, i), i)
      /\ MarkCompleted(t, i)[i].retry = 0
      /\ MarkCompleted(t, i)[i].status = "completed"
  <2>1. MarkCompleted(t, i)[i].status = "completed"
    BY <1>1 DEF MarkCompleted, Table, RowType
  <2> QED
    BY <1>1, <2>1, Outcomes
<1>4. \A j \in Jobs : MarkCompleted(t, i)[j].retry <= t[j].retry
  BY <1>2, <1>3 DEF Outcome
<1> QED
  BY <1>1, <1>3, <1>4 DEF Quiet, Outcome

(* A restart leaves no row in status 'processing'.                         *)
LEMMA Recovery ==
  ASSUME NEW t \in Table
  PROVE  /\ RecoverInterrupted(t) \in Table
         /\ \A j \in Jobs : /\ RecoverInterrupted(t)[j].status # "processing"
                            /\ RecoverInterrupted(t)[j].retry = t[j].retry
<1> DEFINE u == RecoverInterrupted(t)
           s(r) == [r EXCEPT !.status = "pending", !.due = TRUE]
<1>1. ASSUME NEW j \in Jobs
      PROVE  /\ u[j] \in RowType
             /\ u[j].status # "processing" /\ u[j].retry = t[j].retry
  <2>1. t[j] \in RowType
    BY DEF Table
  <2>2. u[j] = IF t[j].status = "processing" THEN s(t[j]) ELSE t[j]
    BY DEF RecoverInterrupted
  <2>3. /\ s(t[j]) \in RowType /\ s(t[j]).status = "pending"
        /\ s(t[j]).retry = t[j].retry
    BY <2>1 DEF RowType, Status
  <2> QED
    BY <2>1, <2>2, <2>3
<1>2. u = [j \in Jobs |-> u[j]]
  BY DEF RecoverInterrupted
<1> QED
  BY <1>1, <1>2 DEF Table

---------------------------------------------------------------------------
(* Types.                                                                  *)

TableTyped == rows' \in Table
FlagsTyped == auto' \in [Workers -> BOOLEAN] /\ paused' \in [Workers -> BOOLEAN]
WorldTyped == /\ file' \in [Books -> 0 .. MaxGen]
              /\ synced' \in [Books -> 0 .. MaxGen]
              /\ alive' \in BOOLEAN
TasksTyped == disc' \in TaskType(DiscPc) /\ op' \in TaskType(OpPc)
LoopsTyped ==
  /\ loop' \in [Workers -> LoopPc]
  /\ held' \in [Workers -> [job : Jobs \cup {NoJob}, retry : Nat]]
  /\ \A w \in Workers :
       loop'[w] \in {"picked", "armed", "running", "done"} => held'[w].job \in Jobs
RestTyped == /\ reval' \in Texts \cup {NoJob}
             /\ ops' \in 0 .. MaxOps /\ crashes' \in 0 .. MaxCrashes

(* The type invariant after a step, from its parts.                        *)
LEMMA TypedParts ==
  ASSUME TableTyped, FlagsTyped, WorldTyped, TasksTyped, LoopsTyped, RestTyped
  PROVE  TypeOK'
  BY DEF TypeOK, TableTyped, FlagsTyped, WorldTyped, TasksTyped, LoopsTyped,
         RestTyped, Holding, Table

(* What a step leaves alone keeps its type.                                *)
LEMMA TypedUnchanged ==
  ASSUME TypeOK
  PROVE  /\ UNCHANGED rows => TableTyped
         /\ UNCHANGED <<auto, paused>> => FlagsTyped
         /\ UNCHANGED <<file, synced, alive>> => WorldTyped
         /\ UNCHANGED <<disc, op>> => TasksTyped
         /\ UNCHANGED <<loop, held>> => LoopsTyped
         /\ UNCHANGED <<reval, ops, crashes>> => RestTyped
  BY DEF TypeOK, TableTyped, FlagsTyped, WorldTyped, TasksTyped, LoopsTyped,
         RestTyped, Holding, Table

(* The record of a task that starts is of its type.                        *)
LEMMA TypedTask ==
  ASSUME NEW pcs, NEW pc \in pcs, NEW S \in SUBSET Books, NEW g \in 0 .. MaxGen
  PROVE  Task(pc, S, g) \in TaskType(pcs)
  BY DEF Task, TaskType

(* A task that moves on keeps its type.                                    *)
LEMMA TypedProgress ==
  ASSUME NEW pcs, NEW pc \in pcs, NEW t \in TaskType(pcs),
         NEW c \in SUBSET Sweeps
  PROVE  /\ [t EXCEPT !.pc = pc] \in TaskType(pcs)
         /\ [t EXCEPT !.pc = pc, !.covered = c] \in TaskType(pcs)
  BY DEF TaskType

(* The initial state is of its type.                                       *)
LEMMA TypeInit == Init => TypeOK
<1> SUFFICES ASSUME Init PROVE TypeOK
  OBVIOUS
<1>1. rows \in Table
  <2>1. PICK started \in BOOLEAN :
          rows = [j \in Jobs |-> IF j \in Legacy
                                   THEN [Fresh EXCEPT !.auth = started]
                                   ELSE Absent]
    BY DEF Init
  <2>2. [Fresh EXCEPT !.auth = started] \in RowType
    BY FreshRow DEF RowType
  <2>3. Absent \in RowType
    BY DEF Absent, RowType, Status
  <2> QED
    BY <2>1, <2>2, <2>3 DEF Table
<1>2. disc \in TaskType(DiscPc) /\ op \in TaskType(OpPc)
  BY TypedTask, QueueAssumption DEF Init, Idle, DiscPc, OpPc
<1>3. Nothing \in [job : Jobs \cup {NoJob}, retry : Nat]
  BY DEF Nothing
<1> QED
  BY <1>1, <1>2, <1>3, QueueAssumption
  DEF Init, TypeOK, Table, LoopPc, Holding

(* Discovery keeps the types.                                              *)
LEMMA TypeDiscover ==
  ASSUME TypeOK, NEW b \in Books, Publish(b) \/ Discover(b)
  PROVE  TypeOK'
<1> USE QueueAssumption
<1>a. rows \in Table /\ disc \in TaskType(DiscPc) /\ op \in TaskType(OpPc)
  BY DEF TypeOK, Table
<1>b. ASSUME AfterSweepsPrepared(b) \/ Discovered(b), UNCHANGED <<file, alive, op>>
      PROVE  TasksTyped /\ WorldTyped
  <2>1. CASE Discovered(b)
    <3>1. Idle \in TaskType(DiscPc)
      BY TypedTask DEF Idle, DiscPc
    <3>2. disc.gen \in 0 .. MaxGen
      BY <1>a DEF TaskType
    <3> QED
      BY <1>a, <1>b, <2>1, <3>1, <3>2
      DEF Discovered, TypeOK, TasksTyped, WorldTyped
  <2>2. CASE disc' = [disc EXCEPT !.pc = "arm"] /\ UNCHANGED synced
    <3>1. [disc EXCEPT !.pc = "arm"] \in TaskType(DiscPc)
      BY <1>a, TypedProgress DEF DiscPc
    <3> QED
      BY <1>a, <1>b, <2>2, <3>1 DEF TypeOK, TasksTyped, WorldTyped
  <2> QED
    BY <1>b, <2>1, <2>2 DEF AfterSweepsPrepared
<1>1. CASE Publish(b)
  <2>1. WorldTyped
    BY <1>1 DEF Publish, TypeOK, WorldTyped
  <2> QED
    BY <1>1, <2>1, TypedParts, TypedUnchanged DEF Publish, config, bounds
<1>2. CASE DiscoverRead(b)
  <2>1. Task("sync", {b}, file[b]) \in TaskType(DiscPc)
    BY TypedTask DEF DiscPc, TypeOK
  <2>2. TasksTyped
    BY <1>a, <1>2, <2>1 DEF DiscoverRead, TasksTyped
  <2> QED
    BY <1>2, <2>2, TypedParts, TypedUnchanged DEF DiscoverRead, config, bounds
<1>3. CASE DiscoverSync(b)
  <2>1. TableTyped
    BY <1>a, <1>3, QuietSync DEF DiscoverSync, TableTyped, Quiet
  <2>2. CoveredSweeps(rows') \in SUBSET Sweeps
    BY DEF CoveredSweeps
  <2>3. TasksTyped
    BY <1>a, <1>3, <2>2, TypedProgress DEF DiscoverSync, TasksTyped, DiscPc
  <2> QED
    BY <1>3, <2>1, <2>3, TypedParts, TypedUnchanged
    DEF DiscoverSync, config, bounds
<1>4. CASE DiscoverSuppress(b)
  <2>1. TableTyped
    BY <1>a, <1>4, QuietSuppress DEF DiscoverSuppress, TableTyped, Quiet
  <2>2. TasksTyped
    BY <1>a, <1>4, TypedProgress DEF DiscoverSuppress, TasksTyped, DiscPc
  <2> QED
    BY <1>4, <2>1, <2>2, TypedParts, TypedUnchanged
    DEF DiscoverSuppress, config, bounds
<1>5. CASE DiscoverCreate(b)
  <2>1. TableTyped
    BY <1>a, <1>5, QuietCreate DEF DiscoverCreate, TableTyped, Quiet
  <2> QED
    BY <1>b, <1>5, <2>1, TypedParts, TypedUnchanged
    DEF DiscoverCreate, config, bounds
<1>6. CASE DiscoverNoZip(b)
  BY <1>b, <1>6, TypedParts, TypedUnchanged DEF DiscoverNoZip, config, bounds
<1>7. CASE DiscoverArm(b)
  <2>1. TableTyped
    BY <1>a, <1>7, QuietArm DEF DiscoverArm, ArmBook, TableTyped, Quiet
  <2>2. TasksTyped
    BY <1>a, <1>7, TypedProgress DEF DiscoverArm, TasksTyped, DiscPc
  <2> QED
    BY <1>7, <2>1, <2>2, TypedParts, TypedUnchanged
    DEF DiscoverArm, config, bounds
<1>8. CASE DiscoverRelease(b)
  <2>1. TableTyped
    BY <1>a, <1>8, QuietRelease DEF DiscoverRelease, TableTyped, Quiet
  <2> QED
    BY <1>b, <1>8, <2>1, TypedParts, TypedUnchanged
    DEF DiscoverRelease, config, bounds
<1> QED
  BY <1>1, <1>2, <1>3, <1>4, <1>5, <1>6, <1>7, <1>8 DEF Discover

(* The two ways a device loop moves keep the types of the loops.           *)
LEMMA TypedLoops ==
  ASSUME TypeOK, NEW w \in Workers
  PROVE  /\ GoTop(w) => LoopsTyped
         /\ \A pc \in {"gate", "pool", "claim", "top"} :
              Goto(w, pc) /\ UNCHANGED held => LoopsTyped
         /\ \A pc \in LoopPc, x \in [job : Jobs, retry : Nat] :
              Goto(w, pc) /\ held' = [held EXCEPT ![w] = x] => LoopsTyped
         /\ \A pc \in LoopPc :
              (Holding(w) \/ loop[w] = "done") /\ Goto(w, pc) /\ UNCHANGED held
                => LoopsTyped
<1>1. Nothing \in [job : Jobs \cup {NoJob}, retry : Nat]
  BY DEF Nothing
<1>2. GoTop(w) => LoopsTyped
  BY <1>1 DEF GoTop, Goto, TypeOK, LoopsTyped, Holding, LoopPc
<1>3. ASSUME NEW pc \in {"gate", "pool", "claim", "top"}, Goto(w, pc),
             UNCHANGED held
      PROVE  LoopsTyped
  BY <1>3 DEF Goto, TypeOK, LoopsTyped, Holding, LoopPc
<1>4. ASSUME NEW pc \in LoopPc, NEW x \in [job : Jobs, retry : Nat],
             Goto(w, pc), held' = [held EXCEPT ![w] = x]
      PROVE  LoopsTyped
  BY <1>4 DEF Goto, TypeOK, LoopsTyped, Holding
<1>5. ASSUME NEW pc \in LoopPc, Holding(w) \/ loop[w] = "done", Goto(w, pc),
             UNCHANGED held
      PROVE  LoopsTyped
  BY <1>5 DEF Goto, TypeOK, LoopsTyped, Holding
<1> QED
  BY <1>2, <1>3, <1>4, <1>5

(* The copy of a row that a device loop picks is of its type.              *)
LEMMA SnapshotType ==
  ASSUME TypeOK, NEW j \in Jobs
  PROVE  Snapshot(j) \in [job : Jobs, retry : Nat]
<1>1. rows[j] \in RowType
  BY DEF TypeOK
<1> QED
  BY <1>1 DEF Snapshot, RowType

(* A device loop keeps the types.                                          *)
LEMMA TypeStep ==
  ASSUME TypeOK, NEW w \in Workers, Step(w)
  PROVE  TypeOK'
<1> DEFINE job == held[w].job
<1>a. rows \in Table
  BY DEF TypeOK, Table
<1>b. Holding(w) \/ loop[w] = "done" => job \in Jobs
  BY DEF TypeOK
<1>c. ASSUME TableTyped, LoopsTyped,
             UNCHANGED <<config, file, alive, synced, disc, op, reval, bounds>>
      PROVE  TypeOK'
  BY <1>c, TypedParts, TypedUnchanged DEF config, bounds
<1>d. UNCHANGED rows => TableTyped
  BY TypedUnchanged
<1>1. CASE LoopTop(w)
  BY <1>1, <1>c, <1>d, TypedLoops DEF LoopTop
<1>2. CASE NoNormal(w)
  BY <1>2, <1>c, <1>d, TypedLoops DEF NoNormal
<1>3. CASE ArmOnStart(w)
  <2>1. TableTyped
    BY <1>3, <1>a, QuietArm DEF ArmOnStart, ArmBook, TableTyped, Quiet
  <2>2. LoopsTyped
    BY <1>3, TypedLoops DEF ArmOnStart, Holding, LoopPc
  <2> QED
    BY <1>3, <1>c, <2>1, <2>2 DEF ArmOnStart
<1>4. CASE ClaimNormal(w)
  <2>1. TableTyped
    BY <1>4, <1>a, <1>b, Claim DEF ClaimNormal, TableTyped, Holding
  <2>2. LoopsTyped
    BY <1>4, TypedLoops DEF ClaimNormal, Holding, LoopPc
  <2> QED
    BY <1>4, <1>c, <2>1, <2>2 DEF ClaimNormal
<1>5. CASE LoseClaim(w)
  BY <1>5, <1>c, <1>d, TypedLoops DEF LoseClaim
<1>6. CASE SetupFails(w)
  BY <1>6, <1>c, <1>d, TypedLoops DEF SetupFails
<1>7. CASE ReleasePool(w)
  <2>1. TableTyped
    BY <1>7, <1>a, QuietRelease DEF ReleasePool, TableTyped, Quiet
  <2> QED
    BY <1>7, <1>c, <2>1, TypedLoops DEF ReleasePool
<1>8. CASE PoolClosed(w)
  BY <1>8, <1>c, <1>d, TypedLoops DEF PoolClosed
<1>9. CASE NothingToClaim(w)
  BY <1>9, <1>c, <1>d, TypedLoops DEF NothingToClaim
<1>10. CASE Finish(w)
  <2>1. TableTyped
    BY <1>10, <1>a, <1>b, Outcomes DEF Finish, TableTyped, Holding, Outcome
  <2>2. LoopsTyped
    BY <1>10, TypedLoops DEF Finish, Holding, LoopPc
  <2> QED
    BY <1>10, <1>c, <2>1, <2>2 DEF Finish
<1>11. CASE Defer(w)
  <2>1. TableTyped
    BY <1>11, <1>a, <1>b, Outcomes DEF Defer, TableTyped, Holding, Outcome
  <2> QED
    BY <1>11, <1>c, <2>1, TypedLoops DEF Defer
<1>12. CASE RetryOrFail(w)
  <2>1. TableTyped
    BY <1>12, <1>a, <1>b, Outcomes
    DEF RetryOrFail, TableTyped, Holding, Outcome
  <2> QED
    BY <1>12, <1>c, <2>1, TypedLoops DEF RetryOrFail
<1>13. CASE FailForGood(w)
  <2>1. TableTyped
    BY <1>13, <1>a, <1>b, Outcomes
    DEF FailForGood, TableTyped, Holding, Outcome
  <2> QED
    BY <1>13, <1>c, <2>1, TypedLoops DEF FailForGood
<1>14. CASE Housekeeping(w)
  <2>1. TableTyped
    BY <1>14, <1>a, <1>d, QuietRelease DEF Housekeeping, TableTyped, Quiet
  <2> QED
    BY <1>14, <1>c, <2>1, TypedLoops DEF Housekeeping
<1>15. ASSUME NEW j \in Jobs, PickNormal(w, j)
       PROVE  TypeOK'
  <2>1. LoopsTyped
    BY <1>15, SnapshotType, TypedLoops DEF PickNormal, LoopPc
  <2> QED
    BY <1>15, <1>c, <1>d, <2>1 DEF PickNormal
<1>16. ASSUME NEW j \in Jobs, ClaimSweep(w, j)
       PROVE  TypeOK'
  <2>1. TableTyped
    BY <1>16, <1>a, Claim DEF ClaimSweep, TableTyped
  <2>2. LoopsTyped
    BY <1>16, SnapshotType, TypedLoops DEF ClaimSweep, LoopPc
  <2> QED
    BY <1>16, <1>c, <2>1, <2>2 DEF ClaimSweep
<1> QED
  BY <1>1, <1>2, <1>3, <1>4, <1>5, <1>6, <1>7, <1>8, <1>9, <1>10, <1>11,
     <1>12, <1>13, <1>14, <1>15, <1>16 DEF Step

(* Operator requests keep the types.                                       *)
LEMMA TypeOperate ==
  ASSUME TypeOK, Operate
  PROVE  TypeOK'
<1> USE QueueAssumption
<1>a. rows \in Table
  BY DEF TypeOK, Table
<1>b. ASSUME ops' = ops + 1, ops < MaxOps, UNCHANGED <<reval, crashes>>
      PROVE  RestTyped
  BY <1>b DEF TypeOK, RestTyped
<1>c. ASSUME NEW S \in SUBSET Books, ThenRelease(S), UNCHANGED disc
      PROVE  TasksTyped
  <2>1. Task("release", S, 0) \in TaskType(OpPc)
    BY TypedTask DEF OpPc
  <2> QED
    BY <1>c, <2>1 DEF ThenRelease, TasksTyped, TypeOK
<1>1. ASSUME NEW b \in Books, VerifyBook(b)
      PROVE  TypeOK'
  <2>1. TableTyped
    BY <1>1, <1>a, QuietBook DEF VerifyBook, TableTyped, Quiet
  <2>2. FlagsTyped
    BY <1>1 DEF VerifyBook, TypeOK, FlagsTyped
  <2>3. TasksTyped /\ RestTyped
    BY <1>1, <1>b, <1>c DEF VerifyBook, Request
  <2> QED
    BY <1>1, <2>1, <2>2, <2>3, TypedParts, TypedUnchanged DEF VerifyBook
<1>2. ASSUME NEW b \in Books, StartAllSweeps(b)
      PROVE  TypeOK'
  <2>1. PICK j \in Jobs : op' = Task("prepare", {b}, GenOf[j])
    BY <1>2 DEF StartAllSweeps
  <2>2. GenOf[j] \in 0 .. MaxGen
    BY DEF TypeOK
  <2>3. Task("prepare", {b}, GenOf[j]) \in TaskType(OpPc)
    BY <2>2, TypedTask DEF OpPc
  <2>4. TasksTyped
    BY <1>2, <2>1, <2>3 DEF StartAllSweeps, TasksTyped, TypeOK
  <2>5. RestTyped
    BY <1>2, <1>b DEF StartAllSweeps, Request
  <2> QED
    BY <1>2, <2>4, <2>5, TypedParts, TypedUnchanged DEF StartAllSweeps, config
<1>3. ASSUME NEW w \in Workers, StartTarget(w)
      PROVE  TypeOK'
  <2>1. TableTyped
    BY <1>3, <1>a, QuietBatch DEF StartTarget, TableTyped, Quiet
  <2>2. FlagsTyped
    BY <1>3 DEF StartTarget, TypeOK, FlagsTyped
  <2>3. TasksTyped /\ RestTyped
    BY <1>3, <1>b, <1>c DEF StartTarget, Request
  <2> QED
    BY <1>3, <2>1, <2>2, <2>3, TypedParts, TypedUnchanged DEF StartTarget
<1>4. ASSUME NEW w \in Workers, Stop(w) \/ AutoRunOn(w)
      PROVE  TypeOK'
  <2>1. TableTyped
    BY <1>4, <1>a, QuietClear DEF Stop, AutoRunOn, TableTyped, Quiet
  <2>2. FlagsTyped
    BY <1>4 DEF Stop, AutoRunOn, TypeOK, FlagsTyped
  <2>3. RestTyped
    BY <1>4, <1>b DEF Stop, AutoRunOn, Request
  <2> QED
    BY <1>4, <2>1, <2>2, <2>3, TypedParts, TypedUnchanged DEF Stop, AutoRunOn
<1>5. ASSUME NEW w \in Workers, AutoRunOff(w)
      PROVE  TypeOK'
  <2>1. FlagsTyped
    BY <1>5 DEF AutoRunOff, TypeOK, FlagsTyped
  <2>2. RestTyped
    BY <1>5, <1>b DEF AutoRunOff, Request
  <2> QED
    BY <1>5, <2>1, <2>2, TypedParts, TypedUnchanged DEF AutoRunOff
<1>6. ASSUME NEW j \in Jobs, Rerun(j)
      PROVE  TypeOK'
  <2>1. TableTyped
    BY <1>6, <1>a, QuietRequeue DEF Rerun, TableTyped, Quiet
  <2>2. RestTyped
    BY <1>6, <1>b DEF Rerun, Request
  <2> QED
    BY <1>6, <2>1, <2>2, TypedParts, TypedUnchanged DEF Rerun, config
<1>7. ASSUME NEW j \in Jobs, RevalidateRead(j)
      PROVE  TypeOK'
  <2>1. RestTyped
    BY <1>7 DEF RevalidateRead, TypeOK, RestTyped
  <2> QED
    BY <1>7, <2>1, TypedParts, TypedUnchanged DEF RevalidateRead, config
<1>8. CASE RetryAllFailed
  <2>1. Failed(rows) \in SUBSET Rerunnable(rows)
    BY DEF Failed, Rerunnable
  <2>2. TableTyped
    BY <1>8, <1>a, <2>1, QuietRequeue DEF RetryAllFailed, TableTyped, Quiet
  <2>3. FlagsTyped
    <3>1. \A w \in Workers :
            (paused[w] /\ \A j \in Failed(rows) : LaneOf[j] # w) \in BOOLEAN
      OBVIOUS
    <3>2. paused' \in [Workers -> BOOLEAN]
      BY <1>8, <3>1, Zenon DEF RetryAllFailed
    <3> QED
      BY <1>8, <3>2 DEF RetryAllFailed, TypeOK, FlagsTyped
  <2>4. RestTyped
    BY <1>8, <1>b DEF RetryAllFailed, Request
  <2> QED
    BY <1>8, <2>2, <2>3, <2>4, TypedParts, TypedUnchanged DEF RetryAllFailed
<1>9. CASE RetrySweeps
  <2>1. TableTyped
    BY <1>9, <1>a, QuietRetrySweeps DEF RetrySweeps, TableTyped, Quiet
  <2>2. TasksTyped /\ RestTyped
    BY <1>9, <1>b, <1>c DEF RetrySweeps, Request
  <2> QED
    BY <1>9, <2>1, <2>2, TypedParts, TypedUnchanged DEF RetrySweeps, config
<1> QED
  BY <1>1, <1>2, <1>3, <1>4, <1>5, <1>6, <1>7, <1>8, <1>9 DEF Operate

(* So do the steps that continue a request.                                *)
LEMMA TypeContinue ==
  ASSUME TypeOK, Continue
  PROVE  TypeOK'
<1> USE QueueAssumption
<1>a. rows \in Table /\ op \in TaskType(OpPc) /\ disc \in TaskType(DiscPc)
  BY DEF TypeOK, Table
<1>1. ASSUME NEW b \in Books, OperatorPlan(b)
      PROVE  TypeOK'
  <2>1. CoveredSweeps(rows) \in SUBSET Sweeps
    BY DEF CoveredSweeps
  <2>2. TasksTyped
    BY <1>1, <1>a, <2>1, TypedProgress DEF OperatorPlan, TasksTyped, OpPc
  <2> QED
    BY <1>1, <2>2, TypedParts, TypedUnchanged DEF OperatorPlan, config, bounds
<1>2. ASSUME NEW b \in Books, OperatorSuppress(b)
      PROVE  TypeOK'
  <2>1. TableTyped
    BY <1>2, <1>a, QuietSuppress DEF OperatorSuppress, TableTyped, Quiet
  <2>2. TasksTyped
    BY <1>2, <1>a, TypedProgress DEF OperatorSuppress, TasksTyped, OpPc
  <2> QED
    BY <1>2, <2>1, <2>2, TypedParts, TypedUnchanged
    DEF OperatorSuppress, config, bounds
<1>3. ASSUME NEW b \in Books, OperatorCreate(b)
      PROVE  TypeOK'
  <2>1. TableTyped
    BY <1>3, <1>a, QuietCreate DEF OperatorCreate, TableTyped, Quiet
  <2>2. TasksTyped
    BY <1>3, <1>a, TypedProgress DEF OperatorCreate, TasksTyped, OpPc
  <2> QED
    BY <1>3, <2>1, <2>2, TypedParts, TypedUnchanged
    DEF OperatorCreate, config, bounds
<1>4. CASE OperatorNoZip
  <2>1. TasksTyped
    BY <1>4, <1>a, TypedProgress DEF OperatorNoZip, TasksTyped, OpPc
  <2> QED
    BY <1>4, <2>1, TypedParts, TypedUnchanged DEF OperatorNoZip, config, bounds
<1>5. CASE OperatorArm
  <2>1. TableTyped
    BY <1>5, <1>a, QuietArm DEF OperatorArm, TableTyped, Quiet
  <2>2. Task("release", Books, 0) \in TaskType(OpPc)
    BY TypedTask DEF OpPc
  <2>3. TasksTyped
    BY <1>5, <1>a, <2>2 DEF OperatorArm, ThenRelease, TasksTyped
  <2> QED
    BY <1>5, <2>1, <2>3, TypedParts, TypedUnchanged
    DEF OperatorArm, config, bounds
<1>6. CASE OperatorRelease
  <2>1. TableTyped
    BY <1>6, <1>a, QuietRelease DEF OperatorRelease, TableTyped, Quiet
  <2>2. Idle \in TaskType(OpPc)
    BY TypedTask DEF Idle, OpPc
  <2>3. TasksTyped
    BY <1>6, <1>a, <2>2 DEF OperatorRelease, TasksTyped
  <2> QED
    BY <1>6, <2>1, <2>3, TypedParts, TypedUnchanged
    DEF OperatorRelease, config, bounds
<1>7. CASE RevalidateWrite
  <2>1. reval \in Texts
    BY <1>7 DEF RevalidateWrite, TypeOK
  <2>2. TableTyped
    BY <1>7, <1>a, <2>1, QuietRevalidation
    DEF RevalidateWrite, TableTyped, Quiet
  <2>3. RestTyped
    BY <1>7 DEF RevalidateWrite, TypeOK, RestTyped, bounds
  <2> QED
    BY <1>7, <2>2, <2>3, TypedParts, TypedUnchanged DEF RevalidateWrite, config
<1> QED
  BY <1>1, <1>2, <1>3, <1>4, <1>5, <1>6, <1>7 DEF Continue

(* Retry delays, deaths and restarts keep the types.                       *)
LEMMA TypeRest ==
  ASSUME TypeOK, (\E j \in Jobs : Elapse(j)) \/ Crash \/ Restart
  PROVE  TypeOK'
<1> USE QueueAssumption
<1>a. rows \in Table
  BY DEF TypeOK, Table
<1>1. ASSUME NEW j \in Jobs, Elapse(j)
      PROVE  TypeOK'
  <2>1. TableTyped
    BY <1>1, <1>a, QuietElapse DEF Elapse, TableTyped, Quiet
  <2> QED
    BY <1>1, <2>1, TypedParts, TypedUnchanged DEF Elapse, config, bounds
<1>2. CASE Crash
  <2>1. Idle \in TaskType(DiscPc) /\ Idle \in TaskType(OpPc)
    BY TypedTask DEF Idle, DiscPc, OpPc
  <2>2. Nothing \in [job : Jobs \cup {NoJob}, retry : Nat]
    BY DEF Nothing
  <2>3. TasksTyped /\ LoopsTyped
    BY <1>2, <2>1, <2>2 DEF Crash, TasksTyped, LoopsTyped, LoopPc
  <2>4. WorldTyped
    <3>1. 0 \in 0 .. MaxGen
      OBVIOUS
    <3>2. synced' = [b \in Books |-> 0] /\ alive' = FALSE /\ file' = file
      BY <1>2 DEF Crash
    <3>3. synced' \in [Books -> 0 .. MaxGen]
      BY <3>1, <3>2
    <3> QED
      BY <3>2, <3>3 DEF TypeOK, WorldTyped
  <2>5. RestTyped
    BY <1>2 DEF Crash, TypeOK, RestTyped
  <2> QED
    BY <1>2, <2>3, <2>4, <2>5, TypedParts, TypedUnchanged DEF Crash, config
<1>3. CASE Restart
  <2>1. TableTyped
    BY <1>3, <1>a, Recovery DEF Restart, TableTyped
  <2>2. WorldTyped
    BY <1>3 DEF Restart, TypeOK, WorldTyped
  <2> QED
    BY <1>3, <2>1, <2>2, TypedParts, TypedUnchanged DEF Restart, config, bounds
<1> QED
  BY <1>1, <1>2, <1>3

(* Every step keeps the type invariant.                                    *)
LEMMA TypeNext == TypeOK /\ [Next]_vars => TypeOK'
<1> SUFFICES ASSUME TypeOK, [Next]_vars PROVE TypeOK'
  OBVIOUS
<1>1. CASE UNCHANGED vars
  BY <1>1, TypedParts, TypedUnchanged DEF vars
<1> QED
  BY <1>1, TypeDiscover, TypeStep, TypeOperate, TypeContinue, TypeRest DEF Next

(* Every state the Stage 2B tasks reach has the declared types: no column, *)
(* flag, or program counter takes a value the code does not know.          *)
THEOREM TypeCorrect == Spec => []TypeOK
  BY TypeInit, TypeNext, PTL DEF Spec


---------------------------------------------------------------------------
(* The inductive invariant.                                                *)

LEMMA Numbers ==
  ASSUME TypeOK
  PROVE  /\ \A j \in Jobs : rows[j].retry \in Nat
         /\ \A w \in Workers : held[w].retry \in Nat
         /\ MaxRetries \in Nat
<1>1. \A j \in Jobs : rows[j] \in RowType
  BY DEF TypeOK
<1> QED
  BY <1>1, StoreAssumption DEF TypeOK, RowType

(* A device loop that holds a row holds a row of the table.                *)
LEMMA HeldJob ==
  ASSUME TypeOK, NEW w \in Workers, Holding(w)
  PROVE  held[w].job \in Jobs
  BY DEF TypeOK

(* A quiet method disturbs no part of it, whatever the loop of one device  *)
(* does, if that loop was not running and gets nothing new into its hands. *)
LEMMA QuietKeeps ==
  ASSUME IInv, TypeOK', Quiet(rows, rows'), UNCHANGED alive,
         \A w \in Workers :
           /\ Holding(w)' => Holding(w) /\ held'[w] = held[w]
           /\ loop'[w] = "running" <=> loop[w] = "running"
           /\ loop'[w] # "top" => alive
  PROVE  IInv'
<1> USE DEF IInv
<1>1. NoDoubleRun'
  BY DEF NoDoubleRun, Running, Holding
<1>2. NoOrphanedRow'
  BY DEF NoOrphanedRow, Running, Holding, Quiet
<1>3. \A j \in Jobs : /\ rows[j].retry \in Nat /\ rows'[j].retry \in Nat
                     /\ rows'[j].retry <= rows[j].retry
  <2>1. \A j \in Jobs : rows'[j] \in RowType
    BY DEF TypeOK
  <2> QED
    BY <2>1, Numbers DEF Quiet, RowType
<1>4. RetryBudget'
  BY <1>3, Numbers DEF RetryBudget
<1>5. ClaimInv'
  <2>1. \A w \in Workers, s \in Sweeps :
          Running(w, s)' => rows'[s].status = "processing"
    <3> SUFFICES ASSUME NEW w \in Workers, NEW s \in Sweeps, Running(w, s)'
                 PROVE  rows'[s].status = "processing"
      OBVIOUS
    <3>1. Running(w, s) /\ s \in Jobs
      BY StoreAssumption DEF Running, Holding
    <3> QED
      BY <3>1 DEF ClaimInv, Quiet
  <2>2. \A w \in Workers :
          /\ loop'[w] \in {"picked", "armed"} => held'[w].job \in Normals
          /\ Holding(w)' /\ held'[w].job \in Normals => LaneOf[held'[w].job] = w
    BY DEF ClaimInv, Holding
  <2>3. ~alive' => \A w \in Workers : loop'[w] = "top"
    OBVIOUS
  <2> QED
    BY <2>1, <2>2, <2>3 DEF ClaimInv
<1>6. BudgetInv'
  <2> SUFFICES ASSUME NEW w \in Workers, Holding(w)'
               PROVE  /\ rows'[held'[w].job].retry <= held'[w].retry
                      /\ held'[w].retry <= MaxRetries
    BY DEF BudgetInv
  <2>1. /\ held'[w] = held[w] /\ held[w].job \in Jobs
        /\ rows[held[w].job].retry <= held[w].retry
        /\ held[w].retry <= MaxRetries
    BY HeldJob DEF BudgetInv
  <2> QED
    <3> DEFINE i == held[w].job
    <3>1. /\ rows'[i].retry \in Nat /\ rows[i].retry \in Nat
          /\ rows'[i].retry <= rows[i].retry
      BY <2>1, <1>3
    <3>2. held[w].retry \in Nat
      BY Numbers
    <3> QED
      BY <2>1, <3>1, <3>2
<1> QED
  BY <1>1, <1>2, <1>4, <1>5, <1>6

(* The claim of a row that is not being verified.                          *)
LEMMA ClaimKeeps ==
  ASSUME IInv, TypeOK', NEW w \in Workers, NEW j \in Jobs,
         rows[j].status = "pending",
         j \in Normals => LaneOf[j] = w,
         rows' = Processing(rows, j), UNCHANGED alive, alive,
         loop' = [loop EXCEPT ![w] = "running"], loop[w] # "running",
         held'[w].job = j, rows[j].retry <= held'[w].retry,
         held'[w].retry <= MaxRetries,
         \A v \in Workers \ {w} : held'[v] = held[v]
  PROVE  IInv'
<1> USE DEF IInv
<1>1. rows \in Table /\ loop \in [Workers -> LoopPc]
  BY DEF TypeOK, Table
<1>2. /\ rows'[j].status = "processing" /\ rows'[j].retry = rows[j].retry
      /\ \A i \in Jobs \ {j} : rows'[i] = rows[i]
  BY <1>1, Claim
<1>3. loop'[w] = "running" /\ \A v \in Workers \ {w} : loop'[v] = loop[v]
  BY <1>1
<1>4. \A v \in Workers \ {w} : ~Running(v, j)
  <2> SUFFICES ASSUME NEW v \in Workers \ {w}, Running(v, j)
               PROVE  FALSE
    OBVIOUS
  <2>1. CASE j \in Sweeps
    BY <2>1 DEF ClaimInv, Running
  <2>2. CASE j \in Normals
    BY <2>2 DEF ClaimInv, Running, Holding
  <2> QED
    BY <2>1, <2>2 DEF Normals
<1>5. NoDoubleRun'
  BY <1>3, <1>4 DEF NoDoubleRun, Running
<1>6. NoOrphanedRow'
  <2> SUFFICES ASSUME NEW i \in Jobs, rows'[i].status = "processing"
               PROVE  \E v \in Workers : Running(v, i)'
    BY DEF NoOrphanedRow
  <2>1. CASE i = j
    BY <2>1, <1>3 DEF Running
  <2>2. CASE i # j
    <3>1. PICK v \in Workers : Running(v, i)
      BY <2>2, <1>2 DEF NoOrphanedRow
    <3> QED
      BY <3>1, <1>3 DEF Running
  <2> QED
    BY <2>1, <2>2
<1>7. RetryBudget'
  BY <1>2 DEF RetryBudget
<1>8. ClaimInv'
  <2>1. \A v \in Workers, s \in Sweeps :
          Running(v, s)' => rows'[s].status = "processing"
    <3> SUFFICES ASSUME NEW v \in Workers, NEW s \in Sweeps, Running(v, s)'
                 PROVE  rows'[s].status = "processing"
      OBVIOUS
    <3>1. CASE s = j
      BY <3>1, <1>2
    <3>2. CASE s # j
      <4>1. Running(v, s) /\ s \in Jobs
        BY <3>2, <1>3, StoreAssumption DEF Running
      <4> QED
        BY <3>2, <4>1, <1>2 DEF ClaimInv
    <3> QED
      BY <3>1, <3>2
  <2>2. \A v \in Workers :
          /\ loop'[v] \in {"picked", "armed"} => held'[v].job \in Normals
          /\ Holding(v)' /\ held'[v].job \in Normals => LaneOf[held'[v].job] = v
    BY <1>3 DEF ClaimInv, Holding
  <2> QED
    BY <2>1, <2>2 DEF ClaimInv
<1>9. BudgetInv'
  <2> SUFFICES ASSUME NEW v \in Workers, Holding(v)'
               PROVE  /\ rows'[held'[v].job].retry <= held'[v].retry
                      /\ held'[v].retry <= MaxRetries
    BY DEF BudgetInv
  <2>1. CASE v = w
    BY <2>1, <1>2
  <2>2. CASE v # w
    <3>1. Holding(v) /\ held'[v] = held[v]
      BY <2>2, <1>3 DEF Holding
    <3>2. held[v].job \in Jobs
      BY <3>1, HeldJob
    <3> QED
      BY <3>1, <3>2, <1>2 DEF BudgetInv
  <2> QED
    BY <2>1, <2>2
<1> QED
  BY <1>5, <1>6, <1>7, <1>8, <1>9

(* The end of a run, with any of its outcomes.                             *)
LEMMA OutcomeKeeps ==
  ASSUME IInv, TypeOK', NEW w \in Workers, loop[w] = "running",
         Outcome(rows, rows', held[w].job), UNCHANGED alive, alive,
         rows'[held[w].job].retry <= MaxRetries,
         loop'[w] \in {"top", "done"},
         \A v \in Workers \ {w} : loop'[v] = loop[v] /\ held'[v] = held[v]
  PROVE  IInv'
<1> USE DEF IInv
<1> DEFINE j == held[w].job
<1>1. Running(w, j) /\ j \in Jobs
  BY HeldJob DEF Running, Holding
<1>2. \A v \in Workers \ {w} : ~(Holding(v) /\ held[v].job = j)
  <2> SUFFICES ASSUME NEW v \in Workers \ {w}, Holding(v), held[v].job = j
               PROVE  FALSE
    OBVIOUS
  <2>1. CASE j \in Normals
    BY <1>1, <2>1 DEF ClaimInv, Running, Holding
  <2>2. CASE j \in Sweeps
    <3>1. Running(v, j)
      BY <2>2 DEF ClaimInv, Holding, Running, Normals
    <3> QED
      BY <1>1, <3>1 DEF NoDoubleRun
  <2> QED
    BY <1>1, <2>1, <2>2 DEF Normals
<1> HIDE DEF j
<1>3. /\ rows'[j].status # "processing" /\ rows'[j].retry <= MaxRetries
      /\ \A i \in Jobs \ {j} : rows'[i] = rows[i]
  BY DEF Outcome, j
<1>4. \A v \in Workers : Holding(v)' => v # w /\ Holding(v) /\ held'[v] = held[v]
  BY DEF Holding
<1>5. \A v \in Workers : loop'[v] = "running" => v # w /\ loop[v] = "running"
  OBVIOUS
<1>6. NoDoubleRun'
  BY <1>5 DEF NoDoubleRun, Running
<1>7. NoOrphanedRow'
  <2> SUFFICES ASSUME NEW i \in Jobs, rows'[i].status = "processing"
               PROVE  \E v \in Workers : Running(v, i)'
    BY DEF NoOrphanedRow
  <2>1. i # j /\ rows[i].status = "processing"
    BY <1>3
  <2>2. PICK v \in Workers : Running(v, i)
    BY <2>1 DEF NoOrphanedRow
  <2>3. v # w
    BY <1>1, <2>1, <2>2 DEF Running
  <2> QED
    BY <2>2, <2>3 DEF Running
<1>8. RetryBudget'
  BY <1>3 DEF RetryBudget
<1>9. ClaimInv'
  <2>1. \A v \in Workers, s \in Sweeps :
          Running(v, s)' => rows'[s].status = "processing"
    <3> SUFFICES ASSUME NEW v \in Workers, NEW s \in Sweeps, Running(v, s)'
                 PROVE  rows'[s].status = "processing"
      OBVIOUS
    <3>1. v # w /\ Running(v, s) /\ s \in Jobs
      BY <1>5, StoreAssumption DEF Running
    <3>2. s # j
      BY <3>1, <1>2 DEF Running, Holding
    <3> QED
      BY <3>1, <3>2, <1>3 DEF ClaimInv
  <2> QED
    BY <1>4, <2>1 DEF ClaimInv, Holding
<1>10. BudgetInv'
  <2> SUFFICES ASSUME NEW v \in Workers, Holding(v)'
               PROVE  /\ rows'[held'[v].job].retry <= held'[v].retry
                      /\ held'[v].retry <= MaxRetries
    BY DEF BudgetInv
  <2>1. v # w /\ Holding(v) /\ held'[v] = held[v]
    BY <1>4
  <2>2. held[v].job # j /\ held[v].job \in Jobs
    BY <1>2, <2>1, HeldJob
  <2> QED
    BY <2>1, <2>2, <1>3 DEF BudgetInv
<1> QED
  BY <1>6, <1>7, <1>8, <1>9, <1>10

(* A device takes the snapshot of a row of its own lane.                   *)
LEMMA PickKeeps ==
  ASSUME IInv, TypeOK', NEW w \in Workers, NEW j \in Jobs, PickNormal(w, j)
  PROVE  IInv'
<1> USE DEF IInv
<1>1. /\ loop \in [Workers -> LoopPc]
      /\ held \in [Workers -> [job : Jobs \cup {NoJob}, retry : Nat]]
  BY DEF TypeOK
<1>2. /\ UNCHANGED <<rows, alive>>
      /\ loop'[w] = "picked" /\ held'[w] = Snapshot(j)
      /\ \A v \in Workers \ {w} : loop'[v] = loop[v] /\ held'[v] = held[v]
  BY <1>1 DEF PickNormal, Goto
<1>3. loop[w] = "gate" /\ alive /\ j \in Normals /\ LaneOf[j] = w
  BY DEF PickNormal, Runnable, ClaimInv
<1>4. held'[w].job = j /\ held'[w].retry = rows[j].retry
  BY <1>2 DEF Snapshot
<1>5. \A v \in Workers : loop'[v] = "running" =>
                           /\ loop[v] = "running" /\ held'[v] = held[v]
  BY <1>2
<1>6. NoDoubleRun'
  BY <1>5 DEF NoDoubleRun, Running
<1>7. NoOrphanedRow'
  BY <1>2, <1>3 DEF NoOrphanedRow, Running
<1>8. RetryBudget'
  BY <1>2 DEF RetryBudget
<1>9. ClaimInv'
  <2>1. \A v \in Workers :
          /\ loop'[v] \in {"picked", "armed"} => held'[v].job \in Normals
          /\ Holding(v)' /\ held'[v].job \in Normals => LaneOf[held'[v].job] = v
    BY <1>2, <1>3, <1>4 DEF ClaimInv, Holding
  <2>2. \A v \in Workers, s \in Sweeps :
          Running(v, s)' => rows'[s].status = "processing"
    BY <1>2, <1>5 DEF ClaimInv, Running
  <2> QED
    BY <1>2, <1>3, <2>1, <2>2 DEF ClaimInv
<1>10. BudgetInv'
  <2> SUFFICES ASSUME NEW v \in Workers, Holding(v)'
               PROVE  /\ rows'[held'[v].job].retry <= held'[v].retry
                      /\ held'[v].retry <= MaxRetries
    BY DEF BudgetInv
  <2>1. CASE v = w
    BY <2>1, <1>2, <1>4, Numbers DEF RetryBudget
  <2>2. CASE v # w
    BY <2>2, <1>2 DEF BudgetInv, Holding
  <2> QED
    BY <2>1, <2>2
<1> QED
  BY <1>6, <1>7, <1>8, <1>9, <1>10

(* The invariant holds initially.                                          *)
LEMMA InvInit == Init => IInv
<1> SUFFICES ASSUME Init PROVE IInv
  OBVIOUS
<1>1. TypeOK
  BY TypeInit
<1>2. \A w \in Workers : loop[w] = "top"
  BY DEF Init
<1>3. \A j \in Jobs : rows[j].status # "processing" /\ rows[j].retry = 0
  <2>1. PICK started \in BOOLEAN :
          rows = [j \in Jobs |-> IF j \in Legacy
                                   THEN [Fresh EXCEPT !.auth = started]
                                   ELSE Absent]
    BY DEF Init
  <2> QED
    BY <2>1 DEF Fresh, Absent
<1>4. RetryBudget
  BY <1>3, StoreAssumption DEF RetryBudget
<1> QED
  BY <1>1, <1>2, <1>3, <1>4
  DEF IInv, NoDoubleRun, NoOrphanedRow, ClaimInv, BudgetInv, Running, Holding

(* The steps of a device loop.                                             *)
LEMMA InvStep ==
  ASSUME IInv, TypeOK', NEW w \in Workers, Step(w)
  PROVE  IInv'
<1> DEFINE job == held[w].job
<1>a. /\ rows \in Table /\ loop \in [Workers -> LoopPc]
      /\ held \in [Workers -> [job : Jobs \cup {NoJob}, retry : Nat]]
  BY DEF IInv, TypeOK, Table
<1>b. Quiet(rows, rows)
  BY <1>a, QuietSame
<1>c. ASSUME Quiet(rows, rows'), UNCHANGED alive,
             alive, loop[w] # "running",
             \/ GoTop(w)
             \/ /\ \E pc \in {"gate", "pool", "claim", "top"} : Goto(w, pc)
                /\ UNCHANGED held
             \/ loop[w] = "picked" /\ Goto(w, "armed") /\ UNCHANGED held
      PROVE  IInv'
  <2>1. \A v \in Workers :
          /\ Holding(v)' => Holding(v) /\ held'[v] = held[v]
          /\ loop'[v] = "running" <=> loop[v] = "running"
    BY <1>a, <1>c DEF GoTop, Goto, Holding
  <2> QED
    BY <1>c, <2>1, QuietKeeps
<1>d. loop[w] # "top" => alive
  BY DEF IInv, ClaimInv
<1>1. CASE LoopTop(w)
  BY <1>1, <1>b, <1>c DEF LoopTop
<1>2. CASE NoNormal(w)
  BY <1>2, <1>b, <1>c, <1>d DEF NoNormal
<1>3. CASE ArmOnStart(w)
  <2>1. Quiet(rows, rows')
    BY <1>3, <1>a, QuietArm DEF ArmOnStart, ArmBook
  <2> QED
    BY <1>3, <1>c, <1>d, <2>1 DEF ArmOnStart
<1>4. CASE ClaimNormal(w)
  <2>1. /\ job \in Normals /\ job \in Jobs /\ LaneOf[job] = w
        /\ rows[job].retry <= held[w].retry /\ held[w].retry <= MaxRetries
    BY <1>4 DEF ClaimNormal, IInv, ClaimInv, BudgetInv, Holding, Normals
  <2>2. /\ rows[job].status = "pending" /\ rows' = Processing(rows, job)
        /\ loop' = [loop EXCEPT ![w] = "running"] /\ loop[w] # "running"
        /\ held' = held /\ alive' = alive
    BY <1>4 DEF ClaimNormal, Goto
  <2> QED
    BY <1>4, <1>d, <2>1, <2>2, ClaimKeeps DEF ClaimNormal
<1>5. CASE LoseClaim(w)
  BY <1>5, <1>b, <1>c, <1>d DEF LoseClaim
<1>6. CASE SetupFails(w)
  BY <1>6, <1>b, <1>c, <1>d DEF SetupFails
<1>7. CASE ReleasePool(w)
  <2>1. Quiet(rows, rows')
    BY <1>7, <1>a, QuietRelease DEF ReleasePool
  <2> QED
    BY <1>7, <1>c, <1>d, <2>1 DEF ReleasePool
<1>8. CASE PoolClosed(w)
  BY <1>8, <1>b, <1>c, <1>d DEF PoolClosed
<1>9. CASE NothingToClaim(w)
  BY <1>9, <1>b, <1>c, <1>d DEF NothingToClaim
<1>e. loop[w] = "running" =>
        /\ alive /\ job \in Jobs /\ rows[job].retry \in Nat
        /\ held[w].retry \in Nat /\ rows[job].retry <= held[w].retry
        /\ held[w].retry <= MaxRetries /\ MaxRetries \in Nat
  BY <1>d, HeldJob, Numbers DEF IInv, BudgetInv, Holding
<1>f. GoTop(w) => /\ loop'[w] = "top"
                  /\ \A v \in Workers \ {w} : loop'[v] = loop[v] /\ held'[v] = held[v]
  BY <1>a DEF GoTop, Goto
<1>10. CASE Finish(w)
  <2>1. /\ Outcome(rows, rows', job) /\ rows'[job].retry = 0
    BY <1>10, <1>a, <1>e, Outcomes DEF Finish
  <2>2. /\ loop'[w] = "done" /\ held' = held
        /\ \A v \in Workers \ {w} : loop'[v] = loop[v]
    BY <1>10, <1>a DEF Finish, Goto
  <2> QED
    BY <1>10, <1>e, <2>1, <2>2, OutcomeKeeps DEF Finish
<1>11. CASE Defer(w)
  <2>1. Outcome(rows, rows', job) /\ rows'[job].retry = rows[job].retry
    BY <1>11, <1>a, <1>e, Outcomes DEF Defer
  <2> QED
    BY <1>11, <1>e, <1>f, <2>1, OutcomeKeeps DEF Defer
<1>12. CASE RetryOrFail(w)
  <2>1. Outcome(rows, rows', job) /\ rows'[job].retry <= MaxRetries
    <3>1. CASE held[w].retry >= MaxRetries
      BY <1>12, <1>a, <1>e, <3>1, Outcomes DEF RetryOrFail
    <3>2. CASE ~(held[w].retry >= MaxRetries)
      <4>1. Outcome(rows, rows', job) /\ rows'[job].retry = rows[job].retry + 1
        BY <1>12, <1>a, <1>e, <3>2, Outcomes DEF RetryOrFail
      <4> QED
        BY <1>12, <1>e, <3>2, <4>1 DEF RetryOrFail
    <3> QED
      BY <3>1, <3>2
  <2> QED
    BY <1>12, <1>e, <1>f, <2>1, OutcomeKeeps DEF RetryOrFail
<1>13. CASE FailForGood(w)
  <2>1. Outcome(rows, rows', job) /\ rows'[job].retry = rows[job].retry
    BY <1>13, <1>a, <1>e, Outcomes DEF FailForGood
  <2> QED
    BY <1>13, <1>e, <1>f, <2>1, OutcomeKeeps DEF FailForGood
<1>14. CASE Housekeeping(w)
  <2>1. Quiet(rows, rows')
    BY <1>14, <1>a, <1>b, QuietRelease DEF Housekeeping
  <2> QED
    BY <1>14, <1>c, <1>d, <2>1 DEF Housekeeping
<1>15. ASSUME NEW j \in Jobs, PickNormal(w, j)
       PROVE  IInv'
  BY <1>15, PickKeeps
<1>16. ASSUME NEW j \in Jobs, ClaimSweep(w, j)
       PROVE  IInv'
  <2>1. /\ j \in Sweeps /\ rows[j].status = "pending"
        /\ rows' = Processing(rows, j) /\ UNCHANGED alive /\ alive
        /\ loop' = [loop EXCEPT ![w] = "running"] /\ loop[w] # "running"
    BY <1>16, <1>d DEF ClaimSweep, ClaimableSweeps, Live, Goto
  <2>2. /\ held'[w] = Snapshot(j)
        /\ \A v \in Workers \ {w} : held'[v] = held[v]
    BY <1>16, <1>a DEF ClaimSweep
  <2>3. held'[w].job = j /\ held'[w].retry = rows[j].retry
    BY <2>2 DEF Snapshot
  <2>4. rows[j].retry <= rows[j].retry /\ rows[j].retry <= MaxRetries
    BY Numbers DEF IInv, RetryBudget
  <2> QED
    BY <2>1, <2>2, <2>3, <2>4, ClaimKeeps DEF Normals
<1> QED
  BY <1>1, <1>2, <1>3, <1>4, <1>5, <1>6, <1>7, <1>8, <1>9, <1>10, <1>11,
     <1>12, <1>13, <1>14, <1>15, <1>16 DEF Step

(* Every operator request is quiet.                                        *)
LEMMA QuietOperate ==
  ASSUME TypeOK, Operate
  PROVE  Quiet(rows, rows')
<1>1. rows \in Table
  BY DEF TypeOK, Table
<1>2. Quiet(rows, rows)
  BY <1>1, QuietSame
<1>3. Failed(rows) \in SUBSET Rerunnable(rows)
  BY DEF Failed, Rerunnable
<1> QED
  BY <1>1, <1>2, <1>3, QuietBook, QuietBatch, QuietClear, QuietRequeue,
     QuietRetrySweeps
  DEF Operate, VerifyBook, StartAllSweeps, StartTarget, Stop, AutoRunOn,
      AutoRunOff, Rerun, RevalidateRead, RetryAllFailed, RetrySweeps

(* The steps that only run a quiet method.                                 *)
LEMMA InvElsewhere ==
  ASSUME IInv, TypeOK',
         \/ \E b \in Books : Publish(b) \/ Discover(b)
         \/ \E j \in Jobs : Elapse(j)
         \/ Operate \/ Continue
  PROVE  IInv'
<1>a. rows \in Table
  BY DEF IInv, TypeOK, Table
<1>b. Quiet(rows, rows)
  BY <1>a, QuietSame
<1>c. ASSUME Quiet(rows, rows'), UNCHANGED <<alive, loop, held>>
      PROVE  IInv'
  <2>1. \A w \in Workers :
          /\ Holding(w)' => Holding(w) /\ held'[w] = held[w]
          /\ loop'[w] = "running" <=> loop[w] = "running"
          /\ loop'[w] # "top" => alive
    BY <1>c DEF Holding, IInv, ClaimInv
  <2> QED
    BY <1>c, <2>1, QuietKeeps
<1>1. ASSUME NEW b \in Books, Publish(b) \/ Discover(b)
      PROVE  IInv'
  <2>1. Quiet(rows, rows')
    BY <1>a, <1>b, <1>1, QuietSync, QuietSuppress, QuietCreate, QuietArm,
       QuietRelease
    DEF Publish, Discover, DiscoverRead, DiscoverSync, DiscoverSuppress,
        DiscoverCreate, DiscoverNoZip, DiscoverArm, DiscoverRelease, ArmBook
  <2>2. UNCHANGED <<alive, loop, held>>
    BY <1>1
    DEF Publish, Discover, DiscoverRead, DiscoverSync, DiscoverSuppress,
        DiscoverCreate, DiscoverNoZip, DiscoverArm, DiscoverRelease
  <2> QED
    BY <1>c, <2>1, <2>2
<1>2. ASSUME NEW j \in Jobs, Elapse(j)
      PROVE  IInv'
  BY <1>2, <1>a, <1>c, QuietElapse DEF Elapse
<1>3. CASE Operate
  <2>1. Quiet(rows, rows')
    BY <1>3, QuietOperate DEF IInv
  <2>2. UNCHANGED <<alive, loop, held>>
    BY <1>3
    DEF Operate, VerifyBook, StartAllSweeps, StartTarget, Stop, AutoRunOn,
        AutoRunOff, Rerun, RevalidateRead, RetryAllFailed, RetrySweeps
  <2> QED
    BY <1>c, <2>1, <2>2
<1>4. CASE Continue
  <2>1. RevalidateWrite => reval \in Texts
    BY DEF RevalidateWrite, IInv, TypeOK
  <2>2. Quiet(rows, rows')
    BY <1>a, <1>b, <1>4, <2>1, QuietSuppress, QuietCreate, QuietArm,
       QuietRelease, QuietRevalidation
    DEF Continue, OperatorPlan, OperatorSuppress, OperatorCreate,
        OperatorNoZip, OperatorArm, OperatorRelease, RevalidateWrite
  <2>3. UNCHANGED <<alive, loop, held>>
    BY <1>4
    DEF Continue, OperatorPlan, OperatorSuppress, OperatorCreate,
        OperatorNoZip, OperatorArm, OperatorRelease, RevalidateWrite
  <2> QED
    BY <1>c, <2>2, <2>3
<1> QED
  BY <1>1, <1>2, <1>3, <1>4

(* A death empties all hands, and a restart finds no row being verified.   *)
LEMMA InvRestart ==
  ASSUME IInv, TypeOK', Crash \/ Restart
  PROVE  IInv'
<1> USE DEF IInv
<1>1. CASE Crash
  <2>1. /\ UNCHANGED rows /\ ~alive'
        /\ \A w \in Workers : loop'[w] = "top"
    BY <1>1 DEF Crash
  <2> QED
    BY <2>1 DEF NoDoubleRun, NoOrphanedRow, RetryBudget, ClaimInv, BudgetInv,
                Running, Holding
<1>2. CASE Restart
  <2>1. \A j \in Jobs : /\ rows'[j].status # "processing"
                        /\ rows'[j].retry = rows[j].retry
    BY <1>2, Recovery DEF Restart, TypeOK, Table
  <2>2. \A w \in Workers : loop'[w] = "top"
    BY <1>2 DEF Restart, ClaimInv
  <2> QED
    BY <1>2, <2>1, <2>2 DEF NoDoubleRun, NoOrphanedRow, RetryBudget, ClaimInv,
                            BudgetInv, Running, Holding, Restart
<1> QED
  BY <1>1, <1>2

(* Every step keeps the invariant, so that it is inductive.                *)
LEMMA InvNext == IInv /\ [Next]_vars => IInv'
<1> SUFFICES ASSUME IInv, [Next]_vars PROVE IInv'
  OBVIOUS
<1>1. TypeOK'
  BY TypeNext DEF IInv
<1>2. CASE UNCHANGED vars
  BY <1>2
  DEF vars, IInv, TypeOK, NoDoubleRun, NoOrphanedRow, RetryBudget, ClaimInv,
      BudgetInv, Running, Holding
<1> QED
  BY <1>1, <1>2, InvStep, InvElsewhere, InvRestart DEF Next

(* The invariant that carries the theorems below.                          *)
THEOREM Invariance == Spec => []IInv
  BY InvInit, InvNext, PTL DEF Spec

(* However many devices, books and rows there are, and whatever operators, *)
(* discovery and crashes do, two devices never verify one row together.    *)
THEOREM SingleRun == Spec => []NoDoubleRun
<1>1. IInv => NoDoubleRun
  BY DEF IInv
<1> QED
  BY <1>1, Invariance, PTL

(* A living process has a device at work on every row in 'processing'.     *)
THEOREM NoOrphan == Spec => []NoOrphanedRow
<1>1. IInv => NoOrphanedRow
  BY DEF IInv
<1> QED
  BY <1>1, Invariance, PTL

(* No row is retried more often than the configuration allows, although    *)
(* the decision uses a count read before the run.                          *)
THEOREM BudgetHolds == Spec => []RetryBudget
<1>1. IInv => RetryBudget
  BY DEF IInv
<1> QED
  BY <1>1, Invariance, PTL

---------------------------------------------------------------------------
(* Current routes, and results that stay.                                  *)

(* No normal row appears among the current ones, or leaves them.           *)
KeepsRoutes(old, new) ==
  \A j \in Normals : new[j].current = old[j].current

(* A completed row stays completed, or is requeued.                        *)
KeepsResults(old, new) ==
  \A j \in Jobs :
    old[j].status = "completed" /\ new[j].status # "completed" =>
      new[j].status = "pending" /\ new[j].auth /\ new[j].retry = 0

Keeps(old, new) == KeepsRoutes(old, new) /\ KeepsResults(old, new)

(* A write that leaves each row alone, or does one of these to it, keeps   *)
(* routes and results.                                                     *)
LEMMA KeepsRows ==
  ASSUME NEW t \in Table, NEW u,
         \A j \in Jobs :
           \/ u[j].status = t[j].status /\ u[j].current = t[j].current
           \/ u[j].status = t[j].status /\ j \in Sweeps
           \/ t[j].status = "absent" /\ j \in Sweeps
           \/ t[j].status # "completed" /\ u[j].current = t[j].current
           \/ /\ u[j].status = "pending" /\ u[j].auth /\ u[j].retry = 0
              /\ u[j].current = t[j].current
           \/ u[j].status = "completed" /\ u[j].current = t[j].current
  PROVE  Keeps(t, u)
<1>1. KeepsRoutes(t, u)
  BY DEF KeepsRoutes, Normals
<1>2. KeepsResults(t, u)
  BY DEF KeepsResults
<1> QED
  BY <1>1, <1>2 DEF Keeps

(* The methods that authorize and release rows.                            *)
LEMMA KeepsAuthorization ==
  ASSUME NEW t \in Table
  PROVE  /\ Keeps(t, t)
         /\ \A w : Keeps(t, ClearManual(t, w)) /\ Keeps(t, StartManualBatch(t, w))
         /\ \A S : Keeps(t, ArmSweeps(t, S)) /\ Keeps(t, ReleaseReady(t, S))
         /\ \A b : Keeps(t, StartManualBook(t, b))
<1> DEFINE Only(r, s) == s.status = r.status /\ s.current = r.current
<1>1. \A j \in Jobs : t[j] \in RowType
  BY DEF Table
<1>2. ASSUME NEW r \in RowType
      PROVE  /\ Only(r, r)
             /\ Only(r, [r EXCEPT !.auth = FALSE, !.armed = FALSE])
             /\ Only(r, [r EXCEPT !.auth = TRUE, !.armed = FALSE])
             /\ Only(r, [r EXCEPT !.auth = FALSE, !.armed = TRUE])
             /\ Only(r, [r EXCEPT !.auth = FALSE, !.armed = TRUE, !.due = TRUE])
             /\ Only(r, [r EXCEPT !.auth = TRUE, !.armed = FALSE, !.due = TRUE])
  BY DEF RowType
<1> HIDE DEF Only
<1>3. \A j \in Jobs : Only(t[j], t[j])
  BY <1>1, <1>2
<1>4. \A w : \A j \in Jobs : Only(t[j], ClearManual(t, w)[j])
  BY <1>1, <1>2 DEF ClearManual
<1>5. \A w : \A j \in Jobs : Only(t[j], StartManualBatch(t, w)[j])
  BY <1>1, <1>2 DEF StartManualBatch
<1>6. \A R : \A j \in Jobs : Only(t[j], ArmSweeps(t, R)[j])
  BY <1>1, <1>2 DEF ArmSweeps
<1>7. \A b : \A j \in Jobs : Only(t[j], StartManualBook(t, b)[j])
  BY <1>1, <1>2, <1>6 DEF StartManualBook, ArmBook
<1>8. \A S : \A j \in Jobs : Only(t[j], ReleaseReady(t, S)[j])
  BY <1>1, <1>2 DEF ReleaseReady
<1>9. ASSUME NEW u, \A j \in Jobs : Only(t[j], u[j]) PROVE Keeps(t, u)
  BY <1>9, KeepsRows DEF Only
<1> QED
  BY <1>3, <1>4, <1>5, <1>6, <1>7, <1>8, <1>9

(* The methods that insert and supersede sweeps.                           *)
LEMMA KeepsSweeps ==
  ASSUME NEW t \in Table, NEW b, NEW c \in SUBSET Sweeps
  PROVE  Keeps(t, SuppressOverlapping(t, b, c)) /\ \A g : Keeps(t, CreateSweeps(t, b, g, c))
<1>1. \A j \in Jobs : t[j] \in RowType
  BY DEF Table
<1>2. Keeps(t, SuppressOverlapping(t, b, c))
  <2> DEFINE u == SuppressOverlapping(t, b, c)
  <2>1. \A j \in Jobs : u[j] = t[j] \/ (u[j].status = t[j].status /\ j \in Sweeps)
    BY <1>1 DEF SuppressOverlapping, RowType
  <2> HIDE DEF u
  <2>2. Keeps(t, u)
    BY <2>1, KeepsRows
  <2> QED
    BY <2>2 DEF u
<1>3. ASSUME NEW g PROVE Keeps(t, CreateSweeps(t, b, g, c))
  <2> DEFINE u == CreateSweeps(t, b, g, c)
  <2>1. \A j \in Jobs : u[j] = t[j] \/ (t[j].status = "absent" /\ j \in Sweeps)
    BY DEF CreateSweeps, SweepsOf
  <2> HIDE DEF u
  <2>2. Keeps(t, u)
    BY <2>1, KeepsRows
  <2> QED
    BY <2>2 DEF u
<1> QED
  BY <1>2, <1>3

(* The methods that requeue rows.                                          *)
LEMMA KeepsRequeue ==
  ASSUME NEW t \in Table
  PROVE  /\ \A S : Keeps(t, Requeue(t, S))
         /\ Keeps(t, RetryFailedSweeps(t)) /\ Keeps(t, RecoverInterrupted(t))
<1>1. \A j \in Jobs : t[j] \in RowType
  BY DEF Table
<1>2. ASSUME NEW S PROVE Keeps(t, Requeue(t, S))
  <2> DEFINE u == Requeue(t, S)
  <2>1. \A j \in Jobs :
          \/ u[j] = t[j]
          \/ /\ u[j].status = "pending" /\ u[j].auth /\ u[j].retry = 0
             /\ u[j].current = t[j].current
    BY <1>1 DEF Requeue, RowType
  <2> HIDE DEF u
  <2>2. Keeps(t, u)
    BY <2>1, KeepsRows
  <2> QED
    BY <2>2 DEF u
<1>3. Keeps(t, RetryFailedSweeps(t))
  <2> DEFINE u == RetryFailedSweeps(t)
  <2>1. \A j \in Jobs :
          u[j] = t[j] \/ (t[j].status # "completed" /\ u[j].current = t[j].current)
    BY <1>1 DEF RetryFailedSweeps, Failed, RowType
  <2> HIDE DEF u
  <2>2. Keeps(t, u)
    BY <2>1, KeepsRows
  <2> QED
    BY <2>2 DEF u
<1>4. Keeps(t, RecoverInterrupted(t))
  <2> DEFINE u == RecoverInterrupted(t)
  <2>1. \A j \in Jobs :
          u[j] = t[j] \/ (t[j].status # "completed" /\ u[j].current = t[j].current)
    BY <1>1 DEF RecoverInterrupted, RowType
  <2> HIDE DEF u
  <2>2. Keeps(t, u)
    BY <2>1, KeepsRows
  <2> QED
    BY <2>2 DEF u
<1> QED
  BY <1>2, <1>3, <1>4

(* Claims and outcomes change one row, and leave it among the current ones *)
(* or out of them; only an outcome takes a result back.                    *)
LEMMA KeepsOthers ==
  ASSUME NEW t \in Table, NEW i \in Jobs
  PROVE  /\ t[i].status = "pending" => Keeps(t, Processing(t, i))
         /\ Keeps(t, MarkCompleted(t, i))
         /\ Keeps(t, [t EXCEPT ![i].due = TRUE])
         /\ \A u \in {MarkDeferred(t, i), MarkRetryable(t, i), MarkFailed(t, i)} :
              /\ KeepsRoutes(t, u)
              /\ \A j \in Jobs \ {i} : u[j] = t[j]
<1> DEFINE One(u) == /\ u[i].current = t[i].current
                     /\ \A j \in Jobs \ {i} : u[j] = t[j]
<1>1. t[i] \in RowType
  BY DEF Table
<1>2. One(Processing(t, i))
  BY <1>1 DEF Processing, Table, RowType
<1>3. One(MarkCompleted(t, i)) /\ MarkCompleted(t, i)[i].status = "completed"
  BY <1>1 DEF MarkCompleted, Table, RowType
<1>4. One([t EXCEPT ![i].due = TRUE]) /\ [t EXCEPT ![i].due = TRUE][i].status = t[i].status
  BY <1>1 DEF Table, RowType
<1>5. One(MarkDeferred(t, i)) /\ One(MarkRetryable(t, i)) /\ One(MarkFailed(t, i))
  BY <1>1 DEF MarkDeferred, MarkRetryable, MarkFailed, Table, RowType
<1> HIDE DEF One
<1>6. ASSUME NEW u, One(u)
      PROVE  /\ KeepsRoutes(t, u)
             /\ t[i].status # "completed" \/ u[i].status \in {"completed", t[i].status}
                  => Keeps(t, u)
  <2>1. KeepsRoutes(t, u)
    BY <1>6 DEF One, KeepsRoutes, Normals
  <2>2. t[i].status # "completed" \/ u[i].status \in {"completed", t[i].status}
          => KeepsResults(t, u)
    BY <1>6 DEF One, KeepsResults
  <2> QED
    BY <2>1, <2>2 DEF Keeps
<1>7. t[i].status = "pending" => Keeps(t, Processing(t, i))
  BY <1>2, <1>6
<1>8. Keeps(t, MarkCompleted(t, i))
  BY <1>3, <1>6
<1>9. Keeps(t, [t EXCEPT ![i].due = TRUE])
  BY <1>4, <1>6
<1> QED
  BY <1>5, <1>6, <1>7, <1>8, <1>9 DEF One

(* The steps of discovery but its first write keep routes and results.     *)
LEMMA KeepsDiscovery ==
  ASSUME TypeOK, NEW b \in Books,
         \/ Publish(b)          \/ DiscoverRead(b)  \/ DiscoverSuppress(b)
         \/ DiscoverCreate(b)   \/ DiscoverNoZip(b) \/ DiscoverArm(b)
         \/ DiscoverRelease(b)
  PROVE  Keeps(rows, rows')
<1>1. rows \in Table /\ disc.covered \in SUBSET Sweeps
  BY DEF TypeOK, Table, TaskType
<1>2. /\ Keeps(rows, SuppressOverlapping(rows, b, disc.covered))
      /\ Keeps(rows, CreateSweeps(rows, b, disc.gen, disc.covered))
  BY <1>1, KeepsSweeps
<1> QED
  BY <1>1, <1>2, KeepsAuthorization
  DEF Publish, DiscoverRead, DiscoverSuppress, DiscoverCreate, DiscoverNoZip,
      DiscoverArm, DiscoverRelease, ArmBook

(* So do the operator, a retry delay, a death and a restart.               *)
LEMMA KeepsElsewhere ==
  ASSUME TypeOK,
         Operate \/ Continue \/ Crash \/ Restart \/ \E j \in Jobs : Elapse(j)
  PROVE  Keeps(rows, rows')
<1>1. rows \in Table /\ op.covered \in SUBSET Sweeps
  BY DEF TypeOK, Table, TaskType
<1>2. CASE Operate
  BY <1>1, <1>2, KeepsAuthorization, KeepsRequeue
  DEF Operate, VerifyBook, StartAllSweeps, StartTarget, Stop, AutoRunOn,
      AutoRunOff, Rerun, RevalidateRead, RetryAllFailed, RetrySweeps
<1>3. CASE Continue
  <2>1. RevalidateWrite => reval \in Jobs
    BY QueueAssumption DEF RevalidateWrite, TypeOK, Normals
  <2>2. \A b \in Books : /\ Keeps(rows, SuppressOverlapping(rows, b, op.covered))
                         /\ Keeps(rows, CreateSweeps(rows, b, op.gen, op.covered))
    BY <1>1, KeepsSweeps
  <2>3. RevalidateWrite => Keeps(rows, rows')
    BY <1>1, <2>1, KeepsOthers DEF RevalidateWrite
  <2> QED
    BY <1>1, <1>3, <2>2, <2>3, KeepsAuthorization
    DEF Continue, OperatorPlan, OperatorSuppress, OperatorCreate,
        OperatorNoZip, OperatorArm, OperatorRelease
<1>4. CASE Crash \/ Restart
  BY <1>1, <1>4, KeepsAuthorization, KeepsRequeue DEF Crash, Restart
<1>5. CASE \E j \in Jobs : Elapse(j)
  BY <1>1, <1>5, KeepsOthers DEF Elapse
<1> QED
  BY <1>2, <1>3, <1>4, <1>5

(* A device loop keeps the routes, and every result but that of its run.   *)
LEMMA KeepsStep ==
  ASSUME TypeOK, NEW w \in Workers, Step(w)
  PROVE  \/ Keeps(rows, rows')
         \/ /\ loop[w] = "running" /\ KeepsRoutes(rows, rows')
            /\ \A j \in Jobs \ {held[w].job} : rows'[j] = rows[j]
<1>1. rows \in Table
  BY DEF TypeOK, Table
<1>2. Holding(w) \/ loop[w] = "done" => held[w].job \in Jobs
  BY DEF TypeOK
<1>3. CASE ClaimNormal(w) \/ Finish(w)
  BY <1>1, <1>2, <1>3, KeepsOthers DEF ClaimNormal, Finish, Holding
<1>4. CASE Defer(w) \/ RetryOrFail(w) \/ FailForGood(w)
  <2>1. loop[w] = "running" /\ held[w].job \in Jobs
    BY <1>2, <1>4 DEF Defer, RetryOrFail, FailForGood, Holding
  <2>2. rows' \in {MarkDeferred(rows, held[w].job), MarkRetryable(rows, held[w].job),
                   MarkFailed(rows, held[w].job)}
    BY <1>4 DEF Defer, RetryOrFail, FailForGood
  <2> QED
    BY <1>1, <2>1, <2>2, KeepsOthers
<1>5. CASE ArmOnStart(w) \/ ReleasePool(w) \/ Housekeeping(w)
  BY <1>1, <1>5, KeepsAuthorization
  DEF ArmOnStart, ArmBook, ReleasePool, Housekeeping
<1>6. ASSUME NEW j \in Jobs, ClaimSweep(w, j)
      PROVE  Keeps(rows, rows')
  BY <1>1, <1>6, KeepsOthers DEF ClaimSweep, ClaimableSweeps, Live
<1>7. CASE \/ LoopTop(w)    \/ NoNormal(w)   \/ LoseClaim(w)
           \/ SetupFails(w) \/ PoolClosed(w) \/ NothingToClaim(w)
           \/ \E j \in Jobs : PickNormal(w, j)
  BY <1>1, <1>7, KeepsAuthorization
  DEF LoopTop, NoNormal, LoseClaim, SetupFails, PoolClosed, NothingToClaim,
      PickNormal
<1> QED
  BY <1>3, <1>4, <1>5, <1>6, <1>7 DEF Step

(* After its first write, discovery has exactly the routes it read.        *)
RoutesAre(t, b, g) ==
  \A j \in Normals : BookOf[j] = b => (t[j].current <=> GenOf[j] = g)

LEMMA SyncedRoutes ==
  ASSUME NEW t \in Table, NEW b \in Books, NEW g
  PROVE  RoutesAre(SyncRoutes(t, b, g), b, g) /\ KeepsResults(t, SyncRoutes(t, b, g))
<1> DEFINE u == SyncRoutes(t, b, g)
<1>1. ASSUME NEW j \in Jobs
      PROVE  /\ BookOf[j] = b /\ GenOf[j] # g => ~u[j].current
             /\ j \in NormalsOf(b, g) => u[j].current
             /\ t[j].status = "completed" => u[j].status = "completed"
  <2>1. t[j] \in RowType
    BY DEF Table
  <2>2. Fresh.current
    BY DEF Fresh, Absent
  <2>3. /\ ~[t[j] EXCEPT !.current = FALSE].current
        /\ [t[j] EXCEPT !.current = TRUE].current
        /\ [t[j] EXCEPT !.current = FALSE].status = t[j].status
        /\ [t[j] EXCEPT !.current = TRUE].status = t[j].status
    BY <2>1 DEF RowType
  <2>4. j \in NormalsOf(b, g) => BookOf[j] = b /\ GenOf[j] = g
    BY DEF NormalsOf
  <2> QED
    BY <2>2, <2>3, <2>4 DEF SyncRoutes
<1> HIDE DEF u
<1>2. RoutesAre(u, b, g)
  BY <1>1 DEF RoutesAre, NormalsOf, Normals
<1>3. KeepsResults(t, u)
  BY <1>1 DEF KeepsResults
<1> QED
  BY <1>2, <1>3 DEF u

(* Who keeps the routes keeps what discovery knows of them.                *)
LEMMA RoutesKept ==
  ASSUME NEW t, NEW u, KeepsRoutes(t, u), NEW b, NEW g
  PROVE  RoutesAre(t, b, g) <=> RoutesAre(u, b, g)
  BY DEF KeepsRoutes, RoutesAre

(* What discovery knows while it is at work, and remembers afterwards: the *)
(* signature is older than the routes it reads, which are not newer than   *)
(* the file, and from its first write on these are the current ones.       *)
RouteInv ==
  /\ \A b \in Books : synced[b] <= file[b]
  /\ disc.pc # "idle" =>
       \E b \in Books : disc.books = {b} /\ synced[b] < disc.gen /\ disc.gen <= file[b]
  /\ disc.pc \notin {"idle", "sync"} =>
       \A b \in disc.books : RoutesAre(rows, b, disc.gen)
  /\ \A b \in Books :
       synced[b] = file[b] /\ file[b] # 0 => RoutesAre(rows, b, file[b])

(* Whoever leaves discovery and the files alone, and keeps the routes,     *)
(* keeps the invariant.                                                    *)
LEMMA RouteInvKept ==
  ASSUME RouteInv, KeepsRoutes(rows, rows'), UNCHANGED <<file, synced, disc>>
  PROVE  RouteInv'
  BY RoutesKept DEF RouteInv

(* The last step of a discovery remembers the generation it has read.      *)
LEMMA RouteInvDiscovered ==
  ASSUME TypeOK, RouteInv, KeepsRoutes(rows, rows'), NEW b \in Books, b \in disc.books,
         disc.pc \notin {"idle", "sync"}, Discovered(b), UNCHANGED file
  PROVE  RouteInv'
<1>1. synced \in [Books -> Nat] /\ file \in [Books -> Nat] /\ disc.gen \in Nat
  BY QueueAssumption DEF TypeOK, TaskType
<1>2. disc.gen <= file[b] /\ RoutesAre(rows', b, disc.gen)
  BY RoutesKept DEF RouteInv
<1>3. disc'.pc = "idle"
  BY DEF Discovered, Idle, Task
<1>4. synced' = [synced EXCEPT ![b] = disc.gen]
  BY DEF Discovered
<1>5. \A c \in Books : synced'[c] <= file'[c]
  BY <1>1, <1>2, <1>4 DEF RouteInv
<1>6. ASSUME NEW c \in Books, synced'[c] = file'[c], file'[c] # 0
      PROVE  RoutesAre(rows', c, file'[c])
  <2>1. CASE c = b
    BY <1>1, <1>2, <1>4, <1>6, <2>1
  <2>2. CASE c # b
    BY <1>1, <1>4, <1>6, <2>2, RoutesKept DEF RouteInv
  <2> QED
    BY <2>1, <2>2
<1> QED
  BY <1>3, <1>5, <1>6 DEF RouteInv

(* Discovery, beside a publication of newer routes, keeps it.              *)
LEMMA RouteInvDiscover ==
  ASSUME TypeOK, RouteInv, NEW b \in Books, Publish(b) \/ Discover(b)
  PROVE  RouteInv'
<1>1. synced \in [Books -> Nat] /\ file \in [Books -> Nat] /\ disc.gen \in Nat
  BY QueueAssumption DEF TypeOK, TaskType
<1>2. rows \in Table
  BY DEF TypeOK, Table
<1>3. CASE Publish(b)
  <2>1. file' = [file EXCEPT ![b] = file[b] + 1] /\ UNCHANGED <<rows, synced, disc>>
    BY <1>3 DEF Publish
  <2>2. \A c \in Books : file[c] <= file'[c] /\ (c # b => file'[c] = file[c])
    BY <1>1, <2>1
  <2>3. synced'[b] # file'[b]
    BY <1>1, <2>1 DEF RouteInv
  <2>4. \A c \in Books : synced'[c] <= file'[c]
    BY <1>1, <2>1, <2>2 DEF RouteInv
  <2>5. ASSUME NEW c \in Books, disc.books = {c}, synced[c] < disc.gen, disc.gen <= file[c]
        PROVE  disc.gen <= file'[c]
    BY <1>1, <2>1, <2>5
  <2> QED
    BY <2>1, <2>2, <2>3, <2>4, <2>5 DEF RouteInv
<1>4. CASE DiscoverRead(b)
  <2>1. /\ disc' = Task("sync", {b}, file[b]) /\ UNCHANGED <<rows, file, synced>>
        /\ file[b] # synced[b]
    BY <1>4 DEF DiscoverRead
  <2>2. disc'.pc = "sync" /\ disc'.books = {b} /\ disc'.gen = file[b]
    BY <2>1 DEF Task
  <2>3. synced[b] < file[b]
    BY <1>1, <2>1 DEF RouteInv
  <2> QED
    BY <1>1, <2>1, <2>2, <2>3 DEF RouteInv
<1>5. CASE DiscoverSync(b)
  <2>1. /\ disc.pc = "sync" /\ b \in disc.books
        /\ rows' = SyncRoutes(rows, b, disc.gen)
        /\ UNCHANGED <<file, synced>>
    BY <1>5 DEF DiscoverSync
  <2>2. disc'.pc = "suppress" /\ disc'.books = disc.books /\ disc'.gen = disc.gen
    BY <1>5 DEF DiscoverSync, TypeOK, TaskType
  <2>3. disc.books = {b} /\ synced[b] < disc.gen /\ disc.gen <= file[b]
    BY <2>1 DEF RouteInv
  <2>4. RoutesAre(rows', b, disc.gen)
    BY <1>2, <2>1, SyncedRoutes
  <2>5. ASSUME NEW c \in Books, synced[c] = file[c], file[c] # 0
        PROVE  RoutesAre(rows', c, file[c])
    <3>1. c # b
      BY <1>1, <2>3, <2>5
    <3>2. \A j \in Normals : BookOf[j] = c => rows'[j] = rows[j]
      BY <2>1, <3>1 DEF SyncRoutes, NormalsOf, Normals
    <3> QED
      BY <2>5, <3>2 DEF RouteInv, RoutesAre
  <2> QED
    BY <2>1, <2>2, <2>3, <2>4, <2>5 DEF RouteInv
<1>6. CASE \/ DiscoverSuppress(b) \/ DiscoverCreate(b) \/ DiscoverNoZip(b)
           \/ DiscoverArm(b)      \/ DiscoverRelease(b)
  <2>1. KeepsRoutes(rows, rows')
    BY <1>6, KeepsDiscovery DEF Keeps
  <2>2. disc.pc \notin {"idle", "sync"} /\ b \in disc.books /\ UNCHANGED file
    BY <1>6 DEF DiscoverSuppress, DiscoverCreate, DiscoverNoZip, DiscoverArm,
                DiscoverRelease
  <2>3. \/ Discovered(b)
        \/ \E pc \in {"create", "arm", "release"} :
             disc' = [disc EXCEPT !.pc = pc] /\ UNCHANGED synced
    BY <1>6 DEF DiscoverSuppress, DiscoverCreate, DiscoverNoZip, DiscoverArm,
                DiscoverRelease, AfterSweepsPrepared
  <2>4. CASE Discovered(b)
    BY <2>1, <2>2, <2>4, RouteInvDiscovered
  <2>5. CASE \E pc \in {"create", "arm", "release"} :
               disc' = [disc EXCEPT !.pc = pc] /\ UNCHANGED synced
    <3>1. /\ disc'.pc \in {"create", "arm", "release"} /\ UNCHANGED synced
          /\ disc'.books = disc.books /\ disc'.gen = disc.gen
      BY <2>5 DEF TypeOK, TaskType
    <3> QED
      BY <2>1, <2>2, <3>1, RoutesKept DEF RouteInv
  <2> QED
    BY <2>3, <2>4, <2>5
<1> QED
  BY <1>3, <1>4, <1>5, <1>6 DEF Discover

(* Every step keeps it.                                                    *)
LEMMA RouteInvNext == TypeOK /\ RouteInv /\ [Next]_vars => RouteInv'
<1> SUFFICES ASSUME TypeOK, RouteInv, [Next]_vars PROVE RouteInv'
  OBVIOUS
<1>1. CASE \E b \in Books : Publish(b) \/ Discover(b)
  BY <1>1, RouteInvDiscover
<1>2. ASSUME NEW w \in Workers, Step(w)
      PROVE  RouteInv'
  <2>1. KeepsRoutes(rows, rows')
    BY <1>2, KeepsStep DEF Keeps
  <2>2. UNCHANGED <<file, synced, disc>>
    BY <1>2
    DEF Step, LoopTop, NoNormal, ArmOnStart, ClaimNormal, LoseClaim, SetupFails,
        ReleasePool, PoolClosed, NothingToClaim, Finish, Defer, RetryOrFail,
        FailForGood, Housekeeping, PickNormal, ClaimSweep
  <2> QED
    BY <2>1, <2>2, RouteInvKept
<1>3. CASE Operate \/ Continue \/ Restart \/ \E j \in Jobs : Elapse(j)
  <2>1. KeepsRoutes(rows, rows')
    BY <1>3, KeepsElsewhere DEF Keeps
  <2>2. UNCHANGED <<file, synced, disc>>
    BY <1>3
    DEF Operate, VerifyBook, StartAllSweeps, StartTarget, Stop, AutoRunOn,
        AutoRunOff, Rerun, RevalidateRead, RetryAllFailed, RetrySweeps,
        Continue, OperatorPlan, OperatorSuppress, OperatorCreate,
        OperatorNoZip, OperatorArm, OperatorRelease, RevalidateWrite,
        Restart, Elapse
  <2> QED
    BY <2>1, <2>2, RouteInvKept
<1>4. CASE Crash
  <2>1. /\ synced' = [b \in Books |-> 0] /\ disc'.pc = "idle"
        /\ UNCHANGED <<rows, file>>
    BY <1>4 DEF Crash, Idle, Task
  <2>2. \A b \in Books : file[b] \in Nat
    BY QueueAssumption DEF TypeOK
  <2> QED
    BY <2>1, <2>2 DEF RouteInv
<1>5. CASE UNCHANGED vars
  BY <1>5, RouteInvKept DEF vars, KeepsRoutes
<1> QED
  BY <1>1, <1>2, <1>3, <1>4, <1>5 DEF Next

(* Once discovery is done with the newest routes of a book, exactly the    *)
(* normal rows of these routes are current, whatever devices and operators *)
(* did to the rows meanwhile.                                              *)
THEOREM RoutesCurrent == Spec => []DiscoveredRoutesAreCurrent
<1>1. Init => RouteInv
  BY DEF Init, RouteInv, Idle, Task
<1>2. RouteInv => DiscoveredRoutesAreCurrent
  BY DEF RouteInv, RoutesAre, DiscoveredRoutesAreCurrent, NormalsOf
<1> QED
  BY <1>1, <1>2, RouteInvNext, TypeCorrect, PTL DEF Spec

(* A stored result ends only in the hands of a device that runs the row    *)
(* again, or by a requeue of the operator.                                 *)
THEOREM ResultsStay == Spec => CompletedStays
<1> DEFINE Stays ==
      \A j \in Jobs :
        /\ rows[j].status = "completed" /\ rows'[j].status # "completed"
        /\ \A w \in Workers : ~Running(w, j)
        => rows'[j].status = "pending" /\ rows'[j].auth /\ rows'[j].retry = 0
<1>1. ASSUME TypeOK, [Next]_vars PROVE Stays
  <2>1. CASE KeepsResults(rows, rows')
    BY <2>1 DEF KeepsResults
  <2>2. ASSUME NEW b \in Books, Publish(b) \/ Discover(b)
        PROVE  KeepsResults(rows, rows')
    <3>1. CASE DiscoverSync(b)
      BY <1>1, <3>1, SyncedRoutes DEF DiscoverSync, TypeOK, Table
    <3> QED
      BY <1>1, <2>2, <3>1, KeepsDiscovery DEF Discover, Keeps
  <2>3. ASSUME NEW w \in Workers, Step(w)
        PROVE  Stays
    <3>1. CASE Keeps(rows, rows')
      BY <2>1, <3>1 DEF Keeps
    <3>2. CASE loop[w] = "running" /\ \A j \in Jobs \ {held[w].job} : rows'[j] = rows[j]
      BY <3>2 DEF Running
    <3> QED
      BY <1>1, <2>3, <3>1, <3>2, KeepsStep
  <2>4. CASE Operate \/ Continue \/ Crash \/ Restart \/ \E j \in Jobs : Elapse(j)
    BY <1>1, <2>1, <2>4, KeepsElsewhere DEF Keeps
  <2>5. CASE UNCHANGED vars
    BY <2>1, <2>5 DEF vars, KeepsResults
  <2> QED
    BY <1>1, <2>1, <2>2, <2>3, <2>4, <2>5 DEF Next
<1> HIDE DEF Stays
<1>2. TypeOK /\ [Next]_vars => [Stays]_vars
  BY <1>1
<1>3. Spec => [][Stays]_vars
  BY <1>2, TypeCorrect, PTL DEF Spec
<1> QED
  BY <1>3 DEF CompletedStays, Stays

(* Only a device loop puts a row that waits to work.                       *)
LEMMA OnlyStepsClaim ==
  ASSUME IInv, [Next]_vars, NEW j \in Jobs, rows[j].status # "processing",
         rows'[j].status = "processing"
  PROVE  \E w \in Workers : Step(w)
<1>a. rows \in Table
  BY DEF IInv, TypeOK, Table
<1>b. ~Quiet(rows, rows')
  BY DEF Quiet
<1>1. \A b \in Books : ~Publish(b) /\ ~Discover(b)
  BY <1>a, <1>b, QuietSame, QuietSync, QuietSuppress, QuietCreate, QuietArm,
     QuietRelease
  DEF Publish, Discover, DiscoverRead, DiscoverSync, DiscoverSuppress,
      DiscoverCreate, DiscoverNoZip, DiscoverArm, DiscoverRelease, ArmBook
<1>2. \A i \in Jobs : ~Elapse(i)
  BY <1>a, <1>b, QuietElapse DEF Elapse
<1>3. ~Operate
  BY <1>b, QuietOperate DEF IInv
<1>4. ~Continue
  <2>1. RevalidateWrite => reval \in Texts
    BY DEF RevalidateWrite, IInv, TypeOK
  <2> QED
    BY <1>a, <1>b, <2>1, QuietSame, QuietSuppress, QuietCreate, QuietArm,
       QuietRelease, QuietRevalidation
    DEF Continue, OperatorPlan, OperatorSuppress, OperatorCreate,
        OperatorNoZip, OperatorArm, OperatorRelease, RevalidateWrite
<1>5. ~Crash /\ ~Restart /\ ~UNCHANGED vars
  BY <1>a, Recovery DEF Crash, Restart, vars
<1> QED
  BY <1>b, <1>1, <1>2, <1>3, <1>4, <1>5 DEF Next

(* Whoever authorized a sweep, and whenever, a device takes it only when   *)
(* all current normal rows of its book are completed.                      *)
THEOREM SweepsWait == Spec => SweepAfterNormals
<1> DEFINE Waits ==
      \A j \in Sweeps :
        rows[j].status # "processing" /\ rows'[j].status = "processing" =>
          \A n \in Normals : BookOf[n] = BookOf[j] /\ rows[n].current =>
                                rows[n].status = "completed"
<1>1. ASSUME IInv, [Next]_vars PROVE Waits
  <2> SUFFICES ASSUME NEW j \in Sweeps, rows[j].status # "processing",
                      rows'[j].status = "processing"
               PROVE  \A n \in Normals : BookOf[n] = BookOf[j] /\ rows[n].current =>
                                              rows[n].status = "completed"
    BY DEF Waits
  <2>1. rows \in Table /\ j \in Jobs /\ j \notin Normals
    BY <1>1, StoreAssumption DEF IInv, TypeOK, Table, Normals
  <2>2. ~Quiet(rows, rows')
    BY <2>1 DEF Quiet
  <2>3. PICK w \in Workers : Step(w)
    BY <1>1, <2>1, <2>2, OnlyStepsClaim
  <2>4. \A i \in Jobs : Holding(w) \/ loop[w] = "done" => held[w].job \in Jobs
    BY <1>1 DEF IInv, TypeOK
  <2>5. CASE \E i \in Jobs : ClaimSweep(w, i)
    <3>1. PICK i \in Jobs : i \in ClaimableSweeps(rows) /\ rows' = Processing(rows, i)
      BY <2>5 DEF ClaimSweep
    <3>2. i = j
      BY <2>1, <3>1, Claim
    <3> QED
      BY <3>1, <3>2 DEF ClaimableSweeps, Blockers
  <2>6. CASE ClaimNormal(w)
    <3>1. held[w].job \in Normals /\ held[w].job \in Jobs
      BY <1>1, <2>6 DEF ClaimNormal, IInv, ClaimInv, Normals
    <3>2. rows'[j] = rows[j]
      BY <2>1, <2>6, <3>1, Claim DEF ClaimNormal
    <3> QED
      BY <3>2
  <2>7. CASE Finish(w) \/ Defer(w) \/ RetryOrFail(w) \/ FailForGood(w)
    <3>1. held[w].job \in Jobs
      BY <2>4, <2>1, <2>7 DEF Finish, Defer, RetryOrFail, FailForGood, Holding
    <3>2. Outcome(rows, rows', held[w].job)
      BY <2>1, <2>7, <3>1, Outcomes DEF Finish, Defer, RetryOrFail, FailForGood
    <3> QED
      BY <2>1, <3>1, <3>2 DEF Outcome
  <2>8. ~(ArmOnStart(w) \/ ReleasePool(w) \/ Housekeeping(w))
    BY <2>1, <2>2, QuietSame, QuietArm, QuietRelease
    DEF ArmOnStart, ArmBook, ReleasePool, Housekeeping
  <2>9. rows' # rows
    OBVIOUS
  <2> QED
    BY <2>3, <2>5, <2>6, <2>7, <2>8, <2>9
    DEF Step, LoopTop, NoNormal, LoseClaim, SetupFails, PoolClosed,
        NothingToClaim, PickNormal
<1> HIDE DEF Waits
<1>2. IInv /\ [Next]_vars => [Waits]_vars
  BY <1>1
<1>3. Spec => [][Waits]_vars
  BY <1>2, Invariance, PTL DEF Spec
<1> QED
  BY <1>3 DEF SweepAfterNormals, Waits
===========================================================================

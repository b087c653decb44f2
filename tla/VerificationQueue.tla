------------------------- MODULE VerificationQueue -------------------------
(***************************************************************************)
(* Stage 2B of the pipeline: the route discovery task, the device loops of *)
(* app/stage2b.py (Stage2BWorker), and the operator requests of            *)
(* app/main.py that share the table of VerificationStore with them.        *)
(*                                                                         *)
(* Everything runs in one asyncio event loop, so a task is interrupted     *)
(* only where it awaits.  A step of this module is what a task does        *)
(* between two awaits on the store; the program counters loop, disc and op *)
(* record where each of them is waiting.  held is the row a device loop    *)
(* read from the store earlier, which may no longer be what the table      *)
(* says.  A process that dies (Crash) keeps the table, the configuration   *)
(* file and the published routes, and loses everything else.               *)
(***************************************************************************)
EXTENDS VerificationStore

CONSTANTS
  Texts,       \* normal rows the saved-result revalidation may rewrite
  Legacy,      \* sweep rows an older release left in the database
  NoJob,       \* "no row"
  MaxGen,      \* bound: generations of routes.json
  MaxOps,      \* bound: operator requests
  MaxCrashes   \* bound: process deaths

ASSUME QueueAssumption ==
  /\ Texts \subseteq Normals
  /\ Legacy \subseteq Sweeps
  /\ NoJob \notin Jobs
  /\ MaxGen \in Nat /\ MaxOps \in Nat /\ MaxCrashes \in Nat
  /\ \A j \in Jobs : GenOf[j] \in 1 .. MaxGen

VARIABLES
  rows,     \* the table
  auto,     \* stage2b_<target>_auto_run, in the configuration file
  paused,   \* stage2b_<target>_paused, in the configuration file
  file,     \* the generation of routes.json in the result directory, 0: none
  alive,    \* the process runs
  synced,   \* _route_sync_signatures: the generation discovery saw last
  disc,     \* where sync_routes_once is
  loop,     \* where each _device_loop is
  held,     \* the row snapshot each _device_loop works with
  op,       \* where the operator request in flight is
  reval,    \* the completed row revalidate_saved_pi5_results has read
  ops,      \* operator requests so far
  crashes   \* process deaths so far

config == <<auto, paused>>
bounds == <<ops, crashes>>
vars   == <<rows, auto, paused, file, alive, synced, disc, loop, held, op,
            reval, ops, crashes>>

LoopPc == {"top", "gate", "picked", "armed", "running", "done", "pool",
           "claim"}
DiscPc == {"idle", "sync", "suppress", "create", "arm", "release"}
OpPc   == {"idle", "prepare", "suppress", "create", "lanes", "release"}

(* A task with its progress, the books it is about, and what it has read:  *)
(* a generation of routes, and the sweeps that normal routes cover.        *)
Task(pc, S, g)  == [pc |-> pc, books |-> S, gen |-> g, covered |-> {}]
TaskType(pcs)   == [pc : pcs, books : SUBSET Books, gen : 0 .. MaxGen,
                    covered : SUBSET Sweeps]

Idle    == Task("idle", {}, 0)
Nothing == [job |-> NoJob, retry |-> 0]

(* The program counters in which a device loop has a row in its hands.     *)
Holding(w)    == loop[w] \in {"picked", "armed", "running"}
Running(w, j) == loop[w] = "running" /\ held[w].job = j

Init ==
  /\ \E started \in BOOLEAN :
       rows = [j \in Jobs |-> IF j \in Legacy
                                THEN [Fresh EXCEPT !.auth = started]
                                ELSE Absent]
  /\ auto = [w \in Workers |-> FALSE]
  /\ paused = [w \in Workers |-> FALSE]
  /\ file = [b \in Books |-> 0]
  /\ alive = TRUE
  /\ synced = [b \in Books |-> 0]
  /\ disc = Idle /\ op = Idle /\ reval = NoJob
  /\ loop = [w \in Workers |-> "top"]
  /\ held = [w \in Workers |-> Nothing]
  /\ ops = 0 /\ crashes = 0

---------------------------------------------------------------------------
(* Route discovery.  _route_sync_lock makes it a single task.              *)

(* Stage 2A completed (again): a result directory with a new routes.json.  *)
(* Its payload holds the rerun number, so generations never repeat.        *)
Publish(b) ==
  /\ alive /\ file[b] < MaxGen
  /\ file' = [file EXCEPT ![b] = @ + 1]
  /\ UNCHANGED <<rows, config, alive, synced, disc, loop, held, op, reval,
                 bounds>>

DiscoverRead(b) ==
  /\ alive /\ disc.pc = "idle"
  /\ file[b] # 0 /\ file[b] # synced[b]
  /\ disc' = Task("sync", {b}, file[b])
  /\ UNCHANGED <<rows, config, file, alive, synced, loop, held, op, reval,
                 bounds>>

(* Mutant: the signature is taken after the work, not before.              *)
DiscoveredLate(b) ==
  /\ synced' = [synced EXCEPT ![b] = file[b]]
  /\ disc' = Idle

(* The rest of the discovery of one book.  The signature is remembered     *)
(* only when all of it succeeded.                                          *)
Discovered(b) ==
  /\ synced' = [synced EXCEPT ![b] = disc.gen]
  /\ disc' = Idle

(* Only a book without normal routes is armed and released here.           *)
AfterSweepsPrepared(b) ==
  IF NormalsOf(b, disc.gen) = {}
    THEN disc' = [disc EXCEPT !.pc = "arm"] /\ UNCHANGED synced
    ELSE Discovered(b)

DiscoverSync(b) ==
  /\ disc.pc = "sync" /\ b \in disc.books
  /\ rows' = SyncRoutes(rows, b, disc.gen)
  /\ disc' = [disc EXCEPT !.pc = "suppress", !.covered = CoveredSweeps(rows')]
  /\ UNCHANGED <<config, file, alive, synced, loop, held, op, reval, bounds>>

DiscoverSuppress(b) ==
  /\ disc.pc = "suppress" /\ b \in disc.books
  /\ rows' = SuppressOverlapping(rows, b, disc.covered)
  /\ disc' = [disc EXCEPT !.pc = "create"]
  /\ UNCHANGED <<config, file, alive, synced, loop, held, op, reval, bounds>>

DiscoverCreate(b) ==
  /\ disc.pc = "create" /\ b \in disc.books
  /\ rows' = CreateSweeps(rows, b, disc.gen, disc.covered)
  /\ AfterSweepsPrepared(b)
  /\ UNCHANGED <<config, file, alive, loop, held, op, reval, bounds>>

(* The converted ZIP is missing or unreadable: no sweep is prepared, and   *)
(* the signature is remembered all the same.                               *)
DiscoverNoZip(b) ==
  /\ disc.pc = "suppress" /\ b \in disc.books
  /\ AfterSweepsPrepared(b)
  /\ UNCHANGED <<rows, config, file, alive, loop, held, op, reval, bounds>>

DiscoverArm(b) ==
  /\ disc.pc = "arm" /\ b \in disc.books
  /\ rows' = ArmBook(rows, b)
  /\ disc' = [disc EXCEPT !.pc = "release"]
  /\ UNCHANGED <<config, file, alive, synced, loop, held, op, reval, bounds>>

DiscoverRelease(b) ==
  /\ disc.pc = "release" /\ b \in disc.books
  /\ rows' = ReleaseReady(rows, {b})
  /\ Discovered(b)
  /\ UNCHANGED <<config, file, alive, loop, held, op, reval, bounds>>

Discover(b) ==
  \/ DiscoverRead(b)     \/ DiscoverSync(b)  \/ DiscoverSuppress(b)
  \/ DiscoverCreate(b)   \/ DiscoverNoZip(b) \/ DiscoverArm(b)
  \/ DiscoverRelease(b)

---------------------------------------------------------------------------
(* The device loop of worker w.                                            *)

Goto(w, pc) == loop' = [loop EXCEPT ![w] = pc]
GoTop(w)    == Goto(w, "top") /\ held' = [held EXCEPT ![w] = Nothing]
Snapshot(j) == [job |-> j, retry |-> rows[j].retry]

(* The pause flag is read here, and not again before the claim.            *)
LoopTop(w) ==
  /\ alive /\ loop[w] = "top" /\ ~paused[w]
  /\ Goto(w, "gate")
  /\ UNCHANGED <<rows, config, file, alive, synced, disc, held, op, reval,
                 bounds>>

PickNormal(w, j) ==
  /\ loop[w] = "gate"
  /\ j \in Runnable(rows, w, auto[w])
  /\ held' = [held EXCEPT ![w] = Snapshot(j)]
  /\ Goto(w, "picked")
  /\ UNCHANGED <<rows, config, file, alive, synced, disc, op, reval, bounds>>

(* The quota, the workload governor or the endpoint circuit of the         *)
(* selected provider says no, or there is no normal row to run.            *)
NoNormal(w) ==
  /\ loop[w] = "gate"
  /\ Goto(w, "pool")
  /\ UNCHANGED <<rows, config, file, alive, synced, disc, held, op, reval,
                 bounds>>

(* A worker that starts a normal row arms the sweep of the book.           *)
ArmOnStart(w) ==
  /\ loop[w] = "picked"
  /\ rows' = ArmBook(rows, BookOf[held[w].job])
  /\ Goto(w, "armed")
  /\ UNCHANGED <<config, file, alive, synced, disc, held, op, reval, bounds>>

(* mark_processing looks at the status of the row, and at nothing else.    *)
ClaimNormal(w) ==
  LET j == held[w].job IN
  /\ loop[w] = "armed"
  /\ rows[j].status = "pending"
  /\ rows' = Processing(rows, j)
  /\ Goto(w, "running")
  /\ UNCHANGED <<config, file, alive, synced, disc, held, op, reval, bounds>>

LoseClaim(w) ==
  /\ loop[w] = "armed"
  /\ rows[held[w].job].status # "pending"
  /\ GoTop(w)
  /\ UNCHANGED <<rows, config, file, alive, synced, disc, op, reval, bounds>>

(* An exception before the claim leaves the row pending.                   *)
SetupFails(w) ==
  /\ loop[w] \in {"picked", "armed"}
  /\ GoTop(w)
  /\ UNCHANGED <<rows, config, file, alive, synced, disc, op, reval, bounds>>

(* Mutant: only the housekeeping after a completed row releases sweeps.    *)
ReleasePoolSkipped(w) ==
  /\ loop[w] = "pool"
  /\ Goto(w, "claim")
  /\ UNCHANGED <<rows, config, file, alive, synced, disc, held, op, reval,
                 bounds>>

(* Every idle loop releases the armed sweeps of all books ...              *)
ReleasePool(w) ==
  /\ loop[w] = "pool"
  /\ rows' = ReleaseReady(rows, Books)
  /\ Goto(w, "claim")
  /\ UNCHANGED <<config, file, alive, synced, disc, held, op, reval, bounds>>

(* ... unless its own device is resting, cooling down or unreachable.      *)
PoolClosed(w) ==
  /\ loop[w] = "pool"
  /\ Goto(w, "top")
  /\ UNCHANGED <<rows, config, file, alive, synced, disc, held, op, reval,
                 bounds>>

ClaimSweep(w, j) ==
  /\ loop[w] = "claim"
  /\ j \in ClaimableSweeps(rows)
  /\ rows' = Processing(rows, j)
  /\ held' = [held EXCEPT ![w] = Snapshot(j)]
  /\ Goto(w, "running")
  /\ UNCHANGED <<config, file, alive, synced, disc, op, reval, bounds>>

NothingToClaim(w) ==
  /\ loop[w] = "claim" /\ ClaimableSweeps(rows) = {}
  /\ Goto(w, "top")
  /\ UNCHANGED <<rows, config, file, alive, synced, disc, held, op, reval,
                 bounds>>

Finish(w) ==
  /\ loop[w] = "running"
  /\ rows' = MarkCompleted(rows, held[w].job)
  /\ Goto(w, "done")
  /\ UNCHANGED <<config, file, alive, synced, disc, held, op, reval, bounds>>

(* A cooldown, a quota pause or an endpoint that cannot be reached.        *)
Defer(w) ==
  /\ loop[w] = "running"
  /\ rows' = MarkDeferred(rows, held[w].job)
  /\ GoTop(w)
  /\ UNCHANGED <<config, file, alive, synced, disc, op, reval, bounds>>

(* Mutant: one retry too many.                                             *)
RetryOrFailLate(w) ==
  LET j == held[w].job IN
  /\ loop[w] = "running"
  /\ rows' = IF held[w].retry > MaxRetries THEN MarkFailed(rows, j)
                                           ELSE MarkRetryable(rows, j)
  /\ GoTop(w)
  /\ UNCHANGED <<config, file, alive, synced, disc, op, reval, bounds>>

(* _retry_or_fail decides by the retry count of the snapshot.              *)
RetryOrFail(w) ==
  LET j == held[w].job IN
  /\ loop[w] = "running"
  /\ rows' = IF held[w].retry >= MaxRetries THEN MarkFailed(rows, j)
                                            ELSE MarkRetryable(rows, j)
  /\ GoTop(w)
  /\ UNCHANGED <<config, file, alive, synced, disc, op, reval, bounds>>

FailForGood(w) ==
  /\ loop[w] = "running"
  /\ rows' = MarkFailed(rows, held[w].job)
  /\ GoTop(w)
  /\ UNCHANGED <<config, file, alive, synced, disc, op, reval, bounds>>

(* Housekeeping after a completed row; an exception in it is swallowed.    *)
Housekeeping(w) ==
  LET j == held[w].job IN
  /\ loop[w] = "done"
  /\ \/ j \in Normals /\ rows' = ReleaseReady(rows, {BookOf[j]})
     \/ UNCHANGED rows
  /\ GoTop(w)
  /\ UNCHANGED <<config, file, alive, synced, disc, op, reval, bounds>>

Step(w) ==
  \/ LoopTop(w)      \/ NoNormal(w)   \/ ArmOnStart(w) \/ ClaimNormal(w)
  \/ LoseClaim(w)    \/ SetupFails(w) \/ ReleasePool(w) \/ PoolClosed(w)
  \/ NothingToClaim(w) \/ Finish(w)   \/ Defer(w)      \/ RetryOrFail(w)
  \/ FailForGood(w)  \/ Housekeeping(w)
  \/ \E j \in Jobs : PickNormal(w, j) \/ ClaimSweep(w, j)

(* A retry delay has passed.                                               *)
Elapse(j) ==
  /\ alive /\ ~rows[j].due
  /\ rows' = [rows EXCEPT ![j].due = TRUE]
  /\ UNCHANGED <<config, file, alive, synced, disc, loop, held, op, reval,
                 bounds>>

---------------------------------------------------------------------------
(* Operator requests.  One of them is in flight at a time.                 *)

Request ==
  /\ alive /\ op.pc = "idle" /\ ops < MaxOps
  /\ ops' = ops + 1

ThenRelease(S) == op' = Task("release", S, 0)

(* Requests that first run sync_routes_once wait until it has nothing left *)
(* to do.                                                                  *)
AllSynced == disc.pc = "idle" /\ \A b \in Books : synced[b] = file[b]

VerifyBook(b) ==
  /\ Request /\ AllSynced
  /\ paused' = [w \in Workers |-> FALSE]
  /\ rows' = StartManualBook(rows, b)
  /\ ThenRelease({b})
  /\ UNCHANGED <<auto, file, alive, synced, disc, loop, held, reval, crashes>>

StartTarget(w) ==
  /\ Request /\ AllSynced /\ ~auto[w]
  /\ paused' = [paused EXCEPT ![w] = FALSE]
  /\ rows' = StartManualBatch(rows, w)
  /\ ThenRelease(Books)
  /\ UNCHANGED <<auto, file, alive, synced, disc, loop, held, reval, crashes>>

Stop(w) ==
  /\ Request
  /\ paused' = [paused EXCEPT ![w] = TRUE]
  /\ auto' = [auto EXCEPT ![w] = FALSE]
  /\ rows' = ClearManual(rows, w)
  /\ UNCHANGED <<file, alive, synced, disc, loop, held, op, reval, crashes>>

AutoRunOn(w) ==
  /\ Request
  /\ auto' = [auto EXCEPT ![w] = TRUE]
  /\ paused' = [paused EXCEPT ![w] = FALSE]
  /\ rows' = ClearManual(rows, w)
  /\ UNCHANGED <<file, alive, synced, disc, loop, held, op, reval, crashes>>

AutoRunOff(w) ==
  /\ Request /\ auto[w]
  /\ auto' = [auto EXCEPT ![w] = FALSE]
  /\ UNCHANGED <<rows, paused, file, alive, synced, disc, loop, held, op,
                 reval, crashes>>

Rerun(j) ==
  /\ Request /\ j \in Rerunnable(rows)
  /\ rows' = Requeue(rows, {j})
  /\ UNCHANGED <<config, file, alive, synced, disc, loop, held, op, reval,
                 crashes>>

RetryAllFailed ==
  /\ Request /\ Failed(rows) # {}
  /\ rows' = Requeue(rows, Failed(rows))
  /\ paused' = [w \in Workers |->
                  paused[w] /\ \A j \in Failed(rows) : LaneOf[j] # w]
  /\ UNCHANGED <<auto, file, alive, synced, disc, loop, held, op, reval,
                 crashes>>

RetrySweeps ==
  /\ Request
  /\ rows' = RetryFailedSweeps(rows)
  /\ ThenRelease(Books)
  /\ UNCHANGED <<config, file, alive, synced, disc, loop, held, reval,
                 crashes>>

(* "Verify all technical artifacts" for one book: it prepares the sweep    *)
(* with the generation of a row it has read, outside _route_sync_lock.     *)
StartAllSweeps(b) ==
  /\ Request
  /\ \E j \in Jobs :
       /\ BookOf[j] = b /\ rows[j].current
       /\ op' = Task("prepare", {b}, GenOf[j])
  /\ UNCHANGED <<rows, config, file, alive, synced, disc, loop, held, reval,
                 crashes>>

OperatorPlan(b) ==
  /\ op.pc = "prepare" /\ b \in op.books
  /\ op' = [op EXCEPT !.pc = "suppress", !.covered = CoveredSweeps(rows)]
  /\ UNCHANGED <<rows, config, file, alive, synced, disc, loop, held, reval,
                 bounds>>

OperatorSuppress(b) ==
  /\ op.pc = "suppress" /\ b \in op.books
  /\ rows' = SuppressOverlapping(rows, b, op.covered)
  /\ op' = [op EXCEPT !.pc = "create"]
  /\ UNCHANGED <<config, file, alive, synced, disc, loop, held, reval, bounds>>

OperatorCreate(b) ==
  /\ op.pc = "create" /\ b \in op.books
  /\ rows' = CreateSweeps(rows, b, op.gen, op.covered)
  /\ op' = [op EXCEPT !.pc = "lanes"]
  /\ UNCHANGED <<config, file, alive, synced, disc, loop, held, reval, bounds>>

(* The converted ZIP is missing or unreadable.                             *)
OperatorNoZip ==
  /\ op.pc \in {"prepare", "suppress"}
  /\ op' = [op EXCEPT !.pc = "lanes"]
  /\ UNCHANGED <<rows, config, file, alive, synced, disc, loop, held, reval,
                 bounds>>

OperatorArm ==
  /\ op.pc = "lanes"
  /\ rows' = ArmSweeps(rows, Sweeps)
  /\ ThenRelease(Books)
  /\ UNCHANGED <<config, file, alive, synced, disc, loop, held, reval, bounds>>

OperatorRelease ==
  /\ op.pc = "release"
  /\ rows' = ReleaseReady(rows, op.books)
  /\ op' = Idle
  /\ UNCHANGED <<config, file, alive, synced, disc, loop, held, reval, bounds>>

(* Saved text results are validated again: rows are listed first, and      *)
(* each is written back as completed at some later await.                  *)
RevalidateRead(j) ==
  /\ alive /\ ops < MaxOps /\ reval = NoJob
  /\ j \in Texts /\ rows[j].current /\ rows[j].status = "completed"
  /\ ops' = ops + 1
  /\ reval' = j
  /\ UNCHANGED <<rows, config, file, alive, synced, disc, loop, held, op,
                 crashes>>

RevalidateWrite ==
  /\ reval # NoJob
  /\ rows' = MarkCompleted(rows, reval)
  /\ reval' = NoJob
  /\ UNCHANGED <<config, file, alive, synced, disc, loop, held, op, bounds>>

Continue ==
  \/ \E b \in Books : OperatorPlan(b) \/ OperatorSuppress(b)
                      \/ OperatorCreate(b)
  \/ OperatorNoZip \/ OperatorArm \/ OperatorRelease \/ RevalidateWrite

Operate ==
  \/ \E b \in Books : VerifyBook(b) \/ StartAllSweeps(b)
  \/ \E w \in Workers : StartTarget(w) \/ Stop(w) \/ AutoRunOn(w)
                        \/ AutoRunOff(w)
  \/ \E j \in Jobs : Rerun(j) \/ RevalidateRead(j)
  \/ RetryAllFailed \/ RetrySweeps

---------------------------------------------------------------------------
Crash ==
  /\ alive /\ crashes < MaxCrashes
  /\ crashes' = crashes + 1
  /\ alive' = FALSE
  /\ synced' = [b \in Books |-> 0]
  /\ disc' = Idle /\ op' = Idle /\ reval' = NoJob
  /\ loop' = [w \in Workers |-> "top"]
  /\ held' = [w \in Workers |-> Nothing]
  /\ UNCHANGED <<rows, config, file, ops>>

Restart ==
  /\ ~alive
  /\ rows' = RecoverInterrupted(rows)
  /\ alive' = TRUE
  /\ UNCHANGED <<config, file, synced, disc, loop, held, op, reval, bounds>>

Next ==
  \/ \E b \in Books : Publish(b) \/ Discover(b)
  \/ \E w \in Workers : Step(w)
  \/ \E j \in Jobs : Elapse(j)
  \/ Operate \/ Continue
  \/ Crash \/ Restart

Spec == Init /\ [][Next]_vars

(* Every task that can go on does: the loops, discovery and requests are   *)
(* coroutines of one event loop, inference has a timeout, delays pass, and *)
(* docker restarts the process.  Strong fairness where a gate of the loop  *)
(* (quota, cooldown, open circuit) may close, or the setup of a row may    *)
(* fail, for a while but not for ever,                                     *)
(* and where a row may be behind others, which leave the queue or back off *)
(* for longer than a pass of the loop.                                     *)
Fairness ==
  /\ WF_vars(Restart) /\ WF_vars(Continue)
  /\ \A b \in Books : WF_vars(Discover(b))
  /\ \A w \in Workers : WF_vars(Step(w)) /\ SF_vars(ReleasePool(w))
                         /\ SF_vars(ArmOnStart(w)) /\ SF_vars(ClaimNormal(w))
  /\ \A j \in Jobs : WF_vars(Elapse(j))
  /\ \A j \in Normals : SF_vars(PickNormal(LaneOf[j], j))

FairSpec == Spec /\ Fairness

---------------------------------------------------------------------------
(* Every variable has the values its column, flag or task can have; a loop *)
(* has a row in its hands in the program counters that use one.            *)
TypeOK ==
  /\ rows \in [Jobs -> RowType]
  /\ auto \in [Workers -> BOOLEAN] /\ paused \in [Workers -> BOOLEAN]
  /\ file \in [Books -> 0 .. MaxGen] /\ synced \in [Books -> 0 .. MaxGen]
  /\ alive \in BOOLEAN
  /\ disc \in TaskType(DiscPc) /\ op \in TaskType(OpPc)
  /\ loop \in [Workers -> LoopPc]
  /\ held \in [Workers -> [job : Jobs \cup {NoJob}, retry : Nat]]
  /\ \A w \in Workers : Holding(w) \/ loop[w] = "done" => held[w].job \in Jobs
  /\ reval \in Texts \cup {NoJob}
  /\ ops \in 0 .. MaxOps /\ crashes \in 0 .. MaxCrashes

(* Two devices never verify the same row at the same time: the claims of   *)
(* normal rows (stage2b.py:4036) and of the shared sweep pool              *)
(* (stage2b_store.py:469) exclude each other whatever the operator         *)
(* requeues, supersedes, or rewrites meanwhile.                            *)
NoDoubleRun ==
  \A w1, w2 \in Workers :
    \A j \in Jobs : Running(w1, j) /\ Running(w2, j) => w1 = w2

(* While the process lives, a row in status 'processing' is in the hands   *)
(* of a device loop: no exit of _run_job leaves an orphan behind, and no   *)
(* other writer puts a row into that status.                               *)
NoOrphanedRow ==
  alive => \A j \in Jobs : rows[j].status = "processing" =>
                             \E w \in Workers : Running(w, j)

(* The retry budget holds although _retry_or_fail decides by the retry     *)
(* count of the snapshot and the UPDATE increments the one in the table.   *)
RetryBudget == \A j \in Jobs : rows[j].retry <= MaxRetries

(* The inductive invariant behind the four above.  Of two devices that     *)
(* hold the same row, both would be the device of its lane, or the row is  *)
(* a sweep and was taken from the status it can only be in once; and the   *)
(* retry count a device decides by is not below the one in the table,      *)
(* because nobody but the device that runs the row raises it.              *)
ClaimInv ==
  /\ \A w \in Workers :
       /\ loop[w] \in {"picked", "armed"} => held[w].job \in Normals
       /\ Holding(w) /\ held[w].job \in Normals => LaneOf[held[w].job] = w
       /\ \A s \in Sweeps : Running(w, s) => rows[s].status = "processing"
  /\ ~alive => \A w \in Workers : loop[w] = "top"

BudgetInv ==
  \A w \in Workers :
    Holding(w) => /\ rows[held[w].job].retry <= held[w].retry
                  /\ held[w].retry <= MaxRetries

IInv == /\ TypeOK /\ NoDoubleRun /\ NoOrphanedRow /\ RetryBudget
        /\ ClaimInv /\ BudgetInv

(* A finished discovery left exactly the normal rows of the newest routes  *)
(* current, although routes.json may be replaced while it is at work.      *)
DiscoveredRoutesAreCurrent ==
  \A b \in Books :
    disc.pc = "idle" /\ synced[b] = file[b] /\ file[b] # 0 =>
      {j \in Normals : BookOf[j] = b /\ rows[j].current}
        = NormalsOf(b, file[b])

(* A verification result is not taken back by a stale writer: unless a     *)
(* device is at work on the row, only the operator's requeue (which        *)
(* authorizes the row anew and resets its budget) ends 'completed'.        *)
CompletedStays ==
  [][\A j \in Jobs :
       /\ rows[j].status = "completed" /\ rows'[j].status # "completed"
       /\ \A w \in Workers : ~Running(w, j)
       => rows'[j].status = "pending" /\ rows'[j].auth /\ rows'[j].retry = 0]_vars

(* The sweep of a book starts only when all current normal rows of the     *)
(* book are completed, however the sweep row came to be authorized.        *)
SweepAfterNormals ==
  [][\A j \in Sweeps :
       rows[j].status # "processing" /\ rows'[j].status = "processing" =>
         \A n \in Normals : BookOf[n] = BookOf[j] /\ rows[n].current =>
                               rows[n].status = "completed"]_vars

(* A pending sweep that waits for normal rows which are all completed.     *)
Ripe(s) == Live(rows, s) /\ ~rows[s].auth /\ Blockers(rows, BookOf[s]) = {}

(* A crash, or a swallowed error, between the completion of the last       *)
(* normal row and the release that follows it does not strand the armed    *)
(* sweep: some idle device loop releases it, unless all are paused.        *)
ArmedSweepReleased ==
  \A s \in Sweeps :
    (Ripe(s) /\ rows[s].armed)
      ~> (~(Ripe(s) /\ rows[s].armed) \/ \A w \in Workers : paused[w])

(* A row that is being verified does not stay 'processing' for ever, even  *)
(* if the process dies in the middle.                                      *)
EveryRunEnds ==
  \A j \in Jobs :
    rows[j].status = "processing" ~> rows[j].status # "processing"

(* A normal row the operator authorized is taken by its device loop, or    *)
(* loses the authorization, or the device is paused.                       *)
AuthorizedRowServed ==
  \A j \in Normals :
    (Live(rows, j) /\ rows[j].auth)
      ~> (~Live(rows, j) \/ ~rows[j].auth \/ paused[LaneOf[j]])

---------------------------------------------------------------------------
(* What the documentation says, and the code does not do.                  *)

(* "A paused worker claims nothing." (docs/STAGEWISE_WORKFLOW.md:69, of    *)
(* the shared sweep pool): the loop reads the flag once per pass, several  *)
(* awaits before it claims a sweep.                                        *)
PausedClaimsNothing ==
  [][\A w \in Workers :
       paused[w] /\ loop[w] = "claim" => loop'[w] # "running"]_vars

(* "Artifact rows are additive only for technical pictures not already     *)
(* covered by a current normal picture-verification route."                *)
(* (app/main.py:4988): the request plans with rows it listed earlier.      *)
SweepsAreAdditive ==
  [][\A s \in CoveredSweeps(rows) :
       rows[s].status = "absent" => rows'[s].status = "absent"]_vars

(* "Re-apply current deterministic ... policy without model calls."        *)
(* (app/stage2b.py:3025): the write-back completes what it listed, also a  *)
(* row that was requeued in between, or that a device is running again.    *)
CompletedByItsDevice ==
  [][\A j \in Jobs :
       rows[j].status # "completed" /\ rows'[j].status = "completed" =>
         \E w \in Workers : Running(w, j) /\ loop'[w] # "running"]_vars

(* "Auto mode owns all pending work" (app/main.py:823): with Auto Run on   *)
(* for every device, a pending sweep nothing blocks is verified.           *)
AutoRunOwnsPending ==
  \A s \in Sweeps :
    (Live(rows, s) /\ Blockers(rows, BookOf[s]) = {}
       /\ \A w \in Workers : auto[w])
      ~> (~Live(rows, s) \/ Blockers(rows, BookOf[s]) # {}
           \/ \E w \in Workers : ~auto[w])
===========================================================================

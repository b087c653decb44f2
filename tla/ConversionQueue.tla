-------------------------- MODULE ConversionQueue --------------------------
(***************************************************************************)
(* Stage 1 of the pipeline: the table jobs of app/database.py (JobStore),  *)
(* the discovery and processing tasks of app/worker.py (ConversionWorker), *)
(* and the requests of app/main.py that act on the same rows.              *)
(*                                                                         *)
(* As in VerificationQueue, everything runs in one asyncio event loop and  *)
(* every JobStore method is one sqlite transaction under one lock, so a    *)
(* step is what a task does from one await on the store, the disk or       *)
(* Docling to the next.  Docling Serve is a service outside the program:   *)
(* it accepts documents, converts them, and may forget what it accepted.   *)
(*                                                                         *)
(* A document is a pair of a file name and a content (its SHA-256).  Row   *)
(* identifiers and Docling task identifiers are numbers that are handed    *)
(* out in order and never again (AUTOINCREMENT).                           *)
(***************************************************************************)
EXTENDS Naturals

CONSTANTS
  Docs,       \* documents that can be in the input folder
  Names,      \* their file names
  Stems,      \* file names without extension
  NameOf,     \* the file name of a document
  StemOf,     \* the stem of a file name
  NoDoc,      \* "no document"
  NoPath,     \* "no output file name"
  MaxRows,    \* bound: rows ever inserted
  MaxTasks,   \* bound: documents Docling ever accepts
  MaxOps,     \* bound: operator requests
  MaxDrops,   \* bound: changes of the input folder
  MaxFaults   \* bound: process deaths and tasks forgotten by Docling

ASSUME ConversionAssumption ==
  /\ NameOf \in [Docs -> Names] /\ StemOf \in [Names -> Stems]
  /\ NoDoc \notin Docs
  /\ NoPath \notin Stems \X (Docs \cup {NoDoc})
  /\ MaxRows \in Nat /\ MaxTasks \in Nat /\ MaxOps \in Nat
  /\ MaxDrops \in Nat /\ MaxFaults \in Nat

VARIABLES
  rows,      \* the table jobs
  managed,   \* the rows that Stage 2A has registered as books
  input,     \* the document in the input folder under each name
  folder,    \* the document whose conversion is in each output file
  remote,    \* the tasks of Docling Serve
  auto,      \* watcher_auto_run, in the configuration file
  batch,     \* _authorized_job_ids
  alive,     \* the process runs
  worker,    \* where _process_one is
  seen,      \* the document each _discover_files has hashed last
  starting,  \* a start_batch is in flight
  joining,   \* the row a retry request has requeued, 0: none
  deletion,  \* where the request that deletes a row is
  ops, drops, faults   \* operator requests, folder changes, faults so far

table  == <<rows, managed>>
disk   == <<input, folder>>
mode   == <<auto, batch>>
calls  == <<starting, joining, deletion>>
bounds == <<ops, drops, faults>>
vars   == <<rows, managed, input, folder, remote, auto, batch, alive, worker,
            seen, starting, joining, deletion, ops, drops, faults>>

Ids      == 1 .. MaxRows
Tasks    == 1 .. MaxTasks
SomeDoc  == Docs \cup {NoDoc}
Paths    == Stems \X SomeDoc
Callers  == {"watch", "start"}

Status   == {"absent", "pending", "processing", "completed", "failed",
             "deleting", "deleted"}
RowType  == [status : Status, doc : SomeDoc, out : Paths \cup {NoPath},
             task : 0 .. MaxTasks, error : {"none", "remote", "gone", "other"}]
TaskType == [state : {"unused", "running", "success", "failure", "gone"},
             doc : SomeDoc]

Absent == [status |-> "absent", doc |-> NoDoc, out |-> NoPath, task |-> 0,
           error |-> "none"]
Deleted == [Absent EXCEPT !.status = "deleted"]
Pending(d) == [Absent EXCEPT !.status = "pending", !.doc = d]

(* manual = authorized_only, tracked = batch_tracked; error is the         *)
(* exception on its way to the handler of _process_one.                    *)
WorkerPc   == {"top", "resume", "scan", "check", "reserve", "mark", "submit",
               "save", "poll", "fetch", "finish", "fail"}
WorkerType == [pc : WorkerPc, job : 0 .. MaxRows, manual : BOOLEAN,
               tracked : BOOLEAN, task : 0 .. MaxTasks,
               error : {"none", "remote", "gone", "other"}]
Resting    == [pc |-> "top", job |-> 0, manual |-> FALSE, tracked |-> FALSE,
               task |-> 0, error |-> "none"]

DeletionType == [pc : {"idle", "reserved", "moved"}, job : 0 .. MaxRows,
                 was : Status, source : SomeDoc, output : SomeDoc]
NoDeletion   == [pc |-> "idle", job |-> 0, was |-> "absent",
                 source |-> NoDoc, output |-> NoDoc]

Init ==
  /\ rows = [i \in Ids |-> Absent] /\ managed = {}
  /\ input = [n \in Names |-> NoDoc] /\ folder = [p \in Paths |-> NoDoc]
  /\ remote = [t \in Tasks |-> [state |-> "unused", doc |-> NoDoc]]
  /\ auto = FALSE /\ batch = {}
  /\ alive = TRUE /\ worker = Resting
  /\ seen = [c \in Callers |-> NoDoc]
  /\ starting = FALSE /\ joining = 0 /\ deletion = NoDeletion
  /\ ops = 0 /\ drops = 0 /\ faults = 0

---------------------------------------------------------------------------
(* The store.                                                              *)

Exists(i)    == rows[i].status \notin {"absent", "deleted"}
InQueue      == {i \in Ids : rows[i].status = "pending"}
Resumable    == {i \in Ids : rows[i].status = "processing" /\ rows[i].task # 0}
Tracked(d)   == \E i \in Ids : Exists(i) /\ rows[i].doc = d
HasHistory(n) == \E i \in Ids : Exists(i) /\ NameOf[rows[i].doc] = n
NextId(i)    == rows[i].status = "absent"
                /\ \A k \in Ids : k < i => rows[k].status # "absent"

NameOfRow(i) == NameOf[rows[i].doc]
HasEarlier(i) ==
  \E k \in Ids : k < i /\ Exists(k) /\ NameOfRow(k) = NameOfRow(i)

Base(d)      == <<StemOf[NameOf[d]], NoDoc>>
Versioned(d) == <<StemOf[NameOf[d]], d>>

(* Mutant: every interrupted row is taken for one that can be resumed.     *)
RecoverNothing == rows

(* A row that never got its task identifier is queued again.               *)
RecoverInterrupted ==
  [i \in Ids |->
     IF rows[i].status = "processing" /\ rows[i].task = 0
       THEN [rows[i] EXCEPT !.status = "pending", !.error = "none"]
       ELSE rows[i]]

(* Retry resumes a task Docling has accepted, unless it reported a failure *)
(* of that task.                                                           *)
Retried(i) ==
  IF rows[i].task # 0 /\ rows[i].error # "remote"
    THEN [rows[i] EXCEPT !.status = "processing", !.error = "none"]
    ELSE [rows[i] EXCEPT !.status = "pending", !.error = "none", !.task = 0]

---------------------------------------------------------------------------
(* The input folder, discovery, and Docling.                               *)

(* The operator copies a file into the folder, replaces it, or removes it. *)
Drop(n, d) ==
  /\ drops < MaxDrops
  /\ d = NoDoc \/ (d \in Docs /\ NameOf[d] = n)
  /\ input[n] # d
  /\ input' = [input EXCEPT ![n] = d]
  /\ drops' = drops + 1
  /\ UNCHANGED <<table, folder, remote, mode, alive, worker, seen, calls,
                 ops, faults>>

(* Discovery is a task of its own, and a part of start_batch.  A file that *)
(* has no row, and no output of an application whose database is gone.     *)
DiscoverHash(c, n) ==
  LET d == input[n] IN
  /\ alive /\ seen[c] = NoDoc
  /\ c = "start" => starting
  /\ d # NoDoc /\ ~Tracked(d)
  /\ HasHistory(n) \/ folder[Base(d)] = NoDoc
  /\ \E i \in Ids : NextId(i)
  /\ seen' = [seen EXCEPT ![c] = d]
  /\ UNCHANGED <<table, disk, remote, mode, alive, worker, calls, bounds>>

(* Mutant: the check and the insert are not one transaction.               *)
DiscoverInsertAlways(c) ==
  /\ seen[c] # NoDoc
  /\ rows' = [i \in Ids |-> IF NextId(i) THEN Pending(seen[c]) ELSE rows[i]]
  /\ seen' = [seen EXCEPT ![c] = NoDoc]
  /\ UNCHANGED <<managed, disk, remote, mode, alive, worker, calls, bounds>>

(* create_pending_once, for what was hashed some awaits ago.               *)
DiscoverInsert(c) ==
  /\ seen[c] # NoDoc
  /\ rows' = [i \in Ids |-> IF NextId(i) /\ ~Tracked(seen[c])
                              THEN Pending(seen[c]) ELSE rows[i]]
  /\ seen' = [seen EXCEPT ![c] = NoDoc]
  /\ UNCHANGED <<managed, disk, remote, mode, alive, worker, calls, bounds>>

RemoteEnds(t) ==
  /\ remote[t].state = "running"
  /\ \E s \in {"success", "failure"} :
       remote' = [remote EXCEPT ![t].state = s]
  /\ UNCHANGED <<table, disk, mode, alive, worker, seen, calls, bounds>>

(* Docling restarts, or drops an old result.                               *)
RemoteForgets(t) ==
  /\ faults < MaxFaults
  /\ remote[t].state \in {"running", "success", "failure"}
  /\ remote' = [remote EXCEPT ![t].state = "gone"]
  /\ faults' = faults + 1
  /\ UNCHANGED <<table, disk, mode, alive, worker, seen, calls, ops, drops>>

---------------------------------------------------------------------------
(* One pass of the processing loop.                                        *)

At(pc)  == worker.pc = pc
Goto(pc) == worker' = [worker EXCEPT !.pc = pc]
Raise(e) == worker' = [worker EXCEPT !.pc = "fail", !.error = e]
Outcome(status, error) ==
  rows' = [rows EXCEPT ![worker.job].status = status,
                       ![worker.job].error = error]

(* The pass is over: a row of a manual batch leaves the batch.             *)
Done ==
  /\ worker' = Resting
  /\ batch' = IF worker.tracked THEN batch \ {worker.job} ELSE batch

(* Mutant: the pass does not look at watcher_auto_run.                     *)
StartPassManual ==
  /\ alive /\ At("top")
  /\ worker' = [worker EXCEPT !.pc = "resume", !.manual = TRUE]
  /\ UNCHANGED <<table, disk, remote, mode, alive, seen, calls, bounds>>

(* The configuration is read once per pass.                                *)
StartPass ==
  /\ alive /\ At("top")
  /\ worker' = [worker EXCEPT !.pc = "resume", !.manual = ~auto]
  /\ UNCHANGED <<table, disk, remote, mode, alive, seen, calls, bounds>>

(* The oldest row first.                                                   *)
Resume(i) ==
  /\ At("resume")
  /\ i \in Resumable /\ \A k \in Resumable : i <= k
  /\ worker' = [worker EXCEPT !.pc = "poll", !.job = i, !.task = rows[i].task,
                              !.tracked = worker.manual /\ i \in batch]
  /\ UNCHANGED <<table, disk, remote, mode, alive, seen, calls, bounds>>

NothingToResume ==
  /\ At("resume") /\ Resumable = {}
  /\ Goto("scan")
  /\ UNCHANGED <<table, disk, remote, mode, alive, seen, calls, bounds>>

(* Mutant: the newest row is picked first, and its authorization checked   *)
(* afterwards.                                                             *)
EligibleNewest == {i \in InQueue : /\ \A k \in InQueue : k <= i
                                   /\ worker.manual => i \in batch}

(* The smallest document first: the sizes are data, so any row may be it.  *)
Eligible == {i \in InQueue : worker.manual => i \in batch}

Select(i) ==
  /\ At("scan") /\ i \in Eligible
  /\ worker' = [worker EXCEPT !.pc = "check", !.job = i,
                              !.tracked = worker.manual]
  /\ UNCHANGED <<table, disk, remote, mode, alive, seen, calls, bounds>>

NothingToDo ==
  /\ At("scan") /\ Eligible = {}
  /\ worker' = Resting
  /\ UNCHANGED <<table, disk, remote, mode, alive, seen, calls, bounds>>

(* The file is hashed: it is the document of the row, or it is gone or     *)
(* something else by now.                                                  *)
SourceMatches ==
  /\ At("check")
  /\ input[NameOfRow(worker.job)] = rows[worker.job].doc
  /\ Goto("reserve")
  /\ UNCHANGED <<table, disk, remote, mode, alive, seen, calls, bounds>>

SourceFails ==
  /\ At("check")
  /\ input[NameOfRow(worker.job)] # rows[worker.job].doc
  /\ Outcome("failed", "other")
  /\ Done
  /\ UNCHANGED <<managed, disk, remote, auto, alive, seen, calls, bounds>>

(* Mutant: every version of a book gets the familiar name.                 *)
OutputNameBase(i) ==
  IF rows[i].out # NoPath THEN rows[i].out ELSE Base(rows[i].doc)

OutputName(i) ==
  IF rows[i].out # NoPath THEN rows[i].out
  ELSE IF HasEarlier(i) \/ folder[Base(rows[i].doc)] # NoDoc
    THEN Versioned(rows[i].doc)
  ELSE Base(rows[i].doc)

ReserveOutput ==
  /\ At("reserve")
  /\ rows' = [rows EXCEPT ![worker.job].out = OutputName(worker.job)]
  /\ Goto("mark")
  /\ UNCHANGED <<managed, disk, remote, mode, alive, seen, calls, bounds>>

MarkProcessing ==
  /\ At("mark")
  /\ Outcome("processing", "none")
  /\ Goto("submit")
  /\ UNCHANGED <<managed, disk, remote, mode, alive, seen, calls, bounds>>

(* The file is read again while it is uploaded.  The answer of Docling may *)
(* be lost.                                                                *)
Accept(t) ==
  LET d == input[NameOfRow(worker.job)] IN
  /\ At("submit") /\ d # NoDoc
  /\ remote[t].state = "unused"
  /\ \A u \in Tasks : u < t => remote[u].state # "unused"
  /\ remote' = [remote EXCEPT ![t] = [state |-> "running", doc |-> d]]
  /\ \/ worker' = [worker EXCEPT !.pc = "save", !.task = t]
     \/ Raise("other")
  /\ UNCHANGED <<table, disk, mode, alive, seen, calls, bounds>>

Refuse ==
  /\ At("submit")
  /\ Raise("other")
  /\ UNCHANGED <<table, disk, remote, mode, alive, seen, calls, bounds>>

SaveTask ==
  /\ At("save")
  /\ rows' = [rows EXCEPT ![worker.job].task = worker.task]
  /\ Goto("poll")
  /\ UNCHANGED <<managed, disk, remote, mode, alive, seen, calls, bounds>>

PollSuccess ==
  /\ At("poll") /\ remote[worker.task].state = "success"
  /\ Goto("fetch")
  /\ UNCHANGED <<table, disk, remote, mode, alive, seen, calls, bounds>>

ClearTask(e) ==
  /\ rows' = [rows EXCEPT ![worker.job].task = 0]
  /\ Raise(e)
  /\ UNCHANGED <<managed, disk, remote, mode, alive, seen, calls, bounds>>

PollFailure ==
  /\ At("poll") /\ remote[worker.task].state = "failure"
  /\ ClearTask("remote")

(* A 404 is recognised by the words "HTTP 404" in the exception, which the *)
(* client puts there only when the body of the answer is empty.            *)
PollNotFound ==
  /\ At("poll") /\ remote[worker.task].state = "gone"
  /\ \/ ClearTask("gone")
     \/ Raise("gone") /\ UNCHANGED <<table, disk, remote, mode, alive, seen,
                                     calls, bounds>>

(* Mutant: any error of a poll gives the task up.                          *)
PollErrorsClear == At("poll") /\ ClearTask("other")

(* Too many polls in a row got no answer.                                  *)
PollErrors ==
  /\ At("poll")
  /\ Raise("other")
  /\ UNCHANGED <<table, disk, remote, mode, alive, seen, calls, bounds>>

(* The result is downloaded and validated, and os.replace exposes it.      *)
WriteResult ==
  /\ At("fetch") /\ remote[worker.task].state = "success"
  /\ folder' = [folder EXCEPT ![rows[worker.job].out] =
                                remote[worker.task].doc]
  /\ Goto("finish")
  /\ UNCHANGED <<table, input, remote, mode, alive, seen, calls, bounds>>

ResultFails ==
  /\ At("fetch")
  /\ Raise("other")
  /\ UNCHANGED <<table, disk, remote, mode, alive, seen, calls, bounds>>

MarkCompleted ==
  /\ At("finish")
  /\ Outcome("completed", "none")
  /\ Done
  /\ UNCHANGED <<managed, disk, remote, auto, alive, seen, calls, bounds>>

(* Mutant: the handler lets the exception through without a record of it.  *)
MarkFailedNot ==
  /\ At("fail")
  /\ UNCHANGED rows
  /\ Done
  /\ UNCHANGED <<managed, disk, remote, auto, alive, seen, calls, bounds>>

MarkFailed ==
  /\ At("fail")
  /\ Outcome("failed", worker.error)
  /\ Done
  /\ UNCHANGED <<managed, disk, remote, auto, alive, seen, calls, bounds>>

(* What the worker does when nobody disturbs it, and when a call to        *)
(* Docling fails.                                                          *)
Progress ==
  \/ StartPass \/ NothingToResume \/ NothingToDo
  \/ \E i \in Ids : Resume(i) \/ Select(i)
  \/ SourceMatches \/ SourceFails \/ ReserveOutput \/ MarkProcessing
  \/ \E t \in Tasks : Accept(t)
  \/ Refuse \/ SaveTask
  \/ PollSuccess \/ PollFailure \/ PollNotFound
  \/ WriteResult \/ ResultFails \/ MarkCompleted \/ MarkFailed

Work == Progress \/ PollErrors

---------------------------------------------------------------------------
(* Operator requests.  One of each kind is in flight at a time.            *)

Request == alive /\ ops < MaxOps /\ ops' = ops + 1

PressStart ==
  /\ Request /\ ~starting /\ ~auto
  /\ starting' = TRUE
  /\ UNCHANGED <<table, disk, remote, mode, alive, worker, seen, joining,
                 deletion, drops, faults>>

(* The files are discovered: what is pending becomes the batch, unless one *)
(* is running.                                                             *)
StartBatch ==
  /\ starting /\ seen["start"] = NoDoc
  /\ batch' = IF batch = {} THEN InQueue ELSE batch
  /\ starting' = FALSE
  /\ UNCHANGED <<table, disk, remote, auto, alive, worker, seen, joining,
                 deletion, bounds>>

SetAutoRun(enabled) ==
  /\ Request
  /\ auto' = enabled
  /\ batch' = {}
  /\ UNCHANGED <<table, disk, remote, alive, worker, seen, calls, drops,
                 faults>>

Retry(i) ==
  /\ Request /\ joining = 0
  /\ rows[i].status = "failed"
  /\ rows' = [rows EXCEPT ![i] = Retried(i)]
  /\ joining' = i
  /\ UNCHANGED <<managed, disk, remote, mode, alive, worker, seen, starting,
                 deletion, drops, faults>>

(* authorize_retry_if_batch_active, for a row that is pending again.       *)
JoinBatch ==
  /\ joining # 0
  /\ batch' = IF rows[joining].status = "pending" /\ ~auto /\ batch # {}
                THEN batch \cup {joining} ELSE batch
  /\ joining' = 0
  /\ UNCHANGED <<table, disk, remote, auto, alive, worker, seen, starting,
                 deletion, bounds>>

(* Stage 2A looks for completed conversions.                               *)
Manage(i) ==
  /\ alive
  /\ rows[i].status = "completed" /\ i \notin managed
  /\ managed' = managed \cup {i}
  /\ UNCHANGED <<rows, disk, remote, mode, alive, worker, seen, calls,
                 bounds>>

(* Mutant: the row may belong to a book.                                   *)
ReserveDeletionAny(i) ==
  /\ Request /\ deletion.pc = "idle"
  /\ rows[i].status \in {"failed", "completed"}
  /\ rows' = [rows EXCEPT ![i].status = "deleting"]
  /\ deletion' = [NoDeletion EXCEPT !.pc = "reserved", !.job = i,
                                    !.was = rows[i].status]
  /\ UNCHANGED <<managed, disk, remote, mode, alive, worker, seen, starting,
                 joining, drops, faults>>

(* Only a row in a final status that is not part of a book; in the status  *)
(* 'deleting' nobody retries it or registers it.                           *)
ReserveDeletion(i) ==
  /\ Request /\ deletion.pc = "idle"
  /\ rows[i].status \in {"failed", "completed"} /\ i \notin managed
  /\ rows' = [rows EXCEPT ![i].status = "deleting"]
  /\ deletion' = [NoDeletion EXCEPT !.pc = "reserved", !.job = i,
                                    !.was = rows[i].status]
  /\ UNCHANGED <<managed, disk, remote, mode, alive, worker, seen, starting,
                 joining, drops, faults>>

(* Whatever now has the names of the source and of the output is moved to  *)
(* a quarantine folder.                                                    *)
SourceGone(i) == [input EXCEPT ![NameOfRow(i)] = NoDoc]
OutputGone(i) ==
  [p \in Paths |-> IF p = rows[i].out THEN NoDoc ELSE folder[p]]
OutputOf(i) == IF rows[i].out = NoPath THEN NoDoc ELSE folder[rows[i].out]

Quarantine ==
  LET i == deletion.job IN
  /\ deletion.pc = "reserved"
  /\ input' = SourceGone(i) /\ folder' = OutputGone(i)
  /\ deletion' = [deletion EXCEPT !.pc = "moved",
                                  !.source = input[NameOfRow(i)],
                                  !.output = OutputOf(i)]
  /\ UNCHANGED <<table, remote, mode, alive, worker, seen, starting, joining,
                 bounds>>

CancelDeletion ==
  /\ rows' = [rows EXCEPT ![deletion.job].status = deletion.was]
  /\ deletion' = NoDeletion

(* An OSError after no, one or both moves: what was moved is not put back. *)
QuarantineFails ==
  LET i == deletion.job IN
  /\ deletion.pc = "reserved"
  /\ \/ UNCHANGED disk
     \/ input' = SourceGone(i) /\ UNCHANGED folder
     \/ input' = SourceGone(i) /\ folder' = OutputGone(i)
  /\ CancelDeletion
  /\ UNCHANGED <<managed, remote, mode, alive, worker, seen, starting,
                 joining, bounds>>

DeleteRow ==
  /\ deletion.pc = "moved" /\ deletion.job \notin managed
  /\ rows' = [rows EXCEPT ![deletion.job] = Deleted]
  /\ deletion' = NoDeletion
  /\ UNCHANGED <<managed, disk, remote, mode, alive, worker, seen, starting,
                 joining, bounds>>

(* The row cannot be deleted: the files go back where nothing took their   *)
(* place meanwhile.                                                        *)
DeleteRowFails ==
  LET i == deletion.job IN
  /\ deletion.pc = "moved"
  /\ input' = [n \in Names |->
       IF n = NameOfRow(i) /\ input[n] = NoDoc THEN deletion.source
                                               ELSE input[n]]
  /\ folder' = [p \in Paths |->
       IF p = rows[i].out /\ folder[p] = NoDoc THEN deletion.output
                                               ELSE folder[p]]
  /\ CancelDeletion
  /\ UNCHANGED <<managed, remote, mode, alive, worker, seen, starting,
                 joining, bounds>>

Operate ==
  \/ PressStart
  \/ \E enabled \in BOOLEAN : SetAutoRun(enabled)
  \/ \E i \in Ids : Retry(i) \/ ReserveDeletion(i)

Continue ==
  \/ StartBatch \/ JoinBatch
  \/ Quarantine \/ QuarantineFails \/ DeleteRow \/ DeleteRowFails

---------------------------------------------------------------------------
Crash ==
  /\ alive /\ faults < MaxFaults
  /\ faults' = faults + 1
  /\ alive' = FALSE
  /\ batch' = {} /\ worker' = Resting
  /\ seen' = [c \in Callers |-> NoDoc]
  /\ starting' = FALSE /\ joining' = 0 /\ deletion' = NoDeletion
  /\ UNCHANGED <<table, disk, remote, auto, ops, drops>>

Restart ==
  /\ ~alive
  /\ rows' = RecoverInterrupted
  /\ alive' = TRUE
  /\ UNCHANGED <<managed, disk, remote, mode, worker, seen, calls, bounds>>

Next ==
  \/ \E n \in Names, d \in SomeDoc : Drop(n, d)
  \/ \E c \in Callers : DiscoverInsert(c) \/ \E n \in Names : DiscoverHash(c, n)
  \/ \E t \in Tasks : RemoteEnds(t) \/ RemoteForgets(t)
  \/ Work \/ Operate \/ Continue
  \/ \E i \in Ids : Manage(i)
  \/ Crash \/ Restart

Spec == Init /\ [][Next]_vars

(* The tasks of the event loop go on, docker restarts the process, and     *)
(* Docling finishes what it converts.  Operator requests are finite in     *)
(* number (MaxOps), so weak fairness serves every row in the end.          *)
Fairness ==
  /\ WF_vars(Progress) /\ WF_vars(Continue) /\ WF_vars(Restart)
  /\ \A c \in Callers : WF_vars(DiscoverInsert(c))
  /\ \A t \in Tasks : WF_vars(RemoteEnds(t))

FairSpec == Spec /\ Fairness

---------------------------------------------------------------------------
(* Every variable has the values its column, flag or task can have, and    *)
(* the worker knows the row, and the task, that it works on.               *)
TypeOK ==
  /\ rows \in [Ids -> RowType] /\ managed \subseteq Ids
  /\ input \in [Names -> SomeDoc] /\ folder \in [Paths -> SomeDoc]
  /\ remote \in [Tasks -> TaskType]
  /\ auto \in BOOLEAN /\ batch \subseteq Ids /\ alive \in BOOLEAN
  /\ worker \in WorkerType
  /\ worker.job = 0 <=> worker.pc \in {"top", "resume", "scan"}
  /\ worker.pc \in {"save", "poll", "fetch", "finish"} => worker.task # 0
  /\ seen \in [Callers -> SomeDoc]
  /\ starting \in BOOLEAN /\ joining \in 0 .. MaxRows
  /\ deletion \in DeletionType
  /\ ops \in 0 .. MaxOps /\ drops \in 0 .. MaxDrops
  /\ faults \in 0 .. MaxFaults

(* One document is queued once, although the discovery task and start      *)
(* requests look at the folder at the same time (database.py:266).         *)
QueuedOnce ==
  \A i, k \in Ids : Exists(i) /\ Exists(k) /\ rows[i].doc = rows[k].doc => i = k

(* A conversion that is 'processing' while the process lives is in the     *)
(* hands of the worker, or can be resumed: no error of a pass strands it   *)
(* (worker.py:519).                                                        *)
NoStrandedConversion ==
  alive => \A i \in Ids : rows[i].status = "processing" =>
             rows[i].task # 0 \/ worker.job = i

(* What Stage 2A has registered as a book is a completed conversion, and   *)
(* no deletion request in flight takes it away (database.py:321).          *)
ManagedIsCompleted == \A i \in managed : rows[i].status = "completed"

(* The inductive invariant behind these.  What a row holds follows from    *)
(* its status; identifiers are handed out in order, so that of two rows    *)
(* with one file name only the first may have the plain output name; and   *)
(* the rows that the worker and a deletion work on are in statuses in      *)
(* which nobody else changes them.                                         *)
RowOK(r) ==
  /\ r.status = "absent" => r = Absent
  /\ r.status = "deleted" => r = Deleted
  /\ r.status \notin {"absent", "deleted"} =>
       /\ r.doc \in Docs
       /\ r.out \in {NoPath, Base(r.doc), Versioned(r.doc)}
  /\ r.status = "pending" \/ r.error = "remote" => r.task = 0
  /\ r.status = "processing" => r.error = "none"
  /\ r.status \in {"processing", "completed"} \/ r.task # 0 => r.out # NoPath

RowInv == \A i \in Ids : RowOK(rows[i])

OrderInv ==
  \A i, k \in Ids : i < k =>
    /\ rows[k].status # "absent" => rows[i].status # "absent"
    /\ Exists(i) /\ Exists(k) /\ NameOfRow(i) = NameOfRow(k)
         => rows[k].out # Base(rows[k].doc)

WorkerInv ==
  LET r == rows[worker.job] IN
  /\ worker.pc \in {"check", "reserve", "mark"} => r.status = "pending"
  /\ worker.pc = "mark" => r.out # NoPath
  /\ worker.pc \in {"submit", "save", "poll", "fetch", "finish", "fail"}
       => r.status = "processing"
  /\ worker.pc \in {"submit", "save"} => r.task = 0
  /\ worker.pc \in {"poll", "fetch", "finish"} => r.task = worker.task
  /\ worker.pc = "fail" /\ worker.error = "remote" => r.task = 0

DeletionInv ==
  LET r == rows[deletion.job] IN
  deletion.pc # "idle" =>
    /\ deletion.job # 0 /\ r.status = "deleting"
    /\ deletion.was \in {"failed", "completed"}
    /\ deletion.was = "completed" => r.out # NoPath

DeadInv ==
  ~alive => /\ worker = Resting /\ deletion = NoDeletion
            /\ seen = [c \in Callers |-> NoDoc]
            /\ ~starting /\ joining = 0

IInv == /\ TypeOK /\ QueuedOnce /\ NoStrandedConversion /\ ManagedIsCompleted
        /\ RowInv /\ OrderInv /\ WorkerInv /\ DeletionInv /\ DeadInv

(* The task of a row is forgotten only when Docling has reported that it   *)
(* failed, or has lost it, or when the row is deleted: a poll that fails,  *)
(* a retry or a death goes on with the task Docling has accepted           *)
(* (worker.py:461-487, database.py:475).  A document whose row is deleted  *)
(* may be queued, and submitted, again.                                    *)
TaskKept ==
  [][\A i \in Ids :
       rows[i].task # 0 /\ rows'[i].task # rows[i].task =>
         \/ remote[rows[i].task].state \in {"failure", "gone"}
         \/ rows'[i].status = "deleted"]_vars

(* The output of a completed conversion is replaced or moved by no other   *)
(* conversion, retry, or deletion.  It needs that no two file names have   *)
(* the same stem.                                                          *)
CompletedOutputKept ==
  [][\A i \in Ids :
       rows[i].status = "completed" /\ rows'[i].status = "completed" =>
         folder'[rows[i].out] = folder[rows[i].out]]_vars

(* A conversion ends, whatever Docling, the network, and the process do.   *)
EveryConversionEnds ==
  \A i \in Ids : rows[i].status = "processing" ~> rows[i].status # "processing"

(* A row of the manual batch is converted, or fails.                       *)
BatchIsServed ==
  \A i \in Ids : (rows[i].status = "pending" /\ i \in batch)
                   ~> (rows[i].status # "pending" \/ i \notin batch)

(* A pending row is converted, or fails, while Auto Run stays on.          *)
AutoRunServes ==
  \A i \in Ids : (rows[i].status = "pending" /\ auto)
                   ~> (rows[i].status # "pending" \/ ~auto)

---------------------------------------------------------------------------
(* What the documentation says, and the code does not do.                  *)

(* "After the batch finishes, the watcher returns to Waiting for Start."   *)
(* (docs/watcher-execution-ui.md:15): a row that was selected in Auto Run  *)
(* and snapshotted by a later Start never leaves the batch.                *)
BatchFinishes == (batch # {} /\ ~auto) ~> (batch = {} \/ auto)

(* "Docling forgotten-task/404 recovery that clears the dead task ID and   *)
(* resubmits conversion safely" (docs/PROJECT_IMPLEMENTATION_TODO.md:65):  *)
(* a retry after a 404 resumes the dead task.                              *)
DeadTaskReplaced ==
  [][\A i \in Ids :
       /\ rows[i].status = "failed" /\ rows[i].error = "gone"
       /\ rows'[i].status \in {"pending", "processing"}
       => rows'[i].task = 0]_vars
===========================================================================

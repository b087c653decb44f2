------------------------- MODULE VerificationStore -------------------------
(***************************************************************************)
(* The table verification_jobs of app/stage2b_store.py, and every method   *)
(* of Stage2BStore that writes it.                                         *)
(*                                                                         *)
(* The store serialises its methods under one asyncio.Lock and runs each   *)
(* of them in one sqlite transaction, so a method is one atomic step: here *)
(* an operator that takes the table and returns the table it leaves.       *)
(*                                                                         *)
(* A row is identified by (book, generation, route, target), the UNIQUE    *)
(* key of the table.  Jobs is the set of all identities that can occur,    *)
(* and BookOf, GenOf, LaneOf give the columns that never change.  A row    *)
(* that was not inserted yet has the status "absent".                      *)
(***************************************************************************)
EXTENDS Naturals

CONSTANTS
  Books,      \* postprocess_job_id values
  Jobs,       \* identities of verification rows
  Sweeps,     \* the jobs whose code is FULL_TECHNICAL_VISUAL
  Workers,    \* the device loops, which are also the values of target
  BookOf,     \* the book of a job
  GenOf,      \* the routes generation of a job
  LaneOf,     \* the target a job was stored with
  Covers,     \* <<n, s>> : the normal picture route n shows the picture of s
  MaxRetries  \* config.stage2b_max_retries

ASSUME StoreAssumption ==
  /\ Sweeps \subseteq Jobs
  /\ BookOf \in [Jobs -> Books]
  /\ GenOf \in [Jobs -> Nat \ {0}]
  /\ LaneOf \in [Jobs -> Workers]
  /\ Covers \subseteq (Jobs \ Sweeps) \X Sweeps
  /\ \A pair \in Covers : BookOf[pair[1]] = BookOf[pair[2]]
  /\ MaxRetries \in Nat

Normals == Jobs \ Sweeps

(* The generation has the same routes whenever routes.json is read: it is   *)
(* the hash of that file.                                                  *)
NormalsOf(b, g) == {j \in Normals : BookOf[j] = b /\ GenOf[j] = g}
SweepsOf(b, g)  == {j \in Sweeps  : BookOf[j] = b /\ GenOf[j] = g}

Status == {"absent", "pending", "processing", "completed", "failed"}

(* current = is_current; auth = authorized; armed = (run_mode is           *)
(* 'awaiting_normal'), the only value of run_mode any code tests; due =    *)
(* (next_attempt_at is NULL or in the past); retry = retry_count.          *)
RowType == [status : Status, current : BOOLEAN, auth : BOOLEAN,
            armed : BOOLEAN, due : BOOLEAN, retry : Nat]

Absent == [status |-> "absent", current |-> FALSE, auth |-> FALSE,
           armed |-> FALSE, due |-> TRUE, retry |-> 0]
Fresh  == [Absent EXCEPT !.status = "pending", !.current = TRUE]

Live(rows, j) == rows[j].current /\ rows[j].status = "pending"

---------------------------------------------------------------------------
(* Rows appear and become historical.                                      *)

(* Mutant: INSERT OR REPLACE where the code has INSERT OR IGNORE.          *)
SyncRoutesReplacing(rows, b, g) ==
  [j \in Jobs |->
     IF j \in NormalsOf(b, g) THEN Fresh
     ELSE IF BookOf[j] = b /\ GenOf[j] # g
       THEN [rows[j] EXCEPT !.current = FALSE]
     ELSE rows[j]]

SyncRoutes(rows, b, g) ==
  [j \in Jobs |->
     IF BookOf[j] = b /\ GenOf[j] # g
       THEN [rows[j] EXCEPT !.current = FALSE]
     ELSE IF j \in NormalsOf(b, g)
       THEN IF rows[j].status = "absent" THEN Fresh
            ELSE [rows[j] EXCEPT !.current = TRUE]
     ELSE rows[j]]

(* The sweeps whose picture some current normal route covers.              *)
CoveredSweeps(rows) ==
  {s \in Sweeps : \E n \in Normals : <<n, s>> \in Covers /\ rows[n].current}

SuppressOverlapping(rows, b, covered) ==
  [j \in Jobs |->
     IF j \in covered /\ BookOf[j] = b /\ rows[j].current
       THEN [rows[j] EXCEPT !.current = FALSE, !.auth = FALSE]
       ELSE rows[j]]

CreateSweeps(rows, b, g, covered) ==
  [j \in Jobs |->
     IF j \in SweepsOf(b, g) \ covered /\ rows[j].status = "absent"
       THEN Fresh
       ELSE rows[j]]

---------------------------------------------------------------------------
(* Authorization, and the dependency of a sweep on its book's normal rows. *)

ClearManual(rows, t) ==
  [j \in Jobs |->
     IF LaneOf[j] = t /\ Live(rows, j) /\ rows[j].auth
       THEN [rows[j] EXCEPT !.auth = FALSE, !.armed = FALSE]
       ELSE rows[j]]

StartManualBatch(rows, t) ==
  LET started == {j \in Normals : LaneOf[j] = t /\ Live(rows, j)}
  IN  [j \in Jobs |->
         IF j \in started
           THEN IF rows[j].auth THEN rows[j]
                ELSE [rows[j] EXCEPT !.auth = TRUE, !.armed = FALSE]
         ELSE IF j \in Sweeps /\ Live(rows, j)
                 /\ \E n \in started : BookOf[n] = BookOf[j]
           THEN [rows[j] EXCEPT !.auth = FALSE, !.armed = TRUE]
         ELSE rows[j]]

ArmSweeps(rows, S) ==
  [j \in Jobs |->
     IF j \in S \cap Sweeps /\ Live(rows, j)
       THEN [rows[j] EXCEPT !.auth = FALSE, !.armed = TRUE, !.due = TRUE]
       ELSE rows[j]]

ArmBook(rows, b) == ArmSweeps(rows, {j \in Jobs : BookOf[j] = b})

StartManualBook(rows, b) ==
  [j \in Jobs |->
     IF j \in Normals /\ BookOf[j] = b /\ Live(rows, j)
       THEN [rows[j] EXCEPT !.auth = TRUE, !.armed = FALSE, !.due = TRUE]
       ELSE ArmBook(rows, b)[j]]

(* Pending, processing and failed normal rows block the sweep of a book.   *)
Blockers(rows, b) ==
  {j \in Normals : BookOf[j] = b /\ rows[j].current
                                 /\ rows[j].status # "completed"}

ReleaseReady(rows, S) ==
  [j \in Jobs |->
     IF /\ j \in Sweeps /\ BookOf[j] \in S
        /\ Live(rows, j) /\ ~rows[j].auth /\ rows[j].armed
        /\ Blockers(rows, BookOf[j]) = {}
       THEN [rows[j] EXCEPT !.auth = TRUE, !.armed = FALSE, !.due = TRUE]
       ELSE rows[j]]

---------------------------------------------------------------------------
(* Choosing and claiming.  ORDER BY priority, score, id is data: any       *)
(* eligible row may be the first one.                                      *)

(* Mutant: a manual start counts in Auto Run mode only.                    *)
RunnableIfAuto(rows, t, autoRun) ==
  {j \in Normals : /\ LaneOf[j] = t /\ Live(rows, j)
                   /\ autoRun /\ rows[j].auth
                   /\ rows[j].due}

Runnable(rows, t, autoRun) ==
  {j \in Normals : /\ LaneOf[j] = t /\ Live(rows, j)
                   /\ autoRun \/ rows[j].auth
                   /\ rows[j].due}

(* Mutant: the claim does not test that the sweep is still pending.        *)
ClaimableAnyStatus(rows) ==
  {j \in Sweeps : /\ rows[j].current /\ rows[j].auth /\ rows[j].due
                  /\ Blockers(rows, BookOf[j]) = {}}

(* Mutant: the claim trusts the release, and does not look at the book.    *)
ClaimableUngated(rows) ==
  {j \in Sweeps : Live(rows, j) /\ rows[j].auth /\ rows[j].due}

ClaimableSweeps(rows) ==
  {j \in Sweeps : /\ Live(rows, j) /\ rows[j].auth /\ rows[j].due
                  /\ Blockers(rows, BookOf[j]) = {}}

(* The UPDATE that mark_processing and claim_next_artifact share.          *)
Processing(rows, j) ==
  [rows EXCEPT ![j].status = "processing", ![j].armed = FALSE,
               ![j].due = TRUE]

---------------------------------------------------------------------------
(* Outcomes.  None of these UPDATEs looks at the status it overwrites.     *)

MarkCompleted(rows, j) ==
  [rows EXCEPT ![j].status = "completed", ![j].auth = FALSE,
               ![j].due = TRUE, ![j].retry = 0]

MarkDeferred(rows, j) ==
  [rows EXCEPT ![j].status = "pending", ![j].due = FALSE]

MarkRetryable(rows, j) ==
  [rows EXCEPT ![j].status = "pending", ![j].due = FALSE,
               ![j].retry = @ + 1]

MarkFailed(rows, j) ==
  [rows EXCEPT ![j].status = "failed", ![j].auth = FALSE, ![j].due = TRUE]

---------------------------------------------------------------------------
(* Operator requeues and restart.                                          *)

Requeue(rows, S) ==
  [j \in Jobs |->
     IF j \in S
       THEN [rows[j] EXCEPT !.status = "pending", !.auth = TRUE,
                            !.armed = FALSE, !.due = TRUE, !.retry = 0]
       ELSE rows[j]]

Rerunnable(rows) ==
  {j \in Jobs : rows[j].current /\ rows[j].status \in {"completed", "failed"}}
Failed(rows) == {j \in Jobs : rows[j].current /\ rows[j].status = "failed"}

RetryFailedSweeps(rows) ==
  [j \in Jobs |->
     IF j \in Failed(rows) \cap Sweeps
       THEN [rows[j] EXCEPT !.status = "pending", !.auth = FALSE,
                            !.armed = TRUE, !.due = TRUE, !.retry = 0]
       ELSE rows[j]]

(* Mutant: a restart leaves interrupted rows alone.                        *)
RecoverNothing(rows) == rows

RecoverInterrupted(rows) ==
  [j \in Jobs |->
     IF rows[j].status = "processing"
       THEN [rows[j] EXCEPT !.status = "pending", !.due = TRUE]
       ELSE rows[j]]
===========================================================================

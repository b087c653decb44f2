--------------------------- MODULE DerivedStages ----------------------------
(***************************************************************************)
(* What is derived from the verification results of one book: the Stage 2C *)
(* ledger with its overlays (app/stage2b.py, app/stage2c.py), the Stage 3  *)
(* chunks (app/stage3.py), and the pipeline sequence of app/main.py that    *)
(* rebuilds each of them when app/pipeline_state.py finds its input        *)
(* signature out of date.                                                  *)
(*                                                                         *)
(* A signature is a hash of the rows or files it is taken of; here it is   *)
(* their value, in a singleton set, and {} is the signature of a file      *)
(* never written.                                                          *)
(***************************************************************************)
EXTENDS Naturals, FiniteSets

CONSTANTS
  Routes,      \* the verification routes of the book
  RequireHuman, \* stage2c_require_human_review: doubtful texts wait for a person
  Requesters,  \* who asks for builds: the pipeline sequence, and the others
  Sequence,    \* the pipeline sequence task
  Slots,       \* bound: build tasks alive at a time
  MaxAsks,     \* bound: requests of operators: reruns, builds, second decisions, bypasses
  Torn,        \* fault model: the chunk builds in whose write the process may die
  MaxFaults,   \* bound: endpoint outages, failed records, failed builds
  MaxCrashes   \* bound: process deaths

ASSUME DerivedAssumption ==
  /\ RequireHuman \in BOOLEAN /\ Sequence \in Requesters
  /\ IsFiniteSet(Slots) /\ Slots \subseteq Nat \ {0} /\ Torn \in {"newest", "any"}
  /\ MaxAsks \in Nat /\ MaxFaults \in Nat /\ MaxCrashes \in Nat

VARIABLES
  rows,       \* verification_jobs of the book
  recording,  \* results stored and not yet recorded: [Routes -> set of rows]
  ledger,     \* correction_ledger.json
  overlays,   \* the ledger chunk_overlays.jsonl was built from
  bypass,     \* verifier_audit_gate.json: the operator's testing bypass
  built,      \* stage2c_backfill.json and stage3_chunking.json
  chunks,     \* the ledger chunks.jsonl and retrieval_index.jsonl stand for
  requester,  \* a build request between its check and its task
  task,       \* the build tasks
  object,     \* the in-memory state objects
  newest,     \* the object and task registered last, per stage
  waived,     \* ghost: the ledgers let through to Stage 3 by the bypass alone
  asks, faults, crashes

stored == <<rows, ledger, overlays, bypass, built, chunks>>
memory == <<recording, requester, task, object, newest>>
bounds == <<asks, faults, crashes>>
vars   == <<rows, recording, ledger, overlays, bypass, built, chunks, requester,
            task, object, newest, waived, asks, faults, crashes>>

Stages == {"stage2c", "stage3"}

\* A clean result leaves no entry; a doubtful one waits for a person.
\* A route is verified as text, or else as a picture.
Rows    == [text : BOOLEAN, done : BOOLEAN, ver : 0 .. MaxAsks + 1, kind : {"clean", "fine", "doubtful"}]
\* writes stands for the time stamps, which keep two ledgers apart.  A person
\* may have accepted a picture whose evidence is still to be recovered.
Entries == [ver : 0 .. MaxAsks + 1, writes : Nat, doubt : BOOLEAN, human : BOOLEAN,
            lacks : BOOLEAN]
Ledgers == [Routes -> Entries]

NoEntry   == [ver |-> 0, writes |-> 0, doubt |-> FALSE, human |-> FALSE, lacks |-> FALSE]
NoTask    == [pc |-> "free", object |-> 0, rows |-> {}, todo |-> {}, read |-> {}]
NoObject  == [status |-> "none", sig |-> {}, errors |-> FALSE]
Unasked   == [stage |-> "none", seen |-> {}]
Unwritten == [status |-> "none", sig |-> {}]

Texts == {r \in Routes : rows[r].text}

AllDone == \A r \in Routes : rows[r].done

\* human_review_summary: the texts that keep Stage 2C waiting.
BlockingTexts(l) == {r \in Texts : RequireHuman /\ l[r].doubt /\ ~l[r].human}

\* verifier_audit_summary: what is to be decided, or recovered, before Stage 3.
Blocking(l) ==
  BlockingTexts(l) \cup {r \in Routes \ Texts : l[r].lacks \/ (l[r].doubt /\ ~l[r].human)}

\* blocking_review_required = 0
AuditOpen == bypass \/ Blocking(ledger) = {}

\* stage2c_freshness and stage2c_output_signature
Current2C == built.stage2c.status = "completed" /\ built.stage2c.sig = {rows}

\* Mutant: the signature is that of the status file alone.
Output2COfFile == built.stage2c

Output2C == [file |-> built.stage2c, ledger |-> ledger, overlays |-> overlays]

\* stage3_freshness
Current3 == Current2C /\ built.stage3.status = "completed" /\ built.stage3.sig = {Output2C}

\* stage2c_state_for and state_for
State(stage) == IF newest[stage] = 0 THEN NoObject ELSE object[stage][newest[stage]]
Busy(stage)  == newest[stage] # 0 /\ task[stage][newest[stage]].pc # "free"

Init ==
  /\ \E texts \in SUBSET Routes :
       rows = [r \in Routes |->
                 [text |-> r \in texts, done |-> FALSE, ver |-> 0, kind |-> "clean"]]
  /\ recording = [r \in Routes |-> {}]
  /\ ledger = [r \in Routes |-> NoEntry] /\ overlays = ledger
  /\ bypass = FALSE /\ waived = {}
  /\ built = [s \in Stages |-> Unwritten]
  /\ chunks = {}
  /\ requester = [q \in Requesters |-> Unasked]
  /\ task = [s \in Stages |-> [k \in Slots |-> NoTask]]
  /\ object = [s \in Stages |-> [k \in Slots |-> NoObject]]
  /\ newest = [s \in Stages |-> 0]
  /\ asks = 0 /\ faults = 0 /\ crashes = 0
-----------------------------------------------------------------------------
(* Verification, and the people who review                                 *)

\* mark_completed: the row is stored before its ledger entry is.  The device
\* loop that holds the row records it before it takes the next one.
Complete(r, kind) ==
  /\ ~rows[r].done /\ recording[r] = {}
  /\ kind = "clean" => r \in Texts
  /\ rows' = [rows EXCEPT ![r] = [text |-> @.text, done |-> TRUE, ver |-> @.ver + 1,
                                   kind |-> kind]]
  /\ recording' = [recording EXCEPT ![r] = {rows'[r]}]
  /\ UNCHANGED <<ledger, overlays, bypass, built, chunks, requester, task, object, newest,
                 waived, bounds>>

\* The rerun of a route.
Rerun(r) ==
  /\ rows[r].done /\ asks < MaxAsks
  /\ rows' = [rows EXCEPT ![r].done = FALSE]
  /\ asks' = asks + 1
  /\ UNCHANGED <<ledger, overlays, bypass, built, chunks, memory, waived, faults, crashes>>

\* _record_stage2c_entry with upsert_ledger_entry: the ledger afterwards.  A
\* clean result is not recorded, and a reviewed entry stands.
Recorded(l, r, row) ==
  IF row.kind = "clean" \/ l[r].human THEN l
  ELSE [l EXCEPT ![r] = [ver |-> row.ver, writes |-> @.writes + 1,
                         doubt |-> row.kind = "doubtful", human |-> FALSE, lacks |-> FALSE]]

\* One write under the ledger lock, which rebuilds the overlays.
Store(r, row) ==
  /\ ledger' = Recorded(ledger, r, row)
  /\ overlays' = IF row.kind = "clean" THEN overlays ELSE ledger'

\* _run_job, after mark_completed.
Record(r) ==
  /\ \E row \in recording[r] : Store(r, row)
  /\ recording' = [recording EXCEPT ![r] = {}]
  /\ UNCHANGED <<rows, bypass, built, chunks, requester, task, object, newest, waived, bounds>>

\* The record failed: it is logged, and the row stays completed.
RecordFails(r) ==
  /\ recording[r] # {} /\ faults < MaxFaults
  /\ faults' = faults + 1
  /\ recording' = [recording EXCEPT ![r] = {}]
  /\ UNCHANGED <<stored, requester, task, object, newest, waived, asks, crashes>>

\* A person's entry is written again, and the overlays with it.
Rewrite(r, lacks) ==
  /\ ledger' = [ledger EXCEPT ![r] = [ver |-> @.ver, writes |-> @.writes + 1, doubt |-> @.doubt,
                                       human |-> TRUE, lacks |-> lacks]]
  /\ overlays' = ledger'
  /\ UNCHANGED <<rows, bypass, built, chunks, memory, waived, crashes>>

\* A person decides on an entry, or decides again.  A picture may be accepted
\* without evidence; its recovery is started then.
Review(r) ==
  /\ ledger[r].ver > 0
  /\ \E lacks \in IF r \in Texts THEN {FALSE} ELSE BOOLEAN : Rewrite(r, lacks)
  /\ IF ledger[r].human THEN asks < MaxAsks /\ asks' = asks + 1 ELSE UNCHANGED asks
  /\ UNCHANGED faults

\* merge_human_visual_evidence: the recovery comes back, with evidence or not.
Recover(r) ==
  /\ ledger[r].lacks
  /\ \/ Rewrite(r, FALSE) /\ UNCHANGED faults
     \/ faults < MaxFaults /\ Rewrite(r, TRUE) /\ faults' = faults + 1
  /\ UNCHANGED asks

\* verifier_audit_bypass: it is set when every row is done, and withdrawn at
\* any time.
SetBypass(enabled) ==
  /\ enabled # bypass /\ (enabled => AllDone)
  /\ bypass' = enabled
  /\ IF enabled THEN asks < MaxAsks /\ asks' = asks + 1 ELSE UNCHANGED asks
  /\ UNCHANGED <<rows, ledger, overlays, built, chunks, memory, waived, faults, crashes>>
-----------------------------------------------------------------------------
(* Starting a build: start_stage2c_backfill and Stage3Builder.start test   *)
(* for a running task, then await the job and its rows, then test the rest *)
(* and create the state object and the task without another await.         *)

\* Mutant: a build that waits for the endpoint counts as under way.
SequenceWantsNotWaiting(stage) ==
  /\ AllDone
  /\ State(stage).status \notin {"queued", "running", "waiting_for_pi5"}
  /\ IF stage = "stage2c" THEN ~Current2C
     ELSE Current2C /\ ~Current3 /\ AuditOpen

\* _advance_pipeline_sequence_once starts what is out of date, unless the
\* state in memory says it is under way.
SequenceWants(stage) ==
  /\ AllDone
  /\ State(stage).status \notin {"queued", "running"}
  /\ IF stage = "stage2c" THEN ~Current2C
     ELSE Current2C /\ ~Current3 /\ AuditOpen

\* The test for a running task; Stage 3 reads the file of Stage 2C as well.
Ask(q, stage) ==
  /\ requester[q] = Unasked /\ ~Busy(stage)
  /\ IF q = Sequence THEN SequenceWants(stage) /\ UNCHANGED asks
     ELSE asks < MaxAsks /\ asks' = asks + 1
  /\ stage = "stage3" => built.stage2c.status = "completed"
  /\ requester' = [requester EXCEPT ![q] =
       [stage |-> stage, seen |-> IF stage = "stage2c" THEN {rows} ELSE built.stage2c.sig]]
  /\ UNCHANGED <<stored, recording, task, object, newest, waived, faults, crashes>>

\* Mutant: the audit gate is left to the pipeline sequence.
AcceptedUnaudited(stage, seen) ==
  IF stage = "stage2c"
    THEN \A r \in Routes : seen[r].done
    ELSE seen = rows

\* The other tests, on the rows as they were read in the meantime.  The bypass
\* is no help to Stage 2C.
Accepted(stage, seen) ==
  IF stage = "stage2c"
    THEN /\ \A r \in Routes : seen[r].done
         /\ BlockingTexts(ledger) = {}
    ELSE /\ seen = rows
         /\ AuditOpen

Unused(stage) ==
  {k \in Slots : /\ task[stage][k].pc = "free"
                 /\ \A j \in Slots : task[stage][j].object # k}

\* The task registered before, if it lives, is no longer known to anyone.
Register(stage, k, seen) ==
  /\ task' = [task EXCEPT ![stage][k] = [NoTask EXCEPT !.pc = "begin", !.rows = {seen}]]
  /\ object' = [object EXCEPT ![stage] = [j \in Slots |->
       CASE j = k -> [NoObject EXCEPT !.status = "queued",
                        !.sig = IF stage = "stage2c" THEN {seen} ELSE {Output2C}]
         [] j # k /\ \E i \in Slots : task[stage][i].object = j -> @[j]
         [] OTHER -> NoObject]]
  /\ newest' = [newest EXCEPT ![stage] = k]

Create(q) ==
  LET stage == requester[q].stage IN
  /\ requester[q] # Unasked
  /\ requester' = [requester EXCEPT ![q] = Unasked]
  /\ \E seen \in requester[q].seen \cup (IF stage = "stage2c" THEN {rows} ELSE {}) :
       IF Accepted(stage, seen)
         THEN /\ Unused(stage) # {}
              /\ Register(stage, CHOOSE k \in Unused(stage) : TRUE, seen)
         ELSE UNCHANGED <<task, object, newest>>
  /\ waived' = IF stage = "stage3" /\ bypass /\ Blocking(ledger) # {}
                 THEN waived \cup {ledger} ELSE waived
  /\ UNCHANGED <<stored, recording, bounds>>
-----------------------------------------------------------------------------
(* The build tasks.  A task works on the state object that is registered   *)
(* when it first runs, and writes it to its file as it goes.               *)

FileOf(o) == [status |-> o.status, sig |-> o.sig]

\* Task k of the stage goes on as t, with its object o, and the file written.
Goes(stage, k, t, o) ==
  /\ task' = [task EXCEPT ![stage][k] = t]
  /\ object' = [object EXCEPT ![stage][t.object] = o]
  /\ built' = [built EXCEPT ![stage] = FileOf(o)]

Ends(stage, k, o) ==
  /\ task' = [task EXCEPT ![stage][k] = NoTask]
  /\ object' = [object EXCEPT ![stage][task[stage][k].object] = o]
  /\ built' = [built EXCEPT ![stage] = FileOf(o)]

Own(stage, k) == object[stage][task[stage][k].object]

\* _run_stage2c_backfill: routes that have an entry are not recorded again.
BackfillBegin(k) ==
  LET t == task.stage2c[k] IN
  /\ t.pc = "begin"
  /\ Goes("stage2c", k,
          [t EXCEPT !.pc = "record", !.object = newest.stage2c,
                    !.todo = {r \in Routes : ledger[r].ver = 0}],
          [State("stage2c") EXCEPT !.status = "running"])
  /\ UNCHANGED <<rows, recording, ledger, overlays, bypass, chunks, requester, newest, waived, bounds>>

BackfillRoute(k, r) ==
  LET t == task.stage2c[k] IN
  /\ t.pc = "record" /\ r \in t.todo
  /\ \E seen \in t.rows : Store(r, seen[r])
  /\ Goes("stage2c", k, [t EXCEPT !.todo = @ \ {r}], Own("stage2c", k))
  /\ UNCHANGED <<rows, recording, bypass, chunks, requester, newest, waived, bounds>>

\* The route could not be recorded; the others are.
BackfillRouteFails(k, r) ==
  LET t == task.stage2c[k] IN
  /\ t.pc = "record" /\ r \in t.todo /\ faults < MaxFaults
  /\ Goes("stage2c", k, [t EXCEPT !.todo = @ \ {r}], [Own("stage2c", k) EXCEPT !.errors = TRUE])
  /\ faults' = faults + 1
  /\ UNCHANGED <<rows, recording, ledger, overlays, bypass, chunks, requester, newest, waived, asks,
                 crashes>>

\* The text endpoint is down: _pi5_wait_state, until somebody starts again.
BackfillWaits(k) ==
  LET t == task.stage2c[k] IN
  /\ t.pc = "record" /\ t.todo \cap Texts # {} /\ faults < MaxFaults
  /\ Ends("stage2c", k, [Own("stage2c", k) EXCEPT !.status = "waiting_for_pi5"])
  /\ faults' = faults + 1
  /\ UNCHANGED <<rows, recording, ledger, overlays, bypass, chunks, requester, newest, waived, asks,
                 crashes>>

BackfillEnd(k) ==
  LET t == task.stage2c[k]
      o == Own("stage2c", k)
  IN
  /\ t.pc = "record" /\ t.todo = {}
  /\ Ends("stage2c", k, [o EXCEPT !.status = IF o.errors THEN "partial" ELSE "completed"])
  /\ UNCHANGED <<rows, recording, ledger, overlays, bypass, chunks, requester, newest, waived, bounds>>

\* Stage3Builder._run, up to the thread that rebuilds the overlays.
ChunksBegin(k) ==
  LET t == task.stage3[k] IN
  /\ t.pc = "begin"
  /\ Goes("stage3", k,
          [t EXCEPT !.pc = "overlays", !.object = newest.stage3, !.read = {ledger}],
          [State("stage3") EXCEPT !.status = "running"])
  /\ UNCHANGED <<rows, recording, ledger, overlays, bypass, chunks, requester, newest, waived, bounds>>

\* The overlays are rebuilt of the ledger read before, outside its lock.
ChunksOverlays(k) ==
  LET t == task.stage3[k] IN
  /\ t.pc = "overlays"
  /\ overlays' = CHOOSE l \in t.read : TRUE
  /\ task' = [task EXCEPT !.stage3[k].pc = "chunk"]
  /\ UNCHANGED <<rows, recording, ledger, bypass, built, chunks, requester, object, newest, waived,
                 bounds>>

\* Mutant: the signature is taken when the chunks are written.
ChunksEndSigned(k) ==
  LET t == task.stage3[k] IN
  /\ t.pc = "chunk"
  /\ chunks' = t.read
  /\ Ends("stage3", k, [Own("stage3", k) EXCEPT !.status = "completed", !.sig = {Output2C}])
  /\ UNCHANGED <<rows, recording, ledger, overlays, bypass, requester, newest, waived, bounds>>

\* The chunk server answered: chunks, retrieval index and status are written
\* without an await.
ChunksEnd(k) ==
  LET t == task.stage3[k] IN
  /\ t.pc = "chunk"
  /\ chunks' = t.read
  /\ Ends("stage3", k, [Own("stage3", k) EXCEPT !.status = "completed"])
  /\ UNCHANGED <<rows, recording, ledger, overlays, bypass, requester, newest, waived, bounds>>

ChunksFail(k) ==
  /\ task.stage3[k].pc = "chunk" /\ faults < MaxFaults
  /\ Ends("stage3", k, [Own("stage3", k) EXCEPT !.status = "failed"])
  /\ faults' = faults + 1
  /\ UNCHANGED <<rows, recording, ledger, overlays, bypass, chunks, requester, newest, waived, asks,
                 crashes>>

\* The process dies; files and rows stay as they are.
Forget ==
  /\ recording' = [r \in Routes |-> {}]
  /\ requester' = [q \in Requesters |-> Unasked]
  /\ task' = [s \in Stages |-> [k \in Slots |-> NoTask]]
  /\ object' = [s \in Stages |-> [k \in Slots |-> NoObject]]
  /\ newest' = [s \in Stages |-> 0]
  /\ crashes < MaxCrashes /\ crashes' = crashes + 1

Crash == Forget /\ UNCHANGED <<stored, waived, asks, faults>>

\* It dies after it wrote the chunks, and before their status.
CrashInChunksEnd(k) ==
  /\ task.stage3[k].pc = "chunk"
  /\ Torn = "newest" => k = newest.stage3
  /\ chunks' = task.stage3[k].read
  /\ Forget
  /\ UNCHANGED <<rows, ledger, overlays, bypass, built, waived, asks, faults>>
-----------------------------------------------------------------------------
BackfillStep(k) ==
  \/ BackfillBegin(k)
  \/ \E r \in Routes : BackfillRoute(k, r) \/ BackfillRouteFails(k, r)
  \/ BackfillWaits(k)
  \/ BackfillEnd(k)

ChunksStep(k) == ChunksBegin(k) \/ ChunksOverlays(k) \/ ChunksEnd(k) \/ ChunksFail(k)

RequestStep(q) == Create(q) \/ \E stage \in Stages : Ask(q, stage)

Next ==
  \/ \E r \in Routes, kind \in {"clean", "fine", "doubtful"} : Complete(r, kind)
  \/ \E r \in Routes : Rerun(r) \/ Record(r) \/ RecordFails(r) \/ Review(r) \/ Recover(r)
  \/ \E enabled \in BOOLEAN : SetBypass(enabled)
  \/ \E q \in Requesters : RequestStep(q)
  \/ \E k \in Slots : BackfillStep(k) \/ ChunksStep(k)
  \/ Crash \/ \E k \in Slots : CrashInChunksEnd(k)

Spec == Init /\ [][Next]_vars

\* The tasks of the event loop run until they end; people owe nothing.
Fairness ==
  /\ WF_vars(\E r \in Routes : Record(r))
  /\ WF_vars(RequestStep(Sequence))
  /\ WF_vars(\E k \in Slots : BackfillStep(k))
  /\ WF_vars(\E k \in Slots : ChunksStep(k))

FairSpec == Spec /\ Fairness
-----------------------------------------------------------------------------
(* Properties *)

Statuses == {"none", "queued", "running", "waiting_for_pi5", "partial", "failed", "completed"}

\* The stored artifacts hold what the builders can write, and a live task has
\* its own progress: every state of the pipeline is well formed.
TypeOK ==
  /\ rows \in [Routes -> Rows] /\ ledger \in Ledgers /\ overlays \in Ledgers
  /\ \A s \in Stages : built[s].status \in Statuses
  /\ chunks \subseteq Ledgers
  /\ \A s \in Stages, k \in Slots :
       /\ task[s][k].pc \in {"free", "begin", "record", "overlays", "chunk"}
       /\ task[s][k].object \in Slots \cup {0}
       /\ object[s][k].status \in Statuses
       /\ task[s][k].object # 0 => object[s][task[s][k].object].status # "none"
  /\ newest \in [Stages -> Slots \cup {0}]

\* Chunks that are taken for current were built from the ledger as it is.
ChunksCurrent == Current3 => chunks = {ledger}

\* Chunks that are taken for current were built after the last decision a
\* person owed and the last recovery: nothing unreviewed is waiting behind
\* them, unless a build of this very ledger was started under the bypass.
ReadyWasAudited == Current3 => Blocking(ledger) = {} \/ ledger \in waived

\* When results and people come to rest, the chunks become current, and stay.
BookBecomesCurrent ==
  <>[](AllDone /\ BlockingTexts(ledger) = {} /\ AuditOpen) => <>[]Current3

\* The chunks are a published view of the ledger: a decision, a record or a
\* rebuild of Stage 2C retracts them in the step that makes it.
View == INSTANCE PublishedView WITH source <- ledger, view <- chunks, current <- Current3
ChunksArePublishedView == View!Spec

-----------------------------------------------------------------------------
(* What the code does not keep, whatever the documents say: no run requires  *)
(* it.  README.md, section 4, names the steps that break each statement.     *)

\* What README.md says of Stage 2C: a ledger taken for current holds the
\* results of the rows, except where a person decided.
LedgerCurrent ==
  (Current2C /\ \A r \in Routes : recording[r] = {}) =>
    \A r \in Routes :
      ledger[r].human \/ ledger[r].ver = IF rows[r].kind = "clean" THEN 0 ELSE rows[r].ver

\* What the name of the testing bypass suggests: that the audit counts again
\* when it is withdrawn.  Chunks built under it stay current.
WithdrawnBypassCounts == Current3 => AuditOpen
=============================================================================

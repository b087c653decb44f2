--------------------------- MODULE QualityAnalysis --------------------------
(***************************************************************************)
(* Stage 2A (app/postprocess.py, app/postprocess_store.py): one worker     *)
(* imports ZIPs that appear in converted/, turns completed conversions     *)
(* into books, and analyses the books one after the other.  ZIPs change in *)
(* the folder, conversions end, operators rerun, retry and delete books,   *)
(* and the process dies, between any two of its awaits.                    *)
(*                                                                         *)
(* A file's stamp is its size and modification time, which change whenever *)
(* it is written.  A conversion row and the book made of it are one row.   *)
(***************************************************************************)
EXTENDS QualityRouting, FiniteSets

CONSTANTS
  Names,        \* file names in converted/
  Contents,     \* what a ZIP can hold; its hash
  Findings,     \* [valid contents -> the findings of the diagnostics]
  NoZip,
  Ceilings,     \* values of max_routes_per_document
  MaxOps,       \* bound: files written, conversions and requests of operators
  MaxCrashes    \* bound: process deaths

Valid == DOMAIN Findings
Ids   == 1 .. MaxOps

ASSUME AnalysisAssumption ==
  /\ IsFiniteSet(Names) /\ IsFiniteSet(Contents) /\ Valid \subseteq Contents
  /\ NoZip \notin Contents /\ \A c \in Valid : IsDiagnosis(Findings[c])
  /\ Ceilings \subseteq Nat /\ Ceilings # {} /\ MaxOps \in Nat /\ MaxCrashes \in Nat

VARIABLES
  zips,       \* [Names -> the file there]
  stamps,     \* [Names -> its stamp]
  rows,       \* jobs, with postprocess_jobs
  rejected,   \* _rejected_converted_zips
  worker,     \* the loop
  moving,     \* the deletion at work: its row, and the ZIP it has moved
  ceiling,    \* max_routes_per_document
  ops, crashes

vars   == <<zips, stamps, rows, rejected, worker, moving, ceiling, ops, crashes>>
folder == <<zips, stamps>>
bounds == <<ops, crashes>>

Stamps   == 0 .. MaxOps
NoResult == [sha |-> NoZip, of |-> NoZip, ceiling |-> 0,
             routes |-> [created |-> <<>>, deferred |-> <<>>]]
Absent   == [kind |-> "none", name |-> NoZip, sha |-> NoZip, stamp |-> 0,
             status |-> "absent", result |-> NoResult]
Deleted  == [Absent EXCEPT !.status = "deleted"]

Idle     == [pc |-> "idle", todo |-> {}, name |-> NoZip, stamp |-> 0, seen |-> NoZip,
             job |-> 0, ceiling |-> 0]
Still    == [job |-> 0, name |-> NoZip, zip |-> NoZip]

Owns(i, n) == rows[i].kind # "none" /\ rows[i].name = n
Watched(n) == \E i \in Ids : Owns(i, n) /\ rows[i].kind = "watcher"
NextId(i)  == rows[i] = Absent /\ \A j \in 1 .. i - 1 : rows[j] # Absent

Init ==
  /\ zips = [n \in Names |-> NoZip] /\ stamps = [n \in Names |-> 0]
  /\ rows = [i \in Ids |-> Absent]
  /\ rejected = [n \in Names |-> 0]
  /\ worker = Idle /\ moving = Still
  /\ ceiling \in Ceilings
  /\ ops = 0 /\ crashes = 0

Spend == ops < MaxOps /\ ops' = ops + 1 /\ UNCHANGED crashes
-----------------------------------------------------------------------------
(* The folder, the conversions and the operators                           *)

\* Somebody writes a file in converted/: a ZIP of Docling or another one,
\* perhaps over an earlier file and perhaps with the same content.
WriteZip(n, c) ==
  /\ Spend
  /\ zips' = [zips EXCEPT ![n] = c] /\ stamps' = [stamps EXCEPT ![n] = @ + 1]
  /\ UNCHANGED <<rows, rejected, worker, moving, ceiling>>

\* The conversion worker reserves its output name before it converts, and
\* takes another name when there is a good file.
Reserve(n) ==
  /\ zips[n] \notin Valid /\ ~Watched(n) /\ Spend
  /\ \E i \in Ids : /\ NextId(i)
                    /\ rows' = [rows EXCEPT ![i] = [Absent EXCEPT !.kind = "watcher",
                                                    !.name = n, !.status = "converting"]]
  /\ UNCHANGED <<folder, rejected, worker, moving, ceiling>>

Convert(i, c) ==
  /\ rows[i].status = "converting"
  /\ LET n == rows[i].name
     IN  zips' = [zips EXCEPT ![n] = c] /\ stamps' = [stamps EXCEPT ![n] = @ + 1]
  /\ rows' = [rows EXCEPT ![i].status = "converted", ![i].sha = c]
  /\ UNCHANGED <<rejected, worker, moving, ceiling, bounds>>

\* The conversion failed; its row keeps the name it reserved.
ConversionFails(i) ==
  /\ rows[i].status = "converting"
  /\ rows' = [rows EXCEPT ![i].status = "unconverted"]
  /\ UNCHANGED <<folder, rejected, worker, moving, ceiling, bounds>>

RetryConversion(i) ==
  /\ rows[i].status = "unconverted" /\ Spend
  /\ rows' = [rows EXCEPT ![i].status = "converting"]
  /\ UNCHANGED <<folder, rejected, worker, moving, ceiling>>

\* delete_conversion_queue_item: the file of the reserved name is moved away,
\* whoever wrote it, and the row is deleted.
DeleteConversion(i) ==
  /\ rows[i].status = "unconverted" /\ Spend
  /\ zips' = [zips EXCEPT ![rows[i].name] = NoZip]
  /\ rows' = [rows EXCEPT ![i] = Deleted]
  /\ UNCHANGED <<stamps, rejected, worker, moving, ceiling>>

Retry(i) ==
  /\ rows[i].status = "failed" /\ Spend
  /\ rows' = [rows EXCEPT ![i].status = "pending"]
  /\ UNCHANGED <<folder, rejected, worker, moving, ceiling>>

Rerun(i) ==
  /\ rows[i].status \in {"completed", "failed"} /\ Spend
  /\ rows' = [rows EXCEPT ![i].status = "pending"]
  /\ UNCHANGED <<folder, rejected, worker, moving, ceiling>>

SetCeiling(k) ==
  /\ k # ceiling /\ Spend
  /\ ceiling' = k
  /\ UNCHANGED <<folder, rows, rejected, worker, moving>>

\* delete_book: the ZIP is moved, and the rows follow in a transaction that
\* looks again for work on the book; if there is some, the ZIP comes back
\* unless there is a file of its name by then.
DeleteMove(i) ==
  /\ rows[i].status \in {"completed", "failed"} /\ moving = Still /\ Spend
  /\ moving' = [job |-> i, name |-> rows[i].name, zip |-> zips[rows[i].name]]
  /\ zips' = [zips EXCEPT ![rows[i].name] = NoZip]
  /\ UNCHANGED <<stamps, rows, rejected, worker, ceiling>>

DeleteRows ==
  /\ moving # Still /\ moving' = Still
  /\ IF rows[moving.job].status \in {"pending", "processing"}
     THEN /\ zips' = [zips EXCEPT ![moving.name] = IF @ = NoZip THEN moving.zip ELSE @]
          /\ UNCHANGED rows
     ELSE rows' = [rows EXCEPT ![moving.job] = Deleted] /\ UNCHANGED zips
  /\ UNCHANGED <<stamps, rejected, worker, ceiling, bounds>>
-----------------------------------------------------------------------------
(* The worker: import                                                      *)

At(pc) == worker.pc = pc

BeginPass ==
  /\ At("idle")
  /\ worker' = [Idle EXCEPT !.pc = "import", !.todo = {n \in Names : zips[n] # NoZip}]
  /\ UNCHANGED <<folder, rows, rejected, moving, ceiling, bounds>>

\* converted_output_needs_registration
NeedsRegistration(n) ==
  /\ ~Watched(n)
  /\ ~\E i \in Ids : Owns(i, n) /\ rows[i].kind = "import" /\ rows[i].stamp = stamps[n]

Consider(n) ==
  /\ At("import") /\ n \in worker.todo
  /\ worker' = IF zips[n] # NoZip /\ rejected[n] # stamps[n] /\ NeedsRegistration(n)
               THEN [worker EXCEPT !.todo = @ \ {n}, !.pc = "inspect", !.name = n,
                                   !.stamp = stamps[n]]
               ELSE [worker EXCEPT !.todo = @ \ {n}]
  /\ UNCHANGED <<folder, rows, rejected, moving, ceiling, bounds>>

\* The signature is that of the first look, whatever has been read since.
Reject ==
  /\ worker' = [worker EXCEPT !.pc = "import"]
  /\ rejected' = [rejected EXCEPT ![worker.name] = worker.stamp]

\* The file is read as it is by now; one that is missing, or no export of
\* Docling, is rejected.
Inspect ==
  /\ At("inspect")
  /\ IF zips[worker.name] \in Valid
     THEN worker' = [worker EXCEPT !.pc = "digest"] /\ UNCHANGED rejected
     ELSE Reject
  /\ UNCHANGED <<folder, rows, moving, ceiling, bounds>>

\* It is read again for its hash.
Digest ==
  /\ At("digest")
  /\ IF zips[worker.name] # NoZip
     THEN /\ worker' = [worker EXCEPT !.pc = "register", !.seen = zips[worker.name]]
          /\ UNCHANGED rejected
     ELSE Reject
  /\ UNCHANGED <<folder, rows, moving, ceiling, bounds>>

\* Mutant: only the stamp tells whether a ZIP has been imported.
IsNewByStamp(n, sha) == ~Watched(n)

\* register_converted_output looks again, in its transaction.
IsNew(n, sha) ==
  /\ ~Watched(n)
  /\ ~\E i \in Ids : Owns(i, n) /\ rows[i].kind = "import" /\ rows[i].sha = sha

Register ==
  /\ At("register")
  /\ IF IsNew(worker.name, worker.seen)
     THEN /\ \E i \in Ids :
               /\ NextId(i)
               /\ rows' = [rows EXCEPT ![i] =
                             [kind |-> "import", name |-> worker.name, sha |-> worker.seen,
                              stamp |-> worker.stamp, status |-> "converted",
                              result |-> NoResult]]
          /\ rejected' = [rejected EXCEPT ![worker.name] = 0]
     ELSE UNCHANGED <<rows, rejected>>
  /\ worker' = [worker EXCEPT !.pc = "import"]
  /\ UNCHANGED <<folder, moving, ceiling, bounds>>
-----------------------------------------------------------------------------
(* The worker: books and their analysis                                    *)

\* discover_completed_conversions
Discover ==
  /\ At("import") /\ worker.todo = {}
  /\ rows' = [i \in Ids |-> IF rows[i].status = "converted"
                            THEN [rows[i] EXCEPT !.status = "pending"] ELSE rows[i]]
  /\ worker' = [Idle EXCEPT !.pc = "next"]
  /\ UNCHANGED <<folder, rejected, moving, ceiling, bounds>>

Pending == {i \in Ids : rows[i].status = "pending"}

\* next_pending: the lowest id.
Oldest(i) == i \in Pending /\ \A j \in Pending : i <= j

\* The configuration is read here, for the whole analysis.
Take(i) ==
  /\ At("next") /\ Oldest(i)
  /\ rows' = [rows EXCEPT ![i].status = "processing"]
  /\ worker' = [Idle EXCEPT !.pc = "hash", !.job = i, !.ceiling = ceiling]
  /\ UNCHANGED <<folder, rejected, moving, ceiling, bounds>>

NothingPending ==
  /\ At("next") /\ Pending = {}
  /\ worker' = Idle
  /\ UNCHANGED <<folder, rows, rejected, moving, ceiling, bounds>>

CurrentZip == zips[rows[worker.job].name]

Fail ==
  /\ rows' = [rows EXCEPT ![worker.job].status = "failed"]
  /\ worker' = Idle

\* The hash of the ZIP, and then the ZIP, are read one after the other.
Hash ==
  /\ At("hash")
  /\ IF CurrentZip = NoZip THEN Fail
     ELSE worker' = [worker EXCEPT !.pc = "read", !.seen = CurrentZip] /\ UNCHANGED rows
  /\ UNCHANGED <<folder, rejected, moving, ceiling, bounds>>

\* Profile, diagnostics and routes are computed of the document that was
\* read, and the artifacts are written to the result directory of the run.
Read ==
  /\ At("read")
  /\ IF CurrentZip \notin Valid THEN Fail
     ELSE worker' = [worker EXCEPT !.pc = "publish", !.name = CurrentZip] /\ UNCHANGED rows
  /\ UNCHANGED <<folder, rejected, moving, ceiling, bounds>>

\* mark_completed
Publish ==
  /\ At("publish")
  /\ rows' = [rows EXCEPT ![worker.job].status = "completed",
                ![worker.job].result =
                  [sha |-> worker.seen, of |-> worker.name, ceiling |-> worker.ceiling,
                   routes |-> Routes(Findings[worker.name], worker.ceiling)]]
  /\ worker' = Idle
  /\ UNCHANGED <<folder, rejected, moving, ceiling, bounds>>


\* recover_interrupted
Recovered == [i \in Ids |-> IF rows[i].status = "processing"
                            THEN [rows[i] EXCEPT !.status = "pending"] ELSE rows[i]]

Crash ==
  /\ crashes < MaxCrashes /\ crashes' = crashes + 1
  /\ rows' = Recovered
  /\ rejected' = [n \in Names |-> 0]
  /\ worker' = Idle /\ moving' = Still
  /\ UNCHANGED <<folder, ceiling, ops>>

Work ==
  \/ BeginPass \/ (\E n \in Names : Consider(n)) \/ Inspect \/ Digest \/ Register
  \/ Discover \/ (\E i \in Ids : Take(i)) \/ NothingPending \/ Hash \/ Read \/ Publish

Converting == \E i \in Ids : ConversionFails(i) \/ \E c \in Contents : Convert(i, c)

Next ==
  \/ \E n \in Names : Reserve(n) \/ (\E c \in Contents : WriteZip(n, c))
  \/ \E i \in Ids : Retry(i) \/ Rerun(i) \/ DeleteMove(i)
                  \/ RetryConversion(i) \/ DeleteConversion(i)
  \/ \E k \in Ceilings : SetCeiling(k)
  \/ Converting \/ DeleteRows \/ Work \/ Crash

Spec == Init /\ [][Next]_vars

\* The worker's loop goes on, and so do a conversion, one way or the other,
\* and a deletion.
Fairness == WF_vars(Work) /\ WF_vars(Converting) /\ WF_vars(DeleteRows)

FairSpec == Spec /\ Fairness
-----------------------------------------------------------------------------
ZipOrNone   == Contents \cup {NoZip}
Sequences   == UNION {BoundedSeq(Candidates(Findings[c]), Len(Findings[c])) : c \in Valid}
Results     == [sha : ZipOrNone, of : Valid \cup {NoZip}, ceiling : Nat,
                routes : [created : Sequences \cup {<<>>}, deferred : Sequences \cup {<<>>}]]
RowStatuses == {"absent", "converting", "unconverted", "converted", "pending",
                "processing", "completed", "failed", "deleted"}

TypeOK ==
  /\ zips \in [Names -> ZipOrNone] /\ stamps \in [Names -> Stamps]
  /\ rows \in [Ids -> [kind : {"none", "import", "watcher"}, name : Names \cup {NoZip},
                       sha : ZipOrNone, stamp : Stamps, status : RowStatuses,
                       result : Results]]
  /\ rejected \in [Names -> Stamps]
  /\ worker \in [pc : {"idle", "import", "inspect", "digest", "register", "next", "hash",
                       "read", "publish"},
                 todo : SUBSET Names, name : Names \cup ZipOrNone, stamp : Stamps,
                 seen : ZipOrNone, job : 0 .. MaxOps, ceiling : Nat]
  /\ moving \in [job : 0 .. MaxOps, name : Names \cup {NoZip}, zip : ZipOrNone]
  /\ ceiling \in Ceilings /\ ops \in 0 .. MaxOps /\ crashes \in 0 .. MaxCrashes

(* The same file of converted/ is imported once, however often it is       *)
(* written again and whatever the worker read before.                      *)
ImportedOnce ==
  \A i, j \in Ids :
    rows[i].kind = "import" /\ rows[j].kind = "import"
    /\ rows[i].name = rows[j].name /\ rows[i].sha = rows[j].sha => i = j

(* No candidate is lost to the ceiling, and none waits behind one whose    *)
(* findings are all less urgent than some finding of its own.              *)
RoutedByUrgency ==
  \A i \in Ids :
    LET r == rows[i].result
        created == {c.key : c \in ToSet(r.routes.created)}
        deferred == {c.key : c \in ToSet(r.routes.deferred)}
    IN  r # NoResult =>
          /\ created \cup deferred = Keys(Findings[r.of]) /\ created \cap deferred = {}
          /\ \A k \in created, l \in deferred :
               \A g \in About(Findings[r.of], l) :
                 \E f \in About(Findings[r.of], k) : f.priority >= g.priority

(* Raising the ceiling and running the analysis of the same ZIP again      *)
(* promotes deferred candidates and keeps the routes there were, in order. *)
RaisingPromotes ==
  [][\A i \in Ids :
       LET old == rows[i].result
           new == rows'[i].result
       IN  old # NoResult /\ new # NoResult /\ old.of = new.of /\ old.ceiling <= new.ceiling =>
             IsPrefix(old.routes.created, new.routes.created)]_vars


-----------------------------------------------------------------------------
(* What the code does not keep, whatever the documents say: no run requires  *)
(* it.  README.md, section 4, names the steps that break each statement.     *)

(* A completed analysis is one of the content its row was imported with,   *)
(* and the hash it records is that of the document it describes.           *)
ResultOfItsZip ==
  \A i \in Ids : rows[i].result # NoResult =>
    rows[i].result.sha = rows[i].result.of /\ rows[i].result.of = rows[i].sha

(* A row stands for a file: once its book is deleted nothing brings it     *)
(* back, so a row that is registered has its ZIP in the folder.            *)
RegisteredHasZip ==
  [][\A i \in Ids : rows[i] = Absent /\ rows'[i].kind = "import" =>
       zips[rows'[i].name] # NoZip]_vars

(* A failed conversion does not keep the export of another tool from       *)
(* becoming a book.                                                        *)
ReservationEnds ==
  \A n \in Names, c \in Valid :
    <>[](zips[n] = c /\ rejected[n] # stamps[n]) =>
      <>(\E i \in Ids : Owns(i, n) /\ rows[i].status \in {"completed", "failed"})
=============================================================================

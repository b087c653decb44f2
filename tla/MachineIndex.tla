---------------------------- MODULE MachineIndex ----------------------------
(***************************************************************************)
(* The embedding index of one machine (app/hybrid_retrieval.py) over the   *)
(* manuals app/equipment_scope.py assigns to it, and the deletion of a     *)
(* book (app/book_lifecycle.py, delete_book of app/main.py), which takes   *)
(* the files, the rows and the assignment away one after the other.        *)
(* Builds, searches, assignments and deletions are requests of their own,  *)
(* and each of them awaits or runs in a thread between its steps.          *)
(*                                                                         *)
(* All manuals are authoritative, and the embedding model, its prefix and  *)
(* the manual types do not change.  Two indexes have as many rows as each  *)
(* other when they hold the same books.                                    *)
(***************************************************************************)
EXTENDS Naturals, FiniteSets, Functions

CONSTANTS
  Books,       \* the managed books
  Builders,    \* who builds the index: the pipeline sequence, and operators
  Pipeline,    \* the pipeline sequence task
  MaxOps,      \* bound: rebuilt chunk files, new assignments and work on books
  MaxFaults,   \* bound: failing moves, an embedding service that is away
  MaxCrashes   \* bound: process deaths

ASSUME MachineAssumption ==
  /\ IsFiniteSet(Books) /\ Pipeline \in Builders
  /\ MaxOps \in Nat /\ MaxFaults \in Nat /\ MaxCrashes \in Nat

VARIABLES
  records,    \* the books with rows in the database
  busy,       \* those of them at work in Stage 2A or in verification
  files,      \* the manual in its watched folder, the version of its Stage 3 index
  moved,      \* the same in quarantine, as the deletion at work remembers it
  deleting,   \* how far the deletion of a book is
  registry,   \* the books assigned to the machine
  assign,     \* the books an assignment request has listed
  pointer,    \* the generation current.json names
  pending,    \* the generation current.tmp names
  build,      \* the builds
  search,     \* a search
  ops, faults, crashes

books  == <<records, busy, files, moved, deleting>>
index  == <<pointer, pending>>
bounds == <<ops, faults, crashes>>
vars   == <<records, busy, files, moved, deleting, registry, assign,
            pointer, pending, build, search, ops, faults, crashes>>

Versions == 0 .. MaxOps + 1
Files    == [manual : BOOLEAN, index : Versions]
Absent   == [manual |-> FALSE, index |-> 0]

\* A generation: the chunks its vectors stand for, the signatures of the
\* index files when the metadata was put together, and manual_types.  Files
\* of another generation or of none have no rows.
Texts       == UNION {[B -> Versions \ {0}] : B \in SUBSET Books}
Generations == [rows : Texts, sig : Texts, types : SUBSET Books]
NoRows      == [b \in {} |-> 1]
Nothing     == [rows |-> NoRows, sig |-> NoRows, types |-> {}]

NoBuild  == [pc |-> "idle", known |-> {}, rows |-> NoRows]
NoSearch == [pc |-> "idle", known |-> {}, meta |-> Nothing, vectors |-> Nothing, rows |-> Nothing]

HasIndex(b) == files[b].index > 0

\* _equipment_source_signatures skips the files that are not there.
Signatures(scope) == [b \in {c \in scope : HasIndex(c)} |-> files[b].index]

\* resolve_equipment_books: assigned books that have been listed.
Scope(known) == registry \cap known

\* Mutant: the manual types of the metadata are not compared.
ReadyUntyped(scope) ==
  /\ scope # {} /\ \A b \in scope : HasIndex(b)
  /\ pointer # Nothing /\ pointer.sig = Signatures(scope)

\* equipment_hybrid_index_status
Ready(scope) ==
  /\ scope # {} /\ \A b \in scope : HasIndex(b)
  /\ pointer # Nothing /\ pointer.sig = Signatures(scope) /\ pointer.types = scope

Init ==
  /\ records = Books /\ busy = {}
  /\ files = [b \in Books |-> [manual |-> TRUE, index |-> 1]]
  /\ moved = [b \in Books |-> Absent]
  /\ deleting = [b \in Books |-> "no"]
  /\ registry = {} /\ assign = [on |-> FALSE, known |-> {}]
  /\ pointer = Nothing /\ pending = Nothing
  /\ build = [p \in Builders |-> NoBuild]
  /\ search = NoSearch
  /\ ops = 0 /\ faults = 0 /\ crashes = 0

Spend == ops < MaxOps /\ ops' = ops + 1
-----------------------------------------------------------------------------
(* The books: other stages, and deletion                                   *)

\* Stage 3 replaces retrieval_index.jsonl.
Rechunk(b) ==
  /\ HasIndex(b) /\ Spend
  /\ files' = [files EXCEPT ![b].index = @ + 1]
  /\ UNCHANGED <<records, busy, moved, deleting, registry, assign, index, build, search,
                 faults, crashes>>

\* Stage 2A or verification takes a row of the book, and is done with it.
StartWork(b) ==
  /\ b \in records \ busy /\ Spend
  /\ busy' = busy \cup {b}
  /\ UNCHANGED <<records, files, moved, deleting, registry, assign, index, build, search,
                 faults, crashes>>

EndWork(b) ==
  /\ busy' = busy \ {b} /\ b \in busy
  /\ UNCHANGED <<records, files, moved, deleting, registry, assign, index, build, search, bounds>>

DeleteCheck(b) ==
  /\ b \in records \ busy /\ deleting[b] = "no"
  /\ deleting' = [deleting EXCEPT ![b] = "checked"]
  /\ UNCHANGED <<records, busy, files, moved, registry, assign, index, build, search, bounds>>

\* quarantine_book_artifacts
Quarantine(b) ==
  /\ deleting[b] = "checked"
  /\ moved' = [moved EXCEPT ![b] = files[b]]
  /\ files' = [files EXCEPT ![b] = Absent]
  /\ deleting' = [deleting EXCEPT ![b] = "moved"]
  /\ UNCHANGED <<records, busy, registry, assign, index, build, search, bounds>>

\* A move fails, the first one or the one of the result directory: what was
\* moved before stays in quarantine, and only a failing manifest is undone.
QuarantineFails(b) ==
  /\ deleting[b] = "checked" /\ faults < MaxFaults
  /\ \E first \in BOOLEAN : files' = [files EXCEPT ![b].manual = first /\ @]
  /\ deleting' = [deleting EXCEPT ![b] = "no"]
  /\ faults' = faults + 1
  /\ UNCHANGED <<records, busy, moved, registry, assign, index, build, search, ops, crashes>>

\* Mutant: the files stay in quarantine when the rows cannot be deleted.
RestoreNothing(b) == moved' = [moved EXCEPT ![b] = Absent] /\ UNCHANGED files

\* restore_quarantined_artifacts.  A piece whose place has been taken meanwhile
\* stays in quarantine; here nobody puts a file in the place of a moved one.
Restore(b) ==
  /\ files' = [files EXCEPT ![b] = moved[b]]
  /\ moved' = [moved EXCEPT ![b] = Absent]

\* delete_book_records, which looks again for work on the book.
DeleteRefused(b) ==
  /\ deleting[b] = "moved" /\ b \in busy
  /\ Restore(b)
  /\ deleting' = [deleting EXCEPT ![b] = "no"]
  /\ UNCHANGED <<records, busy, registry, assign, index, build, search, bounds>>

DeleteRecords(b) ==
  /\ deleting[b] = "moved" /\ b \notin busy
  /\ records' = records \ {b}
  /\ deleting' = [deleting EXCEPT ![b] = "gone"]
  /\ UNCHANGED <<busy, files, moved, registry, assign, index, build, search, bounds>>

\* The directory of the machine's indexes is removed, with every generation
\* in it: the paths a search has resolved lead nowhere.
RemoveIndexes ==
  /\ pointer' = Nothing /\ pending' = Nothing
  /\ search' = [search EXCEPT !.meta = Nothing, !.vectors = Nothing, !.rows = Nothing]

\* remove_manual_from_equipment
RemoveManual(b) ==
  /\ deleting[b] = "gone"
  /\ deleting' = [deleting EXCEPT ![b] = "no"]
  /\ registry' = registry \ {b}
  /\ IF b \in registry THEN RemoveIndexes ELSE UNCHANGED <<index, search>>
  /\ UNCHANGED <<records, busy, files, moved, assign, build, bounds>>
-----------------------------------------------------------------------------
(* The machine's manuals                                                   *)

\* The request lists the books first, and awaits while it does.
AssignList ==
  /\ ~assign.on /\ Spend
  /\ assign' = [on |-> TRUE, known |-> records]
  /\ UNCHANGED <<books, registry, index, build, search, faults, crashes>>

\* upsert_equipment
Assign(manuals) ==
  /\ assign.on /\ manuals # {} /\ manuals \subseteq assign.known
  /\ registry' = manuals
  /\ assign' = [on |-> FALSE, known |-> {}]
  /\ UNCHANGED <<books, index, build, search, bounds>>

\* delete_equipment
DeleteMachine ==
  /\ registry # {} /\ Spend
  /\ registry' = {}
  /\ RemoveIndexes
  /\ UNCHANGED <<books, assign, build, faults, crashes>>
-----------------------------------------------------------------------------
(* The builds                                                              *)

BuildList(p) ==
  /\ build[p].pc = "idle" /\ registry # {}
  /\ IF p = Pipeline THEN UNCHANGED ops ELSE Spend
  /\ build' = [build EXCEPT ![p] = [pc |-> "listed", known |-> records, rows |-> NoRows]]
  /\ UNCHANGED <<books, registry, assign, index, search, faults, crashes>>

\* Mutant: the pipeline keeps an index once there is one.
WantsIndexOnce(p, scope) == p = Pipeline => pointer = Nothing

\* The pipeline passes a machine whose index is ready; an operator's build
\* ends there only if the chunks are those of the index as well.
WantsIndex(p, scope) ==
  IF p = Pipeline THEN ~Ready(scope) ELSE ~(Ready(scope) /\ pointer.rows = Signatures(scope))

Buildable(p) ==
  LET scope == Scope(build[p].known)
  IN  scope # {} /\ (\A b \in scope : HasIndex(b)) /\ WantsIndex(p, scope)

BuildRead(p) ==
  /\ build[p].pc = "listed" /\ Buildable(p)
  /\ build' = [build EXCEPT ![p] = [pc |-> "read", known |-> {},
                                    rows |-> Signatures(Scope(build[p].known))]]
  /\ UNCHANGED <<books, registry, assign, index, search, bounds>>

BuildSkips(p) ==
  /\ build[p].pc = "listed" /\ ~Buildable(p)
  /\ build' = [build EXCEPT ![p] = NoBuild]
  /\ UNCHANGED <<books, registry, assign, index, search, bounds>>

\* The embedding service fails.
BuildFails(p) ==
  /\ build[p].pc = "read" /\ faults < MaxFaults
  /\ build' = [build EXCEPT ![p] = NoBuild]
  /\ faults' = faults + 1
  /\ UNCHANGED <<books, registry, assign, index, search, ops, crashes>>

\* The rows are embedded; the signatures are taken now, and the generation
\* is written, with a temporary pointer whose name all builds share.
BuildWrite(p) ==
  /\ build[p].pc = "read"
  /\ LET scope == DOMAIN build[p].rows
     IN  pending' = [rows |-> build[p].rows, sig |-> Signatures(scope), types |-> scope]
  /\ build' = [build EXCEPT ![p] = [pc |-> "written", known |-> {}, rows |-> NoRows]]
  /\ UNCHANGED <<books, registry, assign, pointer, search, bounds>>

\* Whatever generation the temporary pointer names by then becomes current;
\* without one the build fails.
BuildPublish(p) ==
  /\ build[p].pc = "written"
  /\ pointer' = IF pending = Nothing THEN pointer ELSE pending
  /\ pending' = Nothing
  /\ build' = [build EXCEPT ![p] = NoBuild]
  /\ UNCHANGED <<books, registry, assign, search, bounds>>
-----------------------------------------------------------------------------
(* A search: vector_search_equipment                                       *)

SearchList ==
  /\ search.pc = "idle" /\ Spend
  /\ search' = [NoSearch EXCEPT !.pc = "listed", !.known = records]
  /\ UNCHANGED <<books, registry, assign, index, build, faults, crashes>>

\* A machine whose index is not ready is refused.
SearchCheck ==
  /\ search.pc = "listed"
  /\ search' = IF Ready(Scope(search.known)) THEN [search EXCEPT !.pc = "meta"] ELSE NoSearch
  /\ UNCHANGED <<books, registry, assign, index, build, bounds>>

\* Each of the three paths is resolved by a reading of current.json.
SearchResolve ==
  /\ \/ search.pc = "meta" /\ search' = [search EXCEPT !.pc = "vectors", !.meta = pointer]
     \/ search.pc = "vectors" /\ search' = [search EXCEPT !.pc = "rows", !.vectors = pointer]
     \/ search.pc = "rows" /\ search' = [search EXCEPT !.pc = "read", !.rows = pointer]
  /\ UNCHANGED <<books, registry, assign, index, build, bounds>>

\* A file that is missing, or one with another number of rows, is an error.
Readable ==
  /\ Nothing \notin {search.meta, search.vectors, search.rows}
  /\ search.meta.types = search.vectors.types /\ search.meta.types = search.rows.types

SearchRead ==
  /\ search.pc = "read"
  /\ search' = IF Readable THEN [search EXCEPT !.pc = "answered"] ELSE NoSearch
  /\ UNCHANGED <<books, registry, assign, index, build, bounds>>

SearchEnd ==
  /\ search.pc = "answered" /\ search' = NoSearch
  /\ UNCHANGED <<books, registry, assign, index, build, bounds>>
-----------------------------------------------------------------------------
\* The process dies: requests and threads are gone, rows that were at work
\* are recovered, and files stay as they are.
Crash ==
  /\ crashes < MaxCrashes /\ crashes' = crashes + 1
  /\ busy' = {} /\ moved' = [b \in Books |-> Absent]
  /\ deleting' = [b \in Books |-> "no"]
  /\ assign' = [on |-> FALSE, known |-> {}]
  /\ build' = [p \in Builders |-> NoBuild] /\ search' = NoSearch
  /\ UNCHANGED <<records, files, registry, index, ops, faults>>

DeleteStep(b) ==
  Quarantine(b) \/ QuarantineFails(b) \/ DeleteRefused(b) \/ DeleteRecords(b) \/ RemoveManual(b)

BuildStep(p) == BuildRead(p) \/ BuildSkips(p) \/ BuildWrite(p) \/ BuildPublish(p)

SearchStep == SearchCheck \/ SearchResolve \/ SearchRead \/ SearchEnd

Next ==
  \/ \E b \in Books : Rechunk(b) \/ StartWork(b) \/ EndWork(b) \/ DeleteCheck(b) \/ DeleteStep(b)
  \/ AssignList \/ (\E manuals \in SUBSET Books : Assign(manuals)) \/ DeleteMachine
  \/ \E p \in Builders : BuildList(p) \/ BuildStep(p) \/ BuildFails(p)
  \/ SearchList \/ SearchStep
  \/ Crash

Spec == Init /\ [][Next]_vars

\* Requests run to their end, and the pipeline sequence comes round again.
Fairness ==
  /\ \A b \in Books : WF_vars(DeleteStep(b))
  /\ \A p \in Builders : WF_vars(BuildStep(p))
  /\ WF_vars(BuildList(Pipeline)) /\ WF_vars(SearchStep)

FairSpec == Spec /\ Fairness
-----------------------------------------------------------------------------
TypeOK ==
  /\ records \subseteq Books /\ busy \subseteq records
  /\ files \in [Books -> Files] /\ moved \in [Books -> Files]
  /\ deleting \in [Books -> {"no", "checked", "moved", "gone"}]
  /\ registry \subseteq Books
  /\ assign \in [on : BOOLEAN, known : SUBSET Books]
  /\ pointer \in Generations /\ pending \in Generations
  /\ build \in [Builders -> [pc : {"idle", "listed", "read", "written"},
                             known : SUBSET Books, rows : Texts]]
  /\ search \in [pc : {"idle", "listed", "meta", "vectors", "rows", "read", "answered"},
                 known : SUBSET Books, meta : Generations, vectors : Generations,
                 rows : Generations]
  /\ ops \in 0 .. MaxOps /\ faults \in 0 .. MaxFaults /\ crashes \in 0 .. MaxCrashes

(* An index that is ready for the manuals the machine has holds rows of    *)
(* exactly these manuals: a build that read a book before its deletion and *)
(* signs after it, when the missing file has no signature, is not ready.   *)
ReadyHoldsScope ==
  Ready(Scope(records)) => DOMAIN pointer.rows = Scope(records)

(* Deletion is all or nothing, as long as no move fails and the process    *)
(* does not die in it: a book that is refused at the last moment is back   *)
(* in place, and one that is gone has left nothing a watcher would add.    *)
DeletionIsWhole ==
  \A b \in Books :
    /\ b \in records /\ deleting[b] # "moved" /\ faults = 0 /\ crashes = 0 =>
         files[b].manual /\ HasIndex(b)
    /\ b \notin records => files[b] = Absent

(* A machine whose manuals all have their Stage 3 index has a ready index  *)
(* in the end, whatever was deleted, assigned, torn or lost on the way.    *)
MachineBecomesReady ==
  []<>LET scope == Scope(records)
      IN  \/ scope = {} \/ (\E b \in scope : ~HasIndex(b))
          \/ Ready(scope)

-----------------------------------------------------------------------------
(* What the code does not keep, whatever the documents say: no run requires  *)
(* it.  README.md, section 4, names the steps that break each statement.     *)

(* A search that lists the books after a deletion has ended answers with   *)
(* no row of the deleted book.                                             *)
DeletedNotServed ==
  search.pc = "answered" =>
    \A b \in DOMAIN search.rows.rows \ records : b \in search.known \/ deleting[b] # "no"

(* The metadata, the vectors and the rows of an answer are those of one    *)
(* generation.                                                             *)
SearchReadsOneGeneration ==
  search.pc = "answered" => search.meta = search.vectors /\ search.meta = search.rows

(* README.md: "machine embeddings use input signatures so stale downstream *)
(* data is not treated as ready".                                          *)
IndexCurrent ==
  Ready(Scope(records)) => pointer.rows = Signatures(Scope(records))
=============================================================================

-------------------------- MODULE CorrectionLedger --------------------------
(***************************************************************************)
(* The Stage 2C correction ledger of one book (app/stage2c.py) and the     *)
(* human gate before Stage 3.  Every writer holds _stage2c_ledger_lock and *)
(* reads, changes and replaces the file in one piece, so an operation is   *)
(* one action.  The overlays, a second file, are a function of the ledger  *)
(* that every writer and every Stage 3 run recompute; that they may lag    *)
(* behind is the matter of DerivedStages.                                  *)
(*                                                                         *)
(* An entry is about a source item of the document: a text, or a picture.  *)
(* A picture may have several entries, one per generation of the routes    *)
(* and kind of route (a normal picture route, or the artifact sweep).      *)
(* A text is its provenance: nobody's, the automation's, or a person's;    *)
(* its verdict is OK or SUSPECT, the latter LIKELY_CORRUPT or UNCERTAIN.   *)
(* Time is the number of ledger writes so far.  The statuses that release  *)
(* .40.6.2 left in ledgers are not modelled.                               *)
(*                                                                         *)
(* A rerun of Stage 2A gives the book a new result directory: it reads the *)
(* ledger of the old one, without the lock, and writes what it carries     *)
(* over as the ledger of the new one.  The ledger here is the one of the   *)
(* directory that postprocess_jobs names; the files of older directories   *)
(* are read by nothing and are not modelled.                               *)
(***************************************************************************)
EXTENDS Integers, FiniteSets, FiniteSetsExt, Functions

CONSTANTS Entries,       \* entry identifiers: generation, kind and route
          Visuals,       \* the entries of type vision_enrichment
          Sweeps,        \* the visual entries of artifact-sweep routes
          SourceOf,      \* the source item an entry is about
          GenOf,         \* the generation an entry belongs to
          MaxGen,        \* bound: generations
          RequireHuman,  \* stage2c_require_human_review
          MaxWrites      \* bound: ledger writes

ASSUME EntriesAssumption ==
  /\ Sweeps \subseteq Visuals /\ Visuals \subseteq Entries
  /\ \A e, f \in Entries : SourceOf[e] = SourceOf[f] => (e \in Visuals <=> f \in Visuals)
  /\ \A e \in Entries : GenOf[e] \in Nat
ASSUME BoundAssumption == RequireHuman \in BOOLEAN /\ MaxGen \in Nat \ {0} /\ MaxWrites \in Nat

VARIABLES ledger, \* correction_ledger.json: a record for every entry
          now,    \* ledger writes so far
          gen,    \* the generation of the routes: the current run of Stage 2A
          carried \* the ledger that a rerun of Stage 2A has read, in a set, or {}

ledgerVars == <<ledger, now, gen, carried>>

Texts       == Entries \ Visuals
Live        == {"pending", "proposed", "applied", "excluded", "rejected"}
Decisions   == {"none", "useful", "not_useful"}
Records     == [status: Live \cup {"absent", "superseded"}, previous: Live \cup {"none"},
                by: Entries \cup {"none"}, human: BOOLEAN, decision: Decisions,
                decidedAt: Nat, createdAt: Nat, text: {"none", "auto", "human"},
                verdict: {"none", "SUSPECT", "OK", "USEFUL", "LOW_VALUE", "UNCERTAIN"},
                unresolved: BOOLEAN, unsafe: BOOLEAN]
Absent      == [status |-> "absent", previous |-> "none", by |-> "none", human |-> FALSE,
                decision |-> "none", decidedAt |-> 0, createdAt |-> 0, text |-> "none",
                verdict |-> "none", unresolved |-> FALSE, unsafe |-> FALSE]

Present(l)     == {e \in Entries : l[e].status # "absent"}
Active(l)      == {e \in Present(l) : l[e].status # "superseded"}
GroupsOf(l)    == {{f \in Present(l) : SourceOf[f] = SourceOf[e]} : e \in Present(l)}
\* The element of S whose tuple of numbers is the greatest.
Later(a, b)    == \E i \in DOMAIN a : a[i] > b[i] /\ \A j \in 1 .. i - 1 : a[j] = b[j]
Best(S, key(_)) == CHOOSE e \in S : \A f \in S \ {e} : Later(key(e), key(f))
Flag(b)        == IF b THEN 1 ELSE 0
-----------------------------------------------------------------------------
(* Statuses *)

\* vision_enrichment_status: what a verdict on a picture makes of its entry.
VisionStatus(verdict, diagram) ==
  CASE verdict = "USEFUL" -> "applied"
    [] verdict = "LOW_VALUE" /\ ~diagram -> "excluded"
    [] OTHER -> "pending"

\* unsafe_automatic_source_transcription: an automatic transcription that is
\* incomplete or contradicts its source, and yet is applied.
UnsafeTranscription(r) == r.unsafe /\ ~r.human /\ r.status = "applied"

\* _demote_unsafe_automatic_source_transcription
Demote(r) == IF UnsafeTranscription(r) THEN [r EXCEPT !.status = "pending", !.text = "none"] ELSE r

\* _restore_legacy_overlap_status: the status an entry had before it was superseded.
Restored(r) == IF r.status = "superseded" /\ r.previous # "none" THEN r.previous ELSE r.status

\* _human_decision_epoch: float(None or 0.0) is 0.0, so the first field decides,
\* and the time at which a text was reviewed is never looked at.
HumanEpoch(r) == r.decidedAt

\* _supersede_for_reconciliation
Supersede(r, winner) ==
  [(IF r.status = "superseded" THEN r
    ELSE [r EXCEPT !.previous = r.status, !.status = "superseded"]) EXCEPT !.by = winner]

Restore(r) == [r EXCEPT !.status = Restored(r), !.by = IF r.status = "superseded" THEN "none" ELSE r.by]
-----------------------------------------------------------------------------
(* Reconciliation *)

\* The winner of a group in which a person decided: the latest decision.
HumanWinner(l, group) ==
  Best({e \in group : l[e].human}, LAMBDA e : <<HumanEpoch(l[e]), l[e].createdAt>>)

\* The generation that is current for a group: that of the entry just
\* recorded, or else of the newest entry.
CurrentOf(l, group, preferred) ==
  LET newest == IF preferred \in group THEN preferred
                ELSE Best(group, LAMBDA e : <<l[e].createdAt>>)
  IN  {e \in group : GenOf[e] = GenOf[newest]}

\* The winner among the entries of the automation: for a picture applied
\* evidence, then a normal route; for a text the entry just recorded.
AutomaticWinner(l, group, preferred) ==
  LET current == CurrentOf(l, group, preferred)
      key(e)  == IF e \in Visuals
                 THEN <<Flag(Restored(l[e]) = "applied"), Flag(e \notin Sweeps),
                        Flag(e = preferred), l[e].createdAt>>
                 ELSE <<Flag(e = preferred), l[e].createdAt>>
  IN  Best(current, key)

\* Mutant: reruns outrank the people who reviewed earlier generations.
WinnerAutomatic(l, group, preferred) == AutomaticWinner(l, group, preferred)

Winner(l, group, preferred) ==
  IF \E e \in group : l[e].human THEN HumanWinner(l, group) ELSE AutomaticWinner(l, group, preferred)

\* reconcile_correction_generations: one active entry for every source item
\* that has several.  A text the automation wrote is not restored.
Reconcile(l, preferred) ==
  [e \in Entries |->
     LET group  == {f \in Present(l) : SourceOf[f] = SourceOf[e]}
         winner == Winner(l, group, preferred)
     IN  IF e \notin group \/ Cardinality(group) < 2 THEN l[e]
         ELSE IF e # winner THEN Supersede(l[e], winner)
         ELSE IF l[e].human \/ e \in Visuals THEN Restore(l[e]) ELSE l[e]]

\* The entry with applied evidence, or else the normal one.
OverlapWinner(l, group) ==
  Best(group, LAMBDA e : <<Flag(Restored(l[e]) = "applied"), Flag(e \notin Sweeps), l[e].createdAt>>)

\* Mutant: the normal entry always stands, whatever evidence the sweep found.
ResolveOverlapByRoute(l) ==
  [e \in Entries |->
     LET group  == {f \in Present(l) \cap Visuals : SourceOf[f] = SourceOf[e] /\ GenOf[f] = GenOf[e]}
         winner == Best(group, LAMBDA f : <<Flag(f \notin Sweeps), l[f].createdAt>>)
     IN  IF e \notin group \/ group \subseteq Sweeps \/ group \cap Sweeps = {} THEN l[e]
         ELSE IF e = winner THEN Restore(l[e])
         ELSE [l[e] EXCEPT !.previous = Restored(l[e]), !.status = "superseded", !.by = winner]]

\* resolve_vision_overlap_entries: within a generation, a picture that has a
\* sweep and a normal entry keeps the winner.
ResolveOverlap(l) ==
  [e \in Entries |->
     LET group  == {f \in Present(l) \cap Visuals : SourceOf[f] = SourceOf[e] /\ GenOf[f] = GenOf[e]}
         winner == OverlapWinner(l, group)
     IN  IF e \notin group \/ group \subseteq Sweeps \/ group \cap Sweeps = {} THEN l[e]
         ELSE IF e = winner THEN Restore(l[e])
         ELSE [l[e] EXCEPT !.previous = Restored(l[e]), !.status = "superseded", !.by = winner]]

\* rebuild_chunk_overlays: what Stage 3 may put into the chunks.
Exposed(l) == {e \in Entries : l[e].status = "applied" /\ ~UnsafeTranscription(l[e])}

Write(l) ==
  /\ now < MaxWrites
  /\ ledger' = l
  /\ now' = now + 1
  /\ UNCHANGED <<gen, carried>>
-----------------------------------------------------------------------------
(* The operations *)

\* Mutant: a rerun replaces what a person decided about the same entry.
UpsertOver(l, e, r) ==
  ResolveOverlap(Reconcile([l EXCEPT ![e] = IF r.human THEN r ELSE Demote(r)], e))

\* upsert_ledger_entry: an automatic result never replaces a reviewed entry.
Upsert(l, e, r) ==
  LET kept == IF l[e].human /\ ~r.human THEN l[e] ELSE IF r.human THEN r ELSE Demote(r)
  IN  ResolveOverlap(Reconcile([l EXCEPT ![e] = kept], e))

\* _record_stage2c_entry: a verification of a text ended.  A text that is fine
\* and for which nothing was attempted leaves no entry; nor does a row whose
\* result directory is no longer the book's, or whose book is analysed again.
RecordText(e, status, unsafe) ==
  /\ e \in Texts /\ GenOf[e] = gen /\ carried = {}
  /\ status = "applied" \/ ~unsafe
  /\ Write(Upsert(ledger, e,
       [Absent EXCEPT !.status = status, !.createdAt = now + 1, !.verdict = "SUSPECT",
                      !.unsafe = unsafe, !.text = IF status = "pending" THEN "none" ELSE "auto"]))

\* _record_stage2c_entry: a verification of a picture ended.
RecordVisual(e, verdict, diagram) ==
  /\ e \in Visuals /\ GenOf[e] = gen /\ carried = {}
  /\ Write(Upsert(ledger, e,
       [Absent EXCEPT !.status = VisionStatus(verdict, diagram), !.createdAt = now + 1,
                      !.verdict = verdict, !.unresolved = (verdict = "UNCERTAIN")]))

\* apply_human_correction_to_entry, and the upsert of its callers.
HumanCorrected(e, status) ==
  Write(Upsert(ledger, e,
    [ledger[e] EXCEPT !.status = status, !.text = "human", !.human = TRUE]))

\* update_human_correction: a person saves, rejects or proposes a text; the
\* pages offer it for texts only, superseded ones in a page that is old included.
HumanCorrection(e, status) ==
  /\ e \in Texts \cap Present(ledger)
  /\ HumanCorrected(e, status)

\* apply_human_visual_decision: the entry alone is changed, nothing is reconciled.
VisualDecided(l, e, decision) ==
  [l EXCEPT ![e].human = TRUE, ![e].decision = decision, ![e].decidedAt = now + 1,
            ![e].unresolved = FALSE,
            ![e].status = IF decision = "useful" THEN "applied" ELSE "excluded"]

HumanVisualDecision(e, decision) ==
  /\ e \in Visuals \cap Present(ledger)
  /\ Write(VisualDecided(ledger, e, decision))

\* merge_human_visual_evidence: the recovered evidence of an accepted picture
\* makes it applied, a superseded entry too.
MergeEvidence(e) ==
  /\ e \in Visuals
  /\ ledger[e].human /\ ledger[e].decision = "useful"
  /\ Write([ledger EXCEPT ![e].status = "applied", ![e].unresolved = FALSE])

\* The record of one text after a new verdict; superseded entries included.
Revalidated(r, verdict) ==
  CASE r.human -> r
    [] ~r.human /\ verdict = "OK" -> [r EXCEPT !.verdict = verdict, !.status = "excluded", !.text = "none"]
    [] ~r.human /\ verdict = "UNCERTAIN" ->
         [r EXCEPT !.verdict = "SUSPECT", !.status = IF r.status = "applied" THEN r.status ELSE "pending"]
    [] OTHER -> [r EXCEPT !.verdict = "SUSPECT",
                          !.status = IF r.status \in {"applied", "proposed"} THEN r.status ELSE "pending"]

\* revalidate_unreviewed_text_entries: the saved answers of the text worker
\* get new verdicts; then normalize_human_verified_ledger demotes.  After a
\* rerun of Stage 2A the rows are those of the generation before, until the
\* next route discovery.
Revalidate(e, verdict) ==
  /\ e \in Texts \cap Present(ledger) /\ GenOf[e] \in {gen - 1, gen} /\ carried = {}
  /\ Write([f \in Entries |-> Demote(IF f = e THEN Revalidated(ledger[f], verdict) ELSE ledger[f])])

\* _persist_manual_crosscheck: a readable transcription that passes the source
\* gate is applied to a text that is neither reviewed nor superseded.
Crosscheck(e, readable) ==
  /\ e \in Present(ledger) /\ GenOf[e] = gen
  /\ Write(Upsert(ledger, e,
       IF readable /\ e \in Texts /\ ~ledger[e].human /\ ledger[e].status # "superseded"
       THEN [ledger[e] EXCEPT !.status = "applied", !.text = "auto"]
       ELSE ledger[e]))

\* supersede_vision_entries_for_routes: sweeps that normal routes cover now.
SupersedeRoutes ==
  /\ ResolveOverlap(ledger) # ledger
  /\ Write(ResolveOverlap(ledger))

\* _process_one: what a rerun of Stage 2A carries over.  Reviewed entries keep
\* their status; the others are superseded, by no entry.
Carried(l) ==
  [e \in Entries |-> IF e \in Active(l) /\ ~l[e].human
                     THEN [l[e] EXCEPT !.previous = l[e].status, !.status = "superseded"]
                     ELSE l[e]]

\* _process_one: a rerun reads the ledger of the directory it replaces.
BeginRerun ==
  /\ gen < MaxGen /\ carried = {}
  /\ carried' = {ledger}
  /\ UNCHANGED <<ledger, now, gen>>

\* mark_completed: the new directory, with the ledger carried over, is the book's.
EndRerun ==
  /\ carried # {}
  /\ \E l \in carried : ledger' = Carried(l)
  /\ gen' = gen + 1 /\ carried' = {}
  /\ UNCHANGED now

AutomaticStep ==
  \/ \E e \in Texts, s \in {"pending", "proposed", "applied"}, u \in BOOLEAN : RecordText(e, s, u)
  \/ \E e \in Visuals, v \in {"USEFUL", "LOW_VALUE", "UNCERTAIN"}, d \in BOOLEAN : RecordVisual(e, v, d)
  \/ \E e \in Entries : MergeEvidence(e)
  \/ \E e \in Entries, v \in {"OK", "UNCERTAIN", "CORRUPT"} : Revalidate(e, v)
  \/ \E e \in Entries, r \in BOOLEAN : Crosscheck(e, r)
  \/ SupersedeRoutes
  \/ BeginRerun
  \/ EndRerun

HumanStep ==
  \/ \E e \in Entries, s \in {"applied", "rejected", "proposed"} : HumanCorrection(e, s)
  \/ \E e \in Entries, d \in {"useful", "not_useful"} : HumanVisualDecision(e, d)

LedgerInit == /\ ledger = [e \in Entries |-> Absent]
              /\ now = 0
              /\ gen = 1 /\ carried = {}
-----------------------------------------------------------------------------
(* The human gate *)

\* _vision_requires_human
VisionRequiresHuman(r) ==
  /\ r.status # "superseded" /\ r.decision = "none"
  /\ r.verdict = "UNCERTAIN" \/ r.unresolved \/ r.status = "pending"

\* _authoritative_visual_subjects: the entry that stands for a picture.
Subject(l, group) ==
  LET reviewed   == {e \in group : l[e].human /\ l[e].decision # "none"}
      unresolved == {e \in group : VisionRequiresHuman(l[e])}
      normal     == unresolved \ Sweeps
      newest(S)  == Best(S, LAMBDA e : <<l[e].createdAt>>)
  IN  IF reviewed # {} THEN Best(reviewed, LAMBDA e : <<HumanEpoch(l[e])>>)
      ELSE IF normal # {} THEN newest(normal)
      ELSE IF unresolved # {} THEN newest(unresolved) ELSE newest(group)

VisualGroups(l) == {{f \in Active(l) : SourceOf[f] = SourceOf[e]} : e \in Active(l) \cap Visuals}
Subjects(l)     == {Subject(l, group) : group \in VisualGroups(l)}

\* The visual backlog that verifier_audit_summary counts; the gate also waits
\* for the evidence of accepted pictures, which is not modelled.
VisualRequired(l) == {e \in Subjects(l) : VisionRequiresHuman(l[e])}

\* human_review_summary: the texts that wait for a person.
TextRequired(l) ==
  {e \in Active(l) \cap Texts :
     /\ l[e].verdict = "SUSPECT" /\ ~l[e].human
     /\ RequireHuman \/ l[e].status \in {"pending", "proposed"}}
=============================================================================

------------------------ MODULE TelegramAuditProofs ---------------------------
(***************************************************************************)
(* Proofs about CorrectionLedger and TelegramAudit, for every set of       *)
(* entries, sources and generations and every bound: what a person wrote   *)
(* into the ledger is changed by people only, reviewed texts and usable    *)
(* evidence stand, and each picture that waits is in exactly one queue.    *)
(*                                                                         *)
(* The records of present entries carry a time of their own, so that every *)
(* group of Reconcile and ResolveOverlap has one winner; what the winners  *)
(* of a ledger are, and what the next write can make of them, is a fact    *)
(* about the group (Sound), and the steps of the bot keep an item present. *)
(***************************************************************************)
EXTENDS TelegramAudit, FiniteSetTheorems, WellFoundedInduction, TLAPS

Fields == {"status", "previous", "by", "human", "decision", "decidedAt", "createdAt",
           "text", "verdict", "unresolved", "unsafe"}

IsRecord(r) == r = [f \in Fields |-> r[f]]
IsLedger(l) == l = [e \in Entries |-> l[e]] /\ \A e \in Entries : IsRecord(l[e])

(* The part of a record that belongs to the person who reviewed it.        *)
Same(r, s) == s.human = r.human /\ s.text = r.text /\ s.decision = r.decision

(* The step from l to m leaves that part of reviewed records alone.        *)
Respects(l, m) ==
  IsLedger(m) /\ \A e \in Entries : l[e].human =>
                   m[e].human /\ m[e].text = l[e].text /\ m[e].decision = l[e].decision

IInv ==
  /\ IsLedger(ledger)
  /\ carried = {} \/ \E l : carried = {l} /\ IsLedger(l)

---------------------------------------------------------------------------
(* The operators on the ledger: reconciliation and the overlap of sweeps   *)
(* and normal routes choose winners, and touch nothing else.               *)

LEMMA AbsentRecord == IsRecord(Absent) /\ ~Absent.human
  BY DEF IsRecord, Absent, Fields

LEMMA SupersedeSame ==
  ASSUME NEW r, IsRecord(r), NEW w
  PROVE  /\ IsRecord(Supersede(r, w)) /\ Same(r, Supersede(r, w))
         /\ IsRecord(Restore(r)) /\ Same(r, Restore(r))
  BY DEF IsRecord, Supersede, Restore, Same, Fields

Outdone(r, p, w) == [r EXCEPT !.previous = p, !.status = "superseded", !.by = w]

LEMMA OutdoneSame ==
  ASSUME NEW r, IsRecord(r), NEW p, NEW w
  PROVE  IsRecord(Outdone(r, p, w)) /\ Same(r, Outdone(r, p, w))
  BY DEF IsRecord, Outdone, Same, Fields

LEMMA DemoteSame ==
  ASSUME NEW r, IsRecord(r)
  PROVE  IsRecord(Demote(r)) /\ Demote(r).human = r.human /\ (r.human => Demote(r) = r)
  BY DEF IsRecord, Demote, UnsafeTranscription, Fields

LEMMA ReconcileSame ==
  ASSUME NEW l, IsLedger(l), NEW p
  PROVE  IsLedger(Reconcile(l, p)) /\ \A e \in Entries : Same(l[e], Reconcile(l, p)[e])
<1>1. \A e \in Entries : \E w : Reconcile(l, p)[e] \in {l[e], Supersede(l[e], w), Restore(l[e])}
  BY DEF Reconcile
<1>2. \A e \in Entries : IsRecord(Reconcile(l, p)[e]) /\ Same(l[e], Reconcile(l, p)[e])
  BY <1>1, SupersedeSame DEF IsLedger, Same
<1>3. Reconcile(l, p) = [e \in Entries |-> Reconcile(l, p)[e]]
  BY DEF Reconcile
<1> QED
  BY <1>2, <1>3 DEF IsLedger

LEMMA ResolveSame ==
  ASSUME NEW l, IsLedger(l)
  PROVE  IsLedger(ResolveOverlap(l)) /\ \A e \in Entries : Same(l[e], ResolveOverlap(l)[e])
<1>1. \A e \in Entries : \E w, p :
         ResolveOverlap(l)[e] \in {l[e], Restore(l[e]), Outdone(l[e], p, w)}
  BY DEF ResolveOverlap, Outdone
<1>2. \A e \in Entries : IsRecord(ResolveOverlap(l)[e]) /\ Same(l[e], ResolveOverlap(l)[e])
  BY <1>1, SupersedeSame, OutdoneSame DEF IsLedger, Same
<1>3. ResolveOverlap(l) = [e \in Entries |-> ResolveOverlap(l)[e]]
  BY DEF ResolveOverlap
<1> QED
  BY <1>2, <1>3 DEF IsLedger

(* upsert_ledger_entry leaves a reviewed entry as it is, unless a person   *)
(* wrote the new one.                                                      *)
LEMMA UpsertRespects ==
  ASSUME NEW l, IsLedger(l), NEW e \in Entries, NEW r, IsRecord(r)
  PROVE  /\ IsLedger(Upsert(l, e, r))
         /\ (r.human => r = l[e]) => Respects(l, Upsert(l, e, r))
<1> DEFINE kept == IF l[e].human /\ ~r.human THEN l[e] ELSE IF r.human THEN r ELSE Demote(r)
           m == [l EXCEPT ![e] = kept]
<1>1. IsRecord(kept) /\ ((r.human => r = l[e]) /\ l[e].human => kept = l[e])
  BY DemoteSame DEF IsLedger
<1>2. IsLedger(m) /\ m[e] = kept /\ \A f \in Entries \ {e} : m[f] = l[f]
  BY <1>1 DEF IsLedger
<1>3. Upsert(l, e, r) = ResolveOverlap(Reconcile(m, e))
  BY DEF Upsert
<1> HIDE DEF m, kept
<1>4. IsLedger(Reconcile(m, e)) /\ \A f \in Entries : Same(m[f], Reconcile(m, e)[f])
  BY <1>2, ReconcileSame
<1>5. /\ IsLedger(ResolveOverlap(Reconcile(m, e)))
      /\ \A f \in Entries : Same(Reconcile(m, e)[f], ResolveOverlap(Reconcile(m, e))[f])
  BY <1>4, ResolveSame
<1> QED
  BY <1>1, <1>2, <1>3, <1>4, <1>5 DEF Respects, Same

---------------------------------------------------------------------------
(* The writers.                                                            *)

LEMMA SameRespects ==
  ASSUME IsLedger(ledger)
  PROVE  Respects(ledger, ledger)
  BY DEF Respects

LEMMA RecordTextRespects ==
  ASSUME IInv, NEW e \in Entries, NEW s, NEW u, RecordText(e, s, u)
  PROVE  Respects(ledger, ledger') /\ UNCHANGED carried
<1> DEFINE r == [Absent EXCEPT !.status = s, !.createdAt = now + 1, !.verdict = "SUSPECT",
                               !.unsafe = u, !.text = IF s = "pending" THEN "none" ELSE "auto"]
<1>1. IsRecord(r) /\ ~r.human
  BY DEF IsRecord, Absent, Fields
<1>2. ledger' = Upsert(ledger, e, r) /\ UNCHANGED carried
  BY DEF RecordText, Write
<1> QED
  BY <1>1, <1>2, UpsertRespects DEF IInv

LEMMA RecordVisualRespects ==
  ASSUME IInv, NEW e \in Entries, NEW v, NEW d, RecordVisual(e, v, d)
  PROVE  Respects(ledger, ledger') /\ UNCHANGED carried
<1> DEFINE r == [Absent EXCEPT !.status = VisionStatus(v, d), !.createdAt = now + 1,
                               !.verdict = v, !.unresolved = (v = "UNCERTAIN")]
<1>1. IsRecord(r) /\ ~r.human
  BY DEF IsRecord, Absent, Fields
<1>2. ledger' = Upsert(ledger, e, r) /\ UNCHANGED carried
  BY DEF RecordVisual, Write
<1> QED
  BY <1>1, <1>2, UpsertRespects DEF IInv

LEMMA MergeRespects ==
  ASSUME IInv, NEW e \in Entries, MergeEvidence(e)
  PROVE  Respects(ledger, ledger') /\ UNCHANGED carried
  BY DEF IInv, MergeEvidence, Write, Respects, IsLedger, IsRecord, Fields

LEMMA RevalidatedSame ==
  ASSUME NEW r, IsRecord(r), NEW v
  PROVE  /\ IsRecord(Revalidated(r, v)) /\ Revalidated(r, v).human = r.human
         /\ r.human => Revalidated(r, v) = r
<1>1. CASE r.human
  <2>1. Revalidated(r, v) = r
    BY <1>1 DEF Revalidated
  <2> QED
    BY <2>1
<1>2. CASE ~r.human /\ v = "OK"
  <2>1. Revalidated(r, v) = [r EXCEPT !.verdict = v, !.status = "excluded", !.text = "none"]
    BY <1>2 DEF Revalidated
  <2> QED
    BY <1>2, <2>1 DEF IsRecord, Fields
<1>3. CASE ~r.human /\ v # "OK"
  <2>1. \E s : Revalidated(r, v) = [r EXCEPT !.verdict = "SUSPECT", !.status = s]
    BY <1>3 DEF Revalidated
  <2> QED
    BY <1>3, <2>1 DEF IsRecord, Fields
<1> QED
  BY <1>1, <1>2, <1>3

LEMMA RevalidateRespects ==
  ASSUME IInv, NEW e \in Entries, NEW v, Revalidate(e, v)
  PROVE  Respects(ledger, ledger') /\ UNCHANGED carried
<1> DEFINE r(f) == IF f = e THEN Revalidated(ledger[f], v) ELSE ledger[f]
<1>1. ASSUME NEW f \in Entries
      PROVE  IsRecord(r(f)) /\ r(f).human = ledger[f].human /\ (ledger[f].human => r(f) = ledger[f])
  BY RevalidatedSame DEF IInv, IsLedger
<1>2. ledger' = [f \in Entries |-> Demote(r(f))] /\ UNCHANGED carried
  BY DEF Revalidate, Write
<1> HIDE DEF r
<1>3. \A f \in Entries : IsRecord(Demote(r(f))) /\ (r(f).human => Demote(r(f)) = r(f))
  BY <1>1, DemoteSame
<1> QED
  BY <1>1, <1>2, <1>3 DEF Respects, IsLedger

LEMMA CrosscheckRespects ==
  ASSUME IInv, NEW e \in Entries, NEW readable, Crosscheck(e, readable)
  PROVE  Respects(ledger, ledger') /\ UNCHANGED carried
<1> DEFINE r == IF readable /\ e \in Texts /\ ~ledger[e].human /\ ledger[e].status # "superseded"
                THEN [ledger[e] EXCEPT !.status = "applied", !.text = "auto"] ELSE ledger[e]
<1>1. IsRecord(ledger[e])
  BY DEF IInv, IsLedger
<1>2. IsRecord(r) /\ (r.human => r = ledger[e])
  BY <1>1 DEF IsRecord, Fields
<1>3. ledger' = Upsert(ledger, e, r) /\ UNCHANGED carried
  BY DEF Crosscheck, Write
<1> QED
  BY <1>2, <1>3, UpsertRespects DEF IInv

LEMMA SupersedeRoutesRespects ==
  ASSUME IInv, SupersedeRoutes
  PROVE  Respects(ledger, ledger') /\ UNCHANGED carried
  BY ResolveSame DEF IInv, SupersedeRoutes, Write, Respects, Same

(* A rerun of Stage 2A carries over what the ledger it read says.          *)
LEMMA EndRerunRespects ==
  ASSUME IInv, EndRerun
  PROVE  (\A l \in carried : Respects(l, ledger')) /\ IsLedger(ledger') /\ carried' = {}
<1>1. PICK l : carried = {l} /\ IsLedger(l) /\ ledger' = Carried(l) /\ carried' = {}
  BY DEF IInv, EndRerun
<1>2. \A e \in Entries : IsRecord(Carried(l)[e]) /\ (l[e].human => Carried(l)[e] = l[e])
  BY <1>1 DEF Carried, IsLedger, IsRecord, Fields
<1>3. IsLedger(Carried(l))
  BY <1>2 DEF Carried, IsLedger
<1> QED
  BY <1>1, <1>2, <1>3 DEF Respects

LEMMA AutomaticRespects ==
  ASSUME IInv, AutomaticStep, ~EndRerun
  PROVE  Respects(ledger, ledger') /\ (UNCHANGED carried \/ carried' = {ledger})
<1>1. CASE BeginRerun
  BY <1>1, SameRespects DEF BeginRerun, IInv
<1>2. CASE \E e \in Texts, s \in {"pending", "proposed", "applied"}, u \in BOOLEAN : RecordText(e, s, u)
  BY <1>2, RecordTextRespects DEF Texts
<1>3. CASE \E e \in Visuals, v \in {"USEFUL", "LOW_VALUE", "UNCERTAIN"}, d \in BOOLEAN :
             RecordVisual(e, v, d)
  BY <1>3, RecordVisualRespects, EntriesAssumption
<1>4. CASE \E e \in Entries : MergeEvidence(e)
  BY <1>4, MergeRespects
<1>5. CASE \E e \in Entries, v \in {"OK", "UNCERTAIN", "CORRUPT"} : Revalidate(e, v)
  BY <1>5, RevalidateRespects
<1>6. CASE \E e \in Entries, r \in BOOLEAN : Crosscheck(e, r)
  BY <1>6, CrosscheckRespects
<1>7. CASE SupersedeRoutes
  BY <1>7, SupersedeRoutesRespects
<1> QED
  BY <1>1, <1>2, <1>3, <1>4, <1>5, <1>6, <1>7 DEF AutomaticStep

LEMMA CorrectedLedger ==
  ASSUME IInv, NEW e \in Entries, NEW s, HumanCorrected(e, s)
  PROVE  IsLedger(ledger') /\ UNCHANGED carried
<1> DEFINE r == [ledger[e] EXCEPT !.status = s, !.text = "human", !.human = TRUE]
<1>1. IsRecord(r)
  BY DEF IInv, IsLedger, IsRecord, Fields
<1>2. ledger' = Upsert(ledger, e, r) /\ UNCHANGED carried
  BY DEF HumanCorrected, Write
<1> QED
  BY <1>1, <1>2, UpsertRespects DEF IInv

LEMMA DecidedLedger ==
  ASSUME IInv, NEW e \in Entries, NEW d, Write(VisualDecided(ledger, e, d))
  PROVE  IsLedger(ledger') /\ UNCHANGED carried
<1>1. IsRecord(ledger[e]) /\ ledger = [f \in Entries |-> ledger[f]]
  BY DEF IInv, IsLedger
<1>2. PICK r : VisualDecided(ledger, e, d) = [ledger EXCEPT ![e] = r] /\ IsRecord(r)
  <2> DEFINE r == [ledger[e] EXCEPT !.human = TRUE, !.decision = d, !.decidedAt = now + 1,
                     !.unresolved = FALSE, !.status = IF d = "useful" THEN "applied" ELSE "excluded"]
  <2>1. IsRecord(r)
    BY <1>1 DEF IsRecord, Fields
  <2>2. VisualDecided(ledger, e, d) = [ledger EXCEPT ![e] = r]
    BY <1>1 DEF VisualDecided
  <2> QED
    BY <2>1, <2>2
<1> QED
  BY <1>1, <1>2 DEF Write, IInv, IsLedger

---------------------------------------------------------------------------
(* Every step keeps the shape of the ledger, and every step but that of a  *)
(* person respects what people wrote.                                      *)

LEMMA HumanLedger ==
  ASSUME IInv, HumanStep
  PROVE  IsLedger(ledger') /\ UNCHANGED carried
<1>1. CASE \E e \in Entries, s \in {"applied", "rejected", "proposed"} : HumanCorrection(e, s)
  BY <1>1, CorrectedLedger DEF HumanCorrection
<1>2. CASE \E e \in Entries, d \in {"useful", "not_useful"} : HumanVisualDecision(e, d)
  BY <1>2, DecidedLedger DEF HumanVisualDecision
<1> QED
  BY <1>1, <1>2 DEF HumanStep

LEMMA ButtonLedger ==
  ASSUME IInv, Decide
  PROVE  (IsLedger(ledger') \/ UNCHANGED ledger) /\ UNCHANGED carried
<1> DEFINE e == session.current
           tap == Head(taps)
<1>1. CASE UNCHANGED ledgerVars
  BY <1>1 DEF ledgerVars
<1>2. CASE TextDecided(e, tap.decision) /\ e \in Texts
  <2>1. CASE UNCHANGED ledgerVars
    BY <2>1 DEF ledgerVars
  <2>2. CASE \E s : HumanCorrected(e, s)
    BY <1>2, <2>2, CorrectedLedger DEF Texts
  <2> QED
    BY <1>2, <2>1, <2>2 DEF TextDecided
<1>3. CASE VisualDecidedBy(e, tap.decision)
  <2>1. PICK d : Write(VisualDecided(ledger, e, d))
    BY <1>3 DEF VisualDecidedBy
  <2>2. CASE e \in Entries
    BY <2>1, <2>2, DecidedLedger
  <2>3. CASE e \notin Entries
    <3>1. VisualDecided(ledger, e, d) = ledger
      BY <2>3 DEF VisualDecided, IInv, IsLedger
    <3> QED
      BY <2>1, <3>1 DEF Write
  <2> QED
    BY <2>2, <2>3
<1> QED
  BY <1>1, <1>2, <1>3 DEF Decide

LEMMA NextIInv ==
  ASSUME IInv, [Next]_vars
  PROVE  /\ IInv'
         /\ ~EndRerun /\ ~WebReview /\ ~Decide => Respects(ledger, ledger')
<1>1. CASE Automatic /\ EndRerun
  BY <1>1, EndRerunRespects DEF IInv
<1>2. CASE Automatic /\ ~EndRerun
  <2>1. Respects(ledger, ledger') /\ (UNCHANGED carried \/ carried' = {ledger})
    BY <1>2, AutomaticRespects DEF Automatic
  <2>2. IsLedger(ledger') /\ IsLedger(ledger)
    BY <2>1 DEF Respects, IInv
  <2>3. carried' = {} \/ \E l : carried' = {l} /\ IsLedger(l)
    BY <2>1, <2>2 DEF IInv
  <2> QED
    BY <2>1, <2>2, <2>3 DEF IInv
<1>3. CASE WebReview
  BY <1>3, HumanLedger DEF WebReview, IInv
<1>4. CASE Decide
  BY <1>4, ButtonLedger DEF IInv
<1>5. CASE UNCHANGED ledgerVars
  BY <1>5, SameRespects DEF IInv, ledgerVars
<1>6. ASSUME ~(Automatic \/ WebReview \/ Decide)
      PROVE  UNCHANGED ledgerVars
  BY <1>6 DEF Next, vars, ledgerVars, StartAudit, StopAudit, ChooseNext, SendCard, SendFails, Tap,
              Refuse, Restart
<1> QED
  BY <1>1, <1>2, <1>3, <1>4, <1>5, <1>6

LEMMA InitIInv == Init => IInv
  BY AbsentRecord DEF Init, LedgerInit, IInv, IsLedger

(* The ledger, and the one a rerun of Stage 2A has read and will carry     *)
(* over, keep the shape that the writers of app/stage2c.py give them.      *)
THEOREM Invariance == Spec => []IInv
<1>1. IInv /\ [Next]_vars => IInv'
  BY NextIInv
<1> QED
  BY <1>1, InitIInv, PTL DEF Spec

(* What a person wrote into an entry, or decided about a picture, is       *)
(* changed by people only: no record, retry, revalidation, cross-check,    *)
(* recovery, reconciliation or rerun of Stage 2A touches it, in any order  *)
(* (upsert_ledger_entry, reconcile_correction_generations,                 *)
(* resolve_vision_overlap_entries).                                        *)
THEOREM PeopleOnly == Spec => HumanRecordKept
<1> DEFINE A == \A l \in IF EndRerun THEN carried ELSE {ledger}, e \in Entries :
                  l[e].human /\ ~WebReview /\ ~Decide =>
                    /\ ledger'[e].human
                    /\ ledger'[e].text = l[e].text /\ ledger'[e].decision = l[e].decision
<1>1. IInv /\ [Next]_vars => A
  <2> SUFFICES ASSUME IInv, [Next]_vars,
                      NEW l \in IF EndRerun THEN carried ELSE {ledger}, NEW e \in Entries,
                      l[e].human, ~WebReview, ~Decide
               PROVE  /\ ledger'[e].human
                      /\ ledger'[e].text = l[e].text /\ ledger'[e].decision = l[e].decision
    OBVIOUS
  <2>1. CASE EndRerun
    <3>1. l \in carried
      BY <2>1
    <3>2. Respects(l, ledger')
      BY <2>1, <3>1, EndRerunRespects
    <3> QED
      BY <3>2 DEF Respects
  <2>2. CASE ~EndRerun
    <3>1. l = ledger
      BY <2>2
    <3>2. Respects(ledger, ledger')
      BY <2>2, NextIInv
    <3> QED
      BY <3>1, <3>2 DEF Respects
  <2> QED
    BY <2>1, <2>2
<1> QED
  BY <1>1, Invariance, PTL DEF Spec, HumanRecordKept
---------------------------------------------------------------------------
(* The best of a set: Best chooses an element with the greatest tuple of   *)
(* numbers, and there is one when the tuples are bounded and differ.       *)

LEMMA Largest ==
  ASSUME NEW S, S # {}, NEW k, NEW n \in Nat, \A e \in S : k[e] \in 0 .. n
  PROVE  \E e \in S : \A f \in S : k[f] <= k[e]
<1> DEFINE T == {n - k[e] : e \in S}
<1>1. T \subseteq Nat /\ T # {}
  OBVIOUS
<1>2. PICK x \in T : \A y \in T : <<y, x>> \notin OpToRel(<, Nat)
  <2> HIDE DEF T
  <2> QED
  BY <1>1, NatLessThanWellFounded, WFMin
<1>3. ASSUME NEW y \in T
      PROVE  x <= y
  <2>1. x \in Nat /\ y \in Nat
    BY <1>1
  <2>2. <<y, x>> \notin OpToRel(<, Nat)
    BY <1>2
  <2> HIDE DEF T
  <2>3. ~(y < x)
    BY <2>1, <2>2 DEF OpToRel
  <2> QED
    BY <2>1, <2>3
<1>4. PICK e \in S : x = n - k[e]
  OBVIOUS
<1>5. \A f \in S : n - k[e] <= n - k[f]
  BY <1>3, <1>4
<1> QED
  BY <1>5

LEMMA LaterOne ==
  ASSUME NEW a, NEW b
  PROVE  Later(<<a>>, <<b>>) <=> a > b
<1>1. DOMAIN <<a>> = {1} /\ <<a>>[1] = a /\ <<b>>[1] = b
  OBVIOUS
<1>2. \A j \in 1 .. 1 - 1 : FALSE
  OBVIOUS
<1> QED
  BY <1>1, <1>2 DEF Later

LEMMA LaterTwo ==
  ASSUME NEW a1, NEW a2, NEW b1, NEW b2
  PROVE  Later(<<a1, a2>>, <<b1, b2>>) <=> a1 > b1 \/ (a1 = b1 /\ a2 > b2)
  BY DEF Later

LEMMA LaterThree ==
  ASSUME NEW a1, NEW a2, NEW a3, NEW b1, NEW b2, NEW b3
  PROVE  Later(<<a1, a2, a3>>, <<b1, b2, b3>>)
           <=> a1 > b1 \/ (a1 = b1 /\ (a2 > b2 \/ (a2 = b2 /\ a3 > b3)))
  BY DEF Later

LEMMA LaterFour ==
  ASSUME NEW a1, NEW a2, NEW a3, NEW a4, NEW b1, NEW b2, NEW b3, NEW b4
  PROVE  Later(<<a1, a2, a3, a4>>, <<b1, b2, b3, b4>>)
           <=> a1 > b1 \/ (a1 = b1 /\ (a2 > b2 \/ (a2 = b2 /\ (a3 > b3 \/ (a3 = b3 /\ a4 > b4)))))
  BY DEF Later

(* An element is the greatest in a, among those in b, in c, in d.          *)
HasTop(S, a, b, c, d) ==
  \E e \in S : \A f \in S \ {e} :
    a[e] > a[f] \/ (a[e] = a[f] /\ (b[e] > b[f] \/ (b[e] = b[f]
      /\ (c[e] > c[f] \/ (c[e] = c[f] /\ d[e] > d[f])))))

LEMMA Greatest ==
  ASSUME NEW S, S # {}, NEW n \in Nat, NEW a \in [S -> 0 .. n], NEW b \in [S -> 0 .. n],
         NEW c \in [S -> 0 .. n], NEW d \in [S -> 0 .. n],
         \A e, f \in S : d[e] = d[f] => e = f
  PROVE  HasTop(S, a, b, c, d)
<1>1. PICK x \in S : \A f \in S : a[f] <= a[x]
  BY Largest
<1> DEFINE A == {f \in S : a[f] = a[x]}
<1>2. PICK y \in A : \A f \in A : b[f] <= b[y]
  <2>1. A # {} /\ \A e \in A : b[e] \in 0 .. n
    BY <1>1
  <2> QED
    BY <2>1, Largest
<1> DEFINE B == {f \in A : b[f] = b[y]}
<1>3. PICK z \in B : \A f \in B : c[f] <= c[z]
  <2>1. B # {} /\ \A e \in B : c[e] \in 0 .. n
    BY <1>2
  <2> QED
    BY <2>1, Largest
<1> DEFINE C == {f \in B : c[f] = c[z]}
<1>4. PICK e \in C : \A f \in C : d[f] <= d[e]
  <2>1. C # {} /\ \A f \in C : d[f] \in 0 .. n
    BY <1>3
  <2> QED
    BY <2>1, Largest
<1>5. ASSUME NEW f \in S \ {e}
      PROVE  a[e] > a[f] \/ (a[e] = a[f] /\ (b[e] > b[f] \/ (b[e] = b[f]
             /\ (c[e] > c[f] \/ (c[e] = c[f] /\ d[e] > d[f])))))
  BY <1>1, <1>2, <1>3, <1>4
<1> QED
  BY <1>4, <1>5 DEF HasTop

---------------------------------------------------------------------------
(* Sound ledgers.  A present entry has a record of its own time, later     *)
(* generations have later records, and a suspended entry knows the status  *)
(* it had.  What a person decided about a picture carries its decision and *)
(* a time of its own.                                                      *)

Dated(l, t, g) ==
  \A e \in Present(l) :
    /\ l[e].createdAt \in 1 .. t /\ GenOf[e] <= g
    /\ \A f \in Present(l) : /\ l[e].createdAt = l[f].createdAt => e = f
                             /\ GenOf[e] < GenOf[f] => l[e].createdAt < l[f].createdAt

Reviewed(l, t) ==
  /\ \A e \in Entries : l[e].decidedAt <= t
  /\ \A e \in Visuals :
       /\ ~l[e].unsafe
       /\ l[e].human <=> l[e].decision # "none"
       /\ \A f \in Visuals : l[e].human /\ l[f].human /\ l[e].decidedAt = l[f].decidedAt => e = f

Basic(l, t, g) ==
  /\ l \in [Entries -> Records]
  /\ \A e \in Entries : l[e] = Absent \/ Restored(l[e]) \in Live
  /\ Dated(l, t, g)
  /\ Reviewed(l, t)

(* What most writers leave of the record of a present entry: the times and *)
(* the decisions.  Reconciliation leaves all but the status, which it may  *)
(* suspend.                                                                *)
Akin(r, s) ==
  /\ s \in Records
  /\ s.createdAt = r.createdAt /\ s.human = r.human /\ s.decision = r.decision
  /\ s.decidedAt = r.decidedAt /\ s.unsafe = r.unsafe
  /\ Restored(r) \in Live /\ Restored(s) \in Live

Alike(r, s) == Akin(r, s) /\ Restored(s) = Restored(r)

LEMMA StatusRestored ==
  ASSUME NEW r \in Records
  PROVE  /\ Restored(r) \in Live => r.status # "absent"
         /\ r.status \in Live => Restored(r) = r.status
         /\ Restored(Absent) \notin Live /\ Absent.status = "absent" /\ ~Absent.human
         /\ Absent \in Records
         /\ r.createdAt \in Nat /\ r.decidedAt \in Nat
  BY DEF Restored, Live, Records, Absent, Decisions

LEMMA SupersedeAlike ==
  ASSUME NEW r \in Records, Restored(r) \in Live, NEW w \in Entries
  PROVE  Alike(r, Supersede(r, w)) /\ Supersede(r, w).status = "superseded"
  BY DEF Alike, Akin, Supersede, Records, Restored, Live

LEMMA RestoreAlike ==
  ASSUME NEW r \in Records, Restored(r) \in Live
  PROVE  Alike(r, Restore(r)) /\ Restore(r).status = Restored(r)
  BY DEF Alike, Akin, Restore, Records, Restored, Live

LEMMA OutdoneAlike ==
  ASSUME NEW r \in Records, Restored(r) \in Live, NEW w \in Entries
  PROVE  /\ Alike(r, Outdone(r, Restored(r), w))
         /\ Outdone(r, Restored(r), w).status = "superseded"
  BY DEF Alike, Akin, Outdone, Records, Restored, Live

LEMMA BasicEntry ==
  ASSUME NEW l, NEW t, NEW g, Basic(l, t, g), NEW e \in Entries
  PROVE  /\ l[e] \in Records
         /\ e \in Present(l) <=> Restored(l[e]) \in Live
         /\ e \notin Present(l) <=> l[e] = Absent
  BY StatusRestored DEF Basic, Present

LEMMA AkinBasic ==
  ASSUME NEW l, NEW t, NEW g, Basic(l, t, g), NEW m,
         m = [e \in Entries |-> m[e]], \A e \in Entries : m[e] = l[e] \/ Akin(l[e], m[e])
  PROVE  Basic(m, t, g) /\ Present(m) = Present(l)
<1>1. \A e \in Entries : m[e] \in Records /\ (m[e] = Absent \/ Restored(m[e]) \in Live)
  BY BasicEntry, StatusRestored DEF Akin, Basic
<1>2. m \in [Entries -> Records]
  BY <1>1
<1>3. Present(m) = Present(l)
  BY <1>1, BasicEntry, StatusRestored DEF Present, Akin
<1>4. \A e \in Entries : /\ m[e].createdAt = l[e].createdAt /\ m[e].human = l[e].human
                         /\ m[e].decision = l[e].decision /\ m[e].decidedAt = l[e].decidedAt
                         /\ m[e].unsafe = l[e].unsafe
  BY DEF Akin
<1>5. Dated(m, t, g)
  <2>1. \A e \in Present(l) : e \in Entries /\ m[e].createdAt = l[e].createdAt
    BY <1>4 DEF Present
  <2> QED
    BY <1>3, <2>1 DEF Basic, Dated
<1>6. Reviewed(m, t)
  BY <1>4, EntriesAssumption DEF Basic, Reviewed
<1> QED
  BY <1>1, <1>2, <1>3, <1>5, <1>6 DEF Basic

LEMMA LaterBasic ==
  ASSUME NEW l, NEW t \in Nat, NEW g \in Nat, Basic(l, t, g),
         NEW u \in Nat, NEW h \in Nat, t <= u, g <= h
  PROVE  Basic(l, u, h)
<1>1. Dated(l, u, h)
  BY EntriesAssumption DEF Basic, Dated, Present
<1>2. Reviewed(l, u)
  BY StatusRestored DEF Basic, Reviewed
<1> QED
  BY <1>1, <1>2 DEF Basic

(* The group of an entry is finite, for the ledger has had finitely many   *)
(* writes.                                                                 *)
LEMMA GroupFinite ==
  ASSUME NEW l, NEW t \in Nat, NEW g, Basic(l, t, g), NEW S \in SUBSET Present(l)
  PROVE  /\ IsFiniteSet(S) /\ Cardinality(S) \in Nat
         /\ \A e \in S : Cardinality(S) < 2 => S = {e}
         /\ (\E e \in S : S = {e}) => Cardinality(S) = 1
<1> DEFINE k == [e \in S |-> l[e].createdAt]
<1>1. k \in Injection(S, 1 .. t)
  BY DEF Injection, IsInjective, Basic, Dated
<1>2. IsFiniteSet(1 .. t)
  BY FS_Interval
<1>3. IsFiniteSet(S)
  BY <1>1, <1>2, FS_Injection
<1>4. Cardinality(S) \in Nat
  BY <1>3, FS_CardinalityType
<1>5. \A e \in S : Cardinality(S) < 2 => S = {e}
  <2> SUFFICES ASSUME NEW e \in S, Cardinality(S) < 2
               PROVE  S = {e}
    OBVIOUS
  <2>1. Cardinality(S) # 0
    BY <1>3, FS_EmptySet
  <2>2. Cardinality(S) = 1
    BY <1>4, <2>1
  <2> QED
    BY <1>3, <2>2, FS_Singleton
<1> QED
  BY <1>3, <1>4, <1>5, FS_Singleton

---------------------------------------------------------------------------
(* The winners of reconciliation are members of their groups, and none     *)
(* outranks them.                                                          *)

Newest(l, S) == Best(S, LAMBDA e : <<l[e].createdAt>>)

LEMMA NewestIn ==
  ASSUME NEW l, NEW t \in Nat, NEW g, Basic(l, t, g), NEW S \in SUBSET Present(l), S # {}
  PROVE  Newest(l, S) \in S /\ \A f \in S : l[f].createdAt <= l[Newest(l, S)].createdAt
<1> DEFINE d == [e \in S |-> l[e].createdAt]
           z == [e \in S |-> 0]
           w == Newest(l, S)
<1>1. \A e \in S : l[e].createdAt \in 0 .. t /\ \A f \in S : l[e].createdAt = l[f].createdAt => e = f
  BY DEF Basic, Dated
<1>2. HasTop(S, z, z, z, d)
  <2>1. d \in [S -> 0 .. t] /\ z \in [S -> 0 .. t] /\ \A e, f \in S : d[e] = d[f] => e = f
    BY <1>1
  <2> QED
    BY <2>1, Greatest
<1>3. \E e \in S : \A f \in S \ {e} : l[e].createdAt > l[f].createdAt
  BY <1>2 DEF HasTop
<1>4. \E e \in S : \A f \in S \ {e} : Later(<<l[e].createdAt>>, <<l[f].createdAt>>)
  BY <1>3, LaterOne
<1>5. w \in S /\ \A f \in S \ {w} : Later(<<l[w].createdAt>>, <<l[f].createdAt>>)
  BY <1>4 DEF Best, Newest
<1> HIDE DEF w
<1>6. \A f \in S \ {w} : l[w].createdAt > l[f].createdAt
  BY <1>5, LaterOne
<1>7. \A f \in S : l[f].createdAt <= l[w].createdAt
  BY <1>1, <1>5, <1>6
<1> QED
  BY <1>5, <1>7 DEF w

LEMMA HumanWinnerIn ==
  ASSUME NEW l, NEW t \in Nat, NEW g, Basic(l, t, g), NEW S \in SUBSET Present(l),
         \E e \in S : l[e].human
  PROVE  HumanWinner(l, S) \in S /\ l[HumanWinner(l, S)].human
<1> DEFINE H == {e \in S : l[e].human}
           c == [e \in H |-> l[e].decidedAt]
           d == [e \in H |-> l[e].createdAt]
           z == [e \in H |-> 0]
<1>1. \A e \in H : l[e].decidedAt \in 0 .. t /\ l[e].createdAt \in 0 .. t
  <2>1. \A e \in H : l[e].decidedAt \in Nat /\ l[e].decidedAt <= t /\ l[e].createdAt \in 1 .. t
    BY StatusRestored DEF Basic, Dated, Reviewed, Present
  <2> QED
    BY <2>1
<1>2. \A e, f \in H : l[e].createdAt = l[f].createdAt => e = f
  BY DEF Basic, Dated
<1>3. HasTop(H, z, z, c, d)
  <2>1. /\ z \in [H -> 0 .. t] /\ c \in [H -> 0 .. t] /\ d \in [H -> 0 .. t] /\ H # {}
        /\ \A e, f \in H : d[e] = d[f] => e = f
    BY <1>1, <1>2
  <2> HIDE DEF c, d, z, H
  <2> QED
    BY <2>1, Greatest
<1>4. \E e \in H : \A f \in H \ {e} : c[e] > c[f] \/ (c[e] = c[f] /\ d[e] > d[f])
  <2>1. \A e \in H : z[e] = 0
    OBVIOUS
  <2> HIDE DEF c, d, z, H
  <2> QED
    BY <1>3, <2>1 DEF HasTop
<1>5. \E e \in H : \A f \in H \ {e} : Later(<<HumanEpoch(l[e]), l[e].createdAt>>,
                                            <<HumanEpoch(l[f]), l[f].createdAt>>)
  BY <1>4, LaterTwo DEF HumanEpoch
<1>6. HumanWinner(l, S) \in H
  BY <1>5 DEF Best, HumanWinner
<1> QED
  BY <1>6

LEMMA CurrentIn ==
  ASSUME NEW l, NEW t \in Nat, NEW g \in Nat, Basic(l, t, g), NEW S \in SUBSET Present(l), S # {},
         NEW p
  PROVE  /\ CurrentOf(l, S, p) \subseteq S /\ CurrentOf(l, S, p) # {}
         /\ (p \in S => GenOf[p] = g) /\ (\E e \in S : GenOf[e] = g)
              => CurrentOf(l, S, p) = {e \in S : GenOf[e] = g}
<1> DEFINE w == Newest(l, S)
           v == IF p \in S THEN p ELSE w
<1>1. w \in S /\ \A f \in S : l[f].createdAt <= l[w].createdAt
  BY NewestIn
<1>2. CurrentOf(l, S, p) = {e \in S : GenOf[e] = GenOf[v]}
  BY DEF CurrentOf, Newest
<1> HIDE DEF w
<1>3. v \in S
  BY <1>1
<1>4. ASSUME p \notin S, NEW e \in S, GenOf[e] = g
      PROVE  GenOf[w] = g
  <2>1. GenOf[w] \in Nat /\ GenOf[w] <= g /\ l[w].createdAt \in Nat /\ l[e].createdAt \in Nat
    BY <1>1, EntriesAssumption DEF Basic, Dated, Present
  <2>2. GenOf[w] < GenOf[e] => l[w].createdAt < l[e].createdAt
    BY <1>1 DEF Basic, Dated
  <2> QED
    BY <1>1, <1>4, <2>1, <2>2
<1> QED
  BY <1>2, <1>3, <1>4

LEMMA AutomaticWinnerIn ==
  ASSUME NEW l, NEW t \in Nat, NEW g \in Nat, Basic(l, t, g), NEW S \in SUBSET Present(l), S # {},
         NEW p, S \subseteq Visuals \/ S \cap Visuals = {}
  PROVE  /\ AutomaticWinner(l, S, p) \in CurrentOf(l, S, p)
         /\ \A e \in CurrentOf(l, S, p) \cap Visuals :
              Restored(l[e]) = "applied" => Restored(l[AutomaticWinner(l, S, p)]) = "applied"
<1> DEFINE C == CurrentOf(l, S, p)
           a == [e \in C |-> Flag(Restored(l[e]) = "applied")]
           b == [e \in C |-> Flag(e \notin Sweeps)]
           c == [e \in C |-> Flag(e = p)]
           d == [e \in C |-> l[e].createdAt]
           z == [e \in C |-> 0]
           n == t + 1
           key(e) == IF e \in Visuals
                     THEN <<Flag(Restored(l[e]) = "applied"), Flag(e \notin Sweeps),
                            Flag(e = p), l[e].createdAt>>
                     ELSE <<Flag(e = p), l[e].createdAt>>
           w == AutomaticWinner(l, S, p)
<1>1. C # {} /\ C \subseteq S
  BY CurrentIn
<1>2. /\ a \in [C -> 0 .. n] /\ b \in [C -> 0 .. n] /\ c \in [C -> 0 .. n]
      /\ d \in [C -> 0 .. n] /\ z \in [C -> 0 .. n] /\ n \in Nat
  <2>1. \A e \in C : l[e].createdAt \in 1 .. t
    BY <1>1 DEF Basic, Dated
  <2> QED
    BY <2>1 DEF Flag
<1>3. \A e, f \in C : d[e] = d[f] => e = f
  BY <1>1 DEF Basic, Dated
<1>4. w = CHOOSE e \in C : \A f \in C \ {e} : Later(key(e), key(f))
  BY DEF AutomaticWinner, Best
<1>5. CASE S \subseteq Visuals
  <2>1. \A e \in C : key(e) = <<a[e], b[e], c[e], d[e]>>
    BY <1>1, <1>5
  <2>2. HasTop(C, a, b, c, d)
    <3> HIDE DEF a, b, c, d, C, n
    <3> QED
      BY <1>1, <1>2, <1>3, Greatest
  <2> HIDE DEF key, a, b, c, d, C, w
  <2>3. \E e \in C : \A f \in C \ {e} :
              Later(<<a[e], b[e], c[e], d[e]>>, <<a[f], b[f], c[f], d[f]>>)
    BY <2>2, LaterFour DEF HasTop
  <2>4. w \in C /\ \A f \in C \ {w} : Later(key(w), key(f))
    BY <1>4, <2>1, <2>3
  <2>5. \A f \in C \ {w} : Later(<<a[w], b[w], c[w], d[w]>>, <<a[f], b[f], c[f], d[f]>>)
    BY <2>1, <2>4
  <2>6. \A f \in C \ {w} : a[w] > a[f] \/ a[w] = a[f]
    BY <2>5, LaterFour
  <2>7. \A f \in C : a[f] = Flag(Restored(l[f]) = "applied")
    BY DEF a
  <2>8. \A f \in C : Restored(l[f]) = "applied" => Restored(l[w]) = "applied"
    BY <2>4, <2>6, <2>7 DEF Flag
  <2> QED
    BY <2>4, <2>8 DEF w, C
<1>6. CASE S \cap Visuals = {}
  <2>1. \A e \in C : key(e) = <<c[e], d[e]>>
    BY <1>1, <1>6
  <2>2. HasTop(C, z, z, c, d) /\ \A e \in C : z[e] = 0
    <3>1. \A e \in C : z[e] = 0
      OBVIOUS
    <3> HIDE DEF c, d, z, C, n
    <3> QED
      BY <1>1, <1>2, <1>3, <3>1, Greatest
  <2>3. w \in C
    <3> HIDE DEF key, z, c, d, C, w
    <3>1. \E e \in C : \A f \in C \ {e} : Later(<<c[e], d[e]>>, <<c[f], d[f]>>)
      BY <2>2, LaterTwo DEF HasTop
    <3> QED
      BY <1>4, <2>1, <3>1
  <2> HIDE DEF w
  <2> QED
    BY <1>1, <1>6, <2>3 DEF w
<1> QED
  BY <1>5, <1>6

(* In a generation, no evidence of the overlapping routes outranks that    *)
(* of the winner.                                                          *)
LEMMA OverlapWinnerIn ==
  ASSUME NEW l, NEW t \in Nat, NEW g, Basic(l, t, g), NEW S \in SUBSET Present(l), S # {}
  PROVE  /\ OverlapWinner(l, S) \in S
         /\ \A e \in S : Restored(l[e]) = "applied" => Restored(l[OverlapWinner(l, S)]) = "applied"
<1> DEFINE a == [e \in S |-> Flag(Restored(l[e]) = "applied")]
           b == [e \in S |-> Flag(e \notin Sweeps)]
           d == [e \in S |-> l[e].createdAt]
           z == [e \in S |-> 0]
           n == t + 1
           w == OverlapWinner(l, S)
<1>1. /\ a \in [S -> 0 .. n] /\ b \in [S -> 0 .. n] /\ d \in [S -> 0 .. n] /\ z \in [S -> 0 .. n]
      /\ n \in Nat
  <2>1. \A e \in S : l[e].createdAt \in 1 .. t
    BY DEF Basic, Dated
  <2> QED
    BY <2>1 DEF Flag
<1>2. \A e, f \in S : d[e] = d[f] => e = f
  BY DEF Basic, Dated
<1>3. HasTop(S, a, b, z, d) /\ \A e \in S : z[e] = 0
  <2>1. \A e \in S : z[e] = 0
    OBVIOUS
  <2> HIDE DEF a, b, d, z, n
  <2> QED
    BY <1>1, <1>2, <2>1, Greatest
<1>4. w = CHOOSE e \in S : \A f \in S \ {e} : Later(<<a[e], b[e], d[e]>>, <<a[f], b[f], d[f]>>)
  BY DEF OverlapWinner, Best
<1> HIDE DEF w, a, b, d, z
<1>5. \E e \in S : \A f \in S \ {e} : Later(<<a[e], b[e], d[e]>>, <<a[f], b[f], d[f]>>)
  BY <1>3, LaterThree, SMTT(30) DEF HasTop
<1>6. w \in S /\ \A f \in S \ {w} : Later(<<a[w], b[w], d[w]>>, <<a[f], b[f], d[f]>>)
  BY <1>4, <1>5
<1>7. \A f \in S \ {w} : a[w] > a[f] \/ a[w] = a[f]
  BY <1>6, LaterThree
<1>8. \A f \in S : a[f] = Flag(Restored(l[f]) = "applied")
  BY DEF a
<1>9. \A f \in S : Restored(l[f]) = "applied" => Restored(l[w]) = "applied"
  BY <1>6, <1>7, <1>8 DEF Flag
<1> QED
  BY <1>6, <1>9 DEF w

---------------------------------------------------------------------------
(* Reconciliation of a sound ledger: what it leaves of every record, and   *)
(* that it suspends all but the winner of a group.                         *)

Group(l, e) == {f \in Present(l) : SourceOf[f] = SourceOf[e]}

LEMMA GroupKind ==
  ASSUME NEW l, NEW e \in Present(l)
  PROVE  /\ e \in Group(l, e) /\ Group(l, e) \subseteq Present(l) /\ Present(l) \subseteq Entries
         /\ e \in Visuals => Group(l, e) \subseteq Visuals
         /\ e \notin Visuals => Group(l, e) \cap Visuals = {}
  BY EntriesAssumption DEF Group, Present

LEMMA WinnerIn ==
  ASSUME NEW l, NEW t \in Nat, NEW g \in Nat, Basic(l, t, g), NEW e \in Present(l), NEW p
  PROVE  LET G == Group(l, e)
             w == Winner(l, G, p)
         IN  /\ w \in G
             /\ (\E f \in G : l[f].human) => l[w].human
<1> DEFINE G == Group(l, e)
<1>1. G \in SUBSET Present(l) /\ G # {} /\ (G \subseteq Visuals \/ G \cap Visuals = {})
  BY GroupKind
<1> HIDE DEF G
<1>2. CASE \E f \in G : l[f].human
  BY <1>1, <1>2, HumanWinnerIn DEF Winner, G
<1>3. CASE ~\E f \in G : l[f].human
  <2>1. AutomaticWinner(l, G, p) \in CurrentOf(l, G, p) /\ CurrentOf(l, G, p) \subseteq G
    BY <1>1, AutomaticWinnerIn, CurrentIn
  <2> QED
    BY <1>3, <2>1 DEF Winner, G
<1> QED
  BY <1>2, <1>3

LEMMA ReconcileOf ==
  ASSUME NEW l, NEW t \in Nat, NEW g \in Nat, Basic(l, t, g), NEW p, NEW e \in Entries
  PROVE  LET m == Reconcile(l, p)
             w == Winner(l, Group(l, e), p)
         IN  /\ e \notin Present(l) => m[e] = l[e]
             /\ e \in Present(l) /\ Group(l, e) = {e} => m[e] = l[e]
             /\ e \in Present(l) => m[e] = l[e] \/ Alike(l[e], m[e])
             /\ e \in Present(l) /\ Group(l, e) # {e} =>
                  IF e # w THEN m[e].status = "superseded"
                  ELSE e \in Visuals => m[e].status = Restored(l[e])
<1> DEFINE G == Group(l, e)
           w == Winner(l, G, p)
           m == Reconcile(l, p)
<1>1. m[e] = IF e \notin G \/ Cardinality(G) < 2 THEN l[e]
             ELSE IF e # w THEN Supersede(l[e], w)
             ELSE IF l[e].human \/ e \in Visuals THEN Restore(l[e]) ELSE l[e]
  BY DEF Reconcile, Group
<1>2. e \in Present(l) <=> e \in G
  BY DEF Group
<1>3. CASE e \notin Present(l)
  BY <1>1, <1>2, <1>3
<1>4. CASE e \in Present(l)
  <2>1. w \in G /\ G \in SUBSET Present(l) /\ w \in Entries
    BY <1>4, WinnerIn, GroupKind
  <2>2. G = {e} <=> Cardinality(G) < 2
    BY <1>2, <1>4, <2>1, GroupFinite
  <2>3. l[e] \in Records /\ Restored(l[e]) \in Live
    BY <1>4, BasicEntry
  <2>4. /\ Alike(l[e], Supersede(l[e], w)) /\ Supersede(l[e], w).status = "superseded"
        /\ Alike(l[e], Restore(l[e])) /\ Restore(l[e]).status = Restored(l[e])
    BY <2>1, <2>3, SupersedeAlike, RestoreAlike
  <2> HIDE DEF G, w, m
  <2>5. CASE G = {e}
    BY <1>1, <1>4, <2>2, <2>5 DEF G, w, m
  <2>6. CASE G # {e} /\ e # w
    BY <1>1, <1>2, <1>4, <2>2, <2>4, <2>6 DEF G, w, m
  <2>7. CASE G # {e} /\ e = w
    BY <1>1, <1>2, <1>4, <2>2, <2>4, <2>7 DEF G, w, m
  <2> QED
    BY <2>5, <2>6, <2>7
<1> QED
  BY <1>3, <1>4

LEMMA ReconcileBasic ==
  ASSUME NEW l, NEW t \in Nat, NEW g \in Nat, Basic(l, t, g), NEW p
  PROVE  Basic(Reconcile(l, p), t, g) /\ Present(Reconcile(l, p)) = Present(l)
<1> DEFINE m == Reconcile(l, p)
<1>1. \A e \in Entries : m[e] = l[e] \/ Alike(l[e], m[e])
  BY ReconcileOf
<1>2. m = [e \in Entries |-> m[e]]
  BY DEF Reconcile
<1> HIDE DEF m
<1>3. Basic(m, t, g) /\ Present(m) = Present(l)
  BY <1>1, <1>2, AkinBasic DEF Alike
<1> QED
  BY <1>3 DEF m

(* The overlap of sweeps and normal routes, which concerns pictures only.  *)
OverlapGroup(l, e) == {f \in Present(l) \cap Visuals : SourceOf[f] = SourceOf[e] /\ GenOf[f] = GenOf[e]}

LEMMA ResolveOf ==
  ASSUME NEW l, NEW t \in Nat, NEW g \in Nat, Basic(l, t, g), NEW e \in Entries
  PROVE  LET m == ResolveOverlap(l)
             G == OverlapGroup(l, e)
             w == OverlapWinner(l, G)
         IN  /\ e \notin Present(l) \cap Visuals => m[e] = l[e]
             /\ m[e] = l[e] \/ Alike(l[e], m[e])
             /\ e \in G /\ m[e] # l[e] => w \in G /\ m[w].status = Restored(l[w])
<1> DEFINE G == OverlapGroup(l, e)
           w == OverlapWinner(l, G)
           m == ResolveOverlap(l)
<1>1. \A f \in G : OverlapGroup(l, f) = G
  BY DEF OverlapGroup
<1>2. ASSUME NEW f \in Entries, OverlapGroup(l, f) = G
      PROVE  m[f] = IF f \notin G \/ G \subseteq Sweeps \/ G \cap Sweeps = {} THEN l[f]
                    ELSE IF f = w THEN Restore(l[f]) ELSE Outdone(l[f], Restored(l[f]), w)
  BY <1>2 DEF ResolveOverlap, OverlapGroup, Outdone
<1>3. CASE e \notin G
  <2>1. m[e] = l[e]
    BY <1>2, <1>3
  <2> QED
    BY <1>3, <2>1
<1>4. CASE e \in G
  <2>1. w \in G /\ G \in SUBSET Present(l) /\ w \in Entries /\ e \in Present(l) \cap Visuals
    <3>1. G \in SUBSET Present(l) /\ G # {} /\ Present(l) \subseteq Entries /\ e \in Visuals
      BY <1>4 DEF OverlapGroup, Present
    <3> HIDE DEF G
    <3>2. w \in G
      BY <3>1, OverlapWinnerIn
    <3> QED
      BY <1>4, <3>1, <3>2
  <2>2. /\ l[e] \in Records /\ Restored(l[e]) \in Live
        /\ l[w] \in Records /\ Restored(l[w]) \in Live
    BY <2>1, BasicEntry
  <2>3. /\ Alike(l[e], Outdone(l[e], Restored(l[e]), w)) /\ Alike(l[e], Restore(l[e]))
        /\ Restore(l[w]).status = Restored(l[w])
    BY <2>1, <2>2, OutdoneAlike, RestoreAlike
  <2>4. OverlapGroup(l, e) = G /\ OverlapGroup(l, w) = G
    BY <1>1, <2>1
  <2> HIDE DEF G, w, m
  <2>5. m[e] = l[e] \/ Alike(l[e], m[e])
    BY <1>2, <2>3, <2>4
  <2>6. m[e] # l[e] => m[w].status = Restored(l[w])
    BY <1>2, <1>4, <2>1, <2>3, <2>4
  <2> QED
    BY <2>1, <2>5, <2>6 DEF G, w, m
<1> QED
  BY <1>3, <1>4

LEMMA ResolveBasic ==
  ASSUME NEW l, NEW t \in Nat, NEW g \in Nat, Basic(l, t, g)
  PROVE  Basic(ResolveOverlap(l), t, g) /\ Present(ResolveOverlap(l)) = Present(l)
<1> DEFINE m == ResolveOverlap(l)
<1>1. \A e \in Entries : m[e] = l[e] \/ Alike(l[e], m[e])
  BY ResolveOf
<1>2. m = [e \in Entries |-> m[e]]
  BY DEF ResolveOverlap
<1> HIDE DEF m
<1>3. Basic(m, t, g) /\ Present(m) = Present(l)
  BY <1>1, <1>2, AkinBasic DEF Alike
<1> QED
  BY <1>3 DEF m

---------------------------------------------------------------------------
(* What a sound ledger promises beside: in the group of a reviewed text no *)
(* automatic entry is applied, and a picture with usable evidence of the   *)
(* current generation that no person reviewed has an applied entry.        *)

TextStands(l) ==
  \A e, f \in Texts :
    SourceOf[e] = SourceOf[f] /\ l[e].human /\ ~l[f].human => l[f].status # "applied"

Usable(l, g, e) ==
  /\ e \in Visuals \cap Present(l) /\ GenOf[e] = g /\ Restored(l[e]) = "applied"
  /\ \A f \in Group(l, e) : ~l[f].human

EvidenceStands(l, g) ==
  \A e \in Entries : Usable(l, g, e) => \E f \in Group(l, e) : l[f].status = "applied"

Sound(l, t, g) == Basic(l, t, g) /\ TextStands(l) /\ EvidenceStands(l, g)

LEMMA ReconcileText ==
  ASSUME NEW l, NEW t \in Nat, NEW g \in Nat, Basic(l, t, g), NEW p
  PROVE  TextStands(Reconcile(l, p))
<1> DEFINE m == Reconcile(l, p)
<1> SUFFICES ASSUME NEW e \in Texts, NEW f \in Texts, SourceOf[e] = SourceOf[f],
                    m[e].human, ~m[f].human
             PROVE  m[f].status # "applied"
  BY DEF TextStands
<1>1. e \in Entries /\ f \in Entries /\ e # f
  BY DEF Texts
<1>0. \A x \in Entries : /\ x \notin Present(l) => m[x] = l[x]
                         /\ x \in Present(l) => m[x].human = l[x].human
  BY ReconcileOf DEF Alike, Akin
<1> HIDE DEF m
<1>2. l[e].human /\ ~l[f].human
  BY <1>1, <1>0
<1>3. e \in Present(l)
  BY <1>1, <1>2, BasicEntry, StatusRestored
<1>4. CASE f \notin Present(l)
  <2>1. m[f] = Absent
    BY <1>1, <1>4, <1>0, BasicEntry
  <2> QED
    BY <2>1 DEF Absent
<1>5. CASE f \in Present(l)
  <2>1. e \in Group(l, f) /\ Group(l, f) # {f}
    BY <1>1, <1>3 DEF Group
  <2>2. l[Winner(l, Group(l, f), p)].human
    BY <1>2, <1>5, <2>1, WinnerIn
  <2>3. m[f].status = "superseded"
    BY <1>1, <1>2, <1>5, <2>1, <2>2, ReconcileOf DEF m
  <2> QED
    BY <2>3
<1> QED
  BY <1>4, <1>5

LEMMA ResolveText ==
  ASSUME NEW l, NEW t \in Nat, NEW g \in Nat, Basic(l, t, g), TextStands(l)
  PROVE  TextStands(ResolveOverlap(l))
<1>1. \A e \in Texts : ResolveOverlap(l)[e] = l[e]
  BY ResolveOf DEF Texts
<1> QED
  BY <1>1 DEF TextStands

(* A picture with a single entry shows its evidence.                       *)
SingleStands(l, g) ==
  \A e \in Entries : Usable(l, g, e) /\ Group(l, e) = {e} => l[e].status = "applied"

LEMMA ReconcileEvidence ==
  ASSUME NEW l, NEW t \in Nat, NEW g \in Nat, Basic(l, t, g), NEW p, p \in Visuals => GenOf[p] = g,
         SingleStands(l, g)
  PROVE  EvidenceStands(Reconcile(l, p), g)
<1> DEFINE m == Reconcile(l, p)
<1> SUFFICES ASSUME NEW e \in Entries, Usable(m, g, e)
             PROVE  \E f \in Group(m, e) : m[f].status = "applied"
  BY DEF EvidenceStands
<1>1. Present(m) = Present(l) /\ Present(l) \subseteq Entries
  BY ReconcileBasic DEF Present
<1>2. \A f \in Present(l) : m[f].human = l[f].human /\ Restored(m[f]) = Restored(l[f])
  BY <1>1, ReconcileOf DEF Alike, Akin
<1>3. Group(m, e) = Group(l, e)
  BY <1>1 DEF Group
<1>4. Usable(l, g, e)
  BY <1>1, <1>2, <1>3 DEF Usable, Group
<1> HIDE DEF m
<1>5. e \in Present(l) /\ e \in Visuals
  BY <1>4 DEF Usable
<1>6. CASE Group(l, e) = {e}
  <2>1. m[e] = l[e]
    BY <1>5, <1>6, ReconcileOf DEF m
  <2> QED
    BY <1>3, <1>4, <1>6, <2>1 DEF SingleStands
<1>7. CASE Group(l, e) # {e}
  <2> DEFINE G == Group(l, e)
             w == Winner(l, G, p)
  <2>1. /\ G \in SUBSET Present(l) /\ G # {} /\ G \subseteq Visuals /\ e \in G
        /\ GenOf[e] = g /\ Restored(l[e]) = "applied" /\ \A f \in G : ~l[f].human
    BY <1>4, <1>5, GroupKind DEF Usable
  <2>2. w \in G
    BY <1>5, WinnerIn
  <2>3. Group(l, w) = G
    BY <2>2 DEF Group
  <2> HIDE DEF G
  <2>4. w = AutomaticWinner(l, G, p)
    BY <2>1 DEF Winner
  <2>5. CurrentOf(l, G, p) = {f \in G : GenOf[f] = g}
    BY <2>1, CurrentIn
  <2>6. Restored(l[w]) = "applied"
    BY <2>1, <2>4, <2>5, AutomaticWinnerIn
  <2>7. w \in Entries /\ w \in Present(l) /\ w \in Visuals /\ G # {w}
    BY <1>1, <1>7, <2>1, <2>2 DEF G
  <2>8. m[w].status = Restored(l[w])
    BY <2>3, <2>7, ReconcileOf DEF m
  <2> QED
    BY <1>3, <2>2, <2>6, <2>8 DEF G
<1> QED
  BY <1>6, <1>7

LEMMA ResolveEvidence ==
  ASSUME NEW l, NEW t \in Nat, NEW g \in Nat, Basic(l, t, g), EvidenceStands(l, g)
  PROVE  EvidenceStands(ResolveOverlap(l), g)
<1> DEFINE m == ResolveOverlap(l)
<1> SUFFICES ASSUME NEW e \in Entries, Usable(m, g, e)
             PROVE  \E f \in Group(m, e) : m[f].status = "applied"
  BY DEF EvidenceStands
<1>1. Present(m) = Present(l) /\ Present(l) \subseteq Entries
  BY ResolveBasic DEF Present
<1>2. \A f \in Present(l) : m[f].human = l[f].human /\ Restored(m[f]) = Restored(l[f])
  BY <1>1, ResolveOf DEF Alike, Akin
<1>3. Group(m, e) = Group(l, e)
  BY <1>1 DEF Group
<1>4. Usable(l, g, e)
  BY <1>1, <1>2, <1>3 DEF Usable, Group
<1> HIDE DEF m
<1>5. PICK x \in Group(l, e) : l[x].status = "applied"
  BY <1>4 DEF EvidenceStands
<1>6. x \in Present(l) /\ x \in Visuals /\ x \in Entries
  BY <1>1, <1>4, <1>5, GroupKind DEF Usable
<1>7. Restored(l[x]) = "applied"
  BY <1>5, <1>6, BasicEntry, StatusRestored DEF Live
<1>8. CASE m[x] = l[x]
  BY <1>3, <1>5, <1>8
<1>9. CASE m[x] # l[x]
  <2> DEFINE G == OverlapGroup(l, x)
             w == OverlapWinner(l, G)
  <2>1. x \in G /\ G \in SUBSET Present(l)
    BY <1>6 DEF OverlapGroup
  <2>2. w \in G /\ m[w].status = Restored(l[w])
    BY <1>6, <1>9, <2>1, ResolveOf DEF m
  <2>3. w \in Group(l, e)
    BY <1>5, <2>2 DEF Group, OverlapGroup
  <2> HIDE DEF G
  <2>4. Restored(l[w]) = "applied"
    BY <1>7, <2>1, OverlapWinnerIn
  <2> QED
    BY <1>3, <2>2, <2>3, <2>4
<1> QED
  BY <1>8, <1>9

(* upsert_ledger_entry: the ledger with the entry it keeps, reconciled.    *)
Kept(l, e, r) == IF l[e].human /\ ~r.human THEN l[e] ELSE IF r.human THEN r ELSE Demote(r)
Put(l, e, k)  == [l EXCEPT ![e] = k]

LEMMA UpsertSound ==
  ASSUME NEW l, NEW t \in Nat, NEW g \in Nat, NEW e \in Entries, NEW r,
         Basic(Put(l, e, Kept(l, e, r)), t, g), SingleStands(Put(l, e, Kept(l, e, r)), g),
         e \in Visuals => GenOf[e] = g
  PROVE  /\ Sound(Upsert(l, e, r), t, g)
         /\ Present(Upsert(l, e, r)) = Present(Put(l, e, Kept(l, e, r)))
<1> DEFINE m == Put(l, e, Kept(l, e, r))
           n == Reconcile(m, e)
<1>1. Upsert(l, e, r) = ResolveOverlap(n)
  BY DEF Upsert, Put, Kept
<1> HIDE DEF m
<1>2. Basic(n, t, g) /\ Present(n) = Present(m) /\ TextStands(n) /\ EvidenceStands(n, g)
  BY ReconcileBasic, ReconcileText, ReconcileEvidence DEF m
<1> HIDE DEF n
<1>3. /\ Basic(ResolveOverlap(n), t, g) /\ Present(ResolveOverlap(n)) = Present(n)
      /\ TextStands(ResolveOverlap(n)) /\ EvidenceStands(ResolveOverlap(n), g)
  BY <1>2, ResolveBasic, ResolveText, ResolveEvidence
<1> QED
  BY <1>1, <1>2, <1>3 DEF Sound, m

(* A new record of an entry is of this write, or keeps the time it had; a  *)
(* decision about a picture is taken now, or was taken before.             *)
Fits(l, t, g, e, k) ==
  /\ k \in Records /\ Restored(k) \in Live /\ k.decidedAt <= t + 1
  /\ \/ k.createdAt = t + 1 /\ GenOf[e] = g
     \/ e \in Present(l) /\ k.createdAt = l[e].createdAt
  /\ e \in Visuals => /\ ~k.unsafe
                      /\ k.human <=> k.decision # "none"
                      /\ k.human => \/ k.decidedAt = t + 1
                                    \/ l[e].human /\ k.decidedAt = l[e].decidedAt

LEMMA PutBasic ==
  ASSUME NEW l, NEW t \in Nat, NEW g \in Nat, Basic(l, t, g), NEW e \in Entries, NEW k, Fits(l, t, g, e, k)
  PROVE  Basic(Put(l, e, k), t + 1, g) /\ Present(Put(l, e, k)) = Present(l) \cup {e}
<1> DEFINE m == Put(l, e, k)
<1>1. m[e] = k /\ (\A f \in Entries \ {e} : m[f] = l[f]) /\ m = [f \in Entries |-> m[f]]
  BY DEF Put, Basic
<1> HIDE DEF m
<1>2. k \in Records /\ Restored(k) \in Live /\ k.status # "absent"
  BY StatusRestored DEF Fits
<1>3. Present(m) = Present(l) \cup {e}
  BY <1>1, <1>2 DEF Present
<1>4. m \in [Entries -> Records] /\ \A f \in Entries : m[f] = Absent \/ Restored(m[f]) \in Live
  <2>1. \A f \in Entries : m[f] \in Records /\ (m[f] = Absent \/ Restored(m[f]) \in Live)
    BY <1>1, <1>2 DEF Basic
  <2> QED
    BY <1>1, <2>1
<1>5. Dated(m, t + 1, g)
  <2>1. \A f \in Present(l) \ {e} : m[f] = l[f] /\ f \in Entries
    BY <1>1 DEF Present
  <2>2. \A f \in Present(l) : l[f].createdAt \in 1 .. t /\ GenOf[f] <= g /\ GenOf[f] \in Nat
    BY EntriesAssumption DEF Basic, Dated, Present
  <2>3. CASE k.createdAt = t + 1 /\ GenOf[e] = g
    BY <1>1, <1>3, <2>1, <2>2, <2>3 DEF Basic, Dated
  <2>4. CASE e \in Present(l) /\ k.createdAt = l[e].createdAt
    <3>1. \A f \in Present(l) : m[f].createdAt = l[f].createdAt
      BY <1>1, <2>1, <2>4
    <3>2. Present(m) = Present(l)
      BY <1>3, <2>4
    <3> QED
      BY <2>2, <3>1, <3>2 DEF Basic, Dated
  <2> QED
    BY <2>3, <2>4 DEF Fits
<1>6. Reviewed(m, t + 1)
  <2>1. \A f \in Entries : l[f].decidedAt \in Nat /\ l[f].decidedAt <= t
    BY StatusRestored DEF Basic, Reviewed
  <2>2. \A f \in Entries : m[f].decidedAt <= t + 1
    BY <1>1, <2>1 DEF Fits
  <2>3. \A f \in Visuals : ~m[f].unsafe /\ (m[f].human <=> m[f].decision # "none")
    BY <1>1, EntriesAssumption DEF Fits, Basic, Reviewed
  <2>4. ASSUME NEW f \in Visuals, NEW h \in Visuals, m[f].human, m[h].human,
               m[f].decidedAt = m[h].decidedAt
        PROVE  f = h
    <3>1. f \in Entries /\ h \in Entries
      BY EntriesAssumption
    <3> QED
      BY <1>1, <2>1, <2>4, <3>1 DEF Fits, Basic, Reviewed
  <2> QED
    BY <2>2, <2>3, <2>4 DEF Reviewed
<1> QED
  BY <1>3, <1>4, <1>5, <1>6 DEF Basic, m

---------------------------------------------------------------------------
(* The writers keep the ledger sound.                                      *)

Carryable(l, t, g) == Basic(l, t, g) /\ TextStands(l)

SInv ==
  /\ now \in Nat /\ gen \in 1 .. MaxGen
  /\ Sound(ledger, now, gen)
  /\ \A l \in carried : Carryable(l, now, gen)

(* One write of the ledger, after which no present entry is absent.        *)
Written ==
  /\ Sound(ledger', now + 1, gen)
  /\ Present(ledger) \subseteq Present(ledger')
  /\ now < MaxWrites /\ now' = now + 1 /\ UNCHANGED <<gen, carried>>

LEMMA SoundSingle ==
  ASSUME NEW l, NEW g, EvidenceStands(l, g)
  PROVE  SingleStands(l, g)
  BY DEF EvidenceStands, SingleStands

(* An entry that is put into a sound ledger shows its own evidence.        *)
LEMMA PutSingle ==
  ASSUME NEW l, NEW t \in Nat, NEW g \in Nat, Sound(l, t, g), NEW e \in Entries, NEW k,
         Fits(l, t, g, e, k),
         e \in Visuals => k = l[e] \/ k.human \/ k.status = Restored(k)
  PROVE  SingleStands(Put(l, e, k), g)
<1> DEFINE m == Put(l, e, k)
<1> SUFFICES ASSUME NEW f \in Entries, Usable(m, g, f), Group(m, f) = {f}
             PROVE  m[f].status = "applied"
  BY DEF SingleStands
<1>1. m[e] = k /\ \A x \in Entries \ {e} : m[x] = l[x]
  BY DEF Put, Sound, Basic
<1>2. Basic(m, t + 1, g) /\ Present(m) = Present(l) \cup {e}
  BY PutBasic DEF Sound
<1> HIDE DEF m
<1>3. f \in Visuals /\ GenOf[f] = g /\ Restored(m[f]) = "applied" /\ ~m[f].human
  BY DEF Usable
<1>4. CASE m[f] # l[f]
  BY <1>1, <1>3, <1>4
<1>5. CASE m[f] = l[f]
  <2>1. f \in Present(l)
    BY <1>3, <1>5, BasicEntry DEF Sound, Live
  <2>2. Group(l, f) = {f}
    BY <1>2, <2>1 DEF Group
  <2>3. Usable(l, g, f)
    BY <1>3, <1>5, <2>1, <2>2 DEF Usable
  <2> QED
    BY <1>5, <2>2, <2>3, SoundSingle DEF Sound, SingleStands
<1> QED
  BY <1>4, <1>5

LEMMA UpsertWritten ==
  ASSUME SInv, NEW e \in Entries, NEW r, Write(Upsert(ledger, e, r)),
         Fits(ledger, now, gen, e, Kept(ledger, e, r)),
         e \in Visuals => GenOf[e] = gen,
         LET k == Kept(ledger, e, r)
         IN  e \in Visuals => k = ledger[e] \/ k.human \/ k.status = Restored(k)
  PROVE  Written
<1> DEFINE k == Kept(ledger, e, r)
           m == Put(ledger, e, k)
<1>1. now \in Nat /\ gen \in Nat /\ now + 1 \in Nat /\ Basic(ledger, now, gen)
  BY DEF SInv, Sound
<1>2. Basic(m, now + 1, gen) /\ Present(m) = Present(ledger) \cup {e}
  BY <1>1, PutBasic
<1>3. SingleStands(m, gen)
  BY <1>1, PutSingle DEF SInv
<1>4. Sound(Upsert(ledger, e, r), now + 1, gen) /\ Present(Upsert(ledger, e, r)) = Present(m)
  BY <1>1, <1>2, <1>3, UpsertSound
<1> QED
  BY <1>2, <1>4 DEF Write, Written

LEMMA SelfFits ==
  ASSUME NEW l, NEW t \in Nat, NEW g, Basic(l, t, g), NEW e \in Present(l)
  PROVE  Fits(l, t, g, e, l[e])
<1>1. e \in Entries /\ l[e] \in Records /\ Restored(l[e]) \in Live
  BY BasicEntry DEF Present
<1>2. l[e].decidedAt \in Nat /\ l[e].decidedAt <= t
  BY <1>1, StatusRestored DEF Basic, Reviewed
<1> QED
  BY <1>1, <1>2 DEF Fits, Basic, Reviewed

LEMMA DemoteFits ==
  ASSUME NEW r \in Records, r.status \in Live \/ Restored(r) \in Live
  PROVE  /\ Demote(r) \in Records /\ Restored(Demote(r)) \in Live
         /\ Demote(r).decidedAt = r.decidedAt /\ Demote(r).createdAt = r.createdAt
         /\ Demote(r).human = r.human /\ Demote(r).unsafe = r.unsafe /\ Demote(r).decision = r.decision
         /\ Demote(r).status = "applied" => r.status = "applied"
<1>1. CASE ~UnsafeTranscription(r)
  BY <1>1, StatusRestored DEF Demote
<1>2. CASE UnsafeTranscription(r)
  <2>1. Demote(r) = [r EXCEPT !.status = "pending", !.text = "none"]
    BY <1>2 DEF Demote
  <2> QED
    BY <2>1 DEF Records, Restored, Live
<1> QED
  BY <1>1, <1>2

NewText(s, c, u, x) ==
  [Absent EXCEPT !.status = s, !.createdAt = c, !.verdict = "SUSPECT", !.unsafe = u, !.text = x]
NewVisual(s, c, v, b) ==
  [Absent EXCEPT !.status = s, !.createdAt = c, !.verdict = v, !.unresolved = b]

LEMMA TextRecord ==
  ASSUME NEW s \in {"pending", "proposed", "applied"}, NEW c \in Nat, NEW u \in BOOLEAN,
         NEW x \in {"none", "auto"}
  PROVE  NewText(s, c, u, x) \in Records
  BY DEF NewText, Records, Live, Decisions, Absent

LEMMA VisualRecord ==
  ASSUME NEW s \in {"pending", "excluded", "applied"}, NEW c \in Nat,
         NEW v \in {"USEFUL", "LOW_VALUE", "UNCERTAIN"}, NEW b \in BOOLEAN
  PROVE  NewVisual(s, c, v, b) \in Records
  BY DEF NewVisual, Records, Live, Decisions, Absent

LEMMA AppliedRecord ==
  ASSUME NEW r \in Records
  PROVE  LET a == [r EXCEPT !.status = "applied", !.text = "auto"]
         IN  /\ a \in Records /\ Restored(a) \in Live /\ a.human = r.human
             /\ a.decidedAt = r.decidedAt /\ a.createdAt = r.createdAt
  BY DEF Records, Live, Restored

LEMMA RecordTextWritten ==
  ASSUME SInv, NEW e \in Texts, NEW s \in {"pending", "proposed", "applied"}, NEW u \in BOOLEAN,
         RecordText(e, s, u)
  PROVE  Written
<1> DEFINE r == [Absent EXCEPT !.status = s, !.createdAt = now + 1, !.verdict = "SUSPECT",
                               !.unsafe = u, !.text = IF s = "pending" THEN "none" ELSE "auto"]
           k == Kept(ledger, e, r)
<1>1. e \in Entries /\ e \notin Visuals /\ GenOf[e] = gen /\ Write(Upsert(ledger, e, r))
  BY DEF Texts, RecordText
<1>2. now \in Nat /\ Basic(ledger, now, gen)
  BY DEF SInv, Sound
<1>3. CASE ledger[e].human
  <2>1. e \in Present(ledger)
    BY <1>1, <1>2, <1>3, BasicEntry, StatusRestored
  <2>2. k = ledger[e]
    BY <1>3 DEF Kept, Absent
  <2>3. Fits(ledger, now, gen, e, k)
    BY <1>2, <2>1, <2>2, SelfFits
  <2> QED
    BY <1>1, <2>3, UpsertWritten
<1>4. CASE ~ledger[e].human
  <2>1. k = Demote(r)
    BY <1>4 DEF Kept, Absent
  <2>2. /\ Demote(r) \in Records /\ Restored(Demote(r)) \in Live
        /\ Demote(r).decidedAt = 0 /\ Demote(r).createdAt = now + 1
    <3>1. r \in Records
      <4> DEFINE x == IF s = "pending" THEN "none" ELSE "auto"
      <4>1. r = NewText(s, now + 1, u, x)
        BY DEF NewText
      <4> HIDE DEF r
      <4>2. x \in {"none", "auto"} /\ now + 1 \in Nat
        BY <1>2
      <4> QED
        BY <4>1, <4>2, TextRecord
    <3>2. r.status \in Live /\ r.previous = "none" /\ r.decidedAt = 0 /\ r.createdAt = now + 1
      BY DEF Absent, Live
    <3> HIDE DEF r
    <3> QED
      BY <3>1, <3>2, DemoteFits
  <2>3. Fits(ledger, now, gen, e, k)
    BY <1>1, <1>2, <2>1, <2>2 DEF Fits
  <2> QED
    BY <1>1, <2>3, UpsertWritten
<1> QED
  BY <1>3, <1>4

LEMMA RecordVisualWritten ==
  ASSUME SInv, NEW e \in Visuals, NEW v \in {"USEFUL", "LOW_VALUE", "UNCERTAIN"}, NEW d \in BOOLEAN,
         RecordVisual(e, v, d)
  PROVE  Written
<1> DEFINE r == [Absent EXCEPT !.status = VisionStatus(v, d), !.createdAt = now + 1,
                               !.verdict = v, !.unresolved = (v = "UNCERTAIN")]
           k == Kept(ledger, e, r)
<1>1. e \in Entries /\ GenOf[e] = gen /\ Write(Upsert(ledger, e, r))
  BY EntriesAssumption DEF RecordVisual
<1>2. now \in Nat /\ Basic(ledger, now, gen)
  BY DEF SInv, Sound
<1>3. CASE ledger[e].human
  <2>1. e \in Present(ledger)
    BY <1>1, <1>2, <1>3, BasicEntry, StatusRestored
  <2>2. k = ledger[e]
    BY <1>3 DEF Kept, Absent
  <2>3. Fits(ledger, now, gen, e, k)
    BY <1>2, <2>1, <2>2, SelfFits
  <2> QED
    BY <1>1, <2>2, <2>3, UpsertWritten
<1>4. CASE ~ledger[e].human
  <2>0. VisionStatus(v, d) \in {"applied", "excluded", "pending"}
    BY DEF VisionStatus
  <2>1. k = r
    BY <1>4 DEF Kept, Absent, Demote, UnsafeTranscription
  <2>2. /\ r \in Records /\ Restored(r) \in Live /\ r.status = Restored(r)
        /\ r.decidedAt = 0 /\ r.createdAt = now + 1 /\ ~r.unsafe /\ ~r.human /\ r.decision = "none"
    <3>1. r \in Records
      <4>1. r = NewVisual(VisionStatus(v, d), now + 1, v, v = "UNCERTAIN")
        BY DEF NewVisual
      <4> HIDE DEF r
      <4>2. now + 1 \in Nat /\ (v = "UNCERTAIN") \in BOOLEAN
        BY <1>2
      <4> QED
        BY <2>0, <4>1, <4>2, VisualRecord
    <3>2. /\ r.status \in Live /\ r.decidedAt = 0 /\ r.createdAt = now + 1
          /\ ~r.unsafe /\ ~r.human /\ r.decision = "none"
      BY <2>0 DEF Absent, Live
    <3> HIDE DEF r
    <3> QED
      BY <3>1, <3>2, StatusRestored
  <2> HIDE DEF r, k
  <2>3. Fits(ledger, now, gen, e, k)
    BY <1>1, <1>2, <2>1, <2>2 DEF Fits
  <2> QED
    BY <1>1, <2>1, <2>2, <2>3, UpsertWritten DEF k
<1> QED
  BY <1>3, <1>4

LEMMA CorrectedWritten ==
  ASSUME SInv, NEW e \in Texts \cap Present(ledger), NEW s \in {"applied", "rejected", "proposed"},
         HumanCorrected(e, s)
  PROVE  Written
<1> DEFINE r == [ledger[e] EXCEPT !.status = s, !.text = "human", !.human = TRUE]
<1>1. e \in Entries /\ e \notin Visuals /\ Write(Upsert(ledger, e, r))
  BY DEF Texts, HumanCorrected
<1>2. now \in Nat /\ Basic(ledger, now, gen) /\ ledger[e] \in Records
  BY <1>1, BasicEntry DEF SInv, Sound
<1>3. Fits(ledger, now, gen, e, ledger[e])
  BY <1>2, SelfFits
<1>4. /\ r \in Records /\ Restored(r) \in Live /\ r.human
      /\ r.decidedAt = ledger[e].decidedAt /\ r.createdAt = ledger[e].createdAt
  BY <1>2 DEF Records, Restored, Live
<1>5. Kept(ledger, e, r) = r
  BY <1>4 DEF Kept
<1>6. Fits(ledger, now, gen, e, r)
  BY <1>1, <1>3, <1>4 DEF Fits
<1> QED
  BY <1>1, <1>5, <1>6, UpsertWritten

LEMMA CrosscheckWritten ==
  ASSUME SInv, NEW e \in Entries, NEW b \in BOOLEAN, Crosscheck(e, b)
  PROVE  Written
<1> DEFINE c == b /\ e \in Texts /\ ~ledger[e].human /\ ledger[e].status # "superseded"
           r == IF c THEN [ledger[e] EXCEPT !.status = "applied", !.text = "auto"] ELSE ledger[e]
           k == Kept(ledger, e, r)
<1>1. e \in Present(ledger) /\ GenOf[e] = gen /\ Write(Upsert(ledger, e, r))
  BY DEF Crosscheck
<1>2. now \in Nat /\ Basic(ledger, now, gen) /\ ledger[e] \in Records /\ Restored(ledger[e]) \in Live
  BY <1>1, BasicEntry DEF SInv, Sound
<1>3. Fits(ledger, now, gen, e, ledger[e])
  BY <1>1, <1>2, SelfFits
<1>4. CASE ledger[e].human \/ e \in Visuals
  <2>1. r = ledger[e]
    BY <1>4 DEF Texts
  <2>2. e \in Visuals => ~ledger[e].unsafe
    BY <1>2 DEF Basic, Reviewed
  <2>3. k = ledger[e]
    BY <1>4, <2>1, <2>2 DEF Kept, Demote, UnsafeTranscription
  <2> QED
    BY <1>1, <1>3, <2>3, UpsertWritten
<1>5. CASE ~ledger[e].human /\ e \notin Visuals
  <2>1. /\ r \in Records /\ Restored(r) \in Live /\ ~r.human
        /\ r.decidedAt = ledger[e].decidedAt /\ r.createdAt = ledger[e].createdAt
    <3>1. CASE c
      <4>1. r = [ledger[e] EXCEPT !.status = "applied", !.text = "auto"]
        BY <3>1
      <4> QED
        BY <1>2, <1>5, <4>1, AppliedRecord
    <3>2. CASE ~c
      BY <1>2, <1>5, <3>2
    <3> QED
      BY <3>1, <3>2
  <2>2. k = Demote(r)
    BY <1>5, <2>1 DEF Kept
  <2> HIDE DEF r
  <2>3. /\ Demote(r) \in Records /\ Restored(Demote(r)) \in Live
        /\ Demote(r).decidedAt = r.decidedAt /\ Demote(r).createdAt = r.createdAt
    BY <2>1, DemoteFits
  <2>4. Fits(ledger, now, gen, e, k)
    BY <1>3, <1>5, <2>1, <2>2, <2>3 DEF Fits
  <2> QED
    BY <1>1, <1>5, <2>4, UpsertWritten DEF r
<1> QED
  BY <1>4, <1>5

(* A write about a picture that a person reviewed concerns no other group. *)
LEMMA PutReviewed ==
  ASSUME NEW l, NEW t \in Nat, NEW g \in Nat, Sound(l, t, g), NEW e \in Visuals, NEW k,
         Fits(l, t, g, e, k), k.human
  PROVE  Sound(Put(l, e, k), t + 1, g) /\ Present(Put(l, e, k)) = Present(l) \cup {e}
<1> DEFINE m == Put(l, e, k)
<1>1. e \in Entries /\ Basic(l, t, g)
  BY EntriesAssumption DEF Sound
<1>2. Basic(m, t + 1, g) /\ Present(m) = Present(l) \cup {e}
  BY <1>1, PutBasic
<1>3. m[e] = k /\ \A x \in Entries \ {e} : m[x] = l[x]
  BY <1>1 DEF Put, Basic
<1> HIDE DEF m
<1>4. TextStands(m)
  BY <1>3 DEF Sound, TextStands, Texts
<1>5. EvidenceStands(m, g)
  <2> SUFFICES ASSUME NEW f \in Entries, Usable(m, g, f)
               PROVE  \E x \in Group(m, f) : m[x].status = "applied"
    BY DEF EvidenceStands
  <2>1. e \notin Group(m, f)
    BY <1>3 DEF Usable
  <2>2. f # e
    BY <1>2, <2>1 DEF Group
  <2>3. Group(m, f) = Group(l, f) /\ f \in Present(l)
    BY <1>2, <2>1, <2>2 DEF Group, Usable
  <2>4. Group(l, f) \subseteq Entries \ {e}
    BY <2>1, <2>3 DEF Group, Present
  <2>5. Usable(l, g, f)
    BY <1>3, <2>2, <2>3, <2>4 DEF Usable
  <2>6. PICK x \in Group(l, f) : l[x].status = "applied"
    BY <2>5 DEF Sound, EvidenceStands
  <2> QED
    BY <1>3, <2>3, <2>4, <2>6
<1> QED
  BY <1>2, <1>4, <1>5 DEF Sound, m

DecidedOn(r, d, c) ==
  [r EXCEPT !.human = TRUE, !.decision = d, !.decidedAt = c, !.unresolved = FALSE,
            !.status = IF d = "useful" THEN "applied" ELSE "excluded"]

LEMMA DecidedRecord ==
  ASSUME NEW r \in Records, NEW d \in {"useful", "not_useful"}, NEW c \in Nat
  PROVE  LET k == DecidedOn(r, d, c)
         IN  /\ k \in Records /\ Restored(k) \in Live /\ k.human /\ k.decision = d
             /\ k.decidedAt = c /\ k.createdAt = r.createdAt /\ k.unsafe = r.unsafe
<1> DEFINE s == IF d = "useful" THEN "applied" ELSE "excluded"
<1>1. s \in {"applied", "excluded"}
  OBVIOUS
<1> HIDE DEF s
<1>2. LET k == [r EXCEPT !.human = TRUE, !.decision = d, !.decidedAt = c, !.unresolved = FALSE,
                         !.status = s]
      IN  /\ k \in Records /\ Restored(k) \in Live /\ k.human /\ k.decision = d
          /\ k.decidedAt = c /\ k.createdAt = r.createdAt /\ k.unsafe = r.unsafe
  BY <1>1 DEF Records, Restored, Live, Decisions
<1> QED
  BY <1>2 DEF s, DecidedOn

LEMMA DecidedWritten ==
  ASSUME SInv, NEW e \in Visuals \cap Present(ledger), NEW d \in {"useful", "not_useful"},
         Write(VisualDecided(ledger, e, d))
  PROVE  Written
<1> DEFINE k == DecidedOn(ledger[e], d, now + 1)
<1>1. /\ now \in Nat /\ now + 1 \in Nat /\ gen \in Nat
      /\ Basic(ledger, now, gen) /\ Sound(ledger, now, gen)
  BY DEF SInv, Sound
<1>2. e \in Entries /\ ledger = [f \in Entries |-> ledger[f]] /\ ledger[e] \in Records
  BY <1>1, EntriesAssumption DEF Basic
<1>3. VisualDecided(ledger, e, d) = Put(ledger, e, k)
  BY <1>2 DEF VisualDecided, Put, DecidedOn
<1>4. /\ k \in Records /\ Restored(k) \in Live /\ k.human /\ k.decision = d
      /\ k.decidedAt = now + 1 /\ k.createdAt = ledger[e].createdAt /\ k.unsafe = ledger[e].unsafe
  <2> DEFINE c == now + 1
  <2>1. c \in Nat
    BY <1>1
  <2> HIDE DEF c
  <2>2. LET r == DecidedOn(ledger[e], d, c)
        IN  /\ r \in Records /\ Restored(r) \in Live /\ r.human /\ r.decision = d
            /\ r.decidedAt = c /\ r.createdAt = ledger[e].createdAt /\ r.unsafe = ledger[e].unsafe
    BY <1>2, <2>1, DecidedRecord
  <2> QED
    BY <2>2 DEF c
<1> HIDE DEF k
<1>5. Fits(ledger, now, gen, e, k)
  BY <1>1, <1>4 DEF Fits, Basic, Reviewed
<1>6. Sound(Put(ledger, e, k), now + 1, gen) /\ Present(Put(ledger, e, k)) = Present(ledger) \cup {e}
  BY <1>1, <1>4, <1>5, PutReviewed
<1> QED
  BY <1>3, <1>6 DEF Write, Written

LEMMA MergedRecord ==
  ASSUME NEW r \in Records
  PROVE  LET k == [r EXCEPT !.status = "applied", !.unresolved = FALSE]
         IN  /\ k \in Records /\ Restored(k) \in Live /\ k.human = r.human /\ k.decision = r.decision
             /\ k.decidedAt = r.decidedAt /\ k.createdAt = r.createdAt /\ k.unsafe = r.unsafe
  BY DEF Records, Restored, Live

LEMMA MergeWritten ==
  ASSUME SInv, NEW e \in Visuals, MergeEvidence(e)
  PROVE  Written
<1> DEFINE k == [ledger[e] EXCEPT !.status = "applied", !.unresolved = FALSE]
<1>1. now \in Nat /\ gen \in Nat /\ Basic(ledger, now, gen) /\ Sound(ledger, now, gen)
  BY DEF SInv, Sound
<1>2. e \in Entries /\ ledger[e].human /\ ledger = [f \in Entries |-> ledger[f]] /\ ledger[e] \in Records
  BY <1>1, EntriesAssumption DEF Basic, MergeEvidence
<1>3. /\ ledger' = Put(ledger, e, k)
      /\ now < MaxWrites /\ now' = now + 1 /\ UNCHANGED <<gen, carried>>
  BY <1>2 DEF MergeEvidence, Write, Put
<1>4. /\ k \in Records /\ Restored(k) \in Live /\ k.human = ledger[e].human
      /\ k.decision = ledger[e].decision /\ k.decidedAt = ledger[e].decidedAt
      /\ k.createdAt = ledger[e].createdAt /\ k.unsafe = ledger[e].unsafe
  BY <1>2, MergedRecord
<1> HIDE DEF k
<1>5. e \in Present(ledger)
  BY <1>1, <1>2, BasicEntry, StatusRestored
<1>6. Fits(ledger, now, gen, e, ledger[e])
  BY <1>1, <1>5, SelfFits
<1>7. Fits(ledger, now, gen, e, k)
  BY <1>2, <1>4, <1>6 DEF Fits
<1>8. e \in Visuals /\ k.human = TRUE /\ now + 1 \in Nat
  BY <1>1, <1>2, <1>4 DEF Records
<1>9. Sound(Put(ledger, e, k), now + 1, gen) /\ Present(Put(ledger, e, k)) = Present(ledger) \cup {e}
  BY <1>1, <1>4, <1>7, <1>8, PutReviewed
<1> QED
  BY <1>3, <1>9 DEF Written

LEMMA RevalidatedAkin ==
  ASSUME NEW r \in Records, Restored(r) \in Live, NEW v \in {"OK", "UNCERTAIN", "CORRUPT"}
  PROVE  /\ Akin(r, Revalidated(r, v))
         /\ Revalidated(r, v).status = "applied" => r.status = "applied"
<1>1. CASE r.human
  <2>1. Revalidated(r, v) = r
    BY <1>1 DEF Revalidated
  <2> QED
    BY <2>1 DEF Akin
<1>2. CASE ~r.human /\ v = "OK"
  <2>1. Revalidated(r, v) = [r EXCEPT !.verdict = "OK", !.status = "excluded", !.text = "none"]
    BY <1>2 DEF Revalidated
  <2> QED
    BY <2>1 DEF Akin, Records, Restored, Live
<1>3. CASE ~r.human /\ v # "OK"
  <2>1. PICK s \in {r.status, "pending"} :
           /\ Revalidated(r, v) = [r EXCEPT !.verdict = "SUSPECT", !.status = s]
           /\ s \in {"applied", "proposed", "pending"}
    BY <1>3 DEF Revalidated
  <2> QED
    BY <2>1 DEF Akin, Records, Restored, Live
<1> QED
  BY <1>1, <1>2, <1>3

(* A write that leaves pictures alone and applies no text is harmless.     *)
LEMMA AkinSound ==
  ASSUME NEW l, NEW t \in Nat, NEW g \in Nat, Sound(l, t, g), NEW m, m = [f \in Entries |-> m[f]],
         \A f \in Entries : m[f] = l[f] \/ (/\ f \notin Visuals /\ Akin(l[f], m[f])
                                            /\ m[f].status = "applied" => l[f].status = "applied")
  PROVE  Sound(m, t + 1, g) /\ Present(m) = Present(l)
<1>1. Basic(m, t, g) /\ Present(m) = Present(l)
  BY AkinBasic DEF Sound
<1>2. Basic(m, t + 1, g)
  BY <1>1, LaterBasic
<1>3. TextStands(m)
  <2>1. \A f \in Texts : m[f].human = l[f].human /\ (m[f].status = "applied" => l[f].status = "applied")
    BY DEF Texts, Akin
  <2> QED
    BY <2>1 DEF Sound, TextStands
<1>4. EvidenceStands(m, g)
  <2> SUFFICES ASSUME NEW f \in Entries, Usable(m, g, f)
               PROVE  \E x \in Group(m, f) : m[x].status = "applied"
    BY DEF EvidenceStands
  <2>1. Group(m, f) = Group(l, f) /\ f \in Present(l) /\ f \in Visuals
    BY <1>1 DEF Group, Usable
  <2>2. Group(l, f) \subseteq Visuals /\ Group(l, f) \subseteq Entries
    BY <2>1, GroupKind
  <2>3. \A x \in Group(l, f) : m[x] = l[x]
    BY <2>2
  <2>4. m[f] = l[f]
    BY <2>1
  <2>5. Usable(l, g, f)
    BY <2>1, <2>3, <2>4 DEF Usable
  <2> QED
    BY <2>1, <2>3, <2>5 DEF Sound, EvidenceStands
<1> QED
  BY <1>1, <1>2, <1>3, <1>4 DEF Sound

LEMMA RevalidateWritten ==
  ASSUME SInv, NEW e \in Entries, NEW v \in {"OK", "UNCERTAIN", "CORRUPT"}, Revalidate(e, v)
  PROVE  Written
<1> DEFINE r(f) == IF f = e THEN Revalidated(ledger[f], v) ELSE ledger[f]
           m == [f \in Entries |-> Demote(r(f))]
<1>1. now \in Nat /\ gen \in Nat /\ Basic(ledger, now, gen) /\ Sound(ledger, now, gen)
  BY DEF SInv, Sound
<1>2. /\ e \in Present(ledger) /\ e \notin Visuals /\ ledger' = m
      /\ now < MaxWrites /\ now' = now + 1 /\ UNCHANGED <<gen, carried>>
  BY DEF Revalidate, Write, Texts
<1>3. ASSUME NEW f \in Entries
      PROVE  m[f] = ledger[f] \/ (/\ f \notin Visuals /\ Akin(ledger[f], m[f])
                                  /\ m[f].status = "applied" => ledger[f].status = "applied")
  <2>1. CASE f \in Visuals \/ f \notin Present(ledger)
    <3>1. r(f) = ledger[f] /\ (~ledger[f].unsafe \/ ledger[f] = Absent)
      BY <1>1, <1>2, <2>1, BasicEntry DEF Basic, Reviewed
    <3>2. Demote(ledger[f]) = ledger[f]
      BY <3>1 DEF Demote, UnsafeTranscription, Absent
    <3> QED
      BY <3>1, <3>2
  <2>2. CASE f \notin Visuals /\ f \in Present(ledger)
    <3>1. ledger[f] \in Records /\ Restored(ledger[f]) \in Live
      BY <1>1, <2>2, BasicEntry
    <3>2. Akin(ledger[f], r(f)) /\ (r(f).status = "applied" => ledger[f].status = "applied")
      BY <3>1, RevalidatedAkin DEF Akin
    <3> HIDE DEF r
    <3>3. /\ Demote(r(f)) \in Records /\ Restored(Demote(r(f))) \in Live
          /\ Demote(r(f)).decidedAt = r(f).decidedAt /\ Demote(r(f)).createdAt = r(f).createdAt
          /\ Demote(r(f)).human = r(f).human /\ Demote(r(f)).unsafe = r(f).unsafe
          /\ Demote(r(f)).decision = r(f).decision
          /\ Demote(r(f)).status = "applied" => r(f).status = "applied"
      BY <3>2, DemoteFits DEF Akin
    <3> QED
      BY <2>2, <3>2, <3>3 DEF Akin
  <2> QED
    BY <2>1, <2>2
<1>4. m = [f \in Entries |-> m[f]]
  OBVIOUS
<1> HIDE DEF m
<1>5. Sound(m, now + 1, gen) /\ Present(m) = Present(ledger)
  BY <1>1, <1>3, <1>4, AkinSound
<1> QED
  BY <1>2, <1>5 DEF Written

LEMMA SupersedeRoutesWritten ==
  ASSUME SInv, SupersedeRoutes
  PROVE  Written
<1>1. now \in Nat /\ gen \in Nat /\ Sound(ledger, now, gen) /\ Basic(ledger, now, gen)
  BY DEF SInv, Sound
<1>2. /\ Basic(ResolveOverlap(ledger), now, gen) /\ Present(ResolveOverlap(ledger)) = Present(ledger)
      /\ TextStands(ResolveOverlap(ledger)) /\ EvidenceStands(ResolveOverlap(ledger), gen)
  BY <1>1, ResolveBasic, ResolveText, ResolveEvidence DEF Sound
<1>3. Basic(ResolveOverlap(ledger), now + 1, gen)
  BY <1>1, <1>2, LaterBasic
<1> QED
  BY <1>2, <1>3 DEF SupersedeRoutes, Write, Written, Sound

(* What a rerun carries over has no entry of the new generation.           *)
LEMMA CarriedSound ==
  ASSUME NEW l, NEW t \in Nat, NEW g \in Nat, Carryable(l, t, g)
  PROVE  Sound(Carried(l), t, g + 1)
<1> DEFINE m == Carried(l)
           x(r) == [r EXCEPT !.previous = r.status, !.status = "superseded"]
<1>1. ASSUME NEW e \in Entries
      PROVE  m[e] = l[e] \/ (Akin(l[e], m[e]) /\ m[e].status = "superseded")
  <2>1. CASE e \in Active(l) /\ ~l[e].human
    <3>1. m[e] = x(l[e])
      BY <2>1 DEF Carried
    <3>2. l[e] \in Records /\ l[e].status \in Live
      BY <2>1, BasicEntry DEF Carryable, Active, Present, Restored
    <3>3. Akin(l[e], x(l[e])) /\ x(l[e]).status = "superseded"
      BY <3>2 DEF Akin, Records, Restored, Live
    <3> QED
      BY <3>1, <3>3
  <2>2. CASE ~(e \in Active(l) /\ ~l[e].human)
    BY <2>2 DEF Carried
  <2> QED
    BY <2>1, <2>2
<1>2. m = [e \in Entries |-> m[e]]
  BY DEF Carried
<1> HIDE DEF m
<1>3. Basic(m, t, g) /\ Present(m) = Present(l)
  BY <1>1, <1>2, AkinBasic DEF Carryable
<1>4. Basic(m, t, g + 1)
  BY <1>3, LaterBasic
<1>5. TextStands(m)
  <2>1. \A f \in Texts : m[f].human = l[f].human /\ (m[f].status = "applied" => l[f].status = "applied")
    BY <1>1 DEF Texts, Akin
  <2> QED
    BY <2>1 DEF Carryable, TextStands
<1>6. EvidenceStands(m, g + 1)
  <2>1. \A e \in Present(m) : GenOf[e] <= g /\ GenOf[e] \in Nat
    BY <1>3, EntriesAssumption DEF Basic, Dated, Present
  <2> QED
    BY <2>1 DEF EvidenceStands, Usable
<1> QED
  BY <1>4, <1>5, <1>6 DEF Sound, m

---------------------------------------------------------------------------
(* Every step keeps the ledger sound, the one that a rerun will carry over *)
(* too, and the item of a session that is still of the book in the ledger. *)

SessionStands ==
  session # Nothing =>
    /\ session.gen <= gen
    /\ session.current # NoEntry /\ session.gen = gen => session.current \in Present(ledger)

FInv ==
  /\ TypeOK
  /\ SInv /\ (carried # {} => gen < MaxGen)
  /\ SessionStands

LEMMA LaterCarryable ==
  ASSUME NEW l, NEW t \in Nat, NEW g \in Nat, Carryable(l, t, g)
  PROVE  Carryable(l, t + 1, g)
  BY LaterBasic DEF Carryable

LEMMA WrittenSInv ==
  ASSUME SInv, Written
  PROVE  SInv'
<1>1. now \in Nat /\ gen \in Nat
  BY DEF SInv
<1>2. \A l \in carried : Carryable(l, now + 1, gen)
  BY <1>1, LaterCarryable DEF SInv
<1> QED
  BY <1>1, <1>2 DEF SInv, Written

LEMMA AutomaticWritten ==
  ASSUME SInv, AutomaticStep, ~BeginRerun, ~EndRerun
  PROVE  Written
<1>1. CASE \E e \in Texts, s \in {"pending", "proposed", "applied"}, u \in BOOLEAN : RecordText(e, s, u)
  BY <1>1, RecordTextWritten
<1>2. CASE \E e \in Visuals, v \in {"USEFUL", "LOW_VALUE", "UNCERTAIN"}, d \in BOOLEAN :
             RecordVisual(e, v, d)
  BY <1>2, RecordVisualWritten
<1>3. CASE \E e \in Entries : MergeEvidence(e)
  <2>1. PICK e \in Entries : MergeEvidence(e)
    BY <1>3
  <2>2. e \in Visuals
    BY <2>1 DEF MergeEvidence
  <2> QED
    BY <2>1, <2>2, MergeWritten
<1>4. CASE \E e \in Entries, v \in {"OK", "UNCERTAIN", "CORRUPT"} : Revalidate(e, v)
  BY <1>4, RevalidateWritten
<1>5. CASE \E e \in Entries, r \in BOOLEAN : Crosscheck(e, r)
  BY <1>5, CrosscheckWritten
<1>6. CASE SupersedeRoutes
  BY <1>6, SupersedeRoutesWritten
<1> QED
  BY <1>1, <1>2, <1>3, <1>4, <1>5, <1>6 DEF AutomaticStep

LEMMA HumanWritten ==
  ASSUME SInv, HumanStep
  PROVE  Written
<1>1. CASE \E e \in Entries, s \in {"applied", "rejected", "proposed"} : HumanCorrection(e, s)
  <2>1. PICK e \in Texts \cap Present(ledger), s \in {"applied", "rejected", "proposed"} :
          HumanCorrected(e, s)
    BY <1>1 DEF HumanCorrection
  <2> QED
    BY <2>1, CorrectedWritten
<1>2. CASE \E e \in Entries, d \in {"useful", "not_useful"} : HumanVisualDecision(e, d)
  <2>1. PICK e \in Visuals \cap Present(ledger), d \in {"useful", "not_useful"} :
          Write(VisualDecided(ledger, e, d))
    BY <1>2 DEF HumanVisualDecision
  <2> QED
    BY <2>1, DecidedWritten
<1> QED
  BY <1>1, <1>2 DEF HumanStep

LEMMA RerunSInv ==
  ASSUME FInv, BeginRerun \/ EndRerun
  PROVE  SInv' /\ (carried' # {} => gen' < MaxGen)
<1>1. now \in Nat /\ gen \in 1 .. MaxGen /\ gen \in Nat /\ MaxGen \in Nat
  BY BoundAssumption DEF FInv, SInv
<1>2. CASE BeginRerun
  BY <1>2 DEF FInv, SInv, Sound, Carryable, BeginRerun
<1>3. CASE EndRerun
  <2>1. PICK l \in carried : ledger' = Carried(l)
    BY <1>3 DEF EndRerun
  <2>2. Carryable(l, now, gen)
    BY <2>1 DEF FInv, SInv
  <2>3. Sound(ledger', now, gen + 1)
    BY <1>1, <2>1, <2>2, CarriedSound
  <2> QED
    BY <1>1, <1>3, <2>3 DEF FInv, SInv, EndRerun
<1> QED
  BY <1>2, <1>3

(* The queues of the bot offer present entries.                            *)
LEMMA CandidatesPresent ==
  ASSUME SInv, NEW type \in Kinds
  PROVE  Candidates(type) \subseteq Present(ledger)
<1>1. now \in Nat /\ Basic(ledger, now, gen)
  BY DEF SInv, Sound
<1>2. TextCandidates(ledger) \subseteq Present(ledger)
  BY DEF TextCandidates, Active
<1>3. VisualCandidates(ledger, type) \subseteq Present(ledger)
  <2> DEFINE open(group)   == {e \in group : OpenVisual(ledger[e])}
             normal(group) == open(group) \ Sweeps
             pool(group)   == IF normal(group) # {} THEN normal(group) ELSE open(group)
  <2>1. \A e \in VisualCandidates(ledger, type) :
           \E g \in VisualGroups(ledger) : open(g) # {} /\ e = Newest(ledger, pool(g))
    BY DEF VisualCandidates, Newest
  <2>2. ASSUME NEW g \in VisualGroups(ledger), open(g) # {}
        PROVE  Newest(ledger, pool(g)) \in Present(ledger)
    <3>1. g \subseteq Present(ledger)
      BY DEF VisualGroups, Active
    <3>2. pool(g) \subseteq Present(ledger) /\ pool(g) # {}
      BY <2>2, <3>1
    <3> HIDE DEF pool
    <3> QED
      BY <1>1, <3>2, NewestIn
  <2> QED
    BY <2>1, <2>2
<1> QED
  BY <1>2, <1>3 DEF Candidates

(* The types of the ledger and its rerun, and those of the bot.            *)
LedgerOK ==
  /\ ledger \in [Entries -> Records] /\ now \in 0 .. MaxWrites
  /\ gen \in 1 .. MaxGen /\ carried \subseteq [Entries -> Records] /\ Cardinality(carried) <= 1

TapsOf(S) == [card: S, decision: {"yes", "no"}]

BotOK ==
  /\ session \in Sessions \cup {Nothing}
  /\ step \in {"idle", "next", "send"}
  /\ step # "idle" => session # Nothing /\ (step = "send" => session.current # NoEntry)
  /\ cards \in Seq(Entries) /\ Len(cards) <= MaxCards /\ live \subseteq DOMAIN cards
  /\ taps \in Seq(TapsOf(DOMAIN cards)) /\ Len(taps) <= pressed
  /\ lost \in 0 .. MaxLost /\ pressed \in 0 .. MaxTaps

LEMMA TypeParts == TypeOK <=> LedgerOK /\ BotOK
  BY DEF TypeOK, LedgerOK, BotOK, TapsOf

LEMMA TypeNext ==
  ASSUME LedgerOK', BotOK'
  PROVE  TypeOK'
  BY DEF TypeOK, LedgerOK, BotOK, TapsOf

LEMMA WrittenStands ==
  ASSUME FInv, Written, BotOK', session' = session \/ session' = Nothing
                                \/ (session' # Nothing /\ session'.current = NoEntry
                                      /\ session'.gen = session.gen /\ session # Nothing)
  PROVE  FInv'
<1>1. SInv'
  BY WrittenSInv DEF FInv
<1>2. LedgerOK'
  BY BoundAssumption, TypeParts DEF FInv, LedgerOK, Written, Sound, Basic
<1>3. SessionStands'
  BY DEF FInv, SessionStands, Written
<1>4. carried' # {} => gen' < MaxGen
  BY DEF FInv, Written
<1> QED
  BY <1>1, <1>2, <1>3, <1>4, TypeNext DEF FInv

LEMMA RerunStands ==
  ASSUME FInv, BeginRerun \/ EndRerun, UNCHANGED botVars
  PROVE  FInv'
<1>1. SInv' /\ (carried' # {} => gen' < MaxGen)
  BY RerunSInv
<1>2. now \in Nat /\ gen \in 1 .. MaxGen /\ MaxGen \in Nat
  BY BoundAssumption DEF FInv, SInv
<1>3. /\ Cardinality({}) = 0 /\ Cardinality({ledger}) = 1
  BY FS_EmptySet, FS_Singleton
<1>4. LedgerOK'
  <2>1. LedgerOK /\ ledger' \in [Entries -> Records] /\ gen' \in 1 .. MaxGen /\ now' = now
    BY <1>1, TypeParts DEF FInv, SInv, Sound, Basic, BeginRerun, EndRerun
  <2>2. carried' = {} \/ carried' = {ledger}
    BY DEF BeginRerun, EndRerun
  <2> QED
    BY <1>3, <2>1, <2>2 DEF LedgerOK
<1>5. BotOK'
  BY TypeParts DEF FInv, BotOK, botVars
<1>6. SessionStands'
  <2>1. session # Nothing => session.gen \in 1 .. MaxGen
    BY TypeParts DEF FInv, BotOK, Sessions
  <2>2. CASE BeginRerun
    BY <2>2 DEF FInv, SessionStands, BeginRerun, botVars
  <2>3. CASE EndRerun
    BY <1>2, <2>1, <2>3 DEF FInv, SessionStands, EndRerun, botVars
  <2> QED
    BY <2>2, <2>3
<1> QED
  BY <1>1, <1>4, <1>5, <1>6, TypeNext DEF FInv

(* A step of the bot that leaves the ledger alone.                         *)
LEMMA QuietStands ==
  ASSUME FInv, UNCHANGED ledgerVars, BotOK', SessionStands'
  PROVE  FInv'
<1>1. LedgerOK' /\ SInv' /\ (carried' # {} => gen' < MaxGen)
  BY TypeParts DEF FInv, LedgerOK, ledgerVars, SInv
<1> QED
  BY <1>1, TypeNext DEF FInv

LEMMA StartStands ==
  ASSUME FInv, NEW type \in Kinds, StartAudit(type)
  PROVE  FInv'
<1>1. BotOK /\ gen \in 1 .. MaxGen /\ gen \in Nat /\ MaxCards \in Nat
  BY TypeParts, ChatAssumption DEF FInv, SInv
<1>2. session' \in Sessions /\ session' # Nothing /\ session'.current = NoEntry /\ session'.gen = gen
  BY <1>1, ChatAssumption DEF StartAudit, Sessions
<1>3. BotOK'
  BY <1>1, <1>2 DEF BotOK, StartAudit, ledgerVars
<1>4. SessionStands'
  BY <1>1, <1>2 DEF SessionStands, StartAudit, ledgerVars
<1> QED
  BY <1>3, <1>4, QuietStands DEF StartAudit

LEMMA ChooseStands ==
  ASSUME FInv, ChooseNext
  PROVE  FInv'
<1>1. BotOK /\ SInv /\ gen \in 1 .. MaxGen /\ gen \in Nat /\ session # Nothing
  <2>1. BotOK /\ SInv
    BY TypeParts DEF FInv
  <2>2. gen \in 1 .. MaxGen /\ gen \in Nat
    BY <2>1 DEF SInv
  <2>3. session # Nothing
    BY <2>1 DEF BotOK, ChooseNext
  <2> QED
    BY <2>1, <2>2, <2>3
<1>2. session \in Sessions /\ session.type \in Kinds
  BY <1>1 DEF BotOK, Sessions
<1>3. CASE session' = Nothing /\ step' = "idle"
  <2>1. BotOK' /\ SessionStands'
    BY <1>1, <1>3 DEF BotOK, SessionStands, ChooseNext
  <2> QED
    BY <2>1, QuietStands DEF ChooseNext
<1>4. CASE ~(session' = Nothing /\ step' = "idle")
  <2>1. PICK e \in Candidates(session.type) :
          session' = [session EXCEPT !.current = e, !.gen = gen] /\ step' = "send"
    BY <1>4 DEF ChooseNext
  <2>2. e \in Present(ledger) /\ e \in Entries
    BY <1>1, <1>2, <2>1, CandidatesPresent DEF Present
  <2>3. session' \in Sessions /\ session'.current = e /\ session'.gen = gen
    BY <1>1, <1>2, <2>1, <2>2 DEF Sessions
  <2>4. BotOK'
    BY <1>1, <2>1, <2>2, <2>3, ChatAssumption DEF BotOK, ChooseNext
  <2>5. SessionStands'
    <3>1. ledger' = ledger /\ gen' = gen
      BY DEF ChooseNext, ledgerVars
    <3>2. Present(ledger') = Present(ledger)
      BY <3>1
    <3> QED
      BY <1>1, <2>2, <2>3, <3>1, <3>2 DEF SessionStands
  <2> QED
    BY <2>4, <2>5, QuietStands DEF ChooseNext
<1> QED
  BY <1>3, <1>4

LEMMA SendStands ==
  ASSUME FInv, SendCard
  PROVE  FInv'
<1>1. BotOK /\ session # Nothing /\ session \in Sessions /\ session.current \in Entries
  BY TypeParts DEF FInv, BotOK, SendCard, Sessions
<1>2. /\ cards' = Append(cards, session.current) /\ Len(cards) < MaxCards
      /\ live' = live \cup {Len(cards')} /\ step' = "idle" /\ UNCHANGED <<taps, pressed>>
  BY DEF SendCard
<1>3. /\ cards' \in Seq(Entries) /\ Len(cards') = Len(cards) + 1 /\ Len(cards) \in Nat
      /\ DOMAIN cards \subseteq DOMAIN cards' /\ Len(cards') \in DOMAIN cards'
  BY <1>1, <1>2 DEF BotOK
<1>4. Len(cards') \in 0 .. MaxCards /\ lost' \in 0 .. MaxLost
  BY <1>1, <1>2, <1>3, ChatAssumption DEF SendCard, BotOK
<1>5. /\ session' \in Sessions /\ session' # Nothing
      /\ session'.current = session.current /\ session'.gen = session.gen
  BY <1>1, <1>4, ChatAssumption DEF SendCard, Sessions
<1>6. taps' \in Seq(TapsOf(DOMAIN cards'))
  <2>1. TapsOf(DOMAIN cards) \subseteq TapsOf(DOMAIN cards')
    BY <1>3 DEF TapsOf
  <2> QED
    BY <1>1, <1>2, <2>1 DEF BotOK
<1>7. BotOK'
  BY <1>1, <1>2, <1>3, <1>4, <1>5, <1>6 DEF BotOK
<1>8. SessionStands'
  BY <1>1, <1>5 DEF FInv, SessionStands, SendCard, ledgerVars, Present
<1> QED
  BY <1>7, <1>8, QuietStands DEF SendCard

LEMMA TapStands ==
  ASSUME FInv, NEW card \in live, NEW decision \in {"yes", "no"}, Tap(card, decision)
  PROVE  FInv'
<1>1. BotOK /\ MaxTaps \in Nat
  BY TypeParts, ChatAssumption DEF FInv
<1>2. [card |-> card, decision |-> decision] \in TapsOf(DOMAIN cards)
  BY <1>1 DEF BotOK, TapsOf
<1>3. taps' \in Seq(TapsOf(DOMAIN cards)) /\ Len(taps') = Len(taps) + 1 /\ Len(taps) \in Nat
  BY <1>1, <1>2 DEF BotOK, Tap
<1>4. BotOK'
  BY <1>1, <1>3 DEF BotOK, Tap
<1>5. SessionStands'
  BY DEF FInv, SessionStands, Tap, ledgerVars, Present
<1> QED
  BY <1>4, <1>5, QuietStands DEF Tap

LEMMA TailOK ==
  ASSUME BotOK, taps # <<>>
  PROVE  Tail(taps) \in Seq(TapsOf(DOMAIN cards)) /\ Len(Tail(taps)) <= pressed
         /\ Head(taps) \in TapsOf(DOMAIN cards)
  BY DEF BotOK

LEMMA QuietBotStands ==
  ASSUME FInv, StopAudit \/ SendFails \/ Refuse \/ Restart
  PROVE  FInv'
<1>1. BotOK
  BY TypeParts DEF FInv
<1>2. CASE StopAudit \/ Restart
  <2>1. BotOK' /\ SessionStands'
    BY <1>1, <1>2, ChatAssumption DEF BotOK, SessionStands, StopAudit, Restart
  <2> QED
    BY <1>2, <2>1, QuietStands DEF StopAudit, Restart
<1>3. CASE SendFails
  <2>1. BotOK' /\ SessionStands'
    BY <1>1, <1>3, ChatAssumption DEF FInv, BotOK, SessionStands, SendFails, ledgerVars, Present
  <2> QED
    BY <1>3, <2>1, QuietStands DEF SendFails
<1>4. CASE Refuse
  <2>1. BotOK'
    BY <1>1, <1>4, TailOK DEF BotOK, Refuse
  <2>2. SessionStands'
    BY <1>4 DEF FInv, SessionStands, Refuse, ledgerVars, Present
  <2> QED
    BY <1>4, <2>1, <2>2, QuietStands DEF Refuse
<1> QED
  BY <1>2, <1>3, <1>4

LEMMA DecideStands ==
  ASSUME FInv, Decide
  PROVE  FInv'
<1> DEFINE tap == Head(taps)
           e == session.current
<1>1. BotOK /\ SInv /\ session # Nothing /\ session \in Sessions /\ e \in Entries /\ taps # <<>>
  BY TypeParts DEF FInv, BotOK, Decide, ActiveButton, Sessions
<1>2. tap.decision \in {"yes", "no"} /\ taps' = Tail(taps)
  BY <1>1, TailOK DEF TapsOf, Decide
<1>3. /\ session' \in Sessions /\ session' # Nothing
      /\ session'.current = NoEntry /\ session'.gen = session.gen
  <2>1. session' = [session EXCEPT !.current = NoEntry, !.message = 0] /\ 0 \in 0 .. MaxCards
    BY ChatAssumption DEF Decide
  <2>2. session' \in Sessions /\ session'.current = NoEntry /\ session'.gen = session.gen
    BY <1>1, <2>1 DEF Sessions
  <2> QED
    BY <2>2, ChatAssumption
<1>4. BotOK'
  <2>1. live' \subseteq live /\ lost' \in 0 .. MaxLost /\ step' \in {"next", "idle"}
    BY <1>1, ChatAssumption DEF Decide, BotOK
  <2> QED
    BY <1>1, <1>2, <1>3, <2>1, TailOK DEF BotOK, Decide
<1>5. CASE UNCHANGED ledgerVars
  <2>1. SessionStands'
    BY <1>1, <1>3, <1>5 DEF FInv, SessionStands, ledgerVars, Present
  <2> QED
    BY <1>4, <1>5, <2>1, QuietStands
<1>6. CASE ~UNCHANGED ledgerVars
  <2>1. session.gen = gen /\ e \in Present(ledger)
    BY <1>1, <1>6 DEF Decide, FInv, SessionStands, ActiveButton
  <2>2. CASE e \in Texts
    <3>1. PICK s \in {"applied", "rejected"} : HumanCorrected(e, s)
      BY <1>6, <2>1, <2>2 DEF Decide, TextDecided
    <3>2. Written
      BY <1>1, <2>1, <2>2, <3>1, CorrectedWritten
    <3> QED
      BY <1>1, <1>3, <1>4, <3>2, WrittenStands
  <2>3. CASE e \notin Texts
    <3>1. PICK d \in {"useful", "not_useful"} : Write(VisualDecided(ledger, e, d))
      BY <2>1, <2>3 DEF Decide, VisualDecidedBy
    <3>2. e \in Visuals \cap Present(ledger)
      BY <1>1, <2>1, <2>3 DEF Texts
    <3>3. Written
      BY <1>1, <3>1, <3>2, DecidedWritten
    <3> QED
      BY <1>1, <1>3, <1>4, <3>3, WrittenStands
  <2> QED
    BY <2>2, <2>3
<1> QED
  BY <1>5, <1>6

LEMMA NextFInv ==
  ASSUME FInv, [Next]_vars
  PROVE  FInv'
<1>1. CASE Automatic
  <2>1. CASE BeginRerun \/ EndRerun
    BY <1>1, <2>1, RerunStands DEF Automatic
  <2>2. CASE ~BeginRerun /\ ~EndRerun
    <3>1. Written
      BY <1>1, <2>2, AutomaticWritten DEF Automatic, FInv
    <3>2. BotOK' /\ session' = session
      BY <1>1, TypeParts DEF Automatic, FInv, BotOK, botVars
    <3> QED
      BY <3>1, <3>2, WrittenStands
  <2> QED
    BY <2>1, <2>2
<1>2. CASE WebReview
  <2>1. Written
    BY <1>2, HumanWritten DEF WebReview, FInv
  <2>2. BotOK' /\ session' = session
    BY <1>2, TypeParts DEF WebReview, FInv, BotOK, botVars
  <2> QED
    BY <2>1, <2>2, WrittenStands
<1>3. CASE \E type \in Kinds : StartAudit(type)
  BY <1>3, StartStands
<1>4. CASE ChooseNext
  BY <1>4, ChooseStands
<1>5. CASE SendCard
  BY <1>5, SendStands
<1>6. CASE \E card \in live, decision \in {"yes", "no"} : Tap(card, decision)
  BY <1>6, TapStands
<1>7. CASE Decide
  BY <1>7, DecideStands
<1>8. CASE StopAudit \/ SendFails \/ Refuse \/ Restart
  BY <1>8, QuietBotStands
<1>9. CASE UNCHANGED vars
  <2>1. UNCHANGED ledgerVars /\ BotOK' /\ SessionStands'
    BY <1>9, TypeParts DEF vars, ledgerVars, FInv, BotOK, SessionStands, Present
  <2> QED
    BY <2>1, QuietStands
<1> QED
  BY <1>1, <1>2, <1>3, <1>4, <1>5, <1>6, <1>7, <1>8, <1>9 DEF Next

LEMMA InitFInv == Init => FInv
<1> SUFFICES ASSUME Init
             PROVE  FInv
  OBVIOUS
<1>1. /\ ledger = [e \in Entries |-> Absent] /\ now = 0 /\ gen = 1 /\ carried = {}
      /\ session = Nothing
  BY DEF Init, LedgerInit
<1>2. Absent \in Records /\ Absent.status = "absent" /\ ~Absent.human /\ ~Absent.unsafe
      /\ Absent.decision = "none" /\ Absent.decidedAt = 0
  BY DEF Absent, Records, Decisions
<1>3. Present(ledger) = {}
  BY <1>1, <1>2 DEF Present
<1>4. Basic(ledger, now, gen)
  BY <1>1, <1>2, <1>3, EntriesAssumption DEF Basic, Dated, Reviewed
<1>5. TextStands(ledger) /\ EvidenceStands(ledger, gen)
  BY <1>1, <1>2, <1>3 DEF TextStands, EvidenceStands, Usable, Texts
<1>6. LedgerOK
  BY <1>1, <1>2, FS_EmptySet, BoundAssumption DEF LedgerOK
<1>7. BotOK
  BY ChatAssumption DEF Init, BotOK
<1> QED
  BY <1>1, <1>4, <1>5, <1>6, <1>7, TypeParts, BoundAssumption DEF FInv, SInv, Sound, SessionStands

---------------------------------------------------------------------------
(* The theorems.                                                           *)

\* Every ledger that the writers of app/stage2c.py, app/main.py and the bot can
\* leave behind, in any order, is sound: records are dated, reviewed texts and
\* usable evidence stand, and the item of a session is present.
THEOREM Soundness == Spec => []FInv
<1> QED
  BY InitFInv, NextFInv, PTL DEF Spec

\* The records of the ledger, the session and the buttons of the chat keep
\* their types whatever the writers do between two steps of the bot.
THEOREM TypeCorrect == Spec => []TypeOK
<1>1. FInv => TypeOK
  BY DEF FInv
<1> QED
  BY <1>1, Soundness, PTL

\* Once a person has reviewed an entry of a text, rebuild_chunk_overlays puts
\* nothing into the chunks that only the automation wrote about that text.
THEOREM ReviewedTextSafe == Spec => []ReviewedTextStands
<1>1. ASSUME FInv
      PROVE  ReviewedTextStands
  <2> SUFFICES ASSUME NEW e \in Texts, ledger[e].human,
                      NEW f \in Exposed(ledger), SourceOf[f] = SourceOf[e]
               PROVE  ledger[f].human
    BY DEF ReviewedTextStands
  <2>1. f \in Texts /\ ledger[f].status = "applied"
    BY EntriesAssumption DEF Exposed, Texts
  <2>2. TextStands(ledger)
    BY <1>1 DEF FInv, SInv, Sound
  <2> QED
    BY <2>1, <2>2 DEF TextStands
<1> QED
  BY <1>1, Soundness, PTL

\* A picture with usable evidence of the current generation that no person
\* judged is never left without an exposed entry, whatever the reconciliation
\* and the overlap of the sweep with normal routes have superseded.
THEOREM EvidenceSafe == Spec => []UsefulEvidenceStays
<1>1. ASSUME FInv
      PROVE  UsefulEvidenceStays
  <2>1. EvidenceStands(ledger, gen) /\ \A f \in Visuals : ~ledger[f].unsafe
    BY <1>1 DEF FInv, SInv, Sound, Basic, Reviewed
  <2>2. ASSUME NEW e \in Visuals \cap Present(ledger),
               GenOf[e] = gen, Restored(ledger[e]) = "applied",
               \A f \in Group(ledger, e) : ~ledger[f].human
        PROVE  Group(ledger, e) \cap Exposed(ledger) # {}
    <3>1. PICK f \in Group(ledger, e) : ledger[f].status = "applied"
      BY <2>1, <2>2 DEF EvidenceStands, Usable, Present
    <3>2. f \in Visuals
      BY EntriesAssumption DEF Group, Present
    <3>3. f \in Exposed(ledger)
      BY <2>1, <3>1, <3>2, EntriesAssumption DEF Exposed, UnsafeTranscription
    <3> QED
      BY <3>1, <3>3
  <2> QED
    BY <2>2 DEF UsefulEvidenceStays, Group
<1> QED
  BY <1>1, Soundness, PTL

(* The pictures of VisualGroups: a group is nonempty, and the groups of two  *)
(* pictures are apart.  A group waits for a person when nobody reviewed it   *)
(* and an entry of it is open; its kind says where the bot queues it.        *)

About(g, x)  == \E e \in g : SourceOf[e] = x
Opened(l, g) == {e \in g : VisionRequiresHuman(l[e])}
Judged(l, g) == {e \in g : l[e].human /\ l[e].decision # "none"}
Waiting(l)   == {g \in VisualGroups(l) : Judged(l, g) = {} /\ Opened(l, g) # {}}
Queue(l, g)  == IF Opened(l, g) \ Sweeps # {} THEN "vision" ELSE "artifact"

LEMMA PictureGroup ==
  ASSUME NEW l, NEW g \in VisualGroups(l)
  PROVE  /\ g # {} /\ g \subseteq Active(l) /\ g \subseteq Present(l) /\ g \subseteq Visuals
         /\ \A e, f \in g : SourceOf[e] = SourceOf[f]
         /\ \A x : About(g, x) => \A h \in VisualGroups(l) : About(h, x) => h = g
<1>1. PICK e \in Active(l) \cap Visuals : g = {f \in Active(l) : SourceOf[f] = SourceOf[e]}
  BY DEF VisualGroups
<1>2. Active(l) \subseteq Present(l) /\ Present(l) \subseteq Entries
  BY DEF Active, Present
<1>3. g \subseteq Visuals
  BY <1>1, <1>2, EntriesAssumption
<1>4. ASSUME NEW x, About(g, x), NEW h \in VisualGroups(l), About(h, x)
      PROVE  h = g
  <2>1. PICK d \in Active(l) \cap Visuals : h = {f \in Active(l) : SourceOf[f] = SourceOf[d]}
    BY DEF VisualGroups
  <2>2. SourceOf[e] = x /\ SourceOf[d] = x
    BY <1>1, <1>4, <2>1 DEF About
  <2> QED
    BY <1>1, <2>1, <2>2
<1> QED
  BY <1>1, <1>2, <1>3, <1>4

LEMMA SubjectOf ==
  ASSUME NEW l, NEW t \in Nat, NEW v, Basic(l, t, v), NEW g \in VisualGroups(l)
  PROVE  /\ Subject(l, g) \in g
         /\ VisionRequiresHuman(l[Subject(l, g)]) <=> g \in Waiting(l)
<1>1. g # {} /\ g \subseteq Present(l) /\ g \subseteq Visuals
  BY PictureGroup
<1> DEFINE R == Judged(l, g)
           U == Opened(l, g)
           N == U \ Sweeps
           s == Subject(l, g)
<1>2. s = IF R # {} THEN Best(R, LAMBDA e : <<HumanEpoch(l[e])>>)
          ELSE IF N # {} THEN Newest(l, N)
          ELSE IF U # {} THEN Newest(l, U) ELSE Newest(l, g)
  BY DEF Subject, Judged, Opened, Newest
<1>3. R \subseteq g /\ U \subseteq g /\ N \subseteq U
  BY DEF Judged, Opened
<1>4. CASE R # {}
  <2> DEFINE d == [e \in R |-> l[e].decidedAt]
             z == [e \in R |-> 0]
  <2>1. \A e \in R : e \in Visuals /\ e \in Entries /\ l[e].human /\ l[e] \in Records
    BY <1>1, <1>3, EntriesAssumption DEF Judged, Basic
  <2>2. \A e \in R : l[e].decidedAt \in 0 .. t
    BY <2>1 DEF Basic, Reviewed, Records
  <2>3. \A e, f \in R : l[e].decidedAt = l[f].decidedAt => e = f
    BY <2>1 DEF Basic, Reviewed
  <2>4. HasTop(R, z, z, z, d)
    <3>1. d \in [R -> 0 .. t] /\ z \in [R -> 0 .. t] /\ \A e, f \in R : d[e] = d[f] => e = f
      BY <2>2, <2>3
    <3> QED
      BY <1>4, <3>1, Greatest
  <2>5. \E e \in R : \A f \in R \ {e} : l[e].decidedAt > l[f].decidedAt
    BY <2>4 DEF HasTop
  <2>6. \E e \in R : \A f \in R \ {e} : Later(<<HumanEpoch(l[e])>>, <<HumanEpoch(l[f])>>)
    BY <2>5, LaterOne DEF HumanEpoch
  <2>7. Best(R, LAMBDA e : <<HumanEpoch(l[e])>>) \in R
    BY <2>6 DEF Best
  <2>8. s \in R
    BY <1>2, <1>4, <2>7
  <2> QED
    BY <1>3, <1>4, <2>8 DEF Waiting, Judged, VisionRequiresHuman
<1>5. CASE R = {} /\ N # {}
  <2>1. s \in N
    BY <1>1, <1>2, <1>3, <1>5, NewestIn
  <2> QED
    BY <1>3, <1>5, <2>1 DEF Waiting, Opened
<1>6. CASE R = {} /\ N = {} /\ U # {}
  <2>1. s \in U
    BY <1>1, <1>2, <1>3, <1>6, NewestIn
  <2> QED
    BY <1>3, <1>6, <2>1 DEF Waiting, Opened
<1>7. CASE R = {} /\ U = {}
  <2>1. s \in g
    BY <1>1, <1>2, <1>3, <1>7, NewestIn
  <2> QED
    BY <1>7, <2>1 DEF Waiting, Opened
<1> QED
  BY <1>4, <1>5, <1>6, <1>7

LEMMA RequiredPictures ==
  ASSUME NEW l, NEW t \in Nat, NEW v, Basic(l, t, v), NEW x
  PROVE  x \in {SourceOf[e] : e \in VisualRequired(l)} <=> \E g \in Waiting(l) : About(g, x)
<1>1. ASSUME NEW e \in VisualRequired(l), x = SourceOf[e]
      PROVE  \E g \in Waiting(l) : About(g, x)
  <2>1. PICK g \in VisualGroups(l) : e = Subject(l, g) /\ VisionRequiresHuman(l[e])
    BY DEF VisualRequired, Subjects
  <2> QED
    BY <1>1, <2>1, SubjectOf DEF About
<1>2. ASSUME NEW g \in Waiting(l), About(g, x)
      PROVE  \E e \in VisualRequired(l) : x = SourceOf[e]
  <2>1. g \in VisualGroups(l)
    BY DEF Waiting
  <2>2. Subject(l, g) \in g /\ Subject(l, g) \in VisualRequired(l)
    BY <2>1, SubjectOf DEF VisualRequired, Subjects
  <2>3. SourceOf[Subject(l, g)] = x
    BY <1>2, <2>1, <2>2, PictureGroup DEF About
  <2> QED
    BY <2>2, <2>3
<1> QED
  BY <1>1, <1>2

LEMMA QueuedPictures ==
  ASSUME NEW l, NEW t \in Nat, NEW v, Basic(l, t, v), NEW x, NEW type
  PROVE  x \in {SourceOf[e] : e \in VisualCandidates(l, type)}
           <=> \E g \in Waiting(l) : About(g, x) /\ Queue(l, g) = type
<1> DEFINE P(g) == IF Opened(l, g) \ Sweeps # {} THEN Opened(l, g) \ Sweeps ELSE Opened(l, g)
           G    == {g \in Waiting(l) : Queue(l, g) = type}
<1>1. ASSUME NEW g \in VisualGroups(l)
      PROVE  {e \in g : OpenVisual(l[e])} = Opened(l, g)
  <2>1. \A e \in g : /\ e \in Visuals /\ l[e].status # "superseded"
                     /\ l[e].human <=> l[e].decision # "none"
    BY PictureGroup DEF Active, Basic, Reviewed
  <2> QED
    BY <2>1 DEF OpenVisual, Opened, VisionRequiresHuman
<1>2. VisualCandidates(l, type) = {Newest(l, P(g)) : g \in G}
  <2>1. \A g \in VisualGroups(l) :
          (\A e \in g : ~(l[e].human /\ l[e].decision # "none")) <=> Judged(l, g) = {}
    BY DEF Judged
  <2> QED
    BY <1>1, <2>1 DEF VisualCandidates, Waiting, Queue, Newest
<1>3. ASSUME NEW g \in G
      PROVE  Newest(l, P(g)) \in g
  <2>1. g \in VisualGroups(l) /\ Opened(l, g) # {}
    BY DEF Waiting
  <2>2. P(g) \subseteq g /\ P(g) # {}
    BY <2>1 DEF Opened
  <2>3. P(g) \subseteq Present(l)
    BY <2>1, <2>2, PictureGroup
  <2> HIDE DEF P
  <2> QED
    BY <2>2, <2>3, NewestIn
<1>4. ASSUME NEW g \in G
      PROVE  About(g, x) <=> SourceOf[Newest(l, P(g))] = x
  <2>1. \A e, f \in g : SourceOf[e] = SourceOf[f]
    BY PictureGroup DEF Waiting
  <2> HIDE DEF P
  <2> QED
    BY <1>3, <2>1 DEF About
<1> HIDE DEF P
<1> QED
  BY <1>2, <1>4

\* The gate of human_review_summary and the queues of the bot are computed
\* apart, and yet each picture that waits for a person is in exactly one queue.
THEOREM OneQueue == Spec => []ExactlyOneQueue
<1>1. ASSUME FInv
      PROVE  ExactlyOneQueue
  <2> DEFINE Q(type) == {SourceOf[e] : e \in VisualCandidates(ledger, type)}
             M       == {SourceOf[e] : e \in VisualRequired(ledger)}
  <2>1. now \in Nat /\ Basic(ledger, now, gen)
    BY <1>1 DEF FInv, SInv, Sound
  <2>2. \A x : x \in M <=> \E g \in Waiting(ledger) : About(g, x)
    BY <2>1, RequiredPictures
  <2>3. \A x, type : x \in Q(type) <=> \E g \in Waiting(ledger) : About(g, x) /\ Queue(ledger, g) = type
    BY <2>1, QueuedPictures
  <2>4. \A g \in Waiting(ledger) : Queue(ledger, g) \in {"vision", "artifact"}
    BY DEF Queue
  <2> HIDE DEF Q, M
  <2>5. M = Q("vision") \cup Q("artifact")
    BY <2>2, <2>3, <2>4
  <2>6. Q("vision") \cap Q("artifact") = {}
    <3> SUFFICES ASSUME NEW x, x \in Q("vision"), x \in Q("artifact")
                 PROVE  FALSE
      OBVIOUS
    <3>1. PICK g \in Waiting(ledger) : About(g, x) /\ Queue(ledger, g) = "vision"
      BY <2>3
    <3>2. PICK h \in Waiting(ledger) : About(h, x) /\ Queue(ledger, h) = "artifact"
      BY <2>3
    <3>3. g = h
      BY <3>1, <3>2, PictureGroup DEF Waiting
    <3> QED
      BY <3>1, <3>2, <3>3
  <2> QED
    BY <2>5, <2>6 DEF ExactlyOneQueue, Q, M
<1> QED
  BY <1>1, Soundness, PTL
=============================================================================

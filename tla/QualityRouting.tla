--------------------------- MODULE QualityRouting ---------------------------
(***************************************************************************)
(* build_routes of app/postprocess.py: the findings of the diagnostics are *)
(* merged into one candidate per piece of the document, the candidates are *)
(* ranked, and the first of them, up to a ceiling, become routes.  The     *)
(* others are kept as deferred.                                            *)
(*                                                                         *)
(* A finding is about a key (target, kind and place); it has a priority    *)
(* rank from 0 (info) to 3 (high) and a review priority score.             *)
(***************************************************************************)
EXTENDS Naturals, Sequences, FiniteSets, SequencesExt

\* What the diagnostics deliver.
IsDiagnosis(findings) ==
  /\ Len(findings) \in Nat /\ DOMAIN findings = 1 .. Len(findings)
  /\ \A i \in DOMAIN findings :
       /\ findings[i].priority \in 0 .. 3 /\ findings[i].score \in 0 .. 100
       /\ findings[i].text \in BOOLEAN

Keys(findings) == {findings[i].key : i \in DOMAIN findings}

About(findings, k) == {findings[i] : i \in {j \in DOMAIN findings : findings[j].key = k}}

First(findings, k) == CHOOSE i \in DOMAIN findings :
                        /\ findings[i].key = k
                        /\ \A j \in 1 .. i - 1 : findings[j].key # k

\* Mutant: a candidate keeps the priority of its first finding.
PriorityOfFirst(findings, k) == findings[First(findings, k)].priority

\* A duplicate upgrades the priority and never downgrades it.
Priority(findings, k) ==
  CHOOSE p \in {f.priority : f \in About(findings, k)} :
    \A f \in About(findings, k) : f.priority <= p

\* The score is upgraded on its own.
Score(findings, k) ==
  CHOOSE s \in {f.score : f \in About(findings, k)} :
    \A f \in About(findings, k) : f.score <= s

\* A candidate, with its sort key; the sort is stable, so that the first
\* finding breaks ties.
Candidates(findings) ==
  {[key  |-> k,
    rank |-> <<3 - Priority(findings, k), 100 - Score(findings, k),
               IF findings[First(findings, k)].text THEN 0 ELSE 1, First(findings, k)>>]
     : k \in Keys(findings)}

Before(c, d) ==
  \E i \in 1 .. 4 : c.rank[i] < d.rank[i] /\ \A h \in 1 .. i - 1 : c.rank[h] = d.rank[h]

Ranked(findings) ==
  CHOOSE s \in [1 .. Cardinality(Candidates(findings)) -> Candidates(findings)] :
    \A i, j \in DOMAIN s : i < j => Before(s[i], s[j])

Within(candidates, ceiling) == IF ceiling < Len(candidates) THEN ceiling ELSE Len(candidates)

Cut(candidates, ceiling) ==
  LET n == Within(candidates, ceiling)
  IN  [created |-> SubSeq(candidates, 1, n), deferred |-> SubSeq(candidates, n + 1, Len(candidates))]

\* Mutant: the ceiling stops the collection of candidates, as it did once.
RoutesUnsorted(findings, ceiling) ==
  LET head == SubSeq(findings, 1, Within(findings, ceiling))
  IN  [created |-> Ranked(head), deferred |-> SetToSeq({c \in Candidates(findings) : c.key \notin Keys(head)})]

Routes(findings, ceiling) == Cut(Ranked(findings), ceiling)
=============================================================================

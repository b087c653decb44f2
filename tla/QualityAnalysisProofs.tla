------------------------ MODULE QualityAnalysisProofs -------------------------
(***************************************************************************)
(* Proofs about QualityAnalysis, for every set of file names and contents, *)
(* every diagnosis and every bound: a ZIP is imported once; no candidate   *)
(* is lost to the ceiling or waits behind a less urgent one; raising the   *)
(* ceiling keeps the routes there were; and every state is of its type.    *)
(*                                                                         *)
(* The candidates of a diagnosis are a finite set on which Before is a     *)
(* strict total order; counting the candidates before each one lists them  *)
(* in order, so that there is a ranking; a cut of it has the properties,   *)
(* and every result in the table is such a cut.                            *)
(***************************************************************************)
EXTENDS QualityAnalysis, FiniteSetTheorems, FunctionTheorems, SequenceTheorems, WellFoundedInduction, TLAPS

Fields == {"kind", "name", "sha", "stamp", "status", "result"}

IsRow(r) == r = [f \in Fields |-> r[f]]

(* A row that is being converted, or could not be, is one of a conversion; *)
(* the hash of an imported row never changes.                              *)
RowOK(r) == IsRow(r) /\ (r.status \in {"converting", "unconverted"} => r.kind = "watcher")

Typed == rows = [i \in Ids |-> rows[i]] /\ \A i \in Ids : RowOK(rows[i])

IInv == Typed /\ ImportedOnce

(* What a step other than the registration of a ZIP may make of a row:     *)
(* the row is deleted, or becomes one of a conversion, or keeps what it    *)
(* was imported from.                                                      *)
Harmless(r, s) ==
  /\ RowOK(s)
  /\ s.kind = "import" => r.kind = "import" /\ s.name = r.name /\ s.sha = r.sha

LEMMA Constants == IsRow(Absent) /\ IsRow(Deleted) /\ RowOK(Absent) /\ RowOK(Deleted)
  BY DEF IsRow, RowOK, Absent, Deleted, Fields

LEMMA HarmlessStep ==
  ASSUME IInv, rows' = [i \in Ids |-> rows'[i]],
         \A i \in Ids : Harmless(rows[i], rows'[i])
  PROVE  IInv'
  BY DEF IInv, Typed, ImportedOnce, Harmless

LEMMA OneRow ==
  ASSUME IInv, NEW i \in Ids, NEW s, rows' = [rows EXCEPT ![i] = s], Harmless(rows[i], s)
  PROVE  IInv'
<1>1. rows' = [j \in Ids |-> rows'[j]] /\ \A j \in Ids : Harmless(rows[j], rows'[j])
  BY DEF IInv, Typed, Harmless
<1> QED
  BY <1>1, HarmlessStep

LEMMA InitIInv == Init => IInv
  BY Constants DEF Init, IInv, Typed, ImportedOnce, Absent

(* A new status: one of Stage 1 is left to the rows of a conversion.       *)
LEMMA NewStatus ==
  ASSUME NEW r, RowOK(r), NEW status,
         status \notin {"converting", "unconverted"} \/ r.kind = "watcher"
  PROVE  Harmless(r, [r EXCEPT !.status = status])
  BY DEF Harmless, RowOK, IsRow, Fields

LEMMA FolderStep ==
  ASSUME IInv, \/ \E n \in Names : Reserve(n) \/ (\E c \in Contents : WriteZip(n, c))
               \/ \E i \in Ids : Retry(i) \/ Rerun(i) \/ DeleteMove(i)
                               \/ RetryConversion(i) \/ DeleteConversion(i)
               \/ \E k \in Ceilings : SetCeiling(k)
               \/ Converting \/ DeleteRows
  PROVE  IInv'
<1>1. CASE UNCHANGED rows
  BY <1>1 DEF IInv, Typed, ImportedOnce
<1>2. ASSUME NEW n \in Names, Reserve(n)
      PROVE  IInv'
  <2> DEFINE s == [Absent EXCEPT !.kind = "watcher", !.name = n, !.status = "converting"]
  <2>1. PICK i \in Ids : rows' = [rows EXCEPT ![i] = s]
    BY <1>2 DEF Reserve
  <2>2. Harmless(rows[i], s)
    BY DEF Harmless, RowOK, IsRow, Absent, Fields
  <2> QED
    BY <2>1, <2>2, OneRow
<1>3. ASSUME NEW i \in Ids, Retry(i) \/ Rerun(i)
      PROVE  IInv'
  <2>1. RowOK(rows[i]) /\ rows' = [rows EXCEPT ![i] = [rows[i] EXCEPT !.status = "pending"]]
    BY <1>3 DEF Retry, Rerun, IInv, Typed
  <2> QED
    BY <2>1, NewStatus, OneRow
<1>4. ASSUME NEW i \in Ids, NEW c \in Contents, Convert(i, c)
      PROVE  IInv'
  <2> DEFINE s == [rows[i] EXCEPT !.status = "converted", !.sha = c]
  <2>1. rows' = [rows EXCEPT ![i] = s]
    BY <1>4 DEF Convert, IInv, Typed
  <2>2. rows[i].kind = "watcher" /\ RowOK(rows[i])
    BY <1>4 DEF Convert, IInv, Typed, RowOK
  <2>3. Harmless(rows[i], s)
    BY <2>2 DEF Harmless, RowOK, IsRow, Fields
  <2> QED
    BY <2>1, <2>3, OneRow
<1>5. CASE DeleteRows
  <2>1. UNCHANGED rows \/ rows' = [rows EXCEPT ![moving.job] = Deleted]
    BY <1>5 DEF DeleteRows
  <2>2. CASE moving.job \in Ids /\ rows' = [rows EXCEPT ![moving.job] = Deleted]
    <3>1. Harmless(rows[moving.job], Deleted)
      BY Constants DEF Harmless, Deleted, Absent
    <3> QED
      BY <2>2, <3>1, OneRow
  <2>3. CASE moving.job \notin Ids /\ rows' = [rows EXCEPT ![moving.job] = Deleted]
    BY <2>3, <1>1 DEF IInv, Typed
  <2> QED
    BY <1>1, <2>1, <2>2, <2>3
<1>6. ASSUME \/ \E n \in Names : \E c \in Contents : WriteZip(n, c)
             \/ \E i \in Ids : DeleteMove(i)
             \/ \E k \in Ceilings : SetCeiling(k)
      PROVE  UNCHANGED rows
  BY <1>6 DEF WriteZip, DeleteMove, SetCeiling
<1>7. ASSUME NEW i \in Ids, ConversionFails(i) \/ RetryConversion(i)
      PROVE  IInv'
  <2>1. PICK status \in {"converting", "unconverted"} :
          rows' = [rows EXCEPT ![i] = [rows[i] EXCEPT !.status = status]]
    BY <1>7 DEF ConversionFails, RetryConversion, IInv, Typed
  <2>2. RowOK(rows[i]) /\ rows[i].kind = "watcher"
    BY <1>7 DEF ConversionFails, RetryConversion, IInv, Typed, RowOK
  <2> QED
    BY <2>1, <2>2, NewStatus, OneRow
<1>8. ASSUME NEW i \in Ids, DeleteConversion(i)
      PROVE  IInv'
  <2>1. Harmless(rows[i], Deleted) /\ rows' = [rows EXCEPT ![i] = Deleted]
    BY <1>8, Constants DEF DeleteConversion, Harmless, Deleted, Absent
  <2> QED
    BY <2>1, OneRow
<1> QED
  BY <1>1, <1>2, <1>3, <1>4, <1>5, <1>6, <1>7, <1>8 DEF Converting

(* register_converted_output looks at the table again in the step that     *)
(* inserts, so what the worker read before does not matter.                *)
LEMMA RegisterStep ==
  ASSUME IInv, Register
  PROVE  IInv'
<1> DEFINE s == [kind |-> "import", name |-> worker.name, sha |-> worker.seen,
                 stamp |-> worker.stamp, status |-> "converted", result |-> NoResult]
<1>1. CASE UNCHANGED rows
  BY <1>1 DEF IInv, Typed, ImportedOnce
<1>2. ASSUME NEW i \in Ids, rows' = [rows EXCEPT ![i] = s], IsNew(worker.name, worker.seen)
      PROVE  IInv'
  <2>1. RowOK(s)
    BY DEF RowOK, IsRow, Fields
  <2>2. Typed'
    BY <1>2, <2>1 DEF IInv, Typed
  <2>3. \A j \in Ids : rows'[j] = IF j = i THEN s ELSE rows[j]
    BY <1>2 DEF IInv, Typed
  <2>4. \A j \in Ids : ~(/\ rows[j].kind = "import" /\ rows[j].name = worker.name
                         /\ rows[j].sha = worker.seen)
    BY <1>2 DEF IsNew, Owns
  <2>5. ImportedOnce'
    BY <2>3, <2>4 DEF IInv, ImportedOnce
  <2> QED
    BY <2>2, <2>5 DEF IInv
<1>3. UNCHANGED rows \/ \E i \in Ids : rows' = [rows EXCEPT ![i] = s]
                                       /\ IsNew(worker.name, worker.seen)
  BY DEF Register
<1> QED
  BY <1>1, <1>2, <1>3

LEMMA WorkStep ==
  ASSUME IInv, Work \/ Crash
  PROVE  IInv'
<1>1. CASE UNCHANGED rows
  BY <1>1 DEF IInv, Typed, ImportedOnce
<1>2. CASE Register
  BY <1>2, RegisterStep
<1>3. CASE Discover
  <2>1. \A i \in Ids : rows'[i] = IF rows[i].status = "converted"
                                  THEN [rows[i] EXCEPT !.status = "pending"] ELSE rows[i]
    BY <1>3 DEF Discover
  <2>2. rows' = [i \in Ids |-> rows'[i]]
    BY <1>3 DEF Discover
  <2>3. ASSUME NEW i \in Ids
        PROVE  Harmless(rows[i], rows'[i])
    <3>1. RowOK(rows[i]) /\ Harmless(rows[i], rows[i])
      BY DEF IInv, Typed, Harmless
    <3>2. Harmless(rows[i], [rows[i] EXCEPT !.status = "pending"])
      BY <3>1, NewStatus
    <3> QED
      BY <2>1, <3>1, <3>2
  <2> QED
    BY <2>2, <2>3, HarmlessStep
<1>4. CASE Crash
  <2>1. \A i \in Ids : rows'[i] = IF rows[i].status = "processing"
                                  THEN [rows[i] EXCEPT !.status = "pending"] ELSE rows[i]
    BY <1>4 DEF Crash, Recovered
  <2>2. rows' = [i \in Ids |-> rows'[i]]
    BY <1>4 DEF Crash, Recovered
  <2>3. ASSUME NEW i \in Ids
        PROVE  Harmless(rows[i], rows'[i])
    <3>1. RowOK(rows[i]) /\ Harmless(rows[i], rows[i])
      BY DEF IInv, Typed, Harmless
    <3>2. Harmless(rows[i], [rows[i] EXCEPT !.status = "pending"])
      BY <3>1, NewStatus
    <3> QED
      BY <2>1, <3>1, <3>2
  <2> QED
    BY <2>2, <2>3, HarmlessStep
<1>5. ASSUME NEW i \in Ids, NEW s, rows' = [rows EXCEPT ![i] = s],
             \/ \E status : status \notin {"converting", "unconverted"}
                           /\ s = [rows[i] EXCEPT !.status = status]
             \/ \E result : s = [rows[i] EXCEPT !.status = "completed", !.result = result]
      PROVE  IInv'
  <2>1. RowOK(rows[i])
    BY DEF IInv, Typed
  <2>2. Harmless(rows[i], s)
    BY <1>5, <2>1 DEF Harmless, RowOK, IsRow, Fields
  <2> QED
    BY <1>5, <2>2, OneRow
<1>6. ASSUME NEW i \in Ids, Take(i)
      PROVE  IInv'
  <2>1. rows' = [rows EXCEPT ![i] = [rows[i] EXCEPT !.status = "processing"]]
    BY <1>6 DEF Take, IInv, Typed
  <2> QED
    BY <2>1, <1>5
<1>7. CASE Fail
  <2>1. rows' = [rows EXCEPT ![worker.job] = [rows[worker.job] EXCEPT !.status = "failed"]]
    BY <1>7 DEF Fail, IInv, Typed
  <2>2. CASE worker.job \in Ids
    BY <1>5, <2>1, <2>2
  <2>3. CASE worker.job \notin Ids
    BY <1>1, <2>1, <2>3 DEF IInv, Typed
  <2> QED
    BY <2>2, <2>3
<1>8. CASE Publish
  <2>1. PICK result :
          rows' = [rows EXCEPT ![worker.job] =
                     [rows[worker.job] EXCEPT !.status = "completed", !.result = result]]
    BY <1>8 DEF Publish, IInv, Typed
  <2>2. CASE worker.job \in Ids
    BY <1>5, <2>1, <2>2
  <2>3. CASE worker.job \notin Ids
    BY <1>1, <2>1, <2>3 DEF IInv, Typed
  <2> QED
    BY <2>2, <2>3
<1>9. ASSUME \/ BeginPass \/ (\E n \in Names : Consider(n)) \/ Inspect \/ Digest
             \/ NothingPending \/ Hash \/ Read
      PROVE  UNCHANGED rows \/ Fail
  BY <1>9 DEF BeginPass, Consider, Inspect, Digest, NothingPending, Hash, Read
<1> QED
  BY <1>1, <1>2, <1>3, <1>4, <1>6, <1>7, <1>8, <1>9 DEF Work

LEMMA NextIInv == IInv /\ [Next]_vars => IInv'
<1> SUFFICES ASSUME IInv, [Next]_vars PROVE IInv'
  OBVIOUS
<1>1. CASE UNCHANGED vars
  BY <1>1 DEF vars, IInv, Typed, ImportedOnce
<1>2. CASE Work \/ Crash
  BY <1>2, WorkStep
<1>3. CASE \/ \E n \in Names : Reserve(n) \/ (\E c \in Contents : WriteZip(n, c))
           \/ \E i \in Ids : Retry(i) \/ Rerun(i) \/ DeleteMove(i)
                           \/ RetryConversion(i) \/ DeleteConversion(i)
           \/ \E k \in Ceilings : SetCeiling(k)
           \/ Converting \/ DeleteRows
  BY <1>3, FolderStep
<1> QED
  BY <1>1, <1>2, <1>3 DEF Next

(* However often a file of converted/ is written again, and whatever the   *)
(* worker read before it registers, the same content of the same name has  *)
(* one row (register_converted_output).                                    *)
THEOREM SingleImport == Spec => []ImportedOnce
<1>1. IInv => ImportedOnce
  BY DEF IInv
<1> QED
  BY <1>1, InitIInv, NextIInv, PTL DEF Spec

-----------------------------------------------------------------------------
(* Candidates.                                                             *)

LEMMA Least ==
  ASSUME NEW T \in SUBSET Nat, T # {}
  PROVE  \E x \in T : \A y \in T : x <= y
<1>1. PICK x \in T : \A y \in T : <<y, x>> \notin OpToRel(<, Nat)
  BY NatLessThanWellFounded, WFMin
<1>2. ASSUME NEW y \in T
      PROVE  x <= y
  <2>1. ~(y < x)
    BY <1>1 DEF OpToRel
  <2> QED
    BY <2>1
<1> QED
  BY <1>2

LEMMA Greatest ==
  ASSUME NEW n \in Nat, NEW T \in SUBSET (0 .. n), T # {}
  PROVE  \E x \in T : \A y \in T : y <= x
<1> DEFINE U == {n - t : t \in T}
<1>1. U \in SUBSET Nat /\ U # {}
  <2>1. PICK t \in T : TRUE
    OBVIOUS
  <2>2. n - t \in U
    BY <2>1
  <2>3. \A x \in T : n - x \in Nat
    OBVIOUS
  <2> QED
    BY <2>2, <2>3
<1>2. PICK u \in U : \A v \in U : u <= v
  <2> HIDE DEF U
  <2> QED
    BY <1>1, Least
<1>3. PICK x \in T : u = n - x
  BY <1>2
<1>4. ASSUME NEW y \in T
      PROVE  y <= x
  <2>1. n - x <= n - y
    BY <1>2, <1>3
  <2> QED
    BY <2>1
<1> QED
  BY <1>4

LEMMA FirstIs ==
  ASSUME NEW F, IsDiagnosis(F), NEW k \in Keys(F)
  PROVE  First(F, k) \in DOMAIN F /\ F[First(F, k)].key = k
<1> DEFINE T == {i \in DOMAIN F : F[i].key = k}
<1>1. T \in SUBSET Nat /\ T # {}
  BY DEF IsDiagnosis, Keys
<1>2. PICK i \in T : \A j \in T : i <= j
  <2> HIDE DEF T
  <2> QED
    BY <1>1, Least
<1>3. \A j \in 1 .. i - 1 : F[j].key # k
  BY <1>2 DEF IsDiagnosis
<1>4. \E m \in DOMAIN F : F[m].key = k /\ \A j \in 1 .. m - 1 : F[j].key # k
  BY <1>2, <1>3
<1> QED
  BY <1>4 DEF First

LEMMA AboutIs ==
  ASSUME NEW F, IsDiagnosis(F), NEW k \in Keys(F)
  PROVE  /\ About(F, k) # {}
         /\ \A f \in About(F, k) : f.priority \in 0 .. 3 /\ f.score \in 0 .. 100
<1>1. PICK i \in DOMAIN F : F[i].key = k
  BY DEF Keys
<1>2. F[i] \in About(F, k)
  BY <1>1 DEF About
<1>3. \A f \in About(F, k) : \E j \in DOMAIN F : f = F[j]
  BY DEF About
<1> QED
  BY <1>2, <1>3 DEF IsDiagnosis

LEMMA PriorityIs ==
  ASSUME NEW F, IsDiagnosis(F), NEW k \in Keys(F)
  PROVE  /\ Priority(F, k) \in 0 .. 3
         /\ \E f \in About(F, k) : f.priority = Priority(F, k)
         /\ \A f \in About(F, k) : f.priority <= Priority(F, k)
<1> DEFINE T == {f.priority : f \in About(F, k)}
<1>1. T \in SUBSET (0 .. 3) /\ T # {}
  BY AboutIs
<1>2. \E p \in T : \A q \in T : q <= p
  <2> HIDE DEF T
  <2> QED
    BY <1>1, Greatest
<1>3. \E p \in T : \A f \in About(F, k) : f.priority <= p
  BY <1>2
<1>4. Priority(F, k) \in T /\ \A f \in About(F, k) : f.priority <= Priority(F, k)
  BY <1>3 DEF Priority
<1> QED
  BY <1>1, <1>4

LEMMA ScoreIs ==
  ASSUME NEW F, IsDiagnosis(F), NEW k \in Keys(F)
  PROVE  Score(F, k) \in 0 .. 100
<1> DEFINE T == {f.score : f \in About(F, k)}
<1>1. T \in SUBSET (0 .. 100) /\ T # {}
  BY AboutIs
<1>2. \E p \in T : \A q \in T : q <= p
  <2> HIDE DEF T
  <2> QED
    BY <1>1, Greatest
<1>3. \E p \in T : \A f \in About(F, k) : f.score <= p
  BY <1>2
<1>4. Score(F, k) \in T
  BY <1>3 DEF Score
<1> QED
  BY <1>1, <1>4

(* Sort keys are numbers, and the last of them tells candidates apart.     *)
Sortable(C) ==
  /\ IsFiniteSet(C)
  /\ \A c \in C : \A i \in 1 .. 4 : c.rank[i] \in Int
  /\ \A c, d \in C : c.rank[4] = d.rank[4] => c = d

LEMMA CandidatesAre ==
  ASSUME NEW F, IsDiagnosis(F)
  PROVE  /\ Sortable(Candidates(F))
         /\ Keys(F) = {c.key : c \in Candidates(F)}
         /\ \A c, d \in Candidates(F) : c.key = d.key => c = d
         /\ \A c \in Candidates(F) : c.rank[1] = 3 - Priority(F, c.key)
         /\ Cardinality(Candidates(F)) <= Len(F)
<1> DEFINE R(k) == <<3 - Priority(F, k), 100 - Score(F, k),
                     IF F[First(F, k)].text THEN 0 ELSE 1, First(F, k)>>
           C == Candidates(F)
<1>1. C = {[key |-> k, rank |-> R(k)] : k \in Keys(F)}
  BY DEF Candidates
<1>2. \A k \in Keys(F) : R(k)[1] = 3 - Priority(F, k) /\ R(k)[4] = First(F, k)
  OBVIOUS
<1>3. ASSUME NEW k \in Keys(F), NEW i \in 1 .. 4
      PROVE  R(k)[i] \in Int
  <2>1. 3 - Priority(F, k) \in Int
    BY PriorityIs
  <2>2. 100 - Score(F, k) \in Int
    BY ScoreIs
  <2>3. First(F, k) \in Int
    <3> DEFINE i0 == First(F, k)
               n == Len(F)
    <3>1. i0 \in DOMAIN F /\ n \in Nat /\ DOMAIN F = 1 .. n
      BY FirstIs DEF IsDiagnosis
    <3> HIDE DEF i0, n
    <3>2. i0 \in Int
      BY <3>1
    <3> QED
      BY <3>2 DEF i0
  <2>4. (IF F[First(F, k)].text THEN 0 ELSE 1) \in Int
    OBVIOUS
  <2>5. i = 1 \/ i = 2 \/ i = 3 \/ i = 4
    OBVIOUS
  <2> QED
    BY <2>1, <2>2, <2>3, <2>4, <2>5
<1>4. ASSUME NEW k \in Keys(F), NEW l \in Keys(F), First(F, k) = First(F, l)
      PROVE  k = l
  BY <1>4, FirstIs
<1> HIDE DEF R
<1>5. \A c \in C : c.key \in Keys(F) /\ c = [key |-> c.key, rank |-> R(c.key)] /\ c.rank = R(c.key)
  BY <1>1
<1>6. ASSUME NEW k \in Keys(F)
      PROVE  \E c \in C : c.key = k
  <2>1. [key |-> k, rank |-> R(k)] \in C
    BY <1>1
  <2> QED
    BY <2>1
<1>7. IsFiniteSet(C) /\ Cardinality(C) <= Len(F)
  <2> DEFINE n == Len(F)
             f == [i \in 1 .. n |-> [key |-> F[i].key, rank |-> R(F[i].key)]]
  <2>1. n \in Nat /\ DOMAIN F = 1 .. n
    BY DEF IsDiagnosis
  <2>2. IsFiniteSet(1 .. n) /\ Cardinality(1 .. n) = n
    <3> HIDE DEF n
    <3> QED
      BY <2>1, FS_Interval
  <2>3. f \in Surjection(1 .. n, C)
    <3>1. Keys(F) = {F[i].key : i \in 1 .. n}
      BY <2>1 DEF Keys
    <3> HIDE DEF n, C
    <3>2. f \in [1 .. n -> C]
      BY <1>1, <3>1
    <3>3. \A c \in C : \E i \in 1 .. n : f[i] = c
      BY <1>1, <3>1
    <3> QED
      BY <3>2, <3>3 DEF Surjection
  <2> HIDE DEF n, f, C
  <2>4. IsFiniteSet(C) /\ Cardinality(C) <= n
    BY <2>2, <2>3, FS_Surjection
  <2> QED
    BY <2>4 DEF n
<1> HIDE DEF C
<1>8. Sortable(C)
  <2>1. \A c \in C : \A i \in 1 .. 4 : c.rank[i] \in Int
    BY <1>3, <1>5
  <2>2. ASSUME NEW c \in C, NEW d \in C, c.rank[4] = d.rank[4]
        PROVE  c = d
    <3>1. c.key = d.key
      BY <1>2, <1>4, <1>5, <2>2
    <3> QED
      BY <1>5, <3>1
  <2> QED
    BY <1>7, <2>1, <2>2 DEF Sortable
<1>9. Keys(F) = {c.key : c \in C}
  BY <1>5, <1>6
<1>10. \A c, d \in C : c.key = d.key => c = d
  BY <1>5
<1>11. \A c \in C : c.rank[1] = 3 - Priority(F, c.key)
  BY <1>2, <1>5
<1> QED
  BY <1>7, <1>8, <1>9, <1>10, <1>11 DEF C

(* Before is a strict total order.                                         *)
LEMMA BeforeIs ==
  ASSUME NEW C, Sortable(C), NEW c \in C, NEW d \in C
  PROVE  Before(c, d) <=>
           \/ c.rank[1] < d.rank[1]
           \/ c.rank[1] = d.rank[1] /\ c.rank[2] < d.rank[2]
           \/ c.rank[1] = d.rank[1] /\ c.rank[2] = d.rank[2] /\ c.rank[3] < d.rank[3]
           \/ c.rank[1] = d.rank[1] /\ c.rank[2] = d.rank[2] /\ c.rank[3] = d.rank[3]
                /\ c.rank[4] < d.rank[4]
<1> DEFINE Q(i) == c.rank[i] < d.rank[i] /\ \A h \in 1 .. i - 1 : c.rank[h] = d.rank[h]
<1>1. Before(c, d) <=> Q(1) \/ Q(2) \/ Q(3) \/ Q(4)
  <2>1. \A i \in 1 .. 4 : i = 1 \/ i = 2 \/ i = 3 \/ i = 4
    OBVIOUS
  <2>2. 1 \in 1 .. 4 /\ 2 \in 1 .. 4 /\ 3 \in 1 .. 4 /\ 4 \in 1 .. 4
    OBVIOUS
  <2>3. Before(c, d) <=> \E i \in 1 .. 4 : Q(i)
    BY DEF Before
  <2> HIDE DEF Q
  <2> QED
    BY <2>1, <2>2, <2>3
<1>2. /\ 1 .. 1 - 1 = {} /\ 1 .. 2 - 1 = {1} /\ 1 .. 3 - 1 = {1, 2} /\ 1 .. 4 - 1 = {1, 2, 3}
  OBVIOUS
<1> QED
  BY <1>1, <1>2

LEMMA BeforeOrders ==
  ASSUME NEW C, Sortable(C)
  PROVE  /\ \A c \in C : ~Before(c, c)
         /\ \A c, d \in C : c = d \/ Before(c, d) \/ Before(d, c)
         /\ \A c, d, e \in C : Before(c, d) /\ Before(d, e) => Before(c, e)
<1>0. 1 \in 1 .. 4 /\ 2 \in 1 .. 4 /\ 3 \in 1 .. 4 /\ 4 \in 1 .. 4
  OBVIOUS
<1>1. \A c \in C : c.rank[1] \in Int /\ c.rank[2] \in Int /\ c.rank[3] \in Int /\ c.rank[4] \in Int
  BY <1>0 DEF Sortable
<1>2. \A c \in C : ~Before(c, c)
  BY <1>1, BeforeIs
<1>3. \A c, d \in C : c = d \/ Before(c, d) \/ Before(d, c)
  BY <1>1, BeforeIs DEF Sortable
<1>4. ASSUME NEW c \in C, NEW d \in C, NEW e \in C, Before(c, d), Before(d, e)
      PROVE  Before(c, e)
  BY <1>1, <1>4, BeforeIs
<1> QED
  BY <1>2, <1>3, <1>4

(* The place of a candidate is one more than the number of those before.   *)
LEMMA SortExists ==
  ASSUME NEW C, Sortable(C)
  PROVE  \E s \in [1 .. Cardinality(C) -> C] :
           \A i, j \in DOMAIN s : i < j => Before(s[i], s[j])
<1> DEFINE n == Cardinality(C)
           Below(c) == {d \in C : Before(d, c)}
           place == [c \in C |-> 1 + Cardinality(Below(c))]
<1>1. IsFiniteSet(C) /\ n \in Nat
  BY FS_CardinalityType DEF Sortable
<1>2. \A c \in C : IsFiniteSet(Below(c)) /\ Cardinality(Below(c)) \in Nat
  BY <1>1, FS_Subset, FS_CardinalityType
<1>3. ASSUME NEW c \in C
      PROVE  place[c] \in 1 .. n
  <2> DEFINE b == Cardinality(Below(c))
  <2>1. Below(c) \in SUBSET C /\ Below(c) # C
    BY BeforeOrders
  <2>2. b \in Nat /\ b <= n /\ b # n
    <3> HIDE DEF Below
    <3> QED
      BY <1>1, <1>2, <2>1, FS_Subset
  <2>3. place[c] = 1 + b
    OBVIOUS
  <2> HIDE DEF b, n, place
  <2> QED
    BY <1>1, <2>2, <2>3
<1>4. ASSUME NEW c \in C, NEW d \in C, Before(c, d)
      PROVE  place[c] < place[d]
  <2> DEFINE a == Cardinality(Below(c))
             b == Cardinality(Below(d))
  <2>1. Below(c) \in SUBSET Below(d) /\ Below(c) # Below(d)
    <3>1. c \in Below(d) /\ c \notin Below(c)
      BY <1>4, BeforeOrders
    <3>2. Below(c) \subseteq Below(d)
      BY <1>4, BeforeOrders
    <3> QED
      BY <3>1, <3>2
  <2>2. a \in Nat /\ b \in Nat /\ a <= b /\ a # b
    <3> HIDE DEF Below
    <3> QED
      BY <1>2, <2>1, FS_Subset
  <2>3. place[c] = 1 + a /\ place[d] = 1 + b
    OBVIOUS
  <2> HIDE DEF a, b, place
  <2> QED
    BY <2>2, <2>3
<1>5. place \in [C -> 1 .. n]
  <2>1. place = [c \in C |-> place[c]]
    OBVIOUS
  <2> HIDE DEF place
  <2> QED
    BY <1>3, <2>1
<1> HIDE DEF place, n, Below
<1>6. \A c \in C, d \in C : place[c] = place[d] => c = d
  <2> SUFFICES ASSUME NEW c \in C, NEW d \in C, place[c] = place[d], c # d
               PROVE  FALSE
    OBVIOUS
  <2>1. place[c] \in Int /\ place[d] \in Int
    BY <1>3
  <2>2. place[c] < place[d] \/ place[d] < place[c]
    BY <1>4, BeforeOrders
  <2> QED
    BY <2>1, <2>2
<1>7. place \in Injection(C, 1 .. n)
  BY <1>5, <1>6 DEF Injection, IsInjective
<1>8. place \in Surjection(C, 1 .. n)
  <2>1. IsFiniteSet(1 .. n) /\ Cardinality(1 .. n) = n
    BY <1>1, FS_Interval
  <2> QED
    BY <1>7, <2>1, FS_Injection DEF n
<1>9. \A i \in 1 .. n : \E c \in C : place[c] = i
  BY <1>8 DEF Surjection
<1> DEFINE s == [i \in 1 .. n |-> CHOOSE c \in C : place[c] = i]
<1>10. \A i \in 1 .. n : s[i] \in C /\ place[s[i]] = i
  BY <1>9
<1>11. s \in [1 .. n -> C] /\ DOMAIN s = 1 .. n
  <2>1. s = [i \in 1 .. n |-> s[i]]
    OBVIOUS
  <2> HIDE DEF s
  <2> QED
    BY <1>10, <2>1
<1> HIDE DEF s
<1>12. ASSUME NEW i \in 1 .. n, NEW j \in 1 .. n, i < j
       PROVE  Before(s[i], s[j])
  <2>1. s[i] \in C /\ s[j] \in C /\ place[s[i]] = i /\ place[s[j]] = j
    BY <1>10
  <2>2. s[i] # s[j]
    BY <1>12, <2>1
  <2>3. ~Before(s[j], s[i])
    <3> SUFFICES ASSUME Before(s[j], s[i])
                 PROVE  FALSE
      OBVIOUS
    <3>1. place[s[j]] < place[s[i]]
      BY <1>4, <2>1
    <3> QED
      BY <1>12, <2>1, <3>1
  <2> QED
    BY <2>1, <2>2, <2>3, BeforeOrders
<1> QED
  BY <1>11, <1>12 DEF n

LEMMA RankedIs ==
  ASSUME NEW F, IsDiagnosis(F)
  PROVE  /\ Ranked(F) \in Seq(Candidates(F))
         /\ Candidates(F) = {Ranked(F)[i] : i \in 1 .. Len(Ranked(F))}
         /\ \A i, j \in 1 .. Len(Ranked(F)) : i < j => Before(Ranked(F)[i], Ranked(F)[j])
         /\ Len(Ranked(F)) = Cardinality(Candidates(F))
<1> DEFINE C == Candidates(F)
           n == Cardinality(C)
           s == Ranked(F)
<1>1. Sortable(C) /\ IsFiniteSet(C)
  BY CandidatesAre DEF Sortable
<1>2. n \in Nat
  BY <1>1, FS_CardinalityType
<1>3. s \in [1 .. n -> C] /\ \A i, j \in DOMAIN s : i < j => Before(s[i], s[j])
  <2>1. \E t \in [1 .. n -> C] : \A i, j \in DOMAIN t : i < j => Before(t[i], t[j])
    <3> HIDE DEF C
    <3> QED
      BY <1>1, SortExists
  <2> QED
    BY <2>1 DEF Ranked
<1> HIDE DEF s, n, C
<1>4. s \in Seq(C) /\ Len(s) = n
  BY <1>2, <1>3, SeqDef, LenProperties
<1>5. DOMAIN s = 1 .. n
  BY <1>3
<1>6. s \in Injection(1 .. n, C)
  <2>1. ASSUME NEW i \in 1 .. n, NEW j \in 1 .. n, s[i] = s[j]
        PROVE  i = j
    <3>1. s[i] \in C /\ ~Before(s[i], s[i])
      BY <1>1, <1>3, BeforeOrders
    <3>2. ~(i < j) /\ ~(j < i)
      BY <1>3, <1>5, <2>1, <3>1
    <3> QED
      BY <1>2, <3>2
  <2> QED
    BY <1>3, <2>1 DEF Injection, IsInjective
<1>7. s \in Surjection(1 .. n, C)
  <2>1. IsFiniteSet(1 .. n) /\ Cardinality(1 .. n) = n
    BY <1>2, FS_Interval
  <2> QED
    BY <1>1, <1>6, <2>1, FS_Injection DEF n
<1>8. C = {s[i] : i \in 1 .. n}
  BY <1>3, <1>7 DEF Surjection
<1> QED
  BY <1>3, <1>4, <1>5, <1>8 DEF s, C, n

(* A ranking s is cut into r behind position n.                            *)
CutAt(s, n, r) ==
  /\ n \in 0 .. Len(s) /\ r.created = SubSeq(s, 1, n)
  /\ Len(r.created) = n /\ ToSet(r.created) = {s[i] : i \in 1 .. n}
  /\ Len(r.deferred) = Len(s) - n /\ ToSet(r.deferred) = {s[i] : i \in n + 1 .. Len(s)}

LEMMA CutIs ==
  ASSUME NEW C, NEW s \in Seq(C), NEW m \in Nat
  PROVE  /\ CutAt(s, Within(s, m), Cut(s, m))
         /\ Cut(s, m).created \in Seq(C) /\ Cut(s, m).deferred \in Seq(C)
<1> DEFINE n == Within(s, m)
           l == Len(s)
           a == SubSeq(s, 1, n)
           b == SubSeq(s, n + 1, l)
<1>1. l \in Nat /\ \A i \in 1 .. l : s[i] \in C
  BY LenProperties
<1>2. n \in 0 .. l
  BY <1>1 DEF Within
<1>3. Cut(s, m).created = a /\ Cut(s, m).deferred = b
  BY DEF Cut
<1> HIDE DEF n, l
<1>4. a \in Seq(C) /\ Len(a) = n /\ \A i \in 1 .. n : a[i] = s[i]
  <2>1. n \in Int /\ 1 \in Int /\ (\A i \in 1 .. n : s[i] \in C)
    BY <1>1, <1>2
  <2>2. /\ a \in Seq(C) /\ Len(a) = (IF 1 <= n THEN n - 1 + 1 ELSE 0)
        /\ \A i \in 1 .. n - 1 + 1 : a[i] = s[1 + i - 1]
    <3> HIDE DEF a
    <3> QED
      BY <2>1, SubSeqProperties DEF a
  <2> HIDE DEF a
  <2> QED
    BY <1>2, <2>1, <2>2
<1>5. b \in Seq(C) /\ Len(b) = l - n /\ \A i \in 1 .. l - n : b[i] = s[n + i]
  <2>1. n + 1 \in Int /\ l \in Int /\ (\A i \in n + 1 .. l : s[i] \in C)
    BY <1>1, <1>2
  <2>2. /\ b \in Seq(C) /\ Len(b) = (IF n + 1 <= l THEN l - (n + 1) + 1 ELSE 0)
        /\ \A i \in 1 .. l - (n + 1) + 1 : b[i] = s[(n + 1) + i - 1]
    <3> HIDE DEF b
    <3> QED
      BY <2>1, SubSeqProperties DEF b
  <2> HIDE DEF b
  <2>3. l - (n + 1) + 1 = l - n /\ (n + 1 <= l \/ l - n = 0)
    BY <1>1, <1>2
  <2>4. Len(b) = l - n
    BY <2>2, <2>3
  <2>5. ASSUME NEW i \in 1 .. l - n
        PROVE  b[i] = s[n + i]
    <3>1. (n + 1) + i - 1 = n + i
      BY <1>1, <1>2
    <3> QED
      BY <2>2, <2>3, <3>1
  <2> QED
    BY <2>2, <2>4, <2>5
<1> HIDE DEF a, b
<1>6. ToSet(a) = {s[i] : i \in 1 .. n}
  <2>1. DOMAIN a = 1 .. n
    BY <1>4, LenProperties
  <2> QED
    BY <1>4, <2>1 DEF ToSet
<1>7. ToSet(b) = {s[i] : i \in n + 1 .. l}
  <2>1. DOMAIN b = 1 .. l - n
    BY <1>5, LenProperties
  <2>2. \A x : x \in ToSet(b) => x \in {s[i] : i \in n + 1 .. l}
    <3> SUFFICES ASSUME NEW j \in 1 .. l - n
                 PROVE  b[j] \in {s[i] : i \in n + 1 .. l}
      BY <2>1 DEF ToSet
    <3>1. n + j \in n + 1 .. l /\ b[j] = s[n + j]
      BY <1>1, <1>2, <1>5
    <3> QED
      BY <3>1
  <2>3. \A x : x \in {s[i] : i \in n + 1 .. l} => x \in ToSet(b)
    <3> SUFFICES ASSUME NEW i \in n + 1 .. l
                 PROVE  s[i] \in ToSet(b)
      OBVIOUS
    <3>1. i - n \in 1 .. l - n /\ n + (i - n) = i
      BY <1>1, <1>2
    <3>2. b[i - n] = s[i]
      BY <1>5, <3>1
    <3> QED
      BY <2>1, <3>1, <3>2 DEF ToSet
  <2> QED
    BY <2>2, <2>3
<1>8. CutAt(s, n, Cut(s, m))
  BY <1>2, <1>3, <1>4, <1>5, <1>6, <1>7 DEF CutAt, l, a
<1> QED
  BY <1>3, <1>4, <1>5, <1>8 DEF n

(* What RoutedByUrgency says of one result.                                *)
Urgent(F, r) ==
  LET created == {c.key : c \in ToSet(r.created)}
      deferred == {c.key : c \in ToSet(r.deferred)}
  IN  /\ created \cup deferred = Keys(F) /\ created \cap deferred = {}
      /\ \A k \in created, l \in deferred :
           \A g \in About(F, l) : \E f \in About(F, k) : f.priority >= g.priority

LEMMA RoutesUrgent ==
  ASSUME NEW F, IsDiagnosis(F), NEW m \in Nat
  PROVE  Urgent(F, Routes(F, m))
<1> DEFINE C == Candidates(F)
           s == Ranked(F)
           l == Len(s)
           n == Within(s, m)
           r == Routes(F, m)
           A == ToSet(r.created)
           B == ToSet(r.deferred)
<1>1. /\ s \in Seq(C) /\ C = {s[i] : i \in 1 .. l}
      /\ \A i, j \in 1 .. l : i < j => Before(s[i], s[j])
  BY RankedIs
<1>2. n \in 0 .. l /\ A = {s[i] : i \in 1 .. n} /\ B = {s[i] : i \in n + 1 .. l} /\ l \in Nat
  <2>1. CutAt(s, n, r) /\ l \in Nat
    BY <1>1, CutIs, LenProperties DEF Routes
  <2> HIDE DEF s, n, r
  <2> QED
    BY <2>1 DEF CutAt
<1>3. Sortable(C) /\ Keys(F) = {c.key : c \in C}
      /\ (\A c, d \in C : c.key = d.key => c = d)
      /\ \A c \in C : c.rank[1] = 3 - Priority(F, c.key)
  BY CandidatesAre
<1> HIDE DEF C, s, l, n, A, B
<1>4. C = A \cup B
  <2>1. \A i \in 1 .. l : i \in 1 .. n \/ i \in n + 1 .. l
    BY <1>2
  <2>2. \A i \in 1 .. n : i \in 1 .. l
    BY <1>2
  <2>3. \A i \in n + 1 .. l : i \in 1 .. l
    BY <1>2
  <2> QED
    BY <1>1, <1>2, <2>1, <2>2, <2>3
<1>5. ASSUME NEW c \in A, NEW d \in B
      PROVE  c \in C /\ d \in C /\ Before(c, d)
  <2>1. PICK i \in 1 .. n : c = s[i]
    BY <1>2
  <2>2. PICK j \in n + 1 .. l : d = s[j]
    BY <1>2
  <2>3. i \in 1 .. l /\ j \in 1 .. l /\ i < j
    BY <1>2
  <2> QED
    BY <1>1, <1>4, <2>1, <2>2, <2>3
<1>6. \A c \in A, d \in B : c.key # d.key
  <2> SUFFICES ASSUME NEW c \in A, NEW d \in B, c.key = d.key
               PROVE  FALSE
    OBVIOUS
  <2>1. c = d /\ c \in C /\ Before(c, d)
    BY <1>3, <1>5
  <2> QED
    BY <1>3, <2>1, BeforeOrders
<1>7. ASSUME NEW c \in A, NEW d \in B, NEW g \in About(F, d.key)
      PROVE  \E f \in About(F, c.key) : f.priority >= g.priority
  <2>1. c \in C /\ d \in C /\ Before(c, d) /\ c.key \in Keys(F) /\ d.key \in Keys(F)
    BY <1>3, <1>5
  <2>2. c.rank[1] \in Int /\ d.rank[1] \in Int /\ c.rank[1] <= d.rank[1]
    <3>1. c.rank[1] \in Int /\ d.rank[1] \in Int
      BY <1>3, <2>1 DEF Sortable
    <3>2. c.rank[1] < d.rank[1] \/ c.rank[1] = d.rank[1]
      BY <1>3, <2>1, BeforeIs
    <3> QED
      BY <3>1, <3>2
  <2> DEFINE p == Priority(F, c.key)
             q == Priority(F, d.key)
  <2>3. c.rank[1] = 3 - p /\ d.rank[1] = 3 - q
    BY <1>3, <2>1
  <2>4. p \in 0 .. 3 /\ q \in 0 .. 3 /\ g.priority <= q /\ \E f \in About(F, c.key) : f.priority = p
    BY <2>1, PriorityIs
  <2>5. g.priority \in Int
    BY <2>1, AboutIs
  <2> HIDE DEF p, q
  <2>6. p >= g.priority
    BY <2>2, <2>3, <2>4, <2>5
  <2> QED
    BY <2>4, <2>6
<1>8. {c.key : c \in A} \cup {c.key : c \in B} = Keys(F)
  BY <1>3, <1>4
<1>9. {c.key : c \in A} \cap {c.key : c \in B} = {}
  BY <1>6
<1>10. ASSUME NEW k \in {c.key : c \in A}, NEW h \in {c.key : c \in B}, NEW g \in About(F, h)
       PROVE  \E f \in About(F, k) : f.priority >= g.priority
  <2>1. PICK c \in A : k = c.key
    OBVIOUS
  <2>2. PICK d \in B : h = d.key
    OBVIOUS
  <2> QED
    BY <1>7, <2>1, <2>2
<1> HIDE DEF r
<1> SUFFICES /\ {c.key : c \in A} \cup {c.key : c \in B} = Keys(F)
             /\ {c.key : c \in A} \cap {c.key : c \in B} = {}
             /\ \A k \in {c.key : c \in A}, h \in {c.key : c \in B} :
                  \A g \in About(F, h) : \E f \in About(F, k) : f.priority >= g.priority
  BY DEF Urgent, A, B, r
<1> QED
  BY <1>8, <1>9, <1>10

LEMMA RoutesPrefix ==
  ASSUME NEW F, IsDiagnosis(F), NEW m \in Nat, NEW k \in Nat, m <= k
  PROVE  IsPrefix(Routes(F, m).created, Routes(F, k).created)
<1> DEFINE C == Candidates(F)
           s == Ranked(F)
           l == Len(s)
           p == Within(s, m)
           q == Within(s, k)
           a == SubSeq(s, 1, p)
           b == SubSeq(s, 1, q)
<1>1. s \in Seq(C) /\ l \in Nat /\ \A i \in 1 .. l : s[i] \in C
  BY RankedIs, LenProperties
<1>2. p \in 0 .. l /\ q \in 0 .. l /\ p <= q
  BY <1>1 DEF Within
<1>3. Routes(F, m).created = a /\ Routes(F, k).created = b
  BY <1>1, CutIs DEF Routes, CutAt
<1> HIDE DEF C, s, l, p, q
<1>4. ASSUME NEW t, NEW h \in Nat, \A i \in 1 .. h : t[i] \in C
      PROVE  /\ SubSeq(t, 1, h) \in [1 .. h -> C] /\ Len(SubSeq(t, 1, h)) = h
             /\ \A i \in 1 .. h : SubSeq(t, 1, h)[i] = t[i]
  <2> DEFINE u == SubSeq(t, 1, h)
  <2>1. /\ u \in Seq(C) /\ Len(u) = (IF 1 <= h THEN h - 1 + 1 ELSE 0)
        /\ \A i \in 1 .. h - 1 + 1 : u[i] = t[1 + i - 1]
    BY <1>4, SubSeqProperties
  <2> HIDE DEF u
  <2>2. Len(u) = h /\ \A i \in 1 .. h : u[i] = t[i]
    BY <2>1
  <2>3. u \in [1 .. h -> C]
    BY <2>1, <2>2, LenProperties
  <2> QED
    BY <2>2, <2>3 DEF u
<1>5. /\ a \in [1 .. p -> C] /\ Len(a) = p /\ (\A i \in 1 .. p : a[i] = s[i])
      /\ b \in [1 .. q -> C] /\ Len(b) = q /\ (\A i \in 1 .. q : b[i] = s[i])
  <2>1. p \in Nat /\ q \in Nat /\ (\A i \in 1 .. p : s[i] \in C) /\ (\A i \in 1 .. q : s[i] \in C)
    BY <1>1, <1>2
  <2> QED
    BY <1>4, <2>1
<1> HIDE DEF a, b
<1>6. SubSeq(a, 1, p) = SubSeq(b, 1, p)
  <2>1. p \in Nat /\ (\A i \in 1 .. p : a[i] \in C) /\ (\A i \in 1 .. p : b[i] \in C)
        /\ (\A i \in 1 .. p : a[i] = b[i])
    BY <1>1, <1>2, <1>5
  <2>2. /\ SubSeq(a, 1, p) \in [1 .. p -> C] /\ SubSeq(b, 1, p) \in [1 .. p -> C]
        /\ \A i \in 1 .. p : SubSeq(a, 1, p)[i] = a[i] /\ SubSeq(b, 1, p)[i] = b[i]
    BY <1>4, <2>1
  <2> QED
    BY <2>1, <2>2
<1> QED
  BY <1>2, <1>3, <1>5, <1>6 DEF IsPrefix

-----------------------------------------------------------------------------
(* The results in the table.                                               *)

(* A result is the cut of what the worker read, under the ceiling it took. *)
ResultOK(r) ==
  \/ r = NoResult
  \/ r.of \in Valid /\ r.ceiling \in Nat /\ r.routes = Routes(Findings[r.of], r.ceiling)

ResultInv ==
  /\ \A i \in Ids : ResultOK(rows[i].result)
  /\ ceiling \in Nat /\ worker.ceiling \in Nat
  /\ worker = [f \in {"pc", "todo", "name", "stamp", "seen", "job", "ceiling"} |-> worker[f]]
  /\ worker.pc = "publish" => worker.name \in Valid

LEMMA Diagnoses == \A c \in Valid : IsDiagnosis(Findings[c])
  BY AnalysisAssumption

LEMMA InitResult == Init => ResultInv
<1> SUFFICES ASSUME Init
             PROVE  ResultInv
  OBVIOUS
<1>1. \A i \in Ids : rows[i].result = NoResult
  BY DEF Init, Absent
<1>2. ceiling \in Nat
  BY AnalysisAssumption DEF Init
<1> QED
  BY <1>1, <1>2 DEF Init, ResultInv, ResultOK, Idle

(* A step that touches no result.                                          *)
SameResults == rows' = [i \in Ids |-> rows'[i]] /\
  \A i \in Ids : rows'[i].result = rows[i].result \/ rows'[i].result = NoResult

LEMMA Touch ==
  ASSUME Typed, NEW j, NEW s,
         rows' = [rows EXCEPT ![j] = s],
         j \in Ids => s.result = rows[j].result \/ s.result = NoResult
  PROVE  SameResults
BY DEF Typed, SameResults

LEMMA StatusOf ==
  ASSUME NEW r, RowOK(r), NEW status
  PROVE  [r EXCEPT !.status = status].result = r.result
BY DEF RowOK, IsRow, Fields

LEMMA FolderResults ==
  ASSUME IInv, \/ \E n \in Names : Reserve(n) \/ (\E c \in Contents : WriteZip(n, c))
               \/ \E i \in Ids : Retry(i) \/ Rerun(i) \/ DeleteMove(i)
                               \/ RetryConversion(i) \/ DeleteConversion(i)
               \/ \E k \in Ceilings : SetCeiling(k)
               \/ Converting \/ DeleteRows
  PROVE  SameResults /\ worker' = worker /\ (ceiling' = ceiling \/ ceiling' \in Ceilings)
<1>0. Typed
  BY DEF IInv
<1>1. ASSUME UNCHANGED rows
      PROVE  SameResults
  BY <1>0, <1>1 DEF Typed, SameResults
<1>2. ASSUME NEW n \in Names, Reserve(n)
      PROVE  SameResults
  <2> DEFINE s == [Absent EXCEPT !.kind = "watcher", !.name = n, !.status = "converting"]
  <2>1. PICK i \in Ids : rows' = [rows EXCEPT ![i] = s]
    BY <1>2 DEF Reserve
  <2>2. s.result = NoResult
    BY DEF Absent
  <2> QED
    BY <1>0, <2>1, <2>2, Touch
<1>3. ASSUME NEW i \in Ids, Retry(i) \/ Rerun(i)
      PROVE  SameResults
  <2>1. RowOK(rows[i]) /\ rows' = [rows EXCEPT ![i] = [rows[i] EXCEPT !.status = "pending"]]
    BY <1>0, <1>3 DEF Retry, Rerun, Typed
  <2> QED
    BY <1>0, <2>1, StatusOf, Touch
<1>4. ASSUME NEW i \in Ids, NEW c \in Contents, Convert(i, c)
      PROVE  SameResults
  <2> DEFINE s == [rows[i] EXCEPT !.status = "converted", !.sha = c]
  <2>1. rows' = [rows EXCEPT ![i] = s] /\ RowOK(rows[i])
    BY <1>0, <1>4 DEF Convert, Typed
  <2>2. s.result = rows[i].result
    BY <2>1 DEF RowOK, IsRow, Fields
  <2> QED
    BY <1>0, <2>1, <2>2, Touch
<1>5. CASE DeleteRows
  <2>1. UNCHANGED rows \/ rows' = [rows EXCEPT ![moving.job] = Deleted]
    BY <1>5 DEF DeleteRows
  <2>2. Deleted.result = NoResult
    BY DEF Deleted, Absent
  <2>3. SameResults
    BY <1>0, <1>1, <2>1, <2>2, Touch
  <2> QED
    BY <1>5, <2>3 DEF DeleteRows
<1>6. ASSUME \/ \E n \in Names : \E c \in Contents : WriteZip(n, c)
             \/ \E i \in Ids : DeleteMove(i)
             \/ \E k \in Ceilings : SetCeiling(k)
      PROVE  SameResults /\ worker' = worker /\ (ceiling' = ceiling \/ ceiling' \in Ceilings)
  BY <1>1, <1>6 DEF WriteZip, DeleteMove, SetCeiling
<1>7. ASSUME NEW i \in Ids, ConversionFails(i) \/ RetryConversion(i)
      PROVE  SameResults
  <2>1. PICK status : rows' = [rows EXCEPT ![i] = [rows[i] EXCEPT !.status = status]]
    BY <1>0, <1>7 DEF ConversionFails, RetryConversion, Typed
  <2>2. [rows[i] EXCEPT !.status = status].result = rows[i].result
    BY <1>0, StatusOf DEF Typed
  <2> QED
    BY <1>0, <2>1, <2>2, Touch
<1>8. ASSUME NEW i \in Ids, DeleteConversion(i)
      PROVE  SameResults
  <2>1. rows' = [rows EXCEPT ![i] = Deleted] /\ Deleted.result = NoResult
    BY <1>8 DEF DeleteConversion, Deleted, Absent
  <2> QED
    BY <1>0, <2>1, Touch
<1>9. ASSUME \/ \E n \in Names : Reserve(n)
             \/ \E i \in Ids : Retry(i) \/ Rerun(i) \/ RetryConversion(i) \/ DeleteConversion(i)
             \/ Converting
      PROVE  SameResults /\ worker' = worker /\ ceiling' = ceiling
  <2>1. worker' = worker /\ ceiling' = ceiling
    BY <1>9 DEF Reserve, Retry, Rerun, RetryConversion, DeleteConversion, Converting, Convert,
                ConversionFails
  <2> QED
    BY <1>2, <1>3, <1>4, <1>7, <1>8, <1>9, <2>1 DEF Converting
<1> QED
  BY <1>5, <1>6, <1>9

(* The worker's record, and what is known of it when it publishes.         *)
WorkerOK(w) ==
  /\ w.ceiling \in Nat
  /\ w = [f \in {"pc", "todo", "name", "stamp", "seen", "job", "ceiling"} |-> w[f]]
  /\ w.pc = "publish" => w.name \in Valid

LEMMA WorkerAfter ==
  ASSUME ResultInv, Work \/ Crash
  PROVE  WorkerOK(worker')
<1>1. WorkerOK(worker) /\ ceiling \in Nat
  BY DEF ResultInv, WorkerOK
<1>2. ASSUME \/ BeginPass \/ Discover \/ NothingPending \/ Publish \/ Crash \/ Fail
             \/ \E i \in Ids : Take(i)
      PROVE  WorkerOK(worker')
  <2>1. \/ worker' = Idle
        \/ worker' = [Idle EXCEPT !.pc = "import", !.todo = {n \in Names : zips[n] # NoZip}]
        \/ worker' = [Idle EXCEPT !.pc = "next"]
        \/ \E i \in Ids : worker' = [Idle EXCEPT !.pc = "hash", !.job = i, !.ceiling = ceiling]
    BY <1>2 DEF BeginPass, Discover, NothingPending, Publish, Crash, Fail, Take
  <2>2. WorkerOK(Idle) /\ WorkerOK([Idle EXCEPT !.pc = "next"])
    BY DEF Idle, WorkerOK
  <2>3. WorkerOK([Idle EXCEPT !.pc = "import", !.todo = {n \in Names : zips[n] # NoZip}])
    BY DEF Idle, WorkerOK
  <2>4. \A i \in Ids : WorkerOK([Idle EXCEPT !.pc = "hash", !.job = i, !.ceiling = ceiling])
    BY <1>1 DEF Idle, WorkerOK
  <2> QED
    BY <2>1, <2>2, <2>3, <2>4, Zenon
<1>3. ASSUME NEW n \in Names, Consider(n)
      PROVE  WorkerOK(worker')
  <2>1. \/ worker' = [worker EXCEPT !.todo = @ \ {n}, !.pc = "inspect", !.name = n,
                                    !.stamp = stamps[n]]
        \/ worker' = [worker EXCEPT !.todo = @ \ {n}]
    BY <1>3 DEF Consider
  <2>2. worker.pc # "publish"
    BY <1>3 DEF Consider, At
  <2> QED
    BY <1>1, <2>1, <2>2 DEF WorkerOK
<1>4. CASE Inspect \/ Digest \/ Register \/ Hash
  <2>1. \/ worker' = [worker EXCEPT !.pc = "digest"]
        \/ worker' = [worker EXCEPT !.pc = "register", !.seen = zips[worker.name]]
        \/ worker' = [worker EXCEPT !.pc = "import"]
        \/ worker' = [worker EXCEPT !.pc = "read", !.seen = CurrentZip]
        \/ Fail
    BY <1>4 DEF Inspect, Digest, Reject, Register, Hash
  <2> QED
    BY <1>1, <1>2, <2>1 DEF WorkerOK
<1>5. CASE Read
  <2>1. Fail \/ (CurrentZip \in Valid /\ worker' = [worker EXCEPT !.pc = "publish", !.name = CurrentZip])
    BY <1>5 DEF Read
  <2> QED
    BY <1>1, <1>2, <2>1 DEF WorkerOK
<1> QED
  BY <1>2, <1>3, <1>4, <1>5 DEF Work

LEMMA WorkResults ==
  ASSUME IInv, ResultInv, Work \/ Crash
  PROVE  \A i \in Ids : ResultOK(rows'[i].result)
<1>0. Typed
  BY DEF IInv
<1>1. ASSUME SameResults
      PROVE  \A i \in Ids : ResultOK(rows'[i].result)
  BY <1>1 DEF SameResults, ResultInv, ResultOK
<1>2. ASSUME UNCHANGED rows
      PROVE  SameResults
  BY <1>0, <1>2 DEF Typed, SameResults
<1>3. CASE Register
  <2> DEFINE s == [kind |-> "import", name |-> worker.name, sha |-> worker.seen,
                   stamp |-> worker.stamp, status |-> "converted", result |-> NoResult]
  <2>1. UNCHANGED rows \/ \E i \in Ids : rows' = [rows EXCEPT ![i] = s]
    BY <1>3 DEF Register
  <2>2. s.result = NoResult
    OBVIOUS
  <2> HIDE DEF s
  <2>3. SameResults
    BY <1>0, <1>2, <2>1, <2>2, Touch
  <2> QED
    BY <1>1, <2>3
<1>4. CASE Discover
  <2>1. \A i \in Ids : rows'[i] = IF rows[i].status = "converted"
                                  THEN [rows[i] EXCEPT !.status = "pending"] ELSE rows[i]
    BY <1>4 DEF Discover
  <2>2. rows' = [i \in Ids |-> rows'[i]]
    BY <1>4 DEF Discover
  <2>3. \A i \in Ids : [rows[i] EXCEPT !.status = "pending"].result = rows[i].result
    BY <1>0, StatusOf DEF Typed
  <2>4. SameResults
    BY <2>1, <2>2, <2>3 DEF SameResults
  <2> QED
    BY <1>1, <2>4
<1>5. CASE Crash
  <2>1. \A i \in Ids : rows'[i] = IF rows[i].status = "processing"
                                  THEN [rows[i] EXCEPT !.status = "pending"] ELSE rows[i]
    BY <1>5 DEF Crash, Recovered
  <2>2. rows' = [i \in Ids |-> rows'[i]]
    BY <1>5 DEF Crash, Recovered
  <2>3. \A i \in Ids : [rows[i] EXCEPT !.status = "pending"].result = rows[i].result
    BY <1>0, StatusOf DEF Typed
  <2>4. SameResults
    BY <2>1, <2>2, <2>3 DEF SameResults
  <2> QED
    BY <1>1, <2>4
<1>6. ASSUME NEW i, NEW status, rows' = [rows EXCEPT ![i] = [rows[i] EXCEPT !.status = status]]
      PROVE  SameResults
  <2>1. i \in Ids => [rows[i] EXCEPT !.status = status].result = rows[i].result
    BY <1>0, StatusOf DEF Typed
  <2> QED
    BY <1>0, <1>6, <2>1, Touch
<1>7. ASSUME Fail \/ \E i \in Ids : Take(i)
      PROVE  SameResults
  <2>1. CASE Fail
    <3>1. rows' = [rows EXCEPT ![worker.job] = [rows[worker.job] EXCEPT !.status = "failed"]]
      BY <1>0, <2>1 DEF Fail, Typed
    <3> QED
      BY <1>6, <3>1
  <2>2. ASSUME NEW i \in Ids, Take(i)
        PROVE  SameResults
    <3>1. rows' = [rows EXCEPT ![i] = [rows[i] EXCEPT !.status = "processing"]]
      BY <1>0, <2>2 DEF Take, Typed
    <3> QED
      BY <1>6, <3>1
  <2> QED
    BY <1>7, <2>1, <2>2
<1>8. CASE Publish
  <2> DEFINE r == [sha |-> worker.seen, of |-> worker.name, ceiling |-> worker.ceiling,
                   routes |-> Routes(Findings[worker.name], worker.ceiling)]
  <2>1. ResultOK(r)
    BY <1>8 DEF Publish, At, ResultInv, ResultOK
  <2> HIDE DEF r
  <2>2. rows' = [rows EXCEPT ![worker.job] =
                   [rows[worker.job] EXCEPT !.status = "completed", !.result = r]]
    BY <1>0, <1>8 DEF Publish, Typed, r
  <2>3. ASSUME NEW i \in Ids
        PROVE  rows'[i] = rows[i] \/ rows'[i].result = r
    BY <1>0, <2>2 DEF Typed, RowOK, IsRow, Fields
  <2> QED
    BY <2>1, <2>3 DEF ResultInv
<1>9. ASSUME \/ BeginPass \/ (\E n \in Names : Consider(n)) \/ Inspect \/ Digest
             \/ NothingPending \/ Hash \/ Read
      PROVE  UNCHANGED rows \/ Fail
  BY <1>9 DEF BeginPass, Consider, Inspect, Digest, NothingPending, Hash, Read
<1> QED
  BY <1>1, <1>2, <1>3, <1>4, <1>5, <1>7, <1>8, <1>9 DEF Work

LEMMA NextResult == IInv /\ ResultInv /\ [Next]_vars => ResultInv'
<1> SUFFICES ASSUME IInv, ResultInv, [Next]_vars
             PROVE  ResultInv'
  OBVIOUS
<1>1. CASE Work \/ Crash
  <2>1. (\A i \in Ids : ResultOK(rows'[i].result)) /\ WorkerOK(worker')
    BY <1>1, WorkResults, WorkerAfter
  <2>2. ceiling' = ceiling
    BY <1>1 DEF Work, Crash, BeginPass, Consider, Inspect, Digest, Register, Discover, Take,
                NothingPending, Hash, Read, Publish
  <2> QED
    BY <2>1, <2>2 DEF ResultInv, WorkerOK, ResultOK
<1>2. CASE \/ \E n \in Names : Reserve(n) \/ (\E c \in Contents : WriteZip(n, c))
           \/ \E i \in Ids : Retry(i) \/ Rerun(i) \/ DeleteMove(i)
                           \/ RetryConversion(i) \/ DeleteConversion(i)
           \/ \E k \in Ceilings : SetCeiling(k)
           \/ Converting \/ DeleteRows
  <2>1. SameResults /\ worker' = worker /\ (ceiling' = ceiling \/ ceiling' \in Ceilings)
    BY <1>2, FolderResults
  <2>2. ceiling' \in Nat
    BY <2>1, AnalysisAssumption DEF ResultInv
  <2>3. \A i \in Ids : ResultOK(rows'[i].result)
    BY <2>1 DEF SameResults, ResultInv, ResultOK
  <2> QED
    BY <2>1, <2>2, <2>3 DEF ResultInv, ResultOK
<1>3. CASE UNCHANGED vars
  BY <1>3 DEF vars, ResultInv, ResultOK
<1> QED
  BY <1>1, <1>2, <1>3 DEF Next

(* Whatever the diagnostics find and however low the ceiling is, every     *)
(* candidate of a published analysis is a route or deferred, never both,   *)
(* and none is deferred behind one whose findings are all less urgent than *)
(* some finding of its own (build_routes).                                 *)
THEOREM UrgencyKept == Spec => []RoutedByUrgency
<1>1. ResultInv => RoutedByUrgency
  <2> SUFFICES ASSUME ResultInv, NEW i \in Ids, rows[i].result # NoResult
               PROVE  Urgent(Findings[rows[i].result.of], rows[i].result.routes)
    BY DEF RoutedByUrgency, Urgent
  <2> DEFINE r == rows[i].result
  <2>1. r.of \in Valid /\ r.ceiling \in Nat /\ r.routes = Routes(Findings[r.of], r.ceiling)
    BY DEF ResultInv, ResultOK
  <2>2. IsDiagnosis(Findings[r.of])
    BY <2>1, Diagnoses
  <2> HIDE DEF r
  <2>3. Urgent(Findings[r.of], r.routes)
    BY <2>1, <2>2, RoutesUrgent
  <2> QED
    BY <2>3 DEF r
<1> QED
  BY <1>1, InitIInv, NextIInv, InitResult, NextResult, PTL DEF Spec

(* Analysing the same ZIP again under a ceiling that is no lower keeps the *)
(* routes there were, in their order, and adds to their end (build_routes, *)
(* which cuts one ranking of all candidates).                              *)
THEOREM PromotionKept == Spec => RaisingPromotes
<1> DEFINE Promotes ==
      \A i \in Ids :
        LET old == rows[i].result
            new == rows'[i].result
        IN  old # NoResult /\ new # NoResult /\ old.of = new.of /\ old.ceiling <= new.ceiling =>
              IsPrefix(old.routes.created, new.routes.created)
<1>1. ResultInv /\ ResultInv' => Promotes
  <2> SUFFICES ASSUME ResultInv, ResultInv', NEW i \in Ids, NEW old, NEW new,
                      old = rows[i].result, new = rows'[i].result,
                      old # NoResult, new # NoResult, old.of = new.of,
                      old.ceiling <= new.ceiling
               PROVE  IsPrefix(old.routes.created, new.routes.created)
    OBVIOUS
  <2>1. old.of \in Valid /\ old.ceiling \in Nat /\ old.routes = Routes(Findings[old.of], old.ceiling)
    BY DEF ResultInv, ResultOK
  <2>2. new.of \in Valid /\ new.ceiling \in Nat /\ new.routes = Routes(Findings[new.of], new.ceiling)
    BY DEF ResultInv, ResultOK
  <2>3. IsDiagnosis(Findings[old.of])
    BY <2>1, Diagnoses
  <2> QED
    BY <2>1, <2>2, <2>3, RoutesPrefix
<1>2. IInv /\ ResultInv /\ [Next]_vars => [Promotes]_vars
  BY <1>1, NextResult
<1> QED
  BY <1>2, InitIInv, NextIInv, InitResult, NextResult, PTL DEF Spec, RaisingPromotes

-----------------------------------------------------------------------------
(* The types.                                                              *)

LEMMA SeqBounded ==
  ASSUME NEW C, NEW s \in Seq(C), NEW n \in Nat, Len(s) <= n
  PROVE  s \in BoundedSeq(C, n)
<1>1. Len(s) \in 0 .. n /\ s \in [1 .. Len(s) -> C]
  BY LenProperties
<1> QED
  BY <1>1 DEF BoundedSeq, SeqOf

LEMMA RoutesType ==
  ASSUME NEW c \in Valid, NEW m \in Nat
  PROVE  Routes(Findings[c], m) \in [created : Sequences \cup {<<>>}, deferred : Sequences \cup {<<>>}]
<1> DEFINE F == Findings[c]
           C == Candidates(F)
           s == Ranked(F)
           r == Routes(F, m)
           l == Len(F)
<1>1. IsDiagnosis(F)
  BY Diagnoses
<1>2. l \in Nat
  BY <1>1 DEF IsDiagnosis
<1>3. s \in Seq(C) /\ Len(s) \in Nat /\ Len(s) <= l
  BY <1>1, RankedIs, CandidatesAre, LenProperties
<1>4. /\ Within(s, m) \in 0 .. Len(s)
      /\ r.created \in Seq(C) /\ Len(r.created) = Within(s, m)
      /\ r.deferred \in Seq(C) /\ Len(r.deferred) = Len(s) - Within(s, m)
  BY <1>3, CutIs DEF Routes, CutAt
<1>5. r = [created |-> r.created, deferred |-> r.deferred]
  BY DEF Routes, Cut
<1>6. BoundedSeq(C, l) \subseteq Sequences
  BY DEF Sequences
<1> HIDE DEF F, C, s, r, l
<1>7. Len(r.created) <= l /\ Len(r.deferred) <= l
  BY <1>2, <1>3, <1>4
<1>8. r.created \in Sequences /\ r.deferred \in Sequences
  BY <1>2, <1>4, <1>6, <1>7, SeqBounded
<1> QED
  BY <1>5, <1>8 DEF r, F

Row == [kind : {"none", "import", "watcher"}, name : Names \cup {NoZip}, sha : ZipOrNone,
        stamp : Stamps, status : RowStatuses, result : Results]

(* A row that stands for a file has the name of the file.                  *)
Titled(r) == r \in Row /\ (r.status \notin {"absent", "deleted"} => r.name \in Names)

(* A file name has one row of a conversion, which will write the file once. *)
TableInv ==
  /\ rows \in [Ids -> Row] /\ \A i \in Ids : Titled(rows[i])
  /\ \A i, j \in Ids : rows[i].kind = "watcher" /\ rows[j].kind = "watcher"
                       /\ rows[i].name = rows[j].name => i = j
  /\ stamps \in [Names -> Nat] /\ ops \in 0 .. MaxOps
  /\ \A n \in Names : stamps[n] <= ops
  /\ \A i \in Ids : rows[i].status = "converting" => stamps[rows[i].name] < ops

FolderInv ==
  /\ zips \in [Names -> ZipOrNone] /\ rejected \in [Names -> Stamps]
  /\ ceiling \in Ceilings /\ crashes \in 0 .. MaxCrashes
  /\ moving \in [job : 0 .. MaxOps, name : Names \cup {NoZip}, zip : ZipOrNone]

(* What the worker has in hand at each of its steps.                       *)
WorkerInv ==
  /\ worker \in [pc : {"idle", "import", "inspect", "digest", "register", "next", "hash",
                        "read", "publish"},
                 todo : SUBSET Names, name : Names \cup ZipOrNone, stamp : Stamps,
                 seen : ZipOrNone, job : 0 .. MaxOps, ceiling : Nat]
  /\ worker.pc \in {"inspect", "digest", "register"} => worker.name \in Names
  /\ worker.pc \in {"hash", "read", "publish"} =>
       worker.job \in Ids /\ rows[worker.job].status = "processing"

TInv == IInv /\ ResultInv /\ TableInv /\ FolderInv /\ WorkerInv

LEMMA Numbers == MaxOps \in Nat /\ MaxCrashes \in Nat /\ Ids = 1 .. MaxOps /\ Stamps = 0 .. MaxOps
  BY AnalysisAssumption DEF Ids, Stamps

LEMMA EmptyTypes ==
  /\ NoZip \in ZipOrNone /\ NoResult \in Results
  /\ Absent \in Row /\ Titled(Absent) /\ Deleted \in Row /\ Titled(Deleted)
  /\ Still \in [job : 0 .. MaxOps, name : Names \cup {NoZip}, zip : ZipOrNone]
<1>1. NoZip \in ZipOrNone /\ NoResult \in Results
  BY DEF ZipOrNone, NoResult, Results
<1>2. Absent \in Row
  BY <1>1, Numbers DEF Absent, Row, RowStatuses
<1>3. Deleted \in Row
  BY <1>1, Numbers DEF Absent, Deleted, Row, RowStatuses
<1> QED
  BY <1>1, <1>2, <1>3, Numbers DEF Titled, Absent, Deleted, Still

(* What most steps make of a row: it stays one of a conversion of its      *)
(* file, or is none, and no conversion begins.                             *)
Tame(r, s) ==
  /\ Titled(s)
  /\ s.kind = "watcher" => r.kind = "watcher" /\ s.name = r.name
  /\ s.status = "converting" => r.status = "converting" /\ s.name = r.name

LEMMA TameTable ==
  ASSUME TableInv, rows' = [i \in Ids |-> rows'[i]], \A i \in Ids : Tame(rows[i], rows'[i]),
         UNCHANGED stamps, ops' \in {ops, ops + 1}, ops' \in 0 .. MaxOps
  PROVE  TableInv'
<1>1. rows' \in [Ids -> Row] /\ \A i \in Ids : Titled(rows'[i])
  BY DEF Tame, Titled
<1>2. \A i, j \in Ids : rows'[i].kind = "watcher" /\ rows'[j].kind = "watcher"
                        /\ rows'[i].name = rows'[j].name => i = j
  <2> TAKE i \in Ids, j \in Ids
  <2> HAVE /\ rows'[i].kind = "watcher" /\ rows'[j].kind = "watcher"
           /\ rows'[i].name = rows'[j].name
  <2>1. Tame(rows[i], rows'[i]) /\ Tame(rows[j], rows'[j])
    OBVIOUS
  <2>2. /\ rows[i].kind = "watcher" /\ rows'[i].name = rows[i].name
        /\ rows[j].kind = "watcher" /\ rows'[j].name = rows[j].name
    BY <2>1 DEF Tame
  <2> QED
    BY <2>2 DEF TableInv
<1>3. \A n \in Names : stamps[n] <= ops'
  BY Numbers DEF TableInv
<1>4. ASSUME NEW i \in Ids, rows'[i].status = "converting"
      PROVE  stamps[rows'[i].name] < ops'
  <2>1. rows[i].status = "converting" /\ rows'[i].name = rows[i].name
    BY <1>4 DEF Tame
  <2>2. rows[i].name \in Names
    BY <2>1 DEF TableInv, Titled
  <2> QED
    BY <2>1, <2>2, Numbers DEF TableInv
<1>5. /\ stamps' \in [Names -> Nat] /\ (\A n \in Names : stamps'[n] <= ops')
      /\ \A i \in Ids : rows'[i].status = "converting" => stamps'[rows'[i].name] < ops'
  BY <1>3, <1>4 DEF TableInv
<1> QED
  BY ONLY <1>1, <1>2, <1>5, ops' \in 0 .. MaxOps DEF TableInv

LEMMA SameTable ==
  ASSUME TableInv, UNCHANGED <<rows, stamps>>, ops' \in {ops, ops + 1}, ops' \in 0 .. MaxOps
  PROVE  TableInv'
<1>1. \A i \in Ids : Tame(rows[i], rows'[i])
  BY DEF TableInv, Tame
<1> QED
  BY <1>1, TameTable DEF TableInv

LEMMA TameRow ==
  ASSUME TableInv, NEW i \in Ids, NEW s, rows' = [rows EXCEPT ![i] = s], Tame(rows[i], s),
         UNCHANGED stamps, ops' \in {ops, ops + 1}, ops' \in 0 .. MaxOps
  PROVE  TableInv'
<1>1. rows' = [j \in Ids |-> rows'[j]] /\ \A j \in Ids : Tame(rows[j], rows'[j])
  BY DEF TableInv, Tame
<1> QED
  BY <1>1, TameTable

LEMMA TameStatus ==
  ASSUME NEW r, Titled(r), r.status \notin {"absent", "deleted"},
         NEW status \in RowStatuses, status # "converting"
  PROVE  Tame(r, [r EXCEPT !.status = status])
  BY DEF Tame, Titled, Row

LEMMA InitTypes == Init => TInv
<1> SUFFICES ASSUME Init
             PROVE  TInv
  OBVIOUS
<1>1. TableInv
  <2>1. rows \in [Ids -> Row] /\ \A i \in Ids : rows[i] = Absent
    BY EmptyTypes DEF Init
  <2>2. \A i \in Ids : rows[i].kind = "none" /\ rows[i].status = "absent"
    BY <2>1 DEF Absent
  <2>3. stamps \in [Names -> Nat] /\ (\A n \in Names : stamps[n] <= ops) /\ ops \in 0 .. MaxOps
    BY Numbers DEF Init
  <2>4. \A i, j \in Ids : rows[i].kind = "watcher" /\ rows[j].kind = "watcher"
                          /\ rows[i].name = rows[j].name => i = j
    <3> TAKE i \in Ids, j \in Ids
    <3>1. rows[i].kind # "watcher"
      BY <2>2
    <3> QED
      BY <3>1
  <2>5. \A i \in Ids : rows[i].status = "converting" => stamps[rows[i].name] < ops
    BY <2>1, <2>2
  <2>6. \A i \in Ids : Titled(rows[i])
    BY <2>1, EmptyTypes
  <2> QED
    BY <2>1, <2>3, <2>4, <2>5, <2>6 DEF TableInv
<1>2. FolderInv
  BY EmptyTypes, Numbers DEF Init, FolderInv
<1>3. WorkerInv
  BY EmptyTypes, Numbers DEF Init, WorkerInv, Idle
<1> QED
  BY <1>1, <1>2, <1>3, InitIInv, InitResult DEF TInv

(* The folder, the conversions and the operators leave a row at work alone. *)
LEMMA FolderTypes ==
  ASSUME TInv, \/ \E n \in Names : Reserve(n) \/ (\E c \in Contents : WriteZip(n, c))
               \/ \E i \in Ids : Retry(i) \/ Rerun(i) \/ DeleteMove(i)
                               \/ RetryConversion(i) \/ DeleteConversion(i)
               \/ \E k \in Ceilings : SetCeiling(k)
               \/ Converting \/ DeleteRows
  PROVE  /\ TableInv' /\ FolderInv' /\ worker' = worker
         /\ \A i \in Ids : rows[i].status = "processing" => rows'[i].status = "processing"
<1>0. TableInv /\ FolderInv /\ Typed
  BY DEF TInv, IInv
<1> USE <1>0, Numbers
<1>a. Spend => ops' = ops + 1 /\ ops' \in 0 .. MaxOps /\ crashes' = crashes
  BY DEF Spend, TableInv
<1>1. ASSUME NEW n \in Names, Reserve(n)
      PROVE  /\ TableInv' /\ FolderInv' /\ worker' = worker
             /\ \A i \in Ids : rows[i].status = "processing" => rows'[i].status = "processing"
  <2> DEFINE s == [Absent EXCEPT !.kind = "watcher", !.name = n, !.status = "converting"]
  <2>1. PICK i \in Ids : NextId(i) /\ rows' = [rows EXCEPT ![i] = s]
    BY <1>1 DEF Reserve
  <2>2. Titled(s) /\ s.kind = "watcher" /\ s.name = n /\ s.status = "converting"
    BY EmptyTypes DEF Titled, Row, Absent, RowStatuses
  <2>3. rows[i] = Absent /\ Absent.status = "absent"
    BY <2>1 DEF NextId, Absent
  <2> HIDE DEF s
  <2>4. \A j \in Ids : rows'[j] = IF j = i THEN s ELSE rows[j]
    BY <2>1 DEF TableInv
  <2>5. \A j \in Ids : rows[j].kind = "watcher" => rows[j].name # n
    BY <1>1 DEF Reserve, Watched, Owns
  <2>6. rows' \in [Ids -> Row] /\ \A j \in Ids : Titled(rows'[j])
    BY <2>1, <2>2, <2>4 DEF TableInv, Titled
  <2>7. \A j, k \in Ids : rows'[j].kind = "watcher" /\ rows'[k].kind = "watcher"
                          /\ rows'[j].name = rows'[k].name => j = k
    BY <2>2, <2>4, <2>5 DEF TableInv
  <2>8. stamps' = stamps /\ ops' = ops + 1 /\ ops' \in 0 .. MaxOps
    BY <1>1, <1>a DEF Reserve, folder
  <2>9. \A m \in Names : stamps[m] <= ops /\ stamps[m] < ops + 1
    BY DEF TableInv
  <2>10. ASSUME NEW j \in Ids, rows'[j].status = "converting"
         PROVE  stamps[rows'[j].name] < ops + 1
    <3>1. rows'[j].name \in Names
      BY <2>6, <2>10 DEF Titled
    <3> QED
      BY <2>9, <3>1
  <2>11. TableInv'
    BY <2>6, <2>7, <2>8, <2>9, <2>10 DEF TableInv
  <2>12. FolderInv' /\ worker' = worker
    BY <1>1, <1>a DEF Reserve, folder, FolderInv
  <2> QED
    BY <2>3, <2>4, <2>11, <2>12
<1>2. ASSUME NEW n \in Names, NEW c \in Contents, WriteZip(n, c)
      PROVE  /\ TableInv' /\ FolderInv' /\ worker' = worker
             /\ \A i \in Ids : rows[i].status = "processing" => rows'[i].status = "processing"
  <2>1. /\ rows' = rows /\ stamps' = [stamps EXCEPT ![n] = stamps[n] + 1]
        /\ ops' = ops + 1 /\ ops' \in 0 .. MaxOps
    BY <1>2, <1>a DEF WriteZip, TableInv
  <2>2. stamps' \in [Names -> Nat] /\ \A m \in Names : stamps'[m] <= stamps[m] + 1
    BY <2>1 DEF TableInv
  <2>3. \A m \in Names : stamps'[m] <= ops + 1
    BY <2>2 DEF TableInv
  <2>4. ASSUME NEW i \in Ids, rows[i].status = "converting"
        PROVE  stamps'[rows[i].name] < ops + 1
    <3>1. rows[i].name \in Names
      BY <2>4 DEF TableInv, Titled
    <3> QED
      BY <2>2, <2>4, <3>1 DEF TableInv
  <2>5. TableInv'
    BY <2>1, <2>2, <2>3, <2>4 DEF TableInv, Titled
  <2>6. FolderInv'
    BY <1>2, <1>a DEF WriteZip, FolderInv, ZipOrNone
  <2> QED
    BY <1>2, <2>1, <2>5, <2>6 DEF WriteZip
<1>3. ASSUME NEW i \in Ids, Retry(i) \/ Rerun(i)
      PROVE  /\ TableInv' /\ FolderInv' /\ worker' = worker
             /\ \A j \in Ids : rows[j].status = "processing" => rows'[j].status = "processing"
  <2> DEFINE s == [rows[i] EXCEPT !.status = "pending"]
  <2>1. rows' = [rows EXCEPT ![i] = s] /\ rows[i].status \in {"completed", "failed"}
        /\ Titled(rows[i])
    BY <1>3 DEF Retry, Rerun, TableInv
  <2>2. Tame(rows[i], s)
    BY <2>1, TameStatus DEF RowStatuses
  <2>3. stamps' = stamps /\ ops' = ops + 1 /\ ops' \in 0 .. MaxOps
    BY <1>3, <1>a DEF Retry, Rerun, folder
  <2>4. TableInv'
    BY <2>1, <2>2, <2>3, TameRow
  <2>5. FolderInv' /\ worker' = worker
    BY <1>3, <1>a DEF Retry, Rerun, folder, FolderInv
  <2> HIDE DEF s
  <2> QED
    BY <2>1, <2>4, <2>5 DEF TableInv
<1>4. ASSUME NEW i \in Ids, DeleteMove(i)
      PROVE  /\ TableInv' /\ FolderInv' /\ rows' = rows /\ worker' = worker
  <2>1. rows[i].name \in Names
    BY <1>4 DEF DeleteMove, TableInv, Titled
  <2>2. moving' \in [job : 0 .. MaxOps, name : Names \cup {NoZip}, zip : ZipOrNone]
    BY <1>4, <2>1 DEF DeleteMove, FolderInv
  <2>3. zips' \in [Names -> ZipOrNone]
    BY <1>4, EmptyTypes DEF DeleteMove, FolderInv
  <2>4. FolderInv'
    BY <1>4, <1>a, <2>2, <2>3 DEF DeleteMove, FolderInv
  <2>5. TableInv'
    BY <1>4, <1>a, SameTable DEF DeleteMove
  <2> QED
    BY <1>4, <2>4, <2>5 DEF DeleteMove
<1>5. ASSUME NEW k \in Ceilings, SetCeiling(k)
      PROVE  /\ TableInv' /\ FolderInv' /\ rows' = rows /\ worker' = worker
  <2>1. TableInv'
    BY <1>5, <1>a, SameTable DEF SetCeiling, folder
  <2> QED
    BY <1>5, <1>a, <2>1 DEF SetCeiling, folder, FolderInv
<1>6. ASSUME NEW i \in Ids, NEW c \in Contents, Convert(i, c)
      PROVE  /\ TableInv' /\ FolderInv' /\ worker' = worker
             /\ \A j \in Ids : rows[j].status = "processing" => rows'[j].status = "processing"
  <2> DEFINE s == [rows[i] EXCEPT !.status = "converted", !.sha = c]
             n == rows[i].name
  <2>1. rows' = [rows EXCEPT ![i] = s] /\ rows[i].status = "converting" /\ Titled(rows[i])
    BY <1>6 DEF Convert, TableInv
  <2>2. n \in Names /\ rows[i].kind = "watcher"
    BY <2>1 DEF Titled, Typed, RowOK
  <2>3. Titled(s) /\ s.kind = "watcher" /\ s.name = n /\ s.status = "converted"
    BY <2>1, <2>2 DEF Titled, Row, RowStatuses, ZipOrNone
  <2>4. stamps' = [stamps EXCEPT ![n] = stamps[n] + 1] /\ ops' = ops
    BY <1>6 DEF Convert, bounds, TableInv
  <2>5. stamps[n] < ops
    BY <2>1 DEF TableInv
  <2> HIDE DEF s, n
  <2>6. \A j \in Ids : rows'[j] = IF j = i THEN s ELSE rows[j]
    BY <2>1 DEF TableInv
  <2>7. rows' \in [Ids -> Row] /\ \A j \in Ids : Titled(rows'[j])
    BY <2>1, <2>3, <2>6 DEF TableInv, Titled
  <2>8. \A j, k \in Ids : rows'[j].kind = "watcher" /\ rows'[k].kind = "watcher"
                          /\ rows'[j].name = rows'[k].name => j = k
    BY <2>2, <2>3, <2>6 DEF TableInv, n
  <2>9. stamps' \in [Names -> Nat] /\ \A m \in Names : stamps'[m] <= ops
    BY <2>2, <2>4, <2>5 DEF TableInv
  <2>10. ASSUME NEW j \in Ids, rows'[j].status = "converting"
         PROVE  stamps'[rows'[j].name] < ops
    <3>1. j # i /\ rows'[j] = rows[j] /\ rows[j].status = "converting"
      BY <2>3, <2>6, <2>10
    <3>2. rows[j].kind = "watcher" /\ rows[j].name \in Names
      BY <3>1 DEF Typed, RowOK, TableInv, Titled
    <3>3. rows[j].name # n
      BY <2>2, <3>1, <3>2 DEF TableInv, n
    <3> QED
      BY <2>4, <3>1, <3>2, <3>3 DEF TableInv
  <2>11. TableInv'
    BY <2>4, <2>7, <2>8, <2>9, <2>10 DEF TableInv
  <2>12. FolderInv' /\ worker' = worker
    BY <1>6 DEF Convert, bounds, FolderInv, ZipOrNone
  <2> QED
    BY <2>1, <2>6, <2>11, <2>12
<1>7. CASE DeleteRows
  <2>1. FolderInv' /\ worker' = worker
    BY <1>7, EmptyTypes DEF DeleteRows, bounds, FolderInv
  <2>2. stamps' = stamps /\ ops' = ops /\ ops \in 0 .. MaxOps
    BY <1>7 DEF DeleteRows, bounds, TableInv
  <2>3. CASE rows' = rows
    BY <2>1, <2>2, <2>3, SameTable
  <2>4. CASE rows' # rows
    <3>1. rows' = [rows EXCEPT ![moving.job] = Deleted] /\ moving.job \in Ids
          /\ rows[moving.job].status # "processing"
      BY <1>7, <2>4 DEF DeleteRows, TableInv
    <3>2. Tame(rows[moving.job], Deleted)
      BY EmptyTypes DEF Tame, Deleted, Absent
    <3>3. TableInv'
      BY <2>2, <3>1, <3>2, TameRow
    <3> QED
      BY <2>1, <3>1, <3>3 DEF TableInv
  <2> QED
    BY <2>3, <2>4
<1>8. ASSUME NEW i \in Ids, ConversionFails(i)
      PROVE  /\ TableInv' /\ FolderInv' /\ worker' = worker
             /\ \A j \in Ids : rows[j].status = "processing" => rows'[j].status = "processing"
  <2> DEFINE s == [rows[i] EXCEPT !.status = "unconverted"]
  <2>1. rows' = [rows EXCEPT ![i] = s] /\ rows[i].status = "converting" /\ Titled(rows[i])
    BY <1>8 DEF ConversionFails, TableInv
  <2>2. Tame(rows[i], s)
    BY <2>1, TameStatus DEF RowStatuses
  <2>3. stamps' = stamps /\ ops' = ops /\ ops \in 0 .. MaxOps
    BY <1>8 DEF ConversionFails, folder, bounds, TableInv
  <2>4. TableInv'
    BY <2>1, <2>2, <2>3, TameRow
  <2>5. FolderInv' /\ worker' = worker
    BY <1>8 DEF ConversionFails, folder, bounds, FolderInv
  <2> HIDE DEF s
  <2> QED
    BY <2>1, <2>4, <2>5 DEF TableInv
<1>9. ASSUME NEW i \in Ids, RetryConversion(i)
      PROVE  /\ TableInv' /\ FolderInv' /\ worker' = worker
             /\ \A j \in Ids : rows[j].status = "processing" => rows'[j].status = "processing"
  <2> DEFINE s == [rows[i] EXCEPT !.status = "converting"]
  <2>1. rows' = [rows EXCEPT ![i] = s] /\ rows[i].status = "unconverted" /\ Titled(rows[i])
    BY <1>9 DEF RetryConversion, TableInv
  <2>2. Titled(s) /\ s.kind = rows[i].kind /\ s.name = rows[i].name
    BY <2>1 DEF Titled, Row, RowStatuses
  <2> HIDE DEF s
  <2>3. \A j \in Ids : rows'[j] = IF j = i THEN s ELSE rows[j]
    BY <2>1 DEF TableInv
  <2>4. rows' \in [Ids -> Row] /\ \A j \in Ids : Titled(rows'[j])
    BY <2>1, <2>2, <2>3 DEF TableInv, Titled
  <2>5. \A j, k \in Ids : rows'[j].kind = "watcher" /\ rows'[k].kind = "watcher"
                          /\ rows'[j].name = rows'[k].name => j = k
    BY <2>2, <2>3 DEF TableInv
  <2>6. stamps' = stamps /\ ops' = ops + 1 /\ ops' \in 0 .. MaxOps
    BY <1>9, <1>a DEF RetryConversion, folder
  <2>7. \A m \in Names : stamps[m] <= ops /\ stamps[m] < ops + 1
    BY DEF TableInv
  <2>8. ASSUME NEW j \in Ids, rows'[j].status = "converting"
        PROVE  stamps[rows'[j].name] < ops + 1
    <3>1. rows'[j].name \in Names
      BY <2>4, <2>8 DEF Titled
    <3> QED
      BY <2>7, <3>1
  <2>9. TableInv'
    BY <2>4, <2>5, <2>6, <2>7, <2>8 DEF TableInv
  <2>10. FolderInv' /\ worker' = worker
    BY <1>9, <1>a DEF RetryConversion, folder, FolderInv
  <2> QED
    BY <2>1, <2>3, <2>9, <2>10
<1>10. ASSUME NEW i \in Ids, DeleteConversion(i)
       PROVE  /\ TableInv' /\ FolderInv' /\ worker' = worker
              /\ \A j \in Ids : rows[j].status = "processing" => rows'[j].status = "processing"
  <2>1. rows' = [rows EXCEPT ![i] = Deleted] /\ rows[i].status = "unconverted"
    BY <1>10 DEF DeleteConversion
  <2>2. Tame(rows[i], Deleted)
    BY EmptyTypes DEF Tame, Deleted, Absent
  <2>3. stamps' = stamps /\ ops' = ops + 1 /\ ops' \in 0 .. MaxOps
    BY <1>10, <1>a DEF DeleteConversion
  <2>4. TableInv'
    BY <2>1, <2>2, <2>3, TameRow
  <2>5. FolderInv' /\ worker' = worker
    BY <1>10, <1>a, EmptyTypes DEF DeleteConversion, FolderInv
  <2> QED
    BY <2>1, <2>4, <2>5 DEF TableInv
<1> QED
  BY <1>1, <1>2, <1>3, <1>4, <1>5, <1>6, <1>7, <1>8, <1>9, <1>10 DEF Converting

(* A step of the worker other than one that takes, imports or ends.        *)
LEMMA HandTypes ==
  ASSUME TInv, BeginPass \/ (\E n \in Names : Consider(n)) \/ Inspect \/ Digest \/ NothingPending
  PROVE  TableInv' /\ FolderInv' /\ WorkerInv'
<1>0. TableInv /\ FolderInv /\ WorkerInv
  BY DEF TInv
<1> USE <1>0, Numbers
<1>1. /\ rows' = rows /\ stamps' = stamps /\ ops' = ops /\ zips' = zips
      /\ ceiling' = ceiling /\ crashes' = crashes /\ moving' = moving
  BY DEF BeginPass, Consider, Inspect, Digest, NothingPending, folder, bounds
<1>2. TableInv'
  BY <1>1, SameTable DEF TableInv
<1>3. Idle \in [pc : {"idle", "import", "inspect", "digest", "register", "next", "hash",
                        "read", "publish"},
                todo : SUBSET Names, name : Names \cup ZipOrNone, stamp : Stamps,
                seen : ZipOrNone, job : 0 .. MaxOps, ceiling : Nat]
  BY EmptyTypes DEF Idle
<1>4. CASE BeginPass
  BY <1>1, <1>2, <1>3, <1>4 DEF BeginPass, FolderInv, WorkerInv, Idle
<1>5. ASSUME NEW n \in Names, Consider(n)
      PROVE  FolderInv' /\ WorkerInv'
  <2>1. stamps[n] \in Stamps
    BY DEF TableInv
  <2>2. FolderInv'
    BY <1>1, <1>5 DEF Consider, FolderInv
  <2>3. WorkerInv'
    BY <1>1, <1>5, <2>1 DEF Consider, At, WorkerInv
  <2> QED
    BY <2>2, <2>3
<1>6. CASE Inspect \/ Digest
  <2>1. worker.name \in Names /\ worker.stamp \in Stamps
    BY <1>6 DEF Inspect, Digest, At, WorkerInv
  <2>2. FolderInv'
    <3>1. rejected' = rejected \/ rejected' = [rejected EXCEPT ![worker.name] = worker.stamp]
      BY <1>6 DEF Inspect, Digest, Reject
    <3> QED
      BY <1>1, <2>1, <3>1 DEF FolderInv
  <2>3. WorkerInv'
    <3>1. zips[worker.name] \in ZipOrNone
      BY <2>1 DEF FolderInv
    <3>2. \/ worker' = [worker EXCEPT !.pc = "digest"]
          \/ worker' = [worker EXCEPT !.pc = "register", !.seen = zips[worker.name]]
          \/ worker' = [worker EXCEPT !.pc = "import"]
      BY <1>6 DEF Inspect, Digest, Reject
    <3> QED
      BY <2>1, <3>1, <3>2 DEF WorkerInv
  <2> QED
    BY <1>2, <2>2, <2>3
<1>7. CASE NothingPending
  <2>1. FolderInv'
    BY <1>1, <1>7 DEF NothingPending, FolderInv
  <2>2. WorkerInv'
    BY <1>3, <1>7 DEF NothingPending, WorkerInv, Idle
  <2> QED
    BY <1>2, <2>1, <2>2
<1> QED
  BY <1>2, <1>4, <1>5, <1>6, <1>7

(* A ZIP becomes a row.                                                    *)
LEMMA RegisterTypes ==
  ASSUME TInv, Register
  PROVE  TableInv' /\ FolderInv' /\ WorkerInv'
<1>0. TableInv /\ FolderInv /\ WorkerInv
  BY DEF TInv
<1> USE <1>0, Numbers
<1> DEFINE s == [kind |-> "import", name |-> worker.name, sha |-> worker.seen,
                 stamp |-> worker.stamp, status |-> "converted", result |-> NoResult]
<1>1. /\ stamps' = stamps /\ ops' = ops /\ ops \in 0 .. MaxOps /\ zips' = zips
      /\ ceiling' = ceiling /\ crashes' = crashes /\ moving' = moving
      /\ worker' = [worker EXCEPT !.pc = "import"] /\ worker.name \in Names
  BY DEF Register, At, folder, bounds, WorkerInv, TableInv
<1>2. WorkerInv'
  BY <1>1 DEF WorkerInv
<1>3. FolderInv'
  <2>1. rejected' = rejected \/ rejected' = [rejected EXCEPT ![worker.name] = 0]
    BY DEF Register
  <2> QED
    BY <1>1, <2>1 DEF FolderInv
<1>4. Titled(s) /\ s.kind = "import" /\ s.status = "converted"
  BY <1>1, EmptyTypes DEF Titled, Row, RowStatuses, WorkerInv
<1>5. CASE rows' = rows
  BY <1>1, <1>2, <1>3, <1>5, SameTable
<1>6. CASE rows' # rows
  <2>1. PICK i \in Ids : rows' = [rows EXCEPT ![i] = s]
    BY <1>6 DEF Register
  <2>2. Tame(rows[i], s)
    BY <1>4 DEF Tame
  <2> QED
    BY <1>1, <1>2, <1>3, <2>1, <2>2, TameRow
<1> QED
  BY <1>5, <1>6

(* The conversions that have ended become books; the oldest one is taken.  *)
LEMMA BookTypes ==
  ASSUME TInv, Discover \/ \E i \in Ids : Take(i)
  PROVE  TableInv' /\ FolderInv' /\ WorkerInv'
<1>0. TableInv /\ FolderInv /\ WorkerInv
  BY DEF TInv
<1> USE <1>0, Numbers
<1>1. /\ stamps' = stamps /\ ops' = ops /\ ops \in 0 .. MaxOps /\ FolderInv'
  BY DEF Discover, Take, folder, bounds, TableInv, FolderInv
<1>3. CASE Discover
  <2>1. rows' = [i \in Ids |-> rows'[i]]
    BY <1>3 DEF Discover
  <2>2. ASSUME NEW i \in Ids
        PROVE  Tame(rows[i], rows'[i])
    <3>1. Titled(rows[i])
      BY DEF TableInv
    <3>2. CASE rows[i].status = "converted"
      <4>1. rows'[i] = [rows[i] EXCEPT !.status = "pending"]
        BY <1>3, <3>2 DEF Discover
      <4> QED
        BY <3>1, <3>2, <4>1, TameStatus DEF RowStatuses
    <3>3. CASE rows[i].status # "converted"
      <4>1. rows'[i] = rows[i]
        BY <1>3, <3>3 DEF Discover
      <4> QED
        BY <3>1, <4>1 DEF Tame
    <3> QED
      BY <3>2, <3>3
  <2>3. TableInv'
    BY <1>1, <2>1, <2>2, TameTable
  <2>4. WorkerInv'
    BY <1>3, EmptyTypes DEF Discover, Idle, WorkerInv
  <2> QED
    BY <1>1, <2>3, <2>4
<1>4. ASSUME NEW i \in Ids, Take(i)
      PROVE  TableInv' /\ WorkerInv'
  <2> DEFINE s == [rows[i] EXCEPT !.status = "processing"]
  <2>1. rows' = [rows EXCEPT ![i] = s] /\ rows[i].status = "pending" /\ Titled(rows[i])
    BY <1>4 DEF Take, Oldest, Pending, TableInv
  <2>2. Tame(rows[i], s)
    BY <2>1, TameStatus DEF RowStatuses
  <2>3. s.status = "processing"
    BY <2>1 DEF Titled, Row
  <2> HIDE DEF s
  <2>4. TableInv' /\ rows'[i].status = "processing"
    BY <1>1, <2>1, <2>2, <2>3, TameRow DEF TableInv
  <2>5. ceiling \in Nat
    BY DEF TInv, ResultInv
  <2>6. worker' = [Idle EXCEPT !.pc = "hash", !.job = i, !.ceiling = ceiling]
    BY <1>4 DEF Take
  <2>7. worker' = [pc |-> "hash", todo |-> {}, name |-> NoZip, stamp |-> 0, seen |-> NoZip,
                   job |-> i, ceiling |-> ceiling]
    BY <2>6 DEF Idle
  <2>8. WorkerInv'
    BY <2>4, <2>5, <2>7, EmptyTypes DEF WorkerInv
  <2> QED
    BY <2>4, <2>8
<1> QED
  BY <1>1, <1>3, <1>4

(* The row at work is read and ends.                                       *)
LEMMA AnalysisTypes ==
  ASSUME TInv, Hash \/ Read \/ Publish
  PROVE  TableInv' /\ FolderInv' /\ WorkerInv'
<1>0. TableInv /\ FolderInv /\ WorkerInv /\ ResultInv
  BY DEF TInv
<1> USE <1>0, Numbers
<1> DEFINE j == worker.job
<1>1. /\ stamps' = stamps /\ ops' = ops /\ ops \in 0 .. MaxOps /\ FolderInv'
  BY DEF Hash, Read, Publish, folder, bounds, TableInv, FolderInv
<1>2. /\ j \in Ids /\ Titled(rows[j]) /\ rows[j].status = "processing"
      /\ rows[j].name \in Names /\ CurrentZip \in ZipOrNone
  BY DEF Hash, Read, Publish, At, WorkerInv, TableInv, FolderInv, Titled, CurrentZip
<1>3. Idle \in [pc : {"idle", "import", "inspect", "digest", "register", "next", "hash",
                        "read", "publish"},
                todo : SUBSET Names, name : Names \cup ZipOrNone, stamp : Stamps,
                seen : ZipOrNone, job : 0 .. MaxOps, ceiling : Nat] /\ Idle.pc = "idle"
  BY EmptyTypes DEF Idle
<1> HIDE DEF j
<1>4. CASE Fail
  <2> DEFINE s == [rows[j] EXCEPT !.status = "failed"]
  <2>1. rows' = [rows EXCEPT ![j] = s]
    BY <1>2, <1>4 DEF Fail, j
  <2>2. Tame(rows[j], s)
    BY <1>2, TameStatus DEF RowStatuses
  <2>3. TableInv'
    BY <1>1, <1>2, <2>1, <2>2, TameRow
  <2>4. WorkerInv'
    BY <1>3, <1>4 DEF Fail, WorkerInv
  <2> QED
    BY <1>1, <2>3, <2>4
<1>5. CASE (Hash \/ Read) /\ ~Fail
  <2>1. rows' = rows
    BY <1>5 DEF Hash, Read
  <2>2. TableInv'
    BY <1>1, <2>1, SameTable
  <2>3. Valid \subseteq ZipOrNone
    BY AnalysisAssumption DEF ZipOrNone
  <2>4. CASE Hash
    <3>1. worker' = [worker EXCEPT !.pc = "read", !.seen = CurrentZip] /\ worker.pc = "hash"
      BY <1>5, <2>4 DEF Hash, At
    <3> QED
      BY <1>1, <1>2, <2>1, <2>2, <3>1 DEF WorkerInv, j
  <2>5. CASE Read
    <3>1. worker' = [worker EXCEPT !.pc = "publish", !.name = CurrentZip] /\ worker.pc = "read"
      BY <1>5, <2>5 DEF Read, At
    <3> QED
      BY <1>1, <1>2, <2>1, <2>2, <3>1 DEF WorkerInv, j
  <2> QED
    BY <1>5, <2>4, <2>5
<1>6. CASE Publish
  <2> DEFINE r == [sha |-> worker.seen, of |-> worker.name, ceiling |-> worker.ceiling,
                   routes |-> Routes(Findings[worker.name], worker.ceiling)]
             s == [rows[j] EXCEPT !.status = "completed", !.result = r]
  <2>1. rows' = [rows EXCEPT ![j] = s] /\ worker' = Idle
    BY <1>2, <1>6 DEF Publish, j, TableInv
  <2>2. worker.name \in Valid /\ worker.ceiling \in Nat /\ worker.seen \in ZipOrNone
    BY <1>6 DEF Publish, At, ResultInv, WorkerInv
  <2>3. r \in Results
    BY <2>2, RoutesType DEF Results
  <2> HIDE DEF r
  <2>4. s \in Row /\ s.kind = rows[j].kind /\ s.name = rows[j].name /\ s.status = "completed"
    BY <1>2, <2>3 DEF Titled, Row, RowStatuses
  <2>5. Tame(rows[j], s)
    BY <1>2, <2>4 DEF Tame, Titled
  <2>6. TableInv'
    BY <1>1, <1>2, <2>1, <2>5, TameRow
  <2>7. WorkerInv'
    BY <1>3, <2>1 DEF WorkerInv
  <2> QED
    BY <1>1, <2>6, <2>7
<1> QED
  BY <1>4, <1>5, <1>6

LEMMA CrashTypes ==
  ASSUME TInv, Crash
  PROVE  TableInv' /\ FolderInv' /\ WorkerInv'
<1>0. TableInv /\ FolderInv
  BY DEF TInv
<1> USE <1>0, Numbers
<1>1. stamps' = stamps /\ ops' = ops /\ ops \in 0 .. MaxOps
  BY DEF Crash, folder, TableInv
<1>2. FolderInv'
  BY EmptyTypes DEF Crash, folder, FolderInv
<1>3. WorkerInv'
  BY EmptyTypes DEF Crash, WorkerInv, Idle
<1>4. rows' = [i \in Ids |-> rows'[i]]
  BY DEF Crash, Recovered
<1>5. ASSUME NEW i \in Ids
      PROVE  Tame(rows[i], rows'[i])
  <2>1. Titled(rows[i])
    BY DEF TableInv
  <2>2. CASE rows[i].status = "processing"
    <3>1. rows'[i] = [rows[i] EXCEPT !.status = "pending"]
      BY <2>2 DEF Crash, Recovered
    <3> QED
      BY <2>1, <2>2, <3>1, TameStatus DEF RowStatuses
  <2>3. CASE rows[i].status # "processing"
    <3>1. rows'[i] = rows[i]
      BY <2>3 DEF Crash, Recovered
    <3> QED
      BY <2>1, <3>1 DEF Tame
  <2> QED
    BY <2>2, <2>3
<1>6. TableInv'
  BY <1>1, <1>4, <1>5, TameTable
<1> QED
  BY <1>2, <1>3, <1>6

LEMMA NextTypes == TInv /\ [Next]_vars => TInv'
<1> SUFFICES ASSUME TInv, [Next]_vars
             PROVE  TInv'
  OBVIOUS
<1>1. IInv' /\ ResultInv'
  BY NextIInv, NextResult DEF TInv
<1>2. CASE UNCHANGED vars
  <2>1. TableInv' /\ FolderInv' /\ WorkerInv'
    BY <1>2 DEF TInv, TableInv, FolderInv, WorkerInv, Titled, vars
  <2> QED
    BY <1>1, <2>1 DEF TInv
<1>3. CASE Work \/ Crash
  BY <1>1, <1>3, HandTypes, RegisterTypes, BookTypes, AnalysisTypes, CrashTypes DEF Work, TInv
<1>4. CASE \/ \E n \in Names : Reserve(n) \/ (\E c \in Contents : WriteZip(n, c))
           \/ \E i \in Ids : Retry(i) \/ Rerun(i) \/ DeleteMove(i)
                           \/ RetryConversion(i) \/ DeleteConversion(i)
           \/ \E k \in Ceilings : SetCeiling(k)
           \/ Converting \/ DeleteRows
  <2>1. /\ TableInv' /\ FolderInv' /\ worker' = worker
        /\ \A i \in Ids : rows[i].status = "processing" => rows'[i].status = "processing"
    BY <1>4, FolderTypes
  <2>2. WorkerInv'
    BY <2>1 DEF TInv, WorkerInv
  <2> QED
    BY <1>1, <2>1, <2>2 DEF TInv
<1> QED
  BY <1>2, <1>3, <1>4 DEF Next

\* Every row, result and step of the worker has the type it is declared with:
\* a file is not written more often than operations were spent on it
\* (register_converted_output and mark_completed, postprocess_store.py).
THEOREM TypeCorrect == Spec => []TypeOK
<1>1. TInv => TypeOK
  <2> SUFFICES ASSUME TInv
               PROVE  TypeOK
    OBVIOUS
  <2>1. TableInv /\ FolderInv /\ WorkerInv
    BY DEF TInv
  <2>2. stamps \in [Names -> Stamps]
    BY <2>1, Numbers DEF TableInv
  <2> QED
    BY <2>1, <2>2 DEF TypeOK, TableInv, FolderInv, WorkerInv, Row
<1> QED
  BY <1>1, InitTypes, NextTypes, PTL DEF Spec
=============================================================================

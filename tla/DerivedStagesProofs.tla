------------------------- MODULE DerivedStagesProofs -------------------------
(***************************************************************************)
(* Proofs about DerivedStages, for every set of routes, requesters and     *)
(* build slots and every bound: the chunks that are taken for current are  *)
(* those of the ledger, DerivedStages implements PublishedView, and every  *)
(* state is of its type.                                                   *)
(*                                                                         *)
(* The hypothesis on Torn, where there is one, says that the process does  *)
(* not die in the few writes that end a Stage 3 build which another one    *)
(* has replaced.                                                           *)
(***************************************************************************)
EXTENDS DerivedStages, TLAPS

---------------------------------------------------------------------------
(* The order of ledgers: an entry that is written has another time stamp.  *)

Table == [Routes -> Rows]

Earlier(a, b) == a.writes < b.writes \/ a = b

Before(l, m) == \A r \in Routes : Earlier(l[r], m[r])

LEMMA EarlierTwice ==
  ASSUME NEW a \in Entries, NEW b \in Entries, NEW c \in Entries, Earlier(a, b), Earlier(b, c)
  PROVE  Earlier(a, c) /\ (a = c => b = c)
  BY DEF Entries, Earlier

LEMMA BeforeSame == ASSUME NEW l PROVE Before(l, l)
  BY DEF Before, Earlier

LEMMA BeforeTwice ==
  ASSUME NEW l \in Ledgers, NEW m \in Ledgers, NEW n \in Ledgers, Before(l, m), Before(m, n)
  PROVE  Before(l, n) /\ (l = n => m = n)
<1>1. \A r \in Routes : Earlier(l[r], n[r]) /\ (l[r] = n[r] => m[r] = n[r])
  <2> TAKE r \in Routes
  <2>1. l[r] \in Entries /\ m[r] \in Entries /\ n[r] \in Entries
    BY DEF Ledgers
  <2> QED
    BY <2>1, EarlierTwice DEF Before
<1> QED
  BY <1>1 DEF Before, Ledgers

---------------------------------------------------------------------------
(* Types.  A route is verified once, and once more for every rerun.        *)

File2C   == [status : Statuses, sig : SUBSET Table]
Output   == [file : File2C, ledger : Ledgers, overlays : Ledgers]
File3    == [status : Statuses, sig : SUBSET Output]
Object2C == [status : Statuses, sig : SUBSET Table, errors : BOOLEAN]
Object3  == [status : Statuses, sig : SUBSET Output, errors : BOOLEAN]
Task     == [pc : {"free", "begin", "record", "overlays", "chunk"}, object : Slots \cup {0},
             rows : SUBSET Table, todo : SUBSET Routes, read : SUBSET Ledgers]
Request  == {Unasked} \cup [stage : Stages, seen : SUBSET Table]

Typed ==
  /\ rows \in Table /\ recording \in [Routes -> SUBSET Rows]
  /\ ledger \in Ledgers /\ overlays \in Ledgers /\ chunks \in SUBSET Ledgers
  /\ bypass \in BOOLEAN /\ waived \in SUBSET Ledgers
  /\ built = [s \in Stages |-> built[s]] /\ built.stage2c \in File2C /\ built.stage3 \in File3
  /\ requester \in [Requesters -> Request]
  /\ task \in [Stages -> [Slots -> Task]]
  /\ object = [s \in Stages |-> object[s]]
  /\ object.stage2c \in [Slots -> Object2C] /\ object.stage3 \in [Slots -> Object3]
  /\ newest \in [Stages -> Slots \cup {0}]

Counted ==
  asks \in 0 .. MaxAsks /\ \A r \in Routes : rows[r].ver <= asks + (IF rows[r].done THEN 1 ELSE 0)

(* A build under way has an object, and one that is about to begin will    *)
(* have the newest.                                                        *)
Owned ==
  \A s \in Stages, k \in Slots :
    /\ task[s][k].pc = "begin" => newest[s] # 0
    /\ task[s][k].pc \in {"record", "overlays", "chunk"} => task[s][k].object # 0

(* A chunk build has read one ledger.                                      *)
HasRead(k) == task["stage3"][k].pc \in {"overlays", "chunk"} =>
                \E l \in Ledgers : task["stage3"][k].read = {l}

LEMMA NoSlotIsZero == 0 \notin Slots
  BY DerivedAssumption

LEMMA Bound == MaxAsks \in Nat
  BY DerivedAssumption

LEMMA Empty ==
  /\ NoTask \in Task /\ NoObject \in Object2C /\ NoObject \in Object3
  /\ Unwritten \in File2C /\ Unwritten \in File3 /\ NoEntry \in Entries /\ Unasked \in Request
  BY Bound DEF NoTask, NoObject, Unwritten, NoEntry, Unasked, Task, Object2C, Object3, File2C, File3,
         Entries, Request, Statuses

LEMMA RecordedType ==
  ASSUME NEW l \in Ledgers, NEW r \in Routes, NEW row \in Rows
  PROVE  Recorded(l, r, row) \in Ledgers /\ Before(l, Recorded(l, r, row))
  BY DEF Recorded, Ledgers, Entries, Rows, Before, Earlier

LEMMA InitTyped == Init => Typed /\ Owned /\ Counted
<1> SUFFICES ASSUME Init PROVE Typed /\ Owned /\ Counted
  OBVIOUS
<1>1. rows \in Table /\ ledger \in Ledgers /\ Counted
  BY Empty, Bound DEF Init, Table, Rows, Ledgers, Counted
<1>2. Owned
  BY DEF Init, Owned, NoTask, Stages
<1> QED
  BY <1>1, <1>2, Empty DEF Init, Typed, Stages

LEMMA CompleteTyped ==
  ASSUME Typed, Counted, NEW r \in Routes, NEW kind \in {"clean", "fine", "doubtful"},
         Complete(r, kind)
  PROVE  Typed'
<1>1. rows[r].ver + 1 \in 0 .. MaxAsks + 1
  BY Bound DEF Typed, Counted, Complete, Table, Rows
<1>2. rows' \in Table /\ rows'[r] \in Rows
  BY <1>1 DEF Typed, Complete, Table, Rows
<1> QED
  BY <1>2 DEF Typed, Complete, bounds

LEMMA StoreTyped ==
  ASSUME Typed, NEW r \in Routes, NEW row \in Rows, Store(r, row)
  PROVE  ledger' \in Ledgers /\ overlays' \in Ledgers /\ Before(ledger, ledger')
  BY RecordedType DEF Typed, Store

LEMMA RecordTyped ==
  ASSUME Typed, NEW r \in Routes, Record(r)
  PROVE  Typed' /\ Before(ledger, ledger')
<1>1. ledger' \in Ledgers /\ overlays' \in Ledgers /\ Before(ledger, ledger')
  BY StoreTyped DEF Typed, Record
<1> QED
  BY <1>1 DEF Typed, Record, bounds

LEMMA ReviewTyped ==
  ASSUME Typed, NEW r \in Routes, Review(r) \/ Recover(r)
  PROVE  Typed' /\ Before(ledger, ledger')
<1>1. PICK lacks \in BOOLEAN : Rewrite(r, lacks)
  BY DEF Review, Recover
<1> DEFINE a == ledger[r]
           e == [ver |-> a.ver, writes |-> a.writes + 1, doubt |-> a.doubt, human |-> TRUE,
                 lacks |-> lacks]
<1>2. a \in Entries
  BY DEF Typed, Ledgers
<1>3. ledger' = [ledger EXCEPT ![r] = e] /\ overlays' = ledger'
  BY <1>1 DEF Rewrite
<1> HIDE DEF a
<1>5. e \in Entries /\ a.writes < e.writes
  BY <1>2 DEF Entries
<1> HIDE DEF e
<1>4. ledger' \in Ledgers /\ Before(ledger, ledger')
  BY <1>3, <1>5 DEF Typed, Ledgers, Before, Earlier, a
<1> QED
  BY <1>1, <1>3, <1>4 DEF Typed, Rewrite, memory

---------------------------------------------------------------------------
(* Every step keeps the types.                                             *)

LEMMA RecordingTyped ==
  ASSUME Typed, Counted, NEW r \in Routes, Complete(r, "clean") \/ Rerun(r) \/ RecordFails(r)
  PROVE  Typed'
<1>1. CASE Complete(r, "clean")
  BY <1>1, CompleteTyped
<1>2. CASE Rerun(r)
  <2>1. rows' \in Table
    <3>1. rows \in Table /\ rows[r] \in Rows
      BY DEF Typed, Table
    <3>2. [rows[r] EXCEPT !.done = FALSE] \in Rows
      BY <3>1 DEF Rows
    <3>3. rows' = [rows EXCEPT ![r] = [rows[r] EXCEPT !.done = FALSE]]
      BY <1>2 DEF Rerun
    <3> QED
      BY <3>1, <3>2, <3>3 DEF Table
  <2> QED
    BY <1>2, <2>1 DEF Typed, Rerun, memory
<1>3. CASE RecordFails(r)
  BY <1>3 DEF Typed, RecordFails, stored
<1> QED
  BY <1>1, <1>2, <1>3

LEMMA OutputTyped == ASSUME Typed PROVE Output2C \in Output
  BY DEF Typed, Output2C, Output

LEMMA RegisterTyped ==
  ASSUME Typed, Owned, NEW stage \in Stages, NEW k \in Unused(stage), NEW seen \in Table,
         Register(stage, k, seen)
  PROVE  /\ task' \in [Stages -> [Slots -> Task]]
         /\ object' = [s \in Stages |-> object'[s]]
         /\ object'.stage2c \in [Slots -> Object2C] /\ object'.stage3 \in [Slots -> Object3]
         /\ newest' \in [Stages -> Slots \cup {0}]
         /\ Owned'
<1>1. k \in Slots
  BY DEF Unused
<1>2. [NoTask EXCEPT !.pc = "begin", !.rows = {seen}] \in Task
  BY DEF NoTask, Task
<1>3. task' \in [Stages -> [Slots -> Task]] /\ newest' \in [Stages -> Slots \cup {0}]
  BY <1>1, <1>2 DEF Typed, Register
<1>4. object' = [s \in Stages |-> object'[s]]
  BY DEF Typed, Register
<1>5. object'.stage2c \in [Slots -> Object2C]
  <2>1. CASE stage = "stage2c"
    <3>1. [NoObject EXCEPT !.status = "queued", !.sig = {seen}] \in Object2C
      BY DEF NoObject, Object2C, Statuses
    <3> QED
      BY <2>1, <3>1, Empty DEF Typed, Register, Stages
  <2>2. CASE stage # "stage2c"
    BY <2>2 DEF Typed, Register, Stages
  <2> QED
    BY <2>1, <2>2
<1>6. object'.stage3 \in [Slots -> Object3]
  <2>1. CASE stage = "stage3"
    <3>1. [NoObject EXCEPT !.status = "queued", !.sig = {Output2C}] \in Object3
      BY OutputTyped DEF NoObject, Object3, Statuses
    <3> QED
      BY <2>1, <3>1, Empty DEF Typed, Register, Stages
  <2>2. CASE stage # "stage3"
    BY <2>2 DEF Typed, Register, Stages
  <2> QED
    BY <2>1, <2>2
<1>7. Owned'
  BY <1>1, NoSlotIsZero DEF Typed, Owned, Register, NoTask, Task
<1> QED
  BY <1>3, <1>4, <1>5, <1>6, <1>7

LEMMA RequestTyped ==
  ASSUME Typed, Owned, NEW q \in Requesters, RequestStep(q)
  PROVE  Typed' /\ Owned'
<1>1. CASE Create(q)
  <2> DEFINE stage == requester[q].stage
  <2>1. stage \in Stages
    BY <1>1 DEF Typed, Create, Request
  <2>2. requester' \in [Requesters -> Request]
    BY <1>1 DEF Typed, Create, Request
  <2>3. PICK seen \in requester[q].seen \cup (IF stage = "stage2c" THEN {rows} ELSE {}) :
             IF Accepted(stage, seen)
               THEN /\ Unused(stage) # {}
                    /\ Register(stage, CHOOSE k \in Unused(stage) : TRUE, seen)
               ELSE UNCHANGED <<task, object, newest>>
    BY <1>1 DEF Create
  <2>4. seen \in Table
    BY <1>1 DEF Typed, Create, Request
  <2>5. CASE Accepted(stage, seen)
    <3>1. PICK k \in Unused(stage) : Register(stage, k, seen)
      BY <2>3, <2>5
    <3>2. /\ task' \in [Stages -> [Slots -> Task]]
          /\ object' = [s \in Stages |-> object'[s]]
          /\ object'.stage2c \in [Slots -> Object2C] /\ object'.stage3 \in [Slots -> Object3]
          /\ newest' \in [Stages -> Slots \cup {0}]
          /\ Owned'
      BY <2>1, <2>4, <3>1, RegisterTyped
    <3> QED
      BY <1>1, <2>2, <3>2 DEF Typed, Create, stored
  <2>6. CASE ~Accepted(stage, seen)
    BY <1>1, <2>2, <2>3, <2>6 DEF Typed, Owned, Create, stored
  <2> QED
    BY <2>5, <2>6
<1>2. ASSUME NEW stage \in Stages, Ask(q, stage)
      PROVE  Typed' /\ Owned'
  <2>1. requester' \in [Requesters -> Request]
    BY <1>2 DEF Typed, Ask, Request, Stages, File2C
  <2> QED
    BY <1>2, <2>1 DEF Typed, Owned, Ask, stored
<1> QED
  BY <1>1, <1>2 DEF RequestStep

LEMMA BackfillTyped ==
  ASSUME Typed, Owned, NEW k \in Slots, BackfillStep(k)
  PROVE  Typed' /\ Owned'
<1> DEFINE t == task["stage2c"][k]
           o == Own("stage2c", k)
<1>1. /\ t \in Task
      /\ t.object # 0 => o \in Object2C
      /\ newest["stage2c"] # 0 => State("stage2c") \in Object2C
  BY DEF Typed, Own, State, Task, Stages
<1>2. ASSUME NEW u \in Task, NEW p \in Object2C, u.object # 0, Goes("stage2c", k, u, p),
             u.pc = "record"
      PROVE  /\ task' \in [Stages -> [Slots -> Task]]
             /\ object' = [s \in Stages |-> object'[s]]
             /\ object'.stage2c \in [Slots -> Object2C] /\ object'.stage3 = object.stage3
             /\ built' = [s \in Stages |-> built'[s]]
             /\ built'.stage2c \in File2C /\ built'.stage3 = built.stage3
             /\ newest' = newest => Owned'
  BY <1>2 DEF Goes, FileOf, Typed, Owned, Stages, Task, Object2C, File2C
<1>3. ASSUME NEW p \in Object2C, t.object # 0, Ends("stage2c", k, p)
      PROVE  /\ task' \in [Stages -> [Slots -> Task]]
             /\ object' = [s \in Stages |-> object'[s]]
             /\ object'.stage2c \in [Slots -> Object2C] /\ object'.stage3 = object.stage3
             /\ built' = [s \in Stages |-> built'[s]]
             /\ built'.stage2c \in File2C /\ built'.stage3 = built.stage3
             /\ newest' = newest => Owned'
  BY <1>3, Empty DEF Ends, FileOf, Typed, Owned, Stages, Task, Object2C, File2C, NoTask
<1>4. t.pc = "record" => t.object # 0
  BY DEF Owned, Stages
<1>5. CASE BackfillBegin(k)
  <2> DEFINE u == [t EXCEPT !.pc = "record", !.object = newest.stage2c,
                            !.todo = {r \in Routes : ledger[r].ver = 0}]
             p == [State("stage2c") EXCEPT !.status = "running"]
  <2>1. newest.stage2c # 0 /\ newest.stage2c \in Slots \cup {0}
    BY <1>5 DEF BackfillBegin, Typed, Owned, Stages
  <2>2. u \in Task /\ u.object # 0 /\ u.pc = "record" /\ p \in Object2C
    BY <1>1, <2>1 DEF Task, Object2C, Statuses
  <2>3. Goes("stage2c", k, u, p) /\ newest' = newest
    BY <1>5 DEF BackfillBegin
  <2> QED
    BY <1>2, <1>5, <2>2, <2>3 DEF BackfillBegin, Typed
<1>6. ASSUME NEW r \in Routes, BackfillRoute(k, r)
      PROVE  Typed' /\ Owned'
  <2>1. t.pc = "record" /\ t.object # 0 /\ o \in Object2C
    BY <1>1, <1>4, <1>6 DEF BackfillRoute
  <2>2. [t EXCEPT !.todo = @ \ {r}] \in Task
    BY <1>1 DEF Task
  <2>3. PICK seen \in t.rows : Store(r, seen[r])
    BY <1>6 DEF BackfillRoute
  <2>4. seen[r] \in Rows
    BY <1>1, <2>3 DEF Task, Table
  <2>5. ledger' \in Ledgers /\ overlays' \in Ledgers
    BY <2>3, <2>4, StoreTyped
  <2>6. Goes("stage2c", k, [t EXCEPT !.todo = @ \ {r}], o) /\ newest' = newest
    BY <1>6 DEF BackfillRoute
  <2>7. [t EXCEPT !.todo = @ \ {r}].pc = "record" /\ [t EXCEPT !.todo = @ \ {r}].object # 0
    BY <1>1, <2>1 DEF Task
  <2> QED
    BY <1>2, <1>6, <2>1, <2>2, <2>5, <2>6, <2>7 DEF BackfillRoute, Typed
<1>7. ASSUME NEW r \in Routes, BackfillRouteFails(k, r)
      PROVE  Typed' /\ Owned'
  <2>1. t.pc = "record" /\ t.object # 0 /\ o \in Object2C
    BY <1>1, <1>4, <1>7 DEF BackfillRouteFails
  <2>2. [t EXCEPT !.todo = @ \ {r}] \in Task /\ [o EXCEPT !.errors = TRUE] \in Object2C
    BY <1>1, <2>1 DEF Task, Object2C
  <2>3. Goes("stage2c", k, [t EXCEPT !.todo = @ \ {r}], [o EXCEPT !.errors = TRUE])
        /\ newest' = newest
    BY <1>7 DEF BackfillRouteFails
  <2>4. [t EXCEPT !.todo = @ \ {r}].pc = "record" /\ [t EXCEPT !.todo = @ \ {r}].object # 0
    BY <1>1, <2>1 DEF Task
  <2> QED
    BY <1>2, <1>7, <2>2, <2>3, <2>4 DEF BackfillRouteFails, Typed
<1>8. CASE BackfillWaits(k)
  <2>1. t.object # 0 /\ o \in Object2C
    BY <1>1, <1>4, <1>8 DEF BackfillWaits
  <2>2. [o EXCEPT !.status = "waiting_for_pi5"] \in Object2C
    BY <2>1 DEF Object2C, Statuses
  <2>3. Ends("stage2c", k, [o EXCEPT !.status = "waiting_for_pi5"]) /\ newest' = newest
    BY <1>8 DEF BackfillWaits
  <2> QED
    BY <1>3, <1>8, <2>1, <2>2, <2>3 DEF BackfillWaits, Typed
<1>9. CASE BackfillEnd(k)
  <2> DEFINE p == [o EXCEPT !.status = IF o.errors THEN "partial" ELSE "completed"]
  <2>1. t.object # 0 /\ o \in Object2C
    BY <1>1, <1>4, <1>9 DEF BackfillEnd
  <2>2. p \in Object2C
    BY <2>1 DEF Object2C, Statuses
  <2>3. Ends("stage2c", k, p) /\ newest' = newest
    BY <1>9 DEF BackfillEnd
  <2> QED
    BY <1>3, <1>9, <2>1, <2>2, <2>3 DEF BackfillEnd, Typed
<1> QED
  BY <1>5, <1>6, <1>7, <1>8, <1>9 DEF BackfillStep

LEMMA ChunksTyped ==
  ASSUME Typed, Owned, NEW k \in Slots, HasRead(k), ChunksStep(k)
  PROVE  Typed' /\ Owned'
<1> DEFINE t == task["stage3"][k]
           o == Own("stage3", k)
<1>1. /\ t \in Task
      /\ t.object # 0 => o \in Object3
      /\ newest["stage3"] # 0 => State("stage3") \in Object3
  BY DEF Typed, Own, State, Task, Stages
<1>2. ASSUME NEW p \in Object3, t.object # 0, Ends("stage3", k, p)
      PROVE  /\ task' \in [Stages -> [Slots -> Task]]
             /\ object' = [s \in Stages |-> object'[s]]
             /\ object'.stage3 \in [Slots -> Object3] /\ object'.stage2c = object.stage2c
             /\ built' = [s \in Stages |-> built'[s]]
             /\ built'.stage3 \in File3 /\ built'.stage2c = built.stage2c
             /\ newest' = newest => Owned'
  BY <1>2, Empty DEF Ends, FileOf, Typed, Owned, Stages, Task, Object3, File3, NoTask
<1>3. t.pc = "chunk" => t.object # 0
  BY DEF Owned, Stages
<1>4. CASE ChunksBegin(k)
  <2> DEFINE u == [t EXCEPT !.pc = "overlays", !.object = newest.stage3, !.read = {ledger}]
             p == [State("stage3") EXCEPT !.status = "running"]
  <2>1. newest.stage3 # 0 /\ newest.stage3 \in Slots \cup {0}
    BY <1>4 DEF ChunksBegin, Typed, Owned, Stages
  <2>2. u \in Task /\ u.object # 0 /\ u.pc = "overlays" /\ p \in Object3
    BY <1>1, <2>1 DEF Task, Object3, Statuses, Typed
  <2>3. Goes("stage3", k, u, p) /\ newest' = newest
    BY <1>4 DEF ChunksBegin
  <2>4. /\ task' \in [Stages -> [Slots -> Task]]
        /\ object' = [s \in Stages |-> object'[s]]
        /\ object'.stage3 \in [Slots -> Object3] /\ object'.stage2c = object.stage2c
        /\ built' = [s \in Stages |-> built'[s]]
        /\ built'.stage3 \in File3 /\ built'.stage2c = built.stage2c
        /\ Owned'
    BY <2>2, <2>3 DEF Goes, FileOf, Typed, Owned, Stages, Task, Object3, File3
  <2> QED
    BY <1>4, <2>4 DEF ChunksBegin, Typed
<1>5. CASE ChunksOverlays(k)
  <2>1. PICK l \in Ledgers : t.read = {l}
    BY <1>5 DEF HasRead, ChunksOverlays
  <2>2. overlays' \in Ledgers
    BY <1>5, <2>1 DEF ChunksOverlays
  <2> DEFINE u == [t EXCEPT !.pc = "chunk"]
  <2>3. u \in Task /\ u.pc = "chunk" /\ u.object = t.object /\ t.object # 0
    BY <1>1, <1>5 DEF ChunksOverlays, Owned, Task, Stages
  <2>4. task' = [task EXCEPT !["stage3"][k] = u] /\ newest' = newest
    BY <1>5 DEF ChunksOverlays, Typed, Stages
  <2> HIDE DEF u
  <2>5. task' \in [Stages -> [Slots -> Task]] /\ Owned'
    BY <2>3, <2>4 DEF Typed, Owned, Stages
  <2> QED
    BY <1>5, <2>2, <2>5 DEF ChunksOverlays, Typed
<1>6. CASE ChunksEnd(k)
  <2>1. t.object # 0 /\ o \in Object3
    BY <1>1, <1>3, <1>6 DEF ChunksEnd
  <2>2. [o EXCEPT !.status = "completed"] \in Object3 /\ t.read \in SUBSET Ledgers
    BY <1>1, <2>1 DEF Object3, Statuses, Task
  <2>3. Ends("stage3", k, [o EXCEPT !.status = "completed"]) /\ newest' = newest
    BY <1>6 DEF ChunksEnd
  <2> QED
    BY <1>2, <1>6, <2>1, <2>2, <2>3 DEF ChunksEnd, Typed
<1>7. CASE ChunksFail(k)
  <2>1. t.object # 0 /\ o \in Object3
    BY <1>1, <1>3, <1>7 DEF ChunksFail
  <2>2. [o EXCEPT !.status = "failed"] \in Object3
    BY <2>1 DEF Object3, Statuses
  <2>3. Ends("stage3", k, [o EXCEPT !.status = "failed"]) /\ newest' = newest
    BY <1>7 DEF ChunksFail
  <2> QED
    BY <1>2, <1>7, <2>1, <2>2, <2>3 DEF ChunksFail, Typed
<1> QED
  BY <1>4, <1>5, <1>6, <1>7 DEF ChunksStep

LEMMA ForgetTyped ==
  ASSUME Typed, Forget, UNCHANGED waived,
         stored' = stored \/ (UNCHANGED <<rows, ledger, overlays, bypass, built>>
                                             /\ chunks' \in SUBSET Ledgers)
  PROVE  Typed' /\ Owned'
<1>1. Owned'
  BY DEF Owned, Forget, NoTask, Stages
<1> QED
  BY <1>1, Empty DEF Typed, Forget, stored, Stages

---------------------------------------------------------------------------
(* Stage 3.  Every signature was taken of an earlier ledger than the one   *)
(* that is there, and every build reads the ledger after its signature was *)
(* taken: the chunks may be newer than the signature, and never older.     *)

Signed == built.stage3.sig \cup UNION {object.stage3[k].sig : k \in Slots}

SignedBefore(l) == \A o \in Signed : Before(o.ledger, l)

(* The newest build reads after every signature there is.                  *)
ReadAfter(k) ==
  task.stage3[k].pc \in {"overlays", "chunk"} =>
    \E l \in Ledgers :
      /\ task.stage3[k].read = {l} /\ Before(l, ledger)
      /\ \A o \in object.stage3[task.stage3[k].object].sig : Before(o.ledger, l)
      /\ k = newest.stage3 => SignedBefore(l)

ChunksAfter ==
  Torn = "newest" /\ built.stage3.status = "completed" =>
    \E l \in Ledgers :
      /\ chunks = {l} /\ Before(l, ledger)
      /\ \A o \in built.stage3.sig : Before(o.ledger, l)

(* No signature was taken while a person owed a decision, except under the *)
(* bypass.                                                                 *)
Audited == \A o \in Signed : Blocking(o.ledger) = {} \/ o.ledger \in waived

InOrder == SignedBefore(ledger) /\ (\A k \in Slots : ReadAfter(k)) /\ ChunksAfter

IInv == Typed /\ Owned /\ Counted /\ InOrder

LEMMA SignedType == ASSUME Typed PROVE \A o \in Signed : o.ledger \in Ledgers
  BY DEF Typed, Signed, Output, File3, Object3

Stage3 == <<built.stage3, object.stage3, task.stage3, newest.stage3, chunks>>

LEMMA AsideInOrder ==
  ASSUME IInv, ledger' \in Ledgers, Before(ledger, ledger'), UNCHANGED Stage3
  PROVE  InOrder'
<1> USE DEF IInv, Stage3
<1>1. ASSUME NEW l \in Ledgers, Before(l, ledger)
      PROVE  Before(l, ledger')
  BY <1>1, BeforeTwice DEF Typed
<1>2. Signed' = Signed
  BY DEF Signed
<1>3. SignedBefore(ledger)'
  BY <1>1, <1>2, SignedType DEF InOrder, SignedBefore
<1>4. ASSUME NEW k \in Slots
      PROVE  ReadAfter(k)'
  <2>1. ReadAfter(k)
    BY DEF InOrder
  <2> QED
    BY <2>1, <1>1, <1>2 DEF ReadAfter, SignedBefore
<1>5. ChunksAfter'
  BY <1>1 DEF InOrder, ChunksAfter
<1> QED
  BY <1>3, <1>4, <1>5 DEF InOrder

LEMMA RegisterInOrder ==
  ASSUME IInv, NEW k \in Unused("stage3"), NEW seen, Register("stage3", k, seen),
         UNCHANGED <<ledger, overlays, built, chunks>>
  PROVE  InOrder'
<1> USE DEF IInv
<1>1. k \in Slots /\ task.stage3[k].pc = "free"
  BY DEF Unused
<1>2. Signed' \subseteq Signed \cup {Output2C}
  <2>1. \A j \in Slots : object'.stage3[j].sig \subseteq object.stage3[j].sig \cup {Output2C}
    BY DEF Register, Typed, Stages, NoObject
  <2> QED
    BY <2>1 DEF Signed
<1>3. SignedBefore(ledger)'
  BY <1>2, BeforeSame DEF InOrder, SignedBefore, Output2C
<1>4. newest'.stage3 = k /\ task'.stage3[k].pc = "begin"
  BY <1>1 DEF Register, Typed, Stages, NoTask
<1>5. ASSUME NEW j \in Slots, j # k
      PROVE  /\ task'.stage3[j] = task.stage3[j]
             /\ task.stage3[j].object # 0 =>
                  object'.stage3[task.stage3[j].object] = object.stage3[task.stage3[j].object]
  <2>1. task'.stage3[j] = task.stage3[j]
    BY <1>5 DEF Register, Typed, Stages
  <2>2. task.stage3[j].object \in Slots \cup {0} /\ task.stage3[j].object # k
    BY DEF Unused, Typed, Task, Stages
  <2>3. ASSUME NEW i \in Slots, i = task.stage3[j].object
        PROVE  object'.stage3[i] = object.stage3[i]
    BY <2>2, <2>3 DEF Register, Typed, Stages
  <2> QED
    BY <2>1, <2>2, <2>3
<1>6. ASSUME NEW j \in Slots
      PROVE  ReadAfter(j)'
  <2>1. CASE j = k
    BY <1>4, <2>1 DEF ReadAfter
  <2>2. CASE j # k
    <3>1. ReadAfter(j) /\ (task.stage3[j].pc \in {"overlays", "chunk"} => task.stage3[j].object # 0)
      BY DEF InOrder, Owned, Stages
    <3> QED
      BY <1>4, <1>5, <2>2, <3>1 DEF ReadAfter
  <2> QED
    BY <2>1, <2>2
<1>7. ChunksAfter'
  BY DEF InOrder, ChunksAfter
<1> QED
  BY <1>3, <1>6, <1>7 DEF InOrder

LEMMA ChunksInOrder ==
  ASSUME IInv, NEW k \in Slots, ChunksStep(k)
  PROVE  InOrder' /\ ledger' = ledger
<1> USE DEF IInv
<1> DEFINE t == task.stage3[k]
           n == t.object
<1>1. ledger' = ledger /\ newest' = newest
  BY DEF ChunksStep, ChunksBegin, ChunksOverlays, ChunksEnd, ChunksFail
<1>2. ReadAfter(k) /\ t \in Task /\ (t.pc \in {"overlays", "chunk"} => n \in Slots)
  BY DEF InOrder, Owned, Typed, Task, Stages
<1>3. ASSUME NEW j \in Slots, NEW st, NEW e,
             Ends("stage3", k, [Own("stage3", k) EXCEPT !.status = st]) , n \in Slots
      PROVE  /\ built'.stage3 = [status |-> st, sig |-> object.stage3[n].sig]
             /\ object'.stage3[j].sig = object.stage3[j].sig
             /\ task'.stage3[j] = IF j = k THEN NoTask ELSE task.stage3[j]
  BY <1>3 DEF Ends, FileOf, Own, Typed, Stages, Object3
<1>4. ASSUME /\ \A j \in Slots : object'.stage3[j].sig = object.stage3[j].sig
             /\ built'.stage3.sig \subseteq Signed
      PROVE  Signed' \subseteq Signed /\ SignedBefore(ledger)'
  <2>1. Signed' \subseteq Signed
    BY <1>4 DEF Signed
  <2> QED
    BY <1>1, <2>1 DEF InOrder, SignedBefore
<1>5. ASSUME NEW j \in Slots, Signed' \subseteq Signed,
             \A i \in Slots : object'.stage3[i].sig = object.stage3[i].sig,
             task'.stage3[j] = task.stage3[j]
      PROVE  ReadAfter(j)'
  <2>1. ReadAfter(j) /\ (task.stage3[j].pc \in {"overlays", "chunk"} => task.stage3[j].object \in Slots)
    BY DEF InOrder, Owned, Typed, Task, Stages
  <2> QED
    BY <1>1, <1>5, <2>1 DEF ReadAfter, SignedBefore
<1>6. CASE ChunksBegin(k)
  <2> DEFINE m == newest.stage3
  <2>1. m \in Slots
    BY <1>6 DEF ChunksBegin, Typed, Owned, Stages
  <2>2. /\ built'.stage3 = [status |-> "running", sig |-> object.stage3[m].sig]
        /\ \A j \in Slots : object'.stage3[j].sig = object.stage3[j].sig
        /\ \A j \in Slots \ {k} : task'.stage3[j] = task.stage3[j]
        /\ task'.stage3[k].read = {ledger} /\ task'.stage3[k].object = m
    <3> DEFINE u == [t EXCEPT !.pc = "overlays", !.object = m, !.read = {ledger}]
               p == [object.stage3[m] EXCEPT !.status = "running"]
    <3>1. State("stage3") = object.stage3[m]
      BY <2>1, NoSlotIsZero DEF State
    <3>2. Goes("stage3", k, u, p)
      BY <1>6, <3>1 DEF ChunksBegin
    <3>3. u.read = {ledger} /\ u.object = m /\ p.status = "running" /\ p.sig = object.stage3[m].sig
      BY <1>2, <2>1 DEF Task, Object3, Typed
    <3> HIDE DEF u, p
    <3> QED
      BY <2>1, <3>2, <3>3 DEF Goes, FileOf, Typed, Stages
  <2>3. Signed' \subseteq Signed /\ SignedBefore(ledger)'
    BY <1>4, <2>1, <2>2 DEF Signed
  <2>4. ReadAfter(k)'
    <3>1. \A o \in object'.stage3[m].sig : Before(o.ledger, ledger)
      BY <2>1, <2>2 DEF InOrder, SignedBefore, Signed
    <3> QED
      BY <1>1, <2>2, <2>3, <3>1, BeforeSame DEF ReadAfter, Typed
  <2>5. \A j \in Slots : ReadAfter(j)'
    BY <1>5, <2>2, <2>3, <2>4
  <2>6. ChunksAfter'
    BY <2>2 DEF ChunksAfter
  <2> QED
    BY <1>1, <2>3, <2>5, <2>6 DEF InOrder
<1>7. CASE ChunksOverlays(k)
  <2>1. UNCHANGED <<built, object, chunks, newest>>
    BY <1>7 DEF ChunksOverlays
  <2>2. /\ \A j \in Slots \ {k} : task'.stage3[j] = task.stage3[j]
        /\ task'.stage3[k].read = t.read /\ task'.stage3[k].object = n /\ t.pc = "overlays"
    BY <1>7 DEF ChunksOverlays, Typed, Stages, Task
  <2>3. Signed' \subseteq Signed /\ SignedBefore(ledger)'
    BY <1>4, <2>1 DEF Signed
  <2>4. ReadAfter(k)'
    BY <1>1, <1>2, <2>1, <2>2, <2>3 DEF ReadAfter, SignedBefore
  <2>5. \A j \in Slots : ReadAfter(j)'
    BY <1>5, <2>1, <2>2, <2>3, <2>4
  <2>6. ChunksAfter'
    BY <1>1, <2>1 DEF InOrder, ChunksAfter
  <2> QED
    BY <1>1, <2>3, <2>5, <2>6 DEF InOrder
<1>8. ASSUME NEW st, Ends("stage3", k, [Own("stage3", k) EXCEPT !.status = st]), t.pc = "chunk",
             st = "completed" => chunks' = t.read
      PROVE  InOrder'
  <2>1. n \in Slots
    BY <1>2, <1>8
  <2>2. /\ built'.stage3 = [status |-> st, sig |-> object.stage3[n].sig]
        /\ \A j \in Slots : object'.stage3[j].sig = object.stage3[j].sig
        /\ \A j \in Slots : task'.stage3[j] = IF j = k THEN NoTask ELSE task.stage3[j]
    BY <1>3, <1>8, <2>1
  <2>3. Signed' \subseteq Signed /\ SignedBefore(ledger)'
    BY <1>4, <2>1, <2>2 DEF Signed
  <2>4. ReadAfter(k)'
    BY <2>2 DEF ReadAfter, NoTask
  <2>5. \A j \in Slots : ReadAfter(j)'
    BY <1>5, <2>2, <2>3, <2>4
  <2>6. ChunksAfter'
    BY <1>1, <1>2, <1>8, <2>2 DEF ReadAfter, ChunksAfter
  <2> QED
    BY <1>1, <2>3, <2>5, <2>6 DEF InOrder
<1>9. CASE ChunksEnd(k)
  BY <1>8, <1>9 DEF ChunksEnd
<1>10. CASE ChunksFail(k)
  BY <1>8, <1>10 DEF ChunksFail
<1> QED
  BY <1>1, <1>6, <1>7, <1>9, <1>10 DEF ChunksStep

LEMMA ForgetInOrder ==
  ASSUME IInv, Crash \/ \E k \in Slots : CrashInChunksEnd(k)
  PROVE  Typed' /\ Owned' /\ InOrder' /\ ledger' = ledger
<1> USE DEF IInv
<1>1. Forget /\ UNCHANGED <<rows, ledger, overlays, bypass, built, waived>>
  BY DEF Crash, CrashInChunksEnd, stored
<1>2. /\ \A k \in Slots : task'.stage3[k] = NoTask /\ object'.stage3[k] = NoObject
      /\ Signed' \subseteq Signed
  BY <1>1 DEF Forget, Stages, Signed, NoObject
<1>3. SignedBefore(ledger)' /\ \A k \in Slots : ReadAfter(k)'
  BY <1>1, <1>2 DEF InOrder, SignedBefore, ReadAfter, NoTask
<1>4. CASE Crash
  <2>1. ChunksAfter'
    BY <1>1, <1>4 DEF InOrder, ChunksAfter, Crash, stored
  <2>2. Typed' /\ Owned'
    BY <1>1, <1>4, ForgetTyped DEF Crash
  <2> QED
    BY <1>1, <1>3, <2>1, <2>2 DEF InOrder
<1>5. ASSUME NEW k \in Slots, CrashInChunksEnd(k)
      PROVE  Typed' /\ Owned' /\ InOrder'
  <2>1. PICK l \in Ledgers :
          /\ task.stage3[k].read = {l} /\ Before(l, ledger)
          /\ k = newest.stage3 => SignedBefore(l)
    BY <1>5 DEF CrashInChunksEnd, InOrder, ReadAfter
  <2>2. chunks' = {l} /\ (Torn = "newest" => SignedBefore(l))
    BY <1>5, <2>1 DEF CrashInChunksEnd
  <2>3. ChunksAfter'
    BY <1>1, <2>1, <2>2 DEF ChunksAfter, SignedBefore, Signed
  <2>4. Typed' /\ Owned'
    BY <1>1, <2>2, ForgetTyped
  <2> QED
    BY <1>3, <2>3, <2>4 DEF InOrder
<1> QED
  BY <1>1, <1>4, <1>5

---------------------------------------------------------------------------
(* The invariant, and what follows of it.                                  *)

LEMMA NextCounted ==
  ASSUME Typed, Counted, [Next]_vars
  PROVE  Counted'
<1> USE Bound DEF Counted
<1>1. ASSUME NEW r \in Routes, NEW kind \in {"clean", "fine", "doubtful"}, Complete(r, kind)
      PROVE  Counted'
  <2>1. /\ asks' = asks /\ rows[r].ver <= asks /\ rows[r].ver \in Nat
        /\ rows' = [rows EXCEPT ![r] = [text |-> rows[r].text, done |-> TRUE,
                                         ver |-> rows[r].ver + 1, kind |-> kind]]
    BY <1>1 DEF Complete, bounds, Typed, Table, Rows
  <2> QED
    BY <2>1 DEF Typed, Table
<1>2. ASSUME NEW r \in Routes, Rerun(r)
      PROVE  Counted'
  <2>1. \A i \in Routes : rows'[i].ver = rows[i].ver /\ rows[i].ver \in Nat
                         /\ rows[i].ver <= asks + 1
    BY <1>2 DEF Rerun, Typed, Table, Rows
  <2>2. asks' = asks + 1 /\ asks' \in 0 .. MaxAsks
    BY <1>2 DEF Rerun
  <2> QED
    BY <2>1, <2>2
<1>3. ASSUME rows' = rows, asks' = asks \/ (asks < MaxAsks /\ asks' = asks + 1)
      PROVE  Counted'
  <2>1. \A r \in Routes : rows[r].ver \in Nat
    BY DEF Typed, Table, Rows
  <2> QED
    BY <1>3, <2>1
<1>4. ASSUME NEW r \in Routes, Record(r) \/ RecordFails(r) \/ Review(r) \/ Recover(r)
      PROVE  Counted'
  BY <1>3, <1>4 DEF Record, RecordFails, Review, Recover, Rewrite, stored, bounds
<1>5. ASSUME NEW q \in Requesters, RequestStep(q)
      PROVE  Counted'
  BY <1>3, <1>5 DEF RequestStep, Create, Ask, stored, bounds
<1>6. ASSUME NEW k \in Slots, BackfillStep(k) \/ ChunksStep(k) \/ CrashInChunksEnd(k)
      PROVE  Counted'
  BY <1>3, <1>6 DEF BackfillStep, BackfillBegin, BackfillRoute, BackfillRouteFails, BackfillWaits,
       BackfillEnd, ChunksStep, ChunksBegin, ChunksOverlays, ChunksEnd, ChunksFail,
       CrashInChunksEnd, bounds
<1>7. CASE Crash \/ UNCHANGED vars \/ \E enabled \in BOOLEAN : SetBypass(enabled)
  BY <1>3, <1>7 DEF Crash, SetBypass, stored, bounds, vars
<1> QED
  BY <1>1, <1>2, <1>4, <1>5, <1>6, <1>7 DEF Next

(* A route stays a text, or a picture.                                     *)
LEMMA TextsKept ==
  ASSUME Typed, [Next]_vars
  PROVE  Texts' = Texts
<1>1. CASE rows' = rows
  BY <1>1 DEF Texts
<1>2. ASSUME NEW r \in Routes, NEW kind \in {"clean", "fine", "doubtful"}, Complete(r, kind)
      PROVE  Texts' = Texts
  <2>1. rows' = [rows EXCEPT ![r] = [text |-> rows[r].text, done |-> TRUE,
                                     ver |-> rows[r].ver + 1, kind |-> kind]]
    BY <1>2 DEF Complete
  <2>2. \A i \in Routes : rows'[i].text = rows[i].text
    BY <2>1 DEF Typed, Table
  <2> QED
    BY <2>2 DEF Texts
<1>3. ASSUME NEW r \in Routes, Rerun(r)
      PROVE  Texts' = Texts
  <2>1. \A i \in Routes : rows'[i].text = rows[i].text
    BY <1>3 DEF Rerun, Typed, Table, Rows
  <2> QED
    BY <2>1 DEF Texts
<1>4. ASSUME NEW r \in Routes, Record(r) \/ RecordFails(r) \/ Review(r) \/ Recover(r)
      PROVE  rows' = rows
  BY <1>4 DEF Record, RecordFails, Review, Recover, Rewrite, stored
<1>5. ASSUME NEW q \in Requesters, RequestStep(q)
      PROVE  rows' = rows
  BY <1>5 DEF RequestStep, Create, Ask, stored
<1>6. ASSUME NEW k \in Slots, BackfillStep(k) \/ ChunksStep(k) \/ CrashInChunksEnd(k)
      PROVE  rows' = rows
  BY <1>6 DEF BackfillStep, BackfillBegin, BackfillRoute, BackfillRouteFails, BackfillWaits,
       BackfillEnd, ChunksStep, ChunksBegin, ChunksOverlays, ChunksEnd, ChunksFail,
       CrashInChunksEnd
<1>7. CASE Crash \/ UNCHANGED vars \/ \E enabled \in BOOLEAN : SetBypass(enabled)
  BY <1>1, <1>7 DEF Crash, SetBypass, stored, vars
<1> QED
  BY <1>1, <1>2, <1>3, <1>4, <1>5, <1>6, <1>7 DEF Next

LEMMA InitIInv == Init => IInv
<1> SUFFICES ASSUME Init PROVE IInv
  OBVIOUS
<1>1. Signed = {} /\ \A k \in Slots : task.stage3[k].pc = "free"
  BY DEF Init, Signed, Unwritten, NoObject, NoTask, Stages
<1>2. InOrder
  BY <1>1 DEF Init, InOrder, SignedBefore, ReadAfter, ChunksAfter, Unwritten, Stages
<1> QED
  BY <1>2, InitTyped DEF IInv

(* A step that leaves stage 3 as it is.                                    *)
LEMMA AsideStep ==
  ASSUME IInv, Typed', Owned', Counted', Before(ledger, ledger'), UNCHANGED Stage3
  PROVE  IInv' /\ Before(ledger, ledger')
  BY AsideInOrder DEF IInv, Typed

LEMMA NextIInv ==
  ASSUME IInv, [Next]_vars
  PROVE  /\ IInv' /\ Before(ledger, ledger')
         /\ ledger' = ledger \/ built'.stage3 = built.stage3
<1> DEFINE Goal == /\ IInv' /\ Before(ledger, ledger')
                   /\ ledger' = ledger \/ built'.stage3 = built.stage3
<1>0. Counted'
  BY NextCounted DEF IInv
<1> USE BeforeSame, <1>0
<1>1. ASSUME NEW r \in Routes, NEW kind \in {"clean", "fine", "doubtful"}, Complete(r, kind)
      PROVE  Goal
  <2>1. Typed' /\ Owned' /\ ledger' = ledger /\ UNCHANGED Stage3
    BY <1>1, CompleteTyped DEF IInv, Complete, Owned, Stage3
  <2> QED
    BY <2>1, AsideStep
<1>2. ASSUME NEW r \in Routes, Rerun(r) \/ RecordFails(r)
      PROVE  Goal
  <2>1. Typed' /\ Owned' /\ ledger' = ledger /\ UNCHANGED Stage3
    BY <1>2, RecordingTyped DEF IInv, Rerun, RecordFails, stored, memory, Owned, Stage3
  <2> QED
    BY <2>1, AsideStep
<1>3. ASSUME NEW r \in Routes, Record(r) \/ Review(r) \/ Recover(r)
      PROVE  Goal
  <2>1. Typed' /\ Before(ledger, ledger')
    BY <1>3, RecordTyped, ReviewTyped DEF IInv
  <2>2. Owned' /\ UNCHANGED Stage3
    BY <1>3 DEF IInv, Record, Review, Recover, Rewrite, memory, Owned, Stage3
  <2> QED
    BY <2>1, <2>2, AsideStep DEF Stage3
<1>4. ASSUME NEW q \in Requesters, RequestStep(q)
      PROVE  Goal
  <2>1. Typed' /\ Owned'
    BY <1>4, RequestTyped DEF IInv
  <2>2. UNCHANGED <<ledger, overlays, built, chunks>>
    BY <1>4 DEF RequestStep, Create, Ask, stored
  <2>3. CASE UNCHANGED <<task, object, newest>>
    BY <2>1, <2>2, <2>3, AsideStep DEF Stage3
  <2>4. ASSUME NEW stage \in Stages, NEW k \in Unused(stage), NEW seen, Register(stage, k, seen)
        PROVE  Goal
    <3>1. CASE stage = "stage3"
      <4>1. InOrder'
        BY <2>2, <2>4, <3>1, RegisterInOrder
      <4> QED
        BY <2>1, <2>2, <4>1 DEF IInv
    <3>2. CASE stage = "stage2c"
      <4>1. UNCHANGED Stage3
        BY <2>2, <2>4, <3>2 DEF Stage3, Register, IInv, Typed, Stages
      <4> QED
        BY <2>1, <2>2, <4>1, AsideStep
    <3> QED
      BY <3>1, <3>2 DEF Stages
  <2>5. \/ UNCHANGED <<task, object, newest>>
        \/ \E stage \in Stages : \E k \in Unused(stage) : \E seen : Register(stage, k, seen)
    <3>1. CASE Create(q)
      <4>1. requester[q].stage \in Stages
        BY <3>1 DEF Create, IInv, Typed, Request
      <4>2. PICK seen : IF Accepted(requester[q].stage, seen)
                          THEN /\ Unused(requester[q].stage) # {}
                               /\ Register(requester[q].stage,
                                           CHOOSE k \in Unused(requester[q].stage) : TRUE, seen)
                          ELSE UNCHANGED <<task, object, newest>>
        BY <3>1 DEF Create
      <4>3. CASE Accepted(requester[q].stage, seen)
        <5>1. \E k \in Unused(requester[q].stage) : Register(requester[q].stage, k, seen)
          BY <4>2, <4>3
        <5> QED
          BY <4>1, <5>1
      <4> QED
        BY <4>2, <4>3
    <3>2. CASE \E stage \in Stages : Ask(q, stage)
      BY <3>2 DEF Ask
    <3> QED
      BY <1>4, <3>1, <3>2 DEF RequestStep
  <2> QED
    BY <2>3, <2>4, <2>5
<1>5. ASSUME NEW k \in Slots, BackfillStep(k)
      PROVE  Goal
  <2>1. Typed' /\ Owned'
    BY <1>5, BackfillTyped DEF IInv
  <2>2. Before(ledger, ledger')
    <3>1. ASSUME NEW r \in Routes, BackfillRoute(k, r)
          PROVE  Before(ledger, ledger')
      <4>1. PICK seen \in task["stage2c"][k].rows : Store(r, seen[r])
        BY <3>1 DEF BackfillRoute
      <4>2. seen[r] \in Rows
        BY <4>1 DEF IInv, Typed, Task, Table, Stages
      <4> QED
        BY <4>1, <4>2, StoreTyped DEF IInv
    <3>2. CASE ledger' = ledger
      BY <3>2
    <3>3. ledger' = ledger \/ \E r \in Routes : BackfillRoute(k, r)
      BY <1>5 DEF BackfillStep, BackfillBegin, BackfillRouteFails, BackfillWaits, BackfillEnd
    <3> QED
      BY <3>1, <3>2, <3>3
  <2>3. UNCHANGED Stage3
    BY <1>5 DEF BackfillStep, BackfillBegin, BackfillRoute, BackfillRouteFails, BackfillWaits,
                BackfillEnd, Goes, Ends, Stage3, IInv, Typed, Stages
  <2> QED
    BY <2>1, <2>2, <2>3, AsideStep DEF Stage3
<1>6. ASSUME NEW k \in Slots, ChunksStep(k)
      PROVE  Goal
  <2>1. InOrder' /\ ledger' = ledger
    BY <1>6, ChunksInOrder
  <2>2. HasRead(k)
    BY DEF HasRead, IInv, InOrder, ReadAfter
  <2>3. Typed' /\ Owned'
    BY <1>6, <2>2, ChunksTyped DEF IInv
  <2> QED
    BY <2>1, <2>3 DEF IInv
<1>7. CASE Crash \/ \E k \in Slots : CrashInChunksEnd(k)
  <2>1. Typed' /\ Owned' /\ InOrder' /\ ledger' = ledger
    BY <1>7, ForgetInOrder
  <2> QED
    BY <2>1 DEF IInv
<1>8. CASE UNCHANGED vars \/ \E enabled \in BOOLEAN : SetBypass(enabled)
  <2>1. Typed' /\ Owned' /\ ledger' = ledger /\ UNCHANGED Stage3
    BY <1>8 DEF IInv, SetBypass, memory, vars, Typed, Owned, Stage3
  <2> QED
    BY <2>1, AsideStep
<1> QED
  BY <1>1, <1>2, <1>3, <1>4, <1>5, <1>6, <1>7, <1>8 DEF Next

(* The types, the ownership of the state objects and the order of the      *)
(* signatures, for every schedule of the tasks, every failure and death.   *)
THEOREM Invariance == Spec => []IInv
<1>1. Init => IInv
  BY InitIInv
<1>2. IInv /\ [Next]_vars => IInv'
  BY NextIInv
<1> QED
  BY <1>1, <1>2, PTL DEF Spec

LEMMA CurrentOfIInv == ASSUME Torn = "newest" PROVE IInv => ChunksCurrent
<1> SUFFICES ASSUME IInv, Current3 PROVE chunks = {ledger}
  BY DEF ChunksCurrent
<1>1. PICK l \in Ledgers : /\ chunks = {l} /\ Before(l, ledger)
                          /\ \A o \in built.stage3.sig : Before(o.ledger, l)
  BY DEF IInv, InOrder, ChunksAfter, Current3
<1>2. Before(ledger, l)
  BY <1>1 DEF Current3, Output2C
<1> QED
  BY <1>1, <1>2, BeforeTwice DEF IInv, Typed

(* Chunks taken for current (stage3_freshness, pipeline_state.py:168) are  *)
(* those of the ledger, however many builds, records and reviews overlap   *)
(* and wherever the process dies.                                          *)
THEOREM CurrentChunks == ASSUME Torn = "newest" PROVE Spec => []ChunksCurrent
  BY Invariance, CurrentOfIInv, PTL

Admitted == Blocking(ledger) = {} \/ ledger \in waived'

LEMMA NextSigned ==
  ASSUME IInv, [Next]_vars
  PROVE  /\ Signed' \subseteq Signed \cup {o \in {Output2C} : Admitted}
         /\ waived \subseteq waived'
<1> USE DEF IInv
<1>0. waived \subseteq waived'
  <2> SUFFICES waived' = waived \/ \E q \in Requesters : Create(q)
    BY DEF Create
  <2>1. ASSUME NEW r \in Routes, \/ \E kind \in {"clean", "fine", "doubtful"} : Complete(r, kind)
                                 \/ Rerun(r) \/ Record(r) \/ RecordFails(r) \/ Review(r)
                                 \/ Recover(r)
        PROVE  waived' = waived
    BY <2>1 DEF Complete, Rerun, Record, RecordFails, Review, Recover, Rewrite
  <2>2. ASSUME NEW q \in Requesters, NEW stage \in Stages, Ask(q, stage)
        PROVE  waived' = waived
    BY <2>2 DEF Ask
  <2>3. ASSUME NEW k \in Slots, BackfillStep(k) \/ ChunksStep(k) \/ CrashInChunksEnd(k)
        PROVE  waived' = waived
    BY <2>3 DEF BackfillStep, BackfillBegin, BackfillRoute, BackfillRouteFails, BackfillWaits,
         BackfillEnd, ChunksStep, ChunksBegin, ChunksOverlays, ChunksEnd, ChunksFail,
         CrashInChunksEnd
  <2>4. CASE Crash \/ UNCHANGED vars \/ \E enabled \in BOOLEAN : SetBypass(enabled)
    BY <2>4 DEF Crash, SetBypass, vars
  <2> QED
    BY <2>1, <2>2, <2>3, <2>4 DEF Next, RequestStep
<1>1. CASE UNCHANGED Stage3
  BY <1>0, <1>1 DEF Stage3, Signed
<1>2. ASSUME NEW q \in Requesters, Create(q), ~UNCHANGED Stage3
      PROVE  Signed' \subseteq Signed \cup {o \in {Output2C} : Admitted}
  <2> DEFINE stage == requester[q].stage
  <2>1. PICK seen : IF Accepted(stage, seen)
                      THEN /\ Unused(stage) # {}
                           /\ Register(stage, CHOOSE k \in Unused(stage) : TRUE, seen)
                      ELSE UNCHANGED <<task, object, newest>>
    BY <1>2 DEF Create
  <2>2. UNCHANGED <<built, chunks>> /\ stage \in Stages
    BY <1>2 DEF Create, stored, Typed, Request
  <2>3. Accepted(stage, seen)
    BY <1>2, <2>1, <2>2 DEF Stage3
  <2>4. PICK k \in Unused(stage) : Register(stage, k, seen)
    BY <2>1, <2>3
  <2>5. stage = "stage3"
    BY <1>2, <2>2, <2>4 DEF Stage3, Register, Typed, Stages
  <2>6. Admitted
    <3>1. AuditOpen
      BY <2>3, <2>5 DEF Accepted
    <3>2. bypass /\ Blocking(ledger) # {} => waived' = waived \cup {ledger}
      BY <1>2, <2>5 DEF Create
    <3> QED
      BY <3>1, <3>2 DEF Admitted, AuditOpen
  <2>7. \A j \in Slots : object'.stage3[j].sig \subseteq object.stage3[j].sig \cup {Output2C}
    BY <2>4, <2>5 DEF Register, Typed, Stages, NoObject
  <2> QED
    BY <2>2, <2>6, <2>7 DEF Signed
<1>3. ASSUME NEW k \in Slots, ChunksStep(k)
      PROVE  Signed' \subseteq Signed
  <2>1. task.stage3[k].pc # "begin" => task.stage3[k].object \in Slots
    BY <1>3 DEF ChunksStep, ChunksBegin, ChunksOverlays, ChunksEnd, ChunksFail, Typed, Owned,
                Task, Stages
  <2>2. ASSUME NEW m \in Slots, NEW p, p.sig = object.stage3[m].sig,
               object'.stage3 = [object.stage3 EXCEPT ![m] = p],
               built'.stage3.sig = p.sig
        PROVE  Signed' \subseteq Signed
    <3>1. \A j \in Slots : object'.stage3[j].sig = object.stage3[j].sig
      BY <2>2 DEF Typed
    <3> QED
      BY <2>2, <3>1 DEF Signed
  <2>3. CASE ChunksBegin(k)
    <3>1. newest.stage3 \in Slots /\ newest.stage3 # 0
      BY <2>3 DEF ChunksBegin, Typed, Owned, Stages
    <3> DEFINE p == [object.stage3[newest.stage3] EXCEPT !.status = "running"]
    <3>2. p.sig = object.stage3[newest.stage3].sig
      BY <3>1 DEF Typed, Object3
    <3>3. State("stage3") = object.stage3[newest.stage3]
      BY <3>1 DEF State
    <3> HIDE DEF p
    <3>4. object'.stage3 = [object.stage3 EXCEPT ![newest.stage3] = p] /\ built'.stage3.sig = p.sig
      BY <2>3, <3>1, <3>3 DEF ChunksBegin, Goes, FileOf, Typed, Stages, p
    <3> QED
      BY <2>2, <3>1, <3>2, <3>4
  <2>4. CASE ChunksOverlays(k)
    BY <2>4 DEF ChunksOverlays, Signed
  <2>5. ASSUME NEW st, Ends("stage3", k, [Own("stage3", k) EXCEPT !.status = st]),
               task.stage3[k].pc = "chunk"
        PROVE  Signed' \subseteq Signed
    <3> DEFINE m == task.stage3[k].object
               p == [object.stage3[m] EXCEPT !.status = st]
    <3>1. m \in Slots
      BY <2>1, <2>5
    <3>2. p.sig = object.stage3[m].sig
      BY <3>1 DEF Typed, Object3
    <3> HIDE DEF p
    <3>3. object'.stage3 = [object.stage3 EXCEPT ![m] = p] /\ built'.stage3.sig = p.sig
      BY <2>5, <3>1 DEF Ends, Own, FileOf, Typed, Stages, p
    <3> QED
      BY <2>2, <3>1, <3>2, <3>3
  <2> QED
    BY <1>3, <2>3, <2>4, <2>5 DEF ChunksStep, ChunksEnd, ChunksFail
<1>4. CASE Crash \/ \E k \in Slots : CrashInChunksEnd(k)
  BY <1>4 DEF Crash, CrashInChunksEnd, Forget, stored, Signed, NoObject, Stages
<1>5. ASSUME NEW k \in Slots, BackfillStep(k)
      PROVE  UNCHANGED Stage3
  BY <1>5 DEF BackfillStep, BackfillBegin, BackfillRoute, BackfillRouteFails, BackfillWaits,
              BackfillEnd, Goes, Ends, Stage3, Typed, Stages
<1>6. ASSUME NEW r \in Routes, \/ \E kind \in {"clean", "fine", "doubtful"} : Complete(r, kind)
                               \/ Rerun(r) \/ Record(r) \/ RecordFails(r) \/ Review(r)
                               \/ Recover(r)
      PROVE  UNCHANGED Stage3
  BY <1>6 DEF Complete, Rerun, Record, RecordFails, Review, Recover, Rewrite, stored, memory, Stage3
<1>7. ASSUME NEW q \in Requesters, \E stage \in Stages : Ask(q, stage)
      PROVE  UNCHANGED Stage3
  BY <1>7 DEF Ask, stored, Stage3
<1>8. UNCHANGED vars \/ (\E enabled \in BOOLEAN : SetBypass(enabled)) => UNCHANGED Stage3
  BY DEF SetBypass, memory, vars, Stage3
<1> QED
  BY <1>0, <1>1, <1>2, <1>3, <1>4, <1>5, <1>6, <1>7, <1>8 DEF Next, RequestStep

(* Chunks taken for current were built after the last decision a person    *)
(* owed and the last recovery, or from a ledger that the bypass let        *)
(* through: the gate of Stage3Builder.start is tested in the step that     *)
(* takes the signature, and no other ledger passes with it.                *)
THEOREM AuditedFirst == Spec => []ReadyWasAudited
<1>1. Init => Audited
  BY DEF Init, Audited, Signed, Unwritten, NoObject, Stages
<1>2. Audited /\ IInv /\ [Next]_vars => Audited'
  <2> SUFFICES ASSUME Audited, IInv, [Next]_vars
               PROVE  \A o \in Signed' : (Blocking(o.ledger) = {})' \/ o.ledger \in waived'
    BY DEF Audited
  <2>1. Texts' = Texts
    BY TextsKept DEF IInv
  <2>2. ASSUME NEW l PROVE Blocking(l)' = Blocking(l)
    BY <2>1 DEF Blocking, BlockingTexts
  <2> QED
    BY <2>2, NextSigned DEF Audited, Admitted, Output2C
<1>3. Audited => ReadyWasAudited
  <2> SUFFICES ASSUME Audited, Current3 PROVE Blocking(ledger) = {} \/ ledger \in waived
    BY DEF ReadyWasAudited
  <2>1. Output2C \in Signed
    BY DEF Current3, Signed
  <2>2. Output2C.ledger = ledger
    BY DEF Output2C
  <2> QED
    BY <2>1, <2>2 DEF Audited
<1> QED
  BY <1>1, <1>2, <1>3, Invariance, PTL DEF Spec

LEMMA StepOfView ==
  ASSUME Torn = "newest", IInv, [Next]_vars
  PROVE  [View!Next]_<<ledger, chunks, Current3>>
<1>1. /\ IInv' /\ Before(ledger, ledger')
      /\ ledger' = ledger \/ built'.stage3 = built.stage3
  BY NextIInv
<1>2. CASE ~Current3'
  BY <1>2 DEF View!Next, View!Retract
<1>3. CASE Current3'
  <2>1. ChunksCurrent'
    BY <1>1, CurrentOfIInv, PTL
  <2>2. chunks' = {ledger'}
    BY <1>3, <2>1 DEF ChunksCurrent
  <2>3. ledger' = ledger
    <3> SUFFICES ASSUME built'.stage3 = built.stage3 PROVE ledger' = ledger
      BY <1>1
    <3>1. Output2C' \in built.stage3.sig /\ Output2C'.ledger = ledger'
      BY <1>3 DEF Current3, Output2C
    <3>2. Before(ledger', ledger)
      BY <3>1 DEF IInv, InOrder, SignedBefore, Signed
    <3> QED
      BY <1>1, <3>2, BeforeTwice DEF IInv, Typed
  <2> QED
    BY <1>3, <2>2, <2>3 DEF View!Next, View!Publish
<1> QED
  BY <1>2, <1>3

(* DerivedStages implements PublishedView: the chunks are retracted in the *)
(* step that changes the ledger, and published only as what it stands for. *)
THEOREM Implements == ASSUME Torn = "newest" PROVE Spec => ChunksArePublishedView
<1>1. Init => View!Init
  BY DEF Init, View!Init, Current3, Current2C, Unwritten, Stages
<1>2. IInv /\ [Next]_vars => [View!Next]_<<ledger, chunks, Current3>>
  BY StepOfView
<1> QED
  BY <1>1, <1>2, Invariance, PTL DEF Spec, ChunksArePublishedView, View!Spec

---------------------------------------------------------------------------
(* The types, with the objects of the tasks.                               *)

(* The object a task works on is in use.                                   *)
Alive ==
  \A s \in Stages, k \in Slots :
    task[s][k].object # 0 => object[s][task[s][k].object].status # "none"

LEMMA RegisterAlive ==
  ASSUME Typed, Alive, NEW stage \in Stages, NEW k \in Unused(stage), NEW seen,
         Register(stage, k, seen)
  PROVE  Alive'
<1> SUFFICES ASSUME NEW s \in Stages, NEW j \in Slots, task'[s][j].object # 0
             PROVE  object'[s][task'[s][j].object].status # "none"
  BY DEF Alive
<1>1. k \in Slots /\ \A i \in Slots : task[stage][i].object # k
  BY DEF Unused
<1>2. CASE s # stage
  <2>1. task'[s] = task[s] /\ object'[s] = object[s]
    BY <1>2 DEF Register, Typed
  <2> QED
    BY <2>1 DEF Alive
<1>3. CASE s = stage
  <2>1. j # k /\ task'[s][j] = task[s][j]
    BY <1>1, <1>3 DEF Register, Typed, NoTask
  <2> DEFINE i == task[s][j].object
  <2>2. i \in Slots /\ i # k /\ \E h \in Slots : task[s][h].object = i
    BY <1>1, <1>3, <2>1 DEF Typed, Task
  <2>3. object'[s][i] = object[s][i]
    BY <1>1, <1>3, <2>2 DEF Register, Typed
  <2> QED
    BY <2>1, <2>3 DEF Alive
<1> QED
  BY <1>2, <1>3

(* A task that goes on, or ends, leaves its object with a status.          *)
LEMMA StepAlive ==
  ASSUME Typed, Alive, NEW stage \in Stages, NEW k \in Slots, NEW t, NEW o,
         o.status # "none",
         (t.object \in Slots /\ Goes(stage, k, t, o)) \/ Ends(stage, k, o)
  PROVE  Alive'
<1> SUFFICES ASSUME NEW s \in Stages, NEW j \in Slots, task'[s][j].object # 0
             PROVE  object'[s][task'[s][j].object].status # "none"
  BY DEF Alive
<1>1. CASE s # stage
  <2>1. task'[s] = task[s] /\ object'[s] = object[s]
    BY <1>1 DEF Goes, Ends, Typed
  <2> QED
    BY <2>1 DEF Alive
<1>2. CASE s = stage
  <2>1. \A i \in Slots : object'[s][i] = o \/ object'[s][i] = object[s][i]
    BY <1>2 DEF Goes, Ends, Typed, Stages
  <2>2. CASE t.object \in Slots /\ Goes(stage, k, t, o) /\ j = k
    <3>1. task'[s][j] = t /\ object'[s][t.object] = o
      BY <1>2, <2>2 DEF Goes, Typed, Stages
    <3> QED
      BY <3>1
  <2>3. CASE ~(t.object \in Slots /\ Goes(stage, k, t, o) /\ j = k)
    <3>1. task'[s][j] = task[s][j]
      BY <1>2, <2>3 DEF Goes, Ends, Typed, NoTask
    <3>2. task[s][j].object \in Slots /\ object[s][task[s][j].object].status # "none"
      BY <3>1 DEF Alive, Typed, Task
    <3> QED
      BY <2>1, <3>1, <3>2
  <2> QED
    BY <2>2, <2>3
<1> QED
  BY <1>1, <1>2

LEMMA NextAlive ==
  ASSUME IInv, Alive, [Next]_vars
  PROVE  Alive'
<1>0. Typed /\ Owned
  BY DEF IInv
<1> USE <1>0
<1>1. CASE UNCHANGED <<task, object>>
  BY <1>1 DEF Alive
<1>2. ASSUME NEW r \in Routes, NEW kind \in {"clean", "fine", "doubtful"}, Complete(r, kind)
      PROVE  Alive'
  BY <1>1, <1>2 DEF Complete
<1>3. ASSUME NEW r \in Routes, Rerun(r) \/ Record(r) \/ RecordFails(r) \/ Review(r) \/ Recover(r)
      PROVE  Alive'
  BY <1>1, <1>3 DEF Rerun, Record, RecordFails, Review, Recover, Rewrite, memory
<1>4. ASSUME NEW q \in Requesters, RequestStep(q)
      PROVE  Alive'
  <2>1. CASE Create(q)
    <3> DEFINE stage == requester[q].stage
    <3>1. stage \in Stages
      BY <2>1 DEF Typed, Create, Request
    <3>2. \/ UNCHANGED <<task, object>>
          \/ \E seen : \E k \in Unused(stage) : Register(stage, k, seen)
      BY <2>1 DEF Create
    <3> HIDE DEF stage
    <3> QED
      BY <1>1, <3>1, <3>2, RegisterAlive
  <2>2. CASE \E stage \in Stages : Ask(q, stage)
    BY <1>1, <2>2 DEF Ask
  <2> QED
    BY <1>4, <2>1, <2>2 DEF RequestStep
<1>5. ASSUME NEW stage \in Stages, NEW k \in Slots
      PROVE  LET t == task[stage][k] IN
             t.pc \in {"record", "overlays", "chunk"} =>
               t.object \in Slots /\ Own(stage, k).status # "none"
  BY DEF Typed, Owned, Task, Alive, Own
<1>6. \A stage \in Stages, k \in Slots : task[stage][k].pc = "begin" => newest[stage] \in Slots
  BY DEF Typed, Owned
<1>7. ASSUME NEW k \in Slots, BackfillStep(k)
      PROVE  Alive'
  <2> DEFINE t == task["stage2c"][k]
             o == Own("stage2c", k)
  <2>1. t \in Task /\ (t.object \in Slots => o \in Object2C)
        /\ (newest["stage2c"] \in Slots => State("stage2c") \in Object2C)
    BY NoSlotIsZero DEF Typed, Own, State, Stages
  <2>2. t.pc = "record" => t.object \in Slots /\ o.status # "none"
    BY <1>5 DEF Stages
  <2>3. CASE BackfillBegin(k)
    <3> DEFINE u == [t EXCEPT !.pc = "record", !.object = newest.stage2c,
                              !.todo = {r \in Routes : ledger[r].ver = 0}]
               p == [State("stage2c") EXCEPT !.status = "running"]
    <3>1. newest.stage2c \in Slots
      BY <1>6, <2>3 DEF BackfillBegin, Stages
    <3>2. u.object \in Slots /\ p.status # "none"
      BY <2>1, <3>1 DEF Task, Object2C
    <3>3. Goes("stage2c", k, u, p)
      BY <2>3 DEF BackfillBegin
    <3> HIDE DEF u, p
    <3> QED
      BY <3>2, <3>3, StepAlive DEF Stages
  <2>4. CASE \E r \in Routes : BackfillRoute(k, r) \/ BackfillRouteFails(k, r)
    <3>1. PICK r \in Routes : BackfillRoute(k, r) \/ BackfillRouteFails(k, r)
      BY <2>4
    <3> DEFINE u == [t EXCEPT !.todo = @ \ {r}]
    <3>2. t.object \in Slots /\ o.status # "none" /\ u.object = t.object
          /\ [o EXCEPT !.errors = TRUE].status # "none"
      BY <2>1, <2>2, <3>1 DEF BackfillRoute, BackfillRouteFails, Task, Object2C
    <3>3. Goes("stage2c", k, u, o) \/ Goes("stage2c", k, u, [o EXCEPT !.errors = TRUE])
      BY <3>1 DEF BackfillRoute, BackfillRouteFails
    <3> HIDE DEF u, o
    <3> QED
      BY <3>2, <3>3, StepAlive DEF Stages
  <2>5. CASE BackfillWaits(k) \/ BackfillEnd(k)
    <3>1. t.object \in Slots
      BY <2>2, <2>5 DEF BackfillWaits, BackfillEnd
    <3>2. \E status \in Statuses \ {"none"} : Ends("stage2c", k, [o EXCEPT !.status = status])
      BY <2>5 DEF BackfillWaits, BackfillEnd, Statuses
    <3>3. PICK status \in Statuses \ {"none"} : Ends("stage2c", k, [o EXCEPT !.status = status])
      BY <3>2
    <3>4. [o EXCEPT !.status = status].status # "none"
      BY <2>1, <3>1 DEF Object2C
    <3> HIDE DEF o
    <3> QED
      BY <3>3, <3>4, StepAlive DEF Stages
  <2> QED
    BY <1>7, <2>3, <2>4, <2>5 DEF BackfillStep
<1>8. ASSUME NEW k \in Slots, ChunksStep(k)
      PROVE  Alive'
  <2> DEFINE t == task["stage3"][k]
             o == Own("stage3", k)
  <2>1. t \in Task /\ (t.object \in Slots => o \in Object3)
        /\ (newest["stage3"] \in Slots => State("stage3") \in Object3)
    BY NoSlotIsZero DEF Typed, Own, State, Stages
  <2>2. t.pc \in {"overlays", "chunk"} => t.object \in Slots /\ o.status # "none"
    BY <1>5 DEF Stages
  <2>3. CASE ChunksBegin(k)
    <3> DEFINE u == [t EXCEPT !.pc = "overlays", !.object = newest.stage3, !.read = {ledger}]
               p == [State("stage3") EXCEPT !.status = "running"]
    <3>1. newest.stage3 \in Slots
      BY <1>6, <2>3 DEF ChunksBegin, Stages
    <3>2. u.object \in Slots /\ p.status # "none"
      BY <2>1, <3>1 DEF Task, Object3
    <3>3. Goes("stage3", k, u, p)
      BY <2>3 DEF ChunksBegin
    <3> HIDE DEF u, p
    <3> QED
      BY <3>2, <3>3, StepAlive DEF Stages
  <2>4. CASE ChunksOverlays(k)
    <3>1. object' = object /\ task' = [task EXCEPT !.stage3[k].pc = "chunk"]
      BY <2>4 DEF ChunksOverlays
    <3>2. \A s \in Stages, j \in Slots : task'[s][j].object = task[s][j].object
      BY <3>1 DEF Typed, Task, Stages
    <3> QED
      BY <3>1, <3>2 DEF Alive
  <2>5. CASE ChunksEnd(k) \/ ChunksFail(k)
    <3>1. t.object \in Slots
      BY <2>2, <2>5 DEF ChunksEnd, ChunksFail
    <3>2. \E status \in {"completed", "failed"} : Ends("stage3", k, [o EXCEPT !.status = status])
      BY <2>5 DEF ChunksEnd, ChunksFail
    <3>3. PICK status \in {"completed", "failed"} : Ends("stage3", k, [o EXCEPT !.status = status])
      BY <3>2
    <3>4. [o EXCEPT !.status = status].status # "none"
      BY <2>1, <3>1 DEF Object3
    <3> HIDE DEF o
    <3> QED
      BY <3>3, <3>4, StepAlive DEF Stages
  <2> QED
    BY <1>8, <2>3, <2>4, <2>5 DEF ChunksStep
<1>9. CASE Crash \/ \E k \in Slots : CrashInChunksEnd(k)
  <2>1. task' = [s \in Stages |-> [k \in Slots |-> NoTask]]
    BY <1>9 DEF Crash, CrashInChunksEnd, Forget
  <2> QED
    BY <2>1 DEF Alive, NoTask
<1>10. CASE UNCHANGED vars \/ \E enabled \in BOOLEAN : SetBypass(enabled)
  BY <1>1, <1>10 DEF SetBypass, memory, vars
<1> QED
  BY <1>2, <1>3, <1>4, <1>7, <1>8, <1>9, <1>10 DEF Next

\* Every row, ledger, file and task is of its type: a route has at most one
\* version more than reruns were asked for, and a live task of app/stage2b.py
\* or app/stage3.py writes to an object that was started.
THEOREM TypeCorrect == Spec => []TypeOK
<1>1. Init => Alive
  BY DEF Init, Alive, NoTask
<1>2. IInv /\ Alive => TypeOK
  <2> SUFFICES ASSUME IInv, Alive
               PROVE  TypeOK
    OBVIOUS
  <2>1. Typed
    BY DEF IInv
  <2>2. rows \in [Routes -> Rows] /\ ledger \in Ledgers /\ overlays \in Ledgers
        /\ chunks \subseteq Ledgers /\ newest \in [Stages -> Slots \cup {0}]
    BY <2>1 DEF Typed, Table
  <2>3. \A s \in Stages : built[s].status \in Statuses
    BY <2>1 DEF Typed, Stages, File2C, File3
  <2>4. \A s \in Stages, k \in Slots :
          /\ task[s][k].pc \in {"free", "begin", "record", "overlays", "chunk"}
          /\ task[s][k].object \in Slots \cup {0}
    BY <2>1 DEF Typed, Task
  <2>5. \A s \in Stages, k \in Slots : object[s][k].status \in Statuses
    BY <2>1 DEF Typed, Stages, Object2C, Object3
  <2> QED
    BY <2>2, <2>3, <2>4, <2>5 DEF TypeOK, Alive
<1> QED
  BY <1>1, <1>2, Invariance, NextAlive, PTL DEF Spec
=============================================================================

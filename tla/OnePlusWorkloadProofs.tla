------------------------ MODULE OnePlusWorkloadProofs ------------------------
(***************************************************************************)
(* Proofs about OnePlusWorkload, for every set of calls, every budget and  *)
(* every bound.                                                            *)
(***************************************************************************)
EXTENDS OnePlusWorkload, TLAPS

LEMMA MaxOfTwo ==
  ASSUME NEW a \in Int, NEW b \in Int
  PROVE  Max({a, b}) = IF a >= b THEN a ELSE b
<1>1. \E x \in {a, b} : \A y \in {a, b} : x >= y
  OBVIOUS
<1>2. Max({a, b}) \in {a, b} /\ \A y \in {a, b} : Max({a, b}) >= y
  BY <1>1, Zenon DEF Max
<1> QED
  BY <1>2

LEMMA MinOfTwo ==
  ASSUME NEW a \in Int, NEW b \in Int
  PROVE  Min({a, b}) = IF a <= b THEN a ELSE b
<1>1. \E x \in {a, b} : \A y \in {a, b} : x <= y
  OBVIOUS
<1>2. Min({a, b}) \in {a, b} /\ \A y \in {a, b} : Min({a, b}) <= y
  BY <1>1, Zenon DEF Min
<1> QED
  BY <1>2

---------------------------------------------------------------------------
(* Types, and what is proved with them: the counters of the governor.      *)

GovernorType ==
  /\ until \in NoCooldown..SevereCooldown
  /\ busy \in 0..WorkBudget /\ streak \in 0..WarningCount /\ idle \in -1..IdleReset
  /\ required \in BOOLEAN /\ probation \in BOOLEAN

CallType ==
  /\ pc \in [Calls -> Places]
  /\ provider \in Calls \cup {None} /\ restarter \in Calls \cup {None}
  /\ saved \subseteq Calls /\ retries \in [Calls -> 0..MaxRetries]
  /\ answered \in [Calls -> Nat] /\ lost \in [Calls -> Nat]

GhostType ==
  scheduled \in Nat /\ restarts \in Nat /\ failures \in Nat /\ crashes \in Nat

LEMMA TypeParts == TypeOK <=> GovernorType /\ CallType /\ GhostType
  BY DEF TypeOK, GovernorType, CallType, GhostType

(* A cooldown is never shortened, and stays a type of cooldown.            *)
LEMMA Scheduled ==
  ASSUME TypeOK, NEW ticks \in {NormalCooldown, SevereCooldown}, Schedule(ticks)
  PROVE  /\ until' \in NoCooldown..SevereCooldown /\ until' >= until
         /\ required' = TRUE /\ probation' = TRUE /\ scheduled' = scheduled + 1
<1>1. ticks \in Int /\ ticks <= SevereCooldown /\ ticks >= 0 /\ until \in Int
  BY WorkloadAssumption DEF TypeOK, NoCooldown
<1>2. until' = IF until >= ticks THEN until ELSE ticks
  BY <1>1, MaxOfTwo DEF Schedule
<1> QED
  BY <1>1, <1>2 DEF Schedule, TypeOK, NoCooldown

LEMMA Busy ==
  ASSUME NEW from \in 0..WorkBudget, AddBusy(1, from)
  PROVE  busy' \in 0..WorkBudget
<1>1. WorkBudget \in Nat /\ from + 1 \in Int
  BY WorkloadAssumption
<1>2. busy' = IF WorkBudget <= from + 1 THEN WorkBudget ELSE from + 1
  BY <1>1, MinOfTwo DEF AddBusy
<1> QED
  BY <1>1, <1>2

LEMMA Cleared ==
  ASSUME TypeOK, ClearElapsed
  PROVE  /\ until' \in NoCooldown..SevereCooldown /\ busy' \in 0..WorkBudget
         /\ streak' \in 0..WarningCount
         /\ until > 0 => until' = until
  BY WorkloadAssumption DEF TypeOK, ClearElapsed, NoCooldown

(* What a step may do to the clock of the cooldown.                        *)
Clock == until > 0 => until' >= until \/ Tick

(* What a step may do to the need for a restart.                           *)
Need(r, s, n) == r + (IF n THEN 1 ELSE 0) <= s

LEMMA AnswerGoverned ==
  ASSUME TypeOK, NEW c \in Calls, Answer(c)
  PROVE  GovernorType' /\ Clock
<1>1. PICK length \in Lengths, speed \in Speeds :
        LET severe == SevereAnswer(length, speed)
            cools == severe \/ NormalAnswer(speed, 1)
        IN  /\ AddBusy(1, IF IdleResets THEN 0 ELSE busy)
            /\ idle' = 0
            /\ streak' = IF cools THEN 0 ELSE NextStreak(speed)
            /\ IF cools
               THEN Schedule(IF severe THEN SevereCooldown ELSE NormalCooldown)
               ELSE /\ probation' = (probation /\ speed = "unknown")
                    /\ UNCHANGED <<until, required, scheduled>>
  BY Zenon DEF Answer
<1> DEFINE severe == SevereAnswer(length, speed)
           cools == severe \/ NormalAnswer(speed, 1)
<1>2. busy' \in 0..WorkBudget
  BY <1>1, Busy, WorkloadAssumption DEF TypeOK
<1>3. idle' \in -1..IdleReset
  BY <1>1, WorkloadAssumption
<1>4. NextStreak(speed) \in Nat
  BY WorkloadAssumption DEF NextStreak, TypeOK
<1>5. streak' \in 0..WarningCount
  BY <1>1, <1>4, WorkloadAssumption DEF NormalAnswer
<1>6. CASE cools
  <2>1. Schedule(IF severe THEN SevereCooldown ELSE NormalCooldown)
    BY <1>1, <1>6
  <2>2. until' \in NoCooldown..SevereCooldown /\ until' >= until
          /\ required' = TRUE /\ probation' = TRUE
    BY <2>1, Scheduled
  <2> QED
    BY <2>2, <1>2, <1>3, <1>5 DEF GovernorType, Clock
<1>7. CASE ~cools
  <2>1. probation' = (probation /\ speed = "unknown") /\ UNCHANGED <<until, required>>
    BY <1>1, <1>7
  <2>2. probation' \in BOOLEAN /\ required' \in BOOLEAN
    BY <2>1 DEF TypeOK
  <2>3. until' \in NoCooldown..SevereCooldown /\ until' >= until
    BY <2>1 DEF TypeOK, NoCooldown
  <2> QED
    BY <2>2, <2>3, <1>2, <1>3, <1>5 DEF GovernorType, Clock
<1> QED
  BY <1>6, <1>7

LEMMA Governed ==
  ASSUME TypeOK, [Next]_vars
  PROVE  GovernorType' /\ Clock
<1> USE DEF Clock, GovernorType, TypeOK, governor
<1>0. SevereCooldown \in Nat /\ IdleReset \in Nat \ {0} /\ WorkBudget \in Nat /\ WarningCount \in Nat
  BY WorkloadAssumption
<1>1. ASSUME NEW c \in Calls, CanStart(c) PROVE GovernorType' /\ Clock
  BY <1>1, Cleared DEF CanStart
<1>2. ASSUME NEW c \in Calls, Call(c) \/ ReuseSaved(c) \/ Defer(c) PROVE GovernorType' /\ Clock
  BY <1>2 DEF Call, ReuseSaved, Defer, NoCooldown
<1>3. ASSUME NEW c \in Calls, BeforeInference(c) PROVE GovernorType' /\ Clock
  BY <1>3, Cleared DEF BeforeInference
<1>4. ASSUME NEW c \in Calls, RestartAlreadyDone(c) \/ BeginRestart(c) \/ EndRestart(c)
      PROVE GovernorType' /\ Clock
  <2>1. required' \in BOOLEAN /\ UNCHANGED <<until, busy, streak, idle, probation>>
    BY <1>4 DEF RestartAlreadyDone, BeginRestart, EndRestart
  <2> QED
    BY <2>1 DEF NoCooldown
<1>5. ASSUME NEW c \in Calls, Answer(c) PROVE GovernorType' /\ Clock
  BY <1>5, AnswerGoverned
<1>6. ASSUME NEW c \in Calls, Save(c) \/ Finish(c) PROVE GovernorType' /\ Clock
  BY <1>6 DEF Save, Finish, NoCooldown
<1>7. ASSUME NEW c \in Calls, Fail(c) PROVE GovernorType' /\ Clock
  <2>1. busy' \in 0..WorkBudget /\ idle' = 0 /\ UNCHANGED streak
    BY <1>7, Busy DEF Fail
  <2>2. \/ Schedule(SevereCooldown)
        \/ UNCHANGED <<until, required, probation, scheduled>>
    BY <1>7 DEF Fail
  <2>3. /\ until' \in NoCooldown..SevereCooldown /\ until' >= until
        /\ required' \in BOOLEAN /\ probation' \in BOOLEAN
    <3>1. CASE Schedule(SevereCooldown)
      BY <3>1, Scheduled
    <3>2. CASE UNCHANGED <<until, required, probation, scheduled>>
      BY <3>2 DEF NoCooldown
    <3> QED
      BY <2>2, <3>1, <3>2
  <2>4. idle' \in -1..IdleReset /\ streak' \in 0..WarningCount
    BY <1>0, <2>1
  <2> QED
    BY <2>1, <2>3, <2>4
<1>8. ASSUME NEW c \in Calls, TriggerSevereCooldown(c) PROVE GovernorType' /\ Clock
  BY <1>8, Scheduled DEF TriggerSevereCooldown
<1>9. ASSUME NEW c \in Calls, JobTimeout(c) PROVE GovernorType' /\ Clock
  BY <1>9 DEF JobTimeout, NoCooldown
<1>10. CASE Snapshot
  BY <1>10, <1>0 DEF Snapshot, NoCooldown
<1>11. CASE Tick
  <2>1. idle # -1 => Min({IdleReset, idle + 1}) = IF IdleReset <= idle + 1 THEN IdleReset ELSE idle + 1
    BY <1>0, MinOfTwo
  <2> QED
    BY <1>11, <1>0, <2>1 DEF Tick, NoCooldown
<1>12. CASE Crash \/ UNCHANGED vars
  BY <1>12 DEF Crash, vars, NoCooldown
<1> QED
  BY <1>1, <1>2, <1>3, <1>4, <1>5, <1>6, <1>7, <1>8, <1>9, <1>10, <1>11, <1>12
     DEF Next, CallStep

---------------------------------------------------------------------------
(* The calls and their locks.                                              *)

(* A call that restarts the phone holds the restart lock, and no other.    *)
RestarterInv ==
  \A c \in Calls : pc[c] \in {"boot_start", "boot_gate"} <=> restarter = c

(* Past the gate an answer is not saved yet, and one in use is.            *)
SavedInv ==
  \A c \in Calls :
    /\ pc[c] \in {"rest_gate", "boot_gate", "infer", "save"} => c \notin saved
    /\ pc[c] = "use" => c \in saved

IInv ==
  /\ TypeOK /\ OneInferenceAtATime /\ RestarterInv
  /\ OneRestartPerCooldown /\ SavedInv /\ AnswersAccounted

LEMMA Locked ==
  ASSUME IInv, [Next]_vars
  PROVE  CallType' /\ OneInferenceAtATime' /\ RestarterInv' /\ SavedInv' /\ AnswersAccounted'
<1> USE NoneIsNoCall DEF IInv, TypeOK, CallType, OneInferenceAtATime, RestarterInv, SavedInv,
       AnswersAccounted, Places, Over, Resumed, governor, ghosts
<1>1. ASSUME NEW c \in Calls, CanStart(c)
      PROVE  CallType' /\ OneInferenceAtATime' /\ RestarterInv' /\ SavedInv' /\ AnswersAccounted'
  BY <1>1 DEF CanStart
<1>2. ASSUME NEW c \in Calls, Call(c)
      PROVE  CallType' /\ OneInferenceAtATime' /\ RestarterInv' /\ SavedInv' /\ AnswersAccounted'
  BY <1>2 DEF Call
<1>3. ASSUME NEW c \in Calls, ReuseSaved(c)
      PROVE  CallType' /\ OneInferenceAtATime' /\ RestarterInv' /\ SavedInv' /\ AnswersAccounted'
  BY <1>3 DEF ReuseSaved
<1>4. ASSUME NEW c \in Calls, Defer(c)
      PROVE  CallType' /\ OneInferenceAtATime' /\ RestarterInv' /\ SavedInv' /\ AnswersAccounted'
  BY <1>4 DEF Defer
<1>5. ASSUME NEW c \in Calls, BeforeInference(c)
      PROVE  CallType' /\ OneInferenceAtATime' /\ RestarterInv' /\ SavedInv' /\ AnswersAccounted'
  BY <1>5 DEF BeforeInference
<1>6. ASSUME NEW c \in Calls, RestartAlreadyDone(c)
      PROVE  CallType' /\ OneInferenceAtATime' /\ RestarterInv' /\ SavedInv' /\ AnswersAccounted'
  BY <1>6 DEF RestartAlreadyDone
<1>7. ASSUME NEW c \in Calls, BeginRestart(c)
      PROVE  CallType' /\ OneInferenceAtATime' /\ RestarterInv' /\ SavedInv' /\ AnswersAccounted'
  BY <1>7 DEF BeginRestart
<1>8. ASSUME NEW c \in Calls, EndRestart(c)
      PROVE  CallType' /\ OneInferenceAtATime' /\ RestarterInv' /\ SavedInv' /\ AnswersAccounted'
  BY <1>8 DEF EndRestart
<1>9. ASSUME NEW c \in Calls, Answer(c)
      PROVE  CallType' /\ OneInferenceAtATime' /\ RestarterInv' /\ SavedInv' /\ AnswersAccounted'
  BY <1>9 DEF Answer
<1>10. ASSUME NEW c \in Calls, Save(c)
      PROVE  CallType' /\ OneInferenceAtATime' /\ RestarterInv' /\ SavedInv' /\ AnswersAccounted'
  BY <1>10 DEF Save
<1>11. ASSUME NEW c \in Calls, Finish(c)
      PROVE  CallType' /\ OneInferenceAtATime' /\ RestarterInv' /\ SavedInv' /\ AnswersAccounted'
  BY <1>11 DEF Finish
<1>12. ASSUME NEW c \in Calls, TriggerSevereCooldown(c)
      PROVE  CallType' /\ OneInferenceAtATime' /\ RestarterInv' /\ SavedInv' /\ AnswersAccounted'
  BY <1>12, WorkloadAssumption DEF TriggerSevereCooldown, Retried, GivenUp
<1>13. ASSUME NEW c \in Calls, Fail(c)
      PROVE  CallType' /\ OneInferenceAtATime' /\ RestarterInv' /\ SavedInv' /\ AnswersAccounted'
  BY <1>13, WorkloadAssumption DEF Fail, Deferred, Retried, GivenUp
<1>14. ASSUME NEW c \in Calls, JobTimeout(c)
      PROVE  CallType' /\ OneInferenceAtATime' /\ RestarterInv' /\ SavedInv' /\ AnswersAccounted'
  BY <1>14 DEF JobTimeout
<1>15. CASE Snapshot
  BY <1>15 DEF Snapshot
<1>16. CASE Tick
  BY <1>16 DEF Tick
<1>17. CASE Crash
  BY <1>17 DEF Crash
<1>18. CASE UNCHANGED vars
  BY <1>18 DEF vars
<1> QED
  BY <1>1, <1>2, <1>3, <1>4, <1>5, <1>6, <1>7, <1>8, <1>9, <1>10, <1>11, <1>12, <1>13, <1>14, <1>15, <1>16, <1>17, <1>18
     DEF Next, CallStep

(* A cooldown that is scheduled asks for one restart, and a restart strikes *)
(* the need off; nothing else touches either.                              *)
LEMMA Restarted ==
  ASSUME IInv, [Next]_vars
  PROVE  GhostType' /\ OneRestartPerCooldown'
<1> DEFINE Asked == required' = TRUE /\ scheduled' = scheduled + 1 /\ UNCHANGED restarts
           Begun == required /\ required' = FALSE /\ restarts' = restarts + 1 /\ UNCHANGED scheduled
<1> USE DEF IInv, TypeOK, governor, ghosts
<1>1. Asked \/ Begun \/ UNCHANGED <<required, scheduled, restarts>>
  <2>1. ASSUME NEW c \in Calls, BeginRestart(c) PROVE Begun
    BY <2>1 DEF BeginRestart
  <2>2. ASSUME NEW c \in Calls, Fail(c) \/ TriggerSevereCooldown(c)
        PROVE  Asked \/ UNCHANGED <<required, scheduled, restarts>>
    BY <2>2 DEF Fail, TriggerSevereCooldown, Schedule
  <2>3. ASSUME NEW c \in Calls, Answer(c) PROVE Asked \/ UNCHANGED <<required, scheduled, restarts>>
    BY <2>3 DEF Answer, Schedule
  <2>4. ASSUME NEW c \in Calls,
               \/ CanStart(c) \/ Call(c) \/ ReuseSaved(c) \/ Defer(c) \/ BeforeInference(c)
               \/ RestartAlreadyDone(c) \/ EndRestart(c) \/ Save(c) \/ Finish(c) \/ JobTimeout(c)
        PROVE  UNCHANGED <<required, scheduled, restarts>>
    BY <2>4 DEF CanStart, Call, ReuseSaved, Defer, BeforeInference, RestartAlreadyDone,
                EndRestart, Save, Finish, JobTimeout
  <2>5. CASE Snapshot \/ Tick \/ Crash \/ UNCHANGED vars
    BY <2>5 DEF Snapshot, Tick, Crash, vars
  <2> QED
    BY <2>1, <2>2, <2>3, <2>4, <2>5 DEF Next, CallStep
<1>2. failures' \in Nat /\ crashes' \in Nat
  <2>1. ASSUME NEW c \in Calls, CallStep(c) PROVE UNCHANGED <<failures, crashes>>
    BY <2>1 DEF CallStep, CanStart, Call, ReuseSaved, Defer, BeforeInference, RestartAlreadyDone,
                BeginRestart, EndRestart, Answer, Save, Finish, TriggerSevereCooldown
  <2>2. ASSUME NEW c \in Calls, Fail(c) \/ JobTimeout(c) PROVE failures' = failures + 1 /\ UNCHANGED crashes
    BY <2>2 DEF Fail, JobTimeout
  <2>3. CASE Snapshot \/ Tick \/ UNCHANGED vars
    BY <2>3 DEF Snapshot, Tick, vars
  <2>4. CASE Crash
    BY <2>4 DEF Crash
  <2> QED
    BY <2>1, <2>2, <2>3, <2>4 DEF Next
<1> QED
  BY <1>1, <1>2 DEF GhostType, OneRestartPerCooldown

---------------------------------------------------------------------------
(* The theorems.                                                           *)

LEMMA Initially == Init => IInv
<1> SUFFICES ASSUME Init PROVE IInv
  OBVIOUS
<1>1. 0 \in 0..WorkBudget /\ 0 \in 0..WarningCount /\ -1 \in -1..IdleReset
        /\ 0 \in 0..MaxRetries
        /\ NoCooldown \in NoCooldown..SevereCooldown
  BY WorkloadAssumption DEF NoCooldown
<1>2. TypeOK
  BY <1>1 DEF Init, TypeOK, Places
<1> QED
  BY <1>2, NoneIsNoCall DEF Init, IInv, OneInferenceAtATime, RestarterInv, OneRestartPerCooldown,
     SavedInv, AnswersAccounted

LEMMA Inductive == IInv /\ [Next]_vars => IInv'
<1> SUFFICES ASSUME IInv, [Next]_vars PROVE IInv'
  OBVIOUS
<1>1. TypeOK'
  BY Governed, Locked, Restarted
     DEF IInv, TypeOK, GovernorType, CallType, GhostType
<1> QED
  BY <1>1, Locked, Restarted DEF IInv

(* The inductive invariant holds: the locks and what they guard, the       *)
(* answers saved, and the restarts owed (before_inference,                 *)
(* _restart_after_cooldown, CheckpointVerifier._call).                     *)
THEOREM Invariance == Spec => []IInv
  BY Initially, Inductive, PTL DEF Spec

(* At most one call is past the gate of the phone, and it is the one that  *)
(* holds the provider lock of CheckpointVerifier.                          *)
THEOREM SingleFlight == Spec => []OneInferenceAtATime
<1>1. IInv => OneInferenceAtATime
  BY DEF IInv
<1> QED
  BY Invariance, <1>1, PTL

(* The phone is restarted at most once for every cooldown scheduled, through *)
(* any number of callers, timeouts and deaths (_restart_after_cooldown).   *)
THEOREM SingleRestart == Spec => []OneRestartPerCooldown
<1>1. IInv => OneRestartPerCooldown
  BY DEF IInv
<1> QED
  BY Invariance, <1>1, PTL

(* The phone gives a call a second answer only if the first was lost before *)
(* the checkpoint had it (CheckpointVerifier._call).                       *)
THEOREM NoAnswerTwice == Spec => []AnswersAccounted
<1>1. IInv => AnswersAccounted
  BY DEF IInv
<1> QED
  BY Invariance, <1>1, PTL

(* A running cooldown is never ended or shortened by anything but time     *)
(* (_schedule_cooldown_locked and every other writer of its end).          *)
THEOREM CooldownElapses == Spec => CooldownOnlyElapses
<1>1. IInv /\ [Next]_vars => [until > 0 => until' >= until \/ Tick]_vars
  BY Governed DEF IInv, Clock
<1> QED
  BY Invariance, <1>1, PTL DEF Spec, CooldownOnlyElapses

(* What the governor counts and how long it cools down stay in range,      *)
(* through every sequence of answers, timeouts and deaths (after_inference).  *)
THEOREM TypeCorrect == Spec => []TypeOK
<1>1. IInv => TypeOK
  BY DEF IInv
<1> QED
  BY Invariance, <1>1, PTL
=============================================================================

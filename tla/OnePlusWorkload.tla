--------------------------- MODULE OnePlusWorkload ---------------------------
(***************************************************************************)
(* The workload governor of the OnePlus phone and the checkpointed calls   *)
(* that pass its gate (src/app/oneplus_workload.py,                        *)
(* src/app/verifier_checkpoint.py, and the call sites in                   *)
(* src/app/stage2b.py).                                                    *)
(*                                                                         *)
(* A call takes the provider lock, looks for a saved answer, passes        *)
(* before_inference, asks the phone, reports to after_inference or         *)
(* after_error, and saves its answer.  A device loop asks can_start before *)
(* it begins a call, without the provider lock.  Every change of the       *)
(* governor's state is written to disk inside its own lock, so the state   *)
(* survives a crash; the locks and the calls in flight do not.             *)
(***************************************************************************)
EXTENDS Integers, FiniteSets, FiniteSetsExt

CONSTANTS
    Calls,            \* logical inference calls, one checkpoint key each
    LoopCalls,        \* those begun by a device loop, after can_start
    WorkBudget,       \* stage2b_oneplus_work_budget_seconds, in ticks
    NormalCooldown,   \* stage2b_oneplus_scheduled_cooldown_seconds, in ticks
    SevereCooldown,   \* stage2b_oneplus_severe_cooldown_seconds, in ticks
    WarningCount,     \* stage2b_oneplus_warning_speed_consecutive
    IdleReset,        \* stage2b_oneplus_idle_reset_seconds, in ticks
    MaxRetries,       \* stage2b_max_retries
    MaxErrors,        \* bound: requests that fail, and absolute job timeouts
    MaxCrashes        \* bound: restarts of the program

ASSUME WorkloadAssumption ==
    /\ LoopCalls \subseteq Calls
    /\ {WorkBudget, NormalCooldown, WarningCount, IdleReset} \subseteq Nat \ {0}
    /\ SevereCooldown \in Nat /\ SevereCooldown >= NormalCooldown
    /\ {MaxRetries, MaxErrors, MaxCrashes} \subseteq Nat

None == "none"
ASSUME NoneIsNoCall == None \notin Calls

NoCooldown == -1      \* cooldown_until_epoch = 0.0; 0 is a cooldown that has elapsed
Speeds == {"unknown", "severe", "warning", "fair", "healthy"}
Lengths == {"short", "long"}      \* a long request is one over ten minutes

VARIABLES
    until,        \* what is left of the cooldown, in ticks
    busy,         \* busy_seconds, counted up to WorkBudget
    streak,       \* warning_speed_streak
    idle,         \* ticks since last_completed_epoch, up to IdleReset; -1 when none
    required,     \* restart_required
    probation,    \* recovery_probation
    pc,           \* [Calls -> where the call is]
    provider,     \* the call that holds the provider lock
    restarter,    \* the call that holds the restart lock
    saved,        \* calls whose answer is in the checkpoint
    retries,      \* retry_count of the row of a loop's call
    answered,     \* ghost: how many answers the phone gave each call
    lost,         \* ghost: how many of them were lost before they were saved
    scheduled,    \* ghost: cooldowns scheduled
    restarts,     \* ghost: restarts begun
    failures,     \* ghost: failed requests and timeouts
    crashes       \* ghost: restarts of the program

governor == <<until, busy, streak, idle, required, probation>>
ghosts == <<answered, lost, scheduled, restarts, failures, crashes>>
vars == <<governor, pc, provider, restarter, saved, retries, ghosts>>

\* "rest_start"/"rest_gate": the caller is
\* about to restart the phone, from can_start or from before_inference;
\* "boot_start"/"boot_gate": it is restarting it.
\* "use": the answer is in hand and its job not completed.  A call is over when
\* its job is completed or failed for good; only a person asks for it again.
Over == {"done", "failed"}
Places == {"pending", "ready", "rest_start", "boot_start", "rest_gate", "boot_gate",
           "infer", "save", "use", "timeout"} \cup Over

----------------------------------------------------------------------------
(* The governor's locked sections.                                         *)

\* A budget left alone for idle_reset seconds starts again from nothing, unless a
\* cooldown is running.
IdleResets == idle >= IdleReset /\ until <= 0 /\ busy > 0

\* before_inference and can_start, from the first locked section on: the budget
\* is reset when it has been idle or when the cooldown has elapsed.
ClearElapsed ==
    /\ until' = IF until = 0 THEN NoCooldown ELSE until
    /\ busy' = IF IdleResets \/ until = 0 THEN 0 ELSE busy
    /\ streak' = IF IdleResets \/ until = 0 THEN 0 ELSE streak

\* can_start always looks at restart_required; before_inference does not when
\* the idle reset changed the state and no cooldown had elapsed.
RestartNeeded(fromGate) == required /\ (fromGate /\ IdleResets => until = 0)

\* A cooldown may be lengthened by another, never shortened.
Schedule(ticks) ==
    /\ until' = Max({until, ticks})
    /\ required' = TRUE
    /\ probation' = TRUE
    /\ scheduled' = scheduled + 1

\* Why the answer of a request calls for a cooldown, and how long a one.
SevereAnswer(length, speed) ==
    \/ length = "long"
    \/ speed = "severe"
    \/ probation /\ speed \in {"warning", "fair"}

NextStreak(speed) ==
    IF speed \in {"severe", "warning"}
    THEN (IF IdleResets THEN 0 ELSE streak) + 1 ELSE 0

NormalAnswer(speed, total) ==
    \/ NextStreak(speed) >= WarningCount
    \/ (IF IdleResets THEN 0 ELSE busy) + total >= WorkBudget

AddBusy(ticks, from) == busy' = Min({WorkBudget, from + ticks})

----------------------------------------------------------------------------
(* A device loop asks whether the phone may be given new work.             *)

CanStart(c) ==
    /\ pc[c] = "pending" /\ c \in LoopCalls
    /\ until <= 0
    /\ ClearElapsed
    /\ pc' = [pc EXCEPT ![c] = IF RestartNeeded(FALSE) THEN "rest_start" ELSE "ready"]
    /\ UNCHANGED <<idle, required, probation, provider, restarter, saved, retries, ghosts>>

\* Corrections, recoveries and answers call the verifier without asking first.
Call(c) ==
    /\ pc[c] = "pending" /\ c \notin LoopCalls
    /\ pc' = [pc EXCEPT ![c] = "ready"]
    /\ UNCHANGED <<governor, provider, restarter, saved, retries, ghosts>>

(* The call itself, under the provider lock.                               *)

ReuseSaved(c) ==
    /\ pc[c] = "ready" /\ provider = None /\ c \in saved
    /\ pc' = [pc EXCEPT ![c] = "use"]
    /\ UNCHANGED <<governor, provider, restarter, saved, retries, ghosts>>

\* Mutant: the refusal is counted as one more failure of the phone.
DeferAsFailure(c) ==
    /\ pc[c] = "ready" /\ provider = None /\ c \notin saved
    /\ until > 0
    /\ until' = SevereCooldown
    /\ pc' = [pc EXCEPT ![c] = "pending"]
    /\ UNCHANGED <<busy, streak, idle, required, probation, provider, restarter, saved,
                   retries, ghosts>>

\* OnePlusCooldownActive: the call is put back without an inference.
Defer(c) ==
    /\ pc[c] = "ready" /\ provider = None /\ c \notin saved
    /\ until > 0
    /\ pc' = [pc EXCEPT ![c] = "pending"]
    /\ UNCHANGED <<governor, provider, restarter, saved, retries, ghosts>>

\* Mutant: the gate is passed without the provider lock.
BeforeInferenceUnlocked(c) ==
    /\ pc[c] = "ready" /\ c \notin saved
    /\ until <= 0
    /\ ClearElapsed
    /\ provider' = c
    /\ pc' = [pc EXCEPT ![c] = IF RestartNeeded(TRUE) THEN "rest_gate" ELSE "infer"]
    /\ UNCHANGED <<idle, required, probation, restarter, saved, retries, ghosts>>

BeforeInference(c) ==
    /\ pc[c] = "ready" /\ provider = None /\ c \notin saved
    /\ until <= 0
    /\ ClearElapsed
    /\ provider' = c
    /\ pc' = [pc EXCEPT ![c] = IF RestartNeeded(TRUE) THEN "rest_gate" ELSE "infer"]
    /\ UNCHANGED <<idle, required, probation, restarter, saved, retries, ghosts>>

----------------------------------------------------------------------------
(* _restart_after_cooldown: simultaneous attempts collapse to one.         *)

Resumed(c) == IF pc[c] \in {"rest_start", "boot_start"} THEN "ready" ELSE "infer"

RestartAlreadyDone(c) ==
    /\ pc[c] \in {"rest_start", "rest_gate"} /\ restarter = None /\ ~required
    /\ pc' = [pc EXCEPT ![c] = Resumed(c)]
    /\ UNCHANGED <<governor, provider, restarter, saved, retries, ghosts>>

\* Mutant: the need is not struck off before the phone is restarted.
BeginRestartAgain(c) ==
    /\ pc[c] \in {"rest_start", "rest_gate"} /\ restarter = None /\ required
    /\ restarter' = c
    /\ restarts' = restarts + 1
    /\ pc' = [pc EXCEPT ![c] = IF pc[c] = "rest_start" THEN "boot_start" ELSE "boot_gate"]
    /\ UNCHANGED <<until, busy, streak, idle, required, probation, provider, saved,
                   retries, answered, lost, scheduled, failures, crashes>>

\* The need is struck off and written down before the phone is restarted.
BeginRestart(c) ==
    /\ pc[c] \in {"rest_start", "rest_gate"} /\ restarter = None /\ required
    /\ required' = FALSE
    /\ restarter' = c
    /\ restarts' = restarts + 1
    /\ pc' = [pc EXCEPT ![c] = IF pc[c] = "rest_start" THEN "boot_start" ELSE "boot_gate"]
    /\ UNCHANGED <<until, busy, streak, idle, probation, provider, saved, retries,
                   answered, lost, scheduled, failures, crashes>>

\* The restart is best-effort: the caller goes on whether or not it succeeded.
EndRestart(c) ==
    /\ restarter = c
    /\ restarter' = None
    /\ pc' = [pc EXCEPT ![c] = Resumed(c)]
    /\ UNCHANGED <<governor, provider, saved, retries, ghosts>>

----------------------------------------------------------------------------
(* The phone answers, or fails.                                            *)

\* after_inference
Answer(c) == \E length \in Lengths, speed \in Speeds :
    LET severe == SevereAnswer(length, speed)
        normal == NormalAnswer(speed, 1)
        cools == severe \/ normal
    IN  /\ pc[c] = "infer"
        /\ AddBusy(1, IF IdleResets THEN 0 ELSE busy)
        /\ idle' = 0
        /\ streak' = IF cools THEN 0 ELSE NextStreak(speed)
        /\ IF cools
           THEN Schedule(IF severe THEN SevereCooldown ELSE NormalCooldown)
           ELSE /\ probation' = (probation /\ speed = "unknown")
                /\ UNCHANGED <<until, required, scheduled>>
        /\ answered' = [answered EXCEPT ![c] = @ + 1]
        /\ pc' = [pc EXCEPT ![c] = "save"]
        /\ UNCHANGED <<provider, restarter, saved, retries, lost, restarts, failures,
                       crashes>>

\* Mutant: the answer is handed on without being saved.
SaveNothing(c) ==
    /\ pc[c] = "save"
    /\ saved' = saved
    /\ provider' = None
    /\ pc' = [pc EXCEPT ![c] = "use"]
    /\ UNCHANGED <<governor, restarter, retries, ghosts>>

Save(c) ==
    /\ pc[c] = "save"
    /\ saved' = saved \cup {c}
    /\ provider' = None
    /\ pc' = [pc EXCEPT ![c] = "use"]
    /\ UNCHANGED <<governor, restarter, retries, ghosts>>

\* The job that made the call is completed, and its checkpoint removed.
Finish(c) ==
    /\ pc[c] = "use"
    /\ saved' = saved \ {c}
    /\ pc' = [pc EXCEPT ![c] = "done"]
    /\ UNCHANGED <<governor, provider, restarter, retries, ghosts>>

\* What becomes of a call that failed: a connection that cannot be made defers a
\* row, and keeps a recovery waiting; a row has its retries; a background call
\* that failed otherwise, and any cross-check, is not asked again.
Deferred(c) ==
    /\ pc' = [pc EXCEPT ![c] = "pending"]
    /\ UNCHANGED retries

Retried(c) ==
    /\ c \in LoopCalls /\ retries[c] < MaxRetries
    /\ retries' = [retries EXCEPT ![c] = @ + 1]
    /\ pc' = [pc EXCEPT ![c] = "pending"]

GivenUp(c) ==
    /\ pc' = [pc EXCEPT ![c] = "failed"]
    /\ UNCHANGED retries

RetriesUsed(c) == c \in LoopCalls => retries[c] = MaxRetries

\* after_error: the time counts, and a transport failure cools the phone down.
Fail(c) == \E transport \in BOOLEAN :
    /\ pc[c] = "infer" /\ failures < MaxErrors
    /\ failures' = failures + 1
    /\ AddBusy(1, busy)
    /\ idle' = 0
    /\ IF transport
       THEN Schedule(SevereCooldown)
       ELSE UNCHANGED <<until, required, probation, scheduled>>
    /\ provider' = None
    /\ \/ transport /\ Deferred(c)
       \/ Retried(c)
       \/ (transport => RetriesUsed(c)) /\ GivenUp(c)
    /\ UNCHANGED <<streak, restarter, saved, answered, lost, restarts, crashes>>

\* The absolute timeout of a job cancels its call wherever it waits.
JobTimeout(c) ==
    /\ c \in LoopCalls /\ failures < MaxErrors
    /\ pc[c] \in {"ready", "rest_gate", "boot_gate", "infer", "save", "use"}
    /\ failures' = failures + 1
    /\ lost' = IF pc[c] = "save" THEN [lost EXCEPT ![c] = @ + 1] ELSE lost
    /\ provider' = IF provider = c THEN None ELSE provider
    /\ restarter' = IF restarter = c THEN None ELSE restarter
    /\ pc' = [pc EXCEPT ![c] = "timeout"]
    /\ UNCHANGED <<governor, saved, retries, answered, scheduled, restarts, crashes>>

\* trigger_severe_cooldown, which does not hold the provider lock, and
\* _retry_or_fail.
TriggerSevereCooldown(c) ==
    /\ pc[c] = "timeout"
    /\ Schedule(SevereCooldown)
    /\ \/ Retried(c)
       \/ RetriesUsed(c) /\ GivenUp(c)
    /\ UNCHANGED <<busy, streak, idle, provider, restarter, saved, answered, lost,
                   restarts, failures, crashes>>

----------------------------------------------------------------------------
(* The status endpoint, time, and restarts of the program.                 *)

\* snapshot resets an idle budget as well.
Snapshot ==
    /\ IdleResets
    /\ busy' = 0
    /\ streak' = 0
    /\ UNCHANGED <<until, idle, required, probation, pc, provider, restarter, saved,
                   retries, ghosts>>

Tick ==
    /\ until > 0 \/ (idle \in 0..(IdleReset - 1))
    /\ until' = IF until > 0 THEN until - 1 ELSE until
    /\ idle' = IF idle = -1 THEN -1 ELSE Min({IdleReset, idle + 1})
    /\ UNCHANGED <<busy, streak, required, probation, pc, provider, restarter,
                   saved, retries, ghosts>>

\* The rows of the loops are recovered.  A recovery that was under way, or that
\* waited for the phone, is known to the process alone: it is gone, or a person
\* asks for it again.
Crash == \E dropped \in SUBSET (Calls \ LoopCalls) :
    /\ crashes < MaxCrashes
    /\ crashes' = crashes + 1
    /\ provider' = None
    /\ restarter' = None
    /\ pc' = [c \in Calls |-> IF pc[c] \in Over THEN pc[c]
                              ELSE IF c \in dropped THEN "failed" ELSE "pending"]
    /\ lost' = [c \in Calls |-> lost[c] + (IF pc[c] = "save" THEN 1 ELSE 0)]
    /\ UNCHANGED <<governor, saved, retries, answered, scheduled, restarts, failures>>

----------------------------------------------------------------------------
Init ==
    /\ until = NoCooldown /\ busy = 0 /\ streak = 0 /\ idle = -1
    /\ required = FALSE /\ probation = FALSE
    /\ pc = [c \in Calls |-> "pending"]
    /\ provider = None /\ restarter = None
    /\ saved = {} /\ retries = [c \in Calls |-> 0]
    /\ answered = [c \in Calls |-> 0] /\ lost = [c \in Calls |-> 0]
    /\ scheduled = 0 /\ restarts = 0 /\ failures = 0 /\ crashes = 0

CallStep(c) ==
    \/ CanStart(c) \/ Call(c) \/ ReuseSaved(c) \/ Defer(c) \/ BeforeInference(c)
    \/ RestartAlreadyDone(c) \/ BeginRestart(c) \/ EndRestart(c)
    \/ Answer(c) \/ Save(c) \/ Finish(c) \/ TriggerSevereCooldown(c)

Next ==
    \/ \E c \in Calls : CallStep(c) \/ Fail(c) \/ JobTimeout(c)
    \/ Snapshot
    \/ Tick
    \/ Crash

Spec == Init /\ [][Next]_vars

\* Each step of a call is taken by the event loop, which wakes the waiters of a
\* lock in order; the loop of the device takes a pending row, and starts a waiting
\* recovery, at its next poll; and time passes.  Nothing is assumed of failures,
\* timeouts and crashes.
Fairness == WF_vars(Tick) /\ \A c \in Calls : WF_vars(CallStep(c))

FairSpec == Spec /\ Fairness

----------------------------------------------------------------------------
(* Properties.                                                             *)

TypeOK ==
    /\ until \in NoCooldown..SevereCooldown
    /\ busy \in 0..WorkBudget /\ streak \in 0..WarningCount /\ idle \in -1..IdleReset
    /\ required \in BOOLEAN /\ probation \in BOOLEAN
    /\ pc \in [Calls -> Places]
    /\ provider \in Calls \cup {None} /\ restarter \in Calls \cup {None}
    /\ saved \subseteq Calls /\ retries \in [Calls -> 0..MaxRetries]
    /\ answered \in [Calls -> Nat] /\ lost \in [Calls -> Nat]
    /\ scheduled \in Nat /\ restarts \in Nat /\ failures \in Nat /\ crashes \in Nat

\* The phone is asked by one call at a time: whoever waits for its answer, saves
\* one, or restarts it from the gate, holds the provider lock.
OneInferenceAtATime ==
    \A c \in Calls :
        pc[c] \in {"rest_gate", "boot_gate", "infer", "save"} <=> provider = c

\* However many callers find that a cooldown has elapsed, at once or around a
\* timeout or a crash, the phone is restarted at most once for every cooldown
\* that was scheduled ("collapse simultaneous attempts to exactly one").
OneRestartPerCooldown ==
    restarts + (IF required THEN 1 ELSE 0) <= scheduled

\* A running cooldown gets shorter by the passing of time alone: a normal
\* cooldown that is scheduled while a severe one runs does not shorten it, and
\* neither a gate, a restart, a timeout nor a crash ends it early.
CooldownOnlyElapses ==
    [][until > 0 => until' >= until \/ Tick]_vars

\* The phone is asked again only for an answer that was lost between its arrival
\* and its saving: every other answer is used once, across deferrals, timeouts
\* and crashes of the job it belongs to.
AnswersAccounted ==
    \A c \in Calls :
        answered[c] = lost[c] + (IF pc[c] \in {"save", "use", "done"} \/ c \in saved THEN 1 ELSE 0)

\* A call is completed, or given up after failures of its own or with the process,
\* and never kept waiting for ever: cooldowns that others cause, refusals at the
\* gate, and the restart that somebody else begins let it come to its turn.
EveryCallEnds == \A c \in Calls : <>(pc[c] \in Over)

-----------------------------------------------------------------------------
(* What the code does not keep, whatever the documents say: no run requires  *)
(* it.  README.md, section 4, names the steps that break each statement.     *)

\* before_inference's promise that restart and inference are single-flight: the
\* phone is not restarted while a call waits for its answer.
RestartAlone ==
    restarter # None => \A c \in Calls : pc[c] # "infer"

=============================================================================

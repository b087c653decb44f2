------------------------------ MODULE GroqQuota ------------------------------
(***************************************************************************)
(* The free-tier guard of the Groq account (src/app/groq_quota.py) and the *)
(* callers that reserve a request with it: verifier calls and answers,     *)
(* which hold the groq device lock, and health checks, which do not        *)
(* (src/app/verifier_clients.py, src/app/rag_generation.py,                *)
(* src/app/main.py).                                                       *)
(*                                                                         *)
(* A caller reserves, sends, and has its answer recorded; the requests and *)
(* tokens of the last 24 hours and the headers of the last answer are on   *)
(* disk, the reservations are not.  The account itself counts every        *)
(* request it receives, whether or not its answer arrives; an answer may   *)
(* lack a header, or carry one that does not parse.                        *)
(***************************************************************************)
EXTENDS Integers, Sequences, FiniteSets, FiniteSetsExt

CONSTANTS
    VerifierCalls,   \* inferences of a verifier (_reserved_client)
    AnswerCalls,     \* cloud answers to questions (_generate_groq)
    HealthCalls,     \* health checks: a request of no tokens, without the lock
    RequestStop,     \* request_stop_at
    TokenStop,       \* token_stop_at
    Estimate,        \* tokens a call reserves
    Overshoot,       \* tokens an answer may use beyond the estimate
    Usages,          \* the numbers of tokens answers may use
    AccountLimit,    \* requests the account allows between two resets
    AccountStop,     \* server_stop_remaining: what the guard leaves of them
    Window,          \* ticks in 24 hours
    PauseTicks,      \* how long a 429 pauses
    MaxFaults,       \* bound: requests that fail or are cancelled, answers that lack a header
    MaxCrashes       \* bound: restarts of the program

Calls == VerifierCalls \cup AnswerCalls \cup HealthCalls
Serialized == VerifierCalls \cup AnswerCalls
None == -1         \* a number that is not known
NoCall == "none"
\* The x-ratelimit headers: remaining-requests, reset-requests, remaining-tokens,
\* reset-tokens.
HeaderNames == {"left", "reset", "room", "roomReset"}

ASSUME QuotaAssumption ==
    /\ VerifierCalls \cap AnswerCalls = {} /\ Serialized \cap HealthCalls = {}
    /\ NoCall \notin Calls /\ IsFiniteSet(HealthCalls)
    /\ {RequestStop, TokenStop, Window, PauseTicks, AccountLimit, AccountStop} \subseteq Nat \ {0}
    /\ {Estimate, Overshoot, MaxFaults, MaxCrashes} \subseteq Nat
    /\ 0 \in Usages /\ Usages \subseteq 0 .. Estimate + Overshoot
    \* What the guard may spend is more than the calls in flight at one time.
    /\ AccountLimit - AccountStop > Cardinality(HealthCalls)

VARIABLES
    events,        \* sequence of [age, tokens]: the answers of the last 24 hours
    pause,         \* what is left of temporary_pause_until_epoch, 0 when none
    remaining,     \* last_server_remaining_requests, None when unknown or stale
    reset,         \* what is left until last_server_reset_requests_epoch, or None
    tpm,           \* estimates that fit last_server_remaining_tpm_tokens, or None
    dated,         \* whether last_server_reset_tpm_epoch is on record
    reserved,      \* calls in flight that hold a reservation
    leaked,        \* reservations of calls that are over
    pc,            \* [Calls -> "idle", "sent", "answered", "closed"]
    header,        \* [Calls -> what the account says with its answer (the requests left, the
                   \*  time to the reset) and told, the headers that arrive and parse]
    lock,          \* holder of the groq device lock, or NoCall
    used,          \* the account: requests counted since its last reset
    resetIn,       \* the account: ticks until its reset
    stray,         \* ghost: requests never recorded in this account period, or without headers
    torn,          \* ghost: answers recorded in it with one of left and reset only
    lost, partial, crashes  \* bounds

window == <<events, pause, remaining, reset, tpm, dated>>
account == <<used, resetIn, stray, torn>>
bounds == <<lost, partial, crashes>>
vars == <<window, reserved, leaked, pc, header, lock, account, bounds>>

EstimateOf(c) == IF c \in HealthCalls THEN 0 ELSE Estimate
NoAnswer == [left |-> None, reset |-> 0, told |-> {}]

----------------------------------------------------------------------------
(* What the guard knows.                                                   *)

\* The sum of the first n numbers of f.
Total(f, n) == LET sum[k \in 0 .. n] == IF k = 0 THEN 0 ELSE sum[k - 1] + f[k] IN sum[n]

UsedTokens == Total([k \in DOMAIN events |-> events[k].tokens], Len(events))
Reservations == Cardinality(reserved) + leaked
TokenReservations == Cardinality(reserved \cap Serialized) + leaked

\* Mutant: only what was answered counts, not what is in flight.
RequestReserveOfEvents == Len(events) + 1 > RequestStop

RequestReserve == Len(events) + Reservations + 1 > RequestStop
TokenReserve(c) == UsedTokens + Estimate * TokenReservations + EstimateOf(c) > TokenStop
\* Mutant: the headers of the account are not looked at.
AccountReserveUnread == FALSE

AccountReserve == remaining # None /\ remaining - Reservations <= AccountStop
MinuteReserve(c) == tpm # None /\ c \in Serialized /\ tpm - TokenReservations < 1

\* _snapshot: the reasons a call is refused for.
Paused(c) ==
    pause > 0 \/ RequestReserve \/ TokenReserve(c) \/ AccountReserve \/ MinuteReserve(c)

----------------------------------------------------------------------------
(* A call.                                                                 *)

TakeLock(c) ==
    /\ c \in Serialized /\ pc[c] = "idle" /\ lock = NoCall
    /\ lock' = c
    /\ UNCHANGED <<window, reserved, leaked, pc, header, account, bounds>>

\* CloudQuotaPausedError: nothing is reserved.
Refuse(c) ==
    /\ lock = c /\ pc[c] = "idle" /\ Paused(c)
    /\ lock' = NoCall
    /\ UNCHANGED <<window, reserved, leaked, pc, header, account, bounds>>

\* reserve_request checks and reserves in one locked section; the request is sent.
Reserve(c) ==
    /\ pc[c] = "idle" /\ (c \in Serialized => lock = c)
    /\ ~Paused(c)
    /\ reserved' = reserved \cup {c}
    /\ pc' = [pc EXCEPT ![c] = "sent"]
    /\ UNCHANGED <<window, leaked, header, lock, account, bounds>>

\* The account counts the request and answers: it says what is left of it and for
\* how long, in the headers that arrive.
AccountAnswers(c) ==
    /\ pc[c] = "sent"
    /\ used' = used + 1
    /\ \E told \in SUBSET HeaderNames :
        /\ told # HeaderNames => lost + partial < MaxFaults
        /\ partial' = IF told = HeaderNames THEN partial ELSE partial + 1
        /\ header' = [header EXCEPT ![c] =
             [left |-> Max({0, AccountLimit - used'}), reset |-> resetIn, told |-> told]]
    /\ pc' = [pc EXCEPT ![c] = "answered"]
    /\ UNCHANGED <<window, reserved, leaked, lock, resetIn, stray, torn, lost, crashes>>

\* A cloud answer is recorded after its HTTP client was closed.
CloseClient(c) ==
    /\ c \in AnswerCalls /\ pc[c] = "answered"
    /\ pc' = [pc EXCEPT ![c] = "closed"]
    /\ UNCHANGED <<window, reserved, leaked, header, lock, account, bounds>>

Over(c) ==
    /\ header' = [header EXCEPT ![c] = NoAnswer]
    /\ pc' = [pc EXCEPT ![c] = "idle"]
    /\ lock' = IF lock = c THEN NoCall ELSE lock

\* record_response: the reservation becomes an event; each header that arrived and
\* parses replaces what is on record, a missing one leaves it; a 429 is remembered.
Record(c) ==
    /\ pc[c] = (IF c \in AnswerCalls THEN "closed" ELSE "answered")
    /\ Over(c)
    /\ reserved' = reserved \ {c}
    /\ LET told == header[c].told
       IN  /\ remaining' = IF "left" \in told THEN header[c].left ELSE remaining
           /\ reset' = IF "reset" \in told THEN header[c].reset ELSE reset
           /\ tpm' \in IF "room" \in told THEN {0, 1} ELSE {tpm}
           /\ dated' = (dated \/ "roomReset" \in told)
           /\ stray' = IF told \cap {"left", "reset"} = {} THEN stray + 1 ELSE stray
           /\ torn' = IF told \cap {"left", "reset"} \in {{"left"}, {"reset"}} THEN torn + 1 ELSE torn
    /\ \E tokens \in IF c \in HealthCalls THEN {0} ELSE Usages, limited \in BOOLEAN :
        /\ limited => tokens = 0
        /\ events' = Append(events, [age |-> 0, tokens |-> tokens])
        /\ pause' = IF limited THEN PauseTicks ELSE pause
    /\ UNCHANGED <<leaked, used, resetIn, bounds>>

\* The request fails or its call is cancelled, before or after the account
\* counted it, and the reservation is released.
Lose(c) ==
    /\ pc[c] = "sent" \/ (pc[c] = "answered" /\ c \notin AnswerCalls)
    /\ lost + partial < MaxFaults
    /\ lost' = lost + 1
    /\ Over(c)
    /\ reserved' = reserved \ {c}
    /\ \E counted \in IF pc[c] = "sent" THEN {0, 1} ELSE {0} :
        /\ used' = used + counted
        /\ stray' = stray + (IF pc[c] = "sent" THEN counted ELSE 1)
    /\ UNCHANGED <<window, leaked, resetIn, torn, partial, crashes>>

\* A cloud answer releases its reservation only when posting fails: cancelled
\* while the client is closed, or before the answer is recorded, it leaves it.
Leak(c) ==
    /\ c \in AnswerCalls /\ pc[c] \in {"answered", "closed"}
    /\ lost + partial < MaxFaults
    /\ lost' = lost + 1
    /\ Over(c)
    /\ reserved' = reserved \ {c}
    /\ leaked' = leaked + 1
    /\ stray' = stray + 1
    /\ UNCHANGED <<window, used, resetIn, torn, partial, crashes>>

----------------------------------------------------------------------------
(* Time and restarts.                                                      *)


\* _prune drops what is older than 24 hours, an expired pause and the counts whose
\* reset is on record and over (a count without its reset is never dropped);
\* the events are in the order of their times, the oldest first.
Tick ==
    /\ events' = LET old == Cardinality({k \in DOMAIN events : events[k].age = Window})
                 IN  [k \in 1 .. Len(events) - old |-> [events[k + old] EXCEPT !.age = @ + 1]]
    /\ pause' = Max({0, pause - 1})
    /\ reset' = IF reset <= 1 THEN None ELSE reset - 1
    /\ remaining' = IF reset # None /\ reset <= 1 THEN None ELSE remaining
    /\ tpm' = IF dated THEN None ELSE tpm
    /\ dated' = FALSE
    /\ resetIn' = IF resetIn = 1 THEN Window ELSE resetIn - 1
    /\ used' = IF resetIn = 1 THEN 0 ELSE used
    /\ stray' = IF resetIn = 1 THEN 0 ELSE stray
    /\ torn' = IF resetIn = 1 THEN 0 ELSE torn
    /\ UNCHANGED <<reserved, leaked, pc, header, lock, bounds>>

\* A restart cancels every request in flight; the reservations go with them.
Crash ==
    /\ crashes < MaxCrashes
    /\ crashes' = crashes + 1
    /\ reserved' = {} /\ leaked' = 0
    /\ pc' = [c \in Calls |-> "idle"]
    /\ header' = [c \in Calls |-> NoAnswer]
    /\ lock' = NoCall
    /\ \E counted \in SUBSET {c \in Calls : pc[c] = "sent"} :
        /\ used' = used + Cardinality(counted)
        /\ stray' = stray + Cardinality(counted)
                         + Cardinality({c \in Calls : pc[c] \in {"answered", "closed"}})
    /\ UNCHANGED <<window, resetIn, torn, lost, partial>>

----------------------------------------------------------------------------
Init ==
    /\ events = <<>> /\ pause = 0 /\ remaining = None /\ reset = None
    /\ tpm = None /\ dated = FALSE
    /\ reserved = {} /\ leaked = 0
    /\ pc = [c \in Calls |-> "idle"] /\ header = [c \in Calls |-> NoAnswer] /\ lock = NoCall
    /\ used = 0 /\ resetIn = Window /\ stray = 0 /\ torn = 0
    /\ lost = 0 /\ partial = 0 /\ crashes = 0

Progress(c) == AccountAnswers(c) \/ CloseClient(c) \/ Record(c)

Next ==
    \/ \E c \in Calls :
        TakeLock(c) \/ Refuse(c) \/ Reserve(c) \/ Progress(c) \/ Lose(c) \/ Leak(c)
    \/ Tick
    \/ Crash

Spec == Init /\ [][Next]_vars

\* A request in flight is answered or fails (every client has timeouts), what was
\* answered is recorded, and time passes.
Fairness == WF_vars(Tick) /\ \A c \in Calls : WF_vars(Progress(c))

FairSpec == Spec /\ Fairness

----------------------------------------------------------------------------
(* Properties.                                                             *)

TypeOK ==
    /\ events \in Seq([age : 0..Window, tokens : Usages])
    /\ pause \in 0..PauseTicks /\ reset \in {None} \cup 0..Window
    /\ tpm \in {None, 0, 1} /\ dated \in BOOLEAN
    /\ remaining \in {None} \cup 0..AccountLimit
    /\ reserved \subseteq Calls /\ leaked \in Nat
    /\ pc \in [Calls -> {"idle", "sent", "answered", "closed"}]
    /\ header \in [Calls -> [left : {None} \cup 0..AccountLimit, reset : 0..Window, told : SUBSET HeaderNames]]
    /\ lock \in Serialized \cup {NoCall}
    /\ used \in Nat /\ resetIn \in 1..Window /\ stray \in Nat /\ torn \in Nat
    /\ lost \in Nat /\ partial \in Nat /\ crashes \in Nat

\* Concurrent calls never pass the same snapshot: the requests of the last 24
\* hours and those in flight stay within the stop fraction, and so do their
\* tokens but for what answers used beyond their estimate.
ReserveKept ==
    /\ Len(events) + Reservations <= RequestStop
    /\ UsedTokens + Estimate * TokenReservations
         <= TokenStop + Overshoot * Cardinality({k \in DOMAIN events : events[k].tokens > Estimate})

\* The account keeps its reserve although its headers arrive late, out of order
\* or not at all: the guard goes beyond it by the requests whose answers told it
\* nothing (never recorded, or recorded without headers), by no more than the n
\* health checks, which hold no device lock, can open it again with the headers
\* of answers that others have overtaken (one if n is 1, 1 + 2 if n is 2, and so
\* on), and by n + 1, the calls there are at one time, for each answer that came
\* with one header only: a count beside the reset of an older answer is dropped
\* before its time.
AccountReserveKept ==
    LET n == Cardinality(HealthCalls)
    IN  AccountLimit - used >= AccountStop - stray - (n + 1) * torn - (n * (n + 1)) \div 2

\* A count on record whose reset is not: _prune never drops it.
Undated == (remaining # None /\ reset = None) \/ (tpm # None /\ ~dated)


----------------------------------------------------------------------------
(* What the code does not keep, whatever the documents say: no run requires  *)
(* it.  README.md, section 4, names the steps that break these statements.   *)

\* release_reservation's promise: a reservation belongs to a request in flight.
ReservationsInFlight == leaked = 0

\* The guard never stays shut for ever, whatever headers came.
GuardReopens == \A c \in VerifierCalls : []<>~Paused(c)

=============================================================================

--------------------------- MODULE EndpointCircuit ---------------------------
(* The circuit breakers of the two verifier devices and the background tasks  *)
(* that wait behind them (src/app/stage2b.py): text backfills, which wait for *)
(* the Pi 5, recoveries of visual evidence, which wait for the phone, and     *)
(* manual cross-checks, which do not wait.  Every step is the code between    *)
(* two awaits.  Each loop serves its own device (the default roles), and the  *)
(* text and vision providers of the tasks are the devices.  A restart of the  *)
(* service loses all of this state: it is Init again.                         *)
EXTENDS Integers, FiniteSets

CONSTANTS
    Backfills,    \* Stage 2C builds and correction suggestions, by book
    Persisted,    \* the Stage 2C builds: they write their state after an outage
    Recoveries,   \* evidence recoveries, by verification job
    Checks,       \* manual cross-checks, by verification job
    None,
    Slots,        \* bound: runs of one task at a time
    MaxDelay,     \* longest back-off, in polls (its base is one poll)
    MaxDrops,     \* bound: how often a device goes away
    Rows,         \* bound: rows each loop still has to verify
    MaxCalls      \* bound: calls of the operator

Providers == {"pi5", "oneplus"}
Tasks == Backfills \cup Recoveries \cup Checks
Runs == Tasks \X Slots
Worker(l) == <<l, 0>>                \* the loop of a device
Workers == {Worker(l) : l \in Providers}
Actors == Workers \cup Runs
MaxStarts == 2                       \* bound: starts of a task in flight

ASSUME CircuitAssumption ==
    /\ Persisted \subseteq Backfills
    /\ Slots \subseteq Nat \ {0}
    /\ MaxDelay \in Nat \ {0} /\ MaxDrops \in Nat /\ Rows \in [Providers -> Nat] /\ MaxCalls \in Nat

VARIABLES
    circuit,   \* per device: open, failures in a row, polls until the next probe
    lock,      \* per device: the actor that holds the probe lock
    pc,        \* where each loop and each run stands
    status,    \* per task: the state the registry shows
    handle,    \* per task: the run the registry knows, 0 once that is done
    shown,     \* runs whose state dictionary is the one the registry shows
    starting,  \* per task: start calls past the check for a running task
    woken,     \* per device: a resume pass was created and has not begun
    todo,      \* tasks a resume pass has still to look at
    device,    \* per device: "up", "down" or (the phone) "cooling"
    paused,    \* per loop: paused by the operator
    drops, rows, calls

vars == <<circuit, lock, pc, status, handle, shown, starting, woken, todo,
          device, paused, drops, rows, calls>>
taskVars == <<status, handle, shown, starting>>
wakeVars == <<woken, todo>>
worldVars == <<device, paused, drops, rows, calls>>

TypeOK ==
    /\ circuit \in [Providers -> [open: BOOLEAN, failures: 0..MaxDelay, due: 0..MaxDelay]]
    /\ lock \in [Providers -> Actors \cup {None}]
    /\ pc \in [Actors -> {"none", "sleep", "poll", "ready", "job", "idle", "begin", "check",
                          "work", "saving", "wait", "health", "closing", "opening"}]
    /\ status \in [Tasks -> {"none", "queued", "running", "waiting", "ended"}]
    /\ handle \in [Tasks -> {0} \cup Slots] /\ shown \subseteq Runs
    /\ starting \in [Tasks -> 0..MaxStarts]
    /\ woken \in [Providers -> BOOLEAN] /\ todo \subseteq Tasks
    /\ device \in [Providers -> {"up", "down", "cooling"}] /\ paused \in [Providers -> BOOLEAN]
    /\ drops \in 0..MaxDrops /\ rows \in [Providers -> Nat] /\ calls \in 0..MaxCalls

\* The count of a closed circuit is the one the next outage starts from.
Closed == [open |-> FALSE, failures |-> 0, due |-> 0]

Init ==
    /\ circuit = [p \in Providers |-> Closed]
    /\ lock = [p \in Providers |-> None]
    /\ pc = [x \in Actors |-> IF x \in Workers THEN "poll" ELSE "none"]
    /\ status = [t \in Tasks |-> "none"] /\ handle = [t \in Tasks |-> 0]
    /\ shown = {} /\ starting = [t \in Tasks |-> 0]
    /\ woken = [p \in Providers |-> FALSE] /\ todo = {}
    /\ device = [p \in Providers |-> "up"] /\ paused = [p \in Providers |-> FALSE]
    /\ drops = 0 /\ rows = Rows /\ calls = 0

ProviderOf(x) ==
    IF x \in Workers THEN x[1] ELSE IF x[1] \in Backfills THEN "pi5" ELSE "oneplus"

Lesser(a, b) == IF a < b THEN a ELSE b

-----------------------------------------------------------------------------
(* The circuit. *)

\* A failure opens the circuit or counts on; either way the back-off starts
\* afresh.  The count stops where the delay has reached its maximum.
Opened(c) ==
    LET n == Lesser(MaxDelay, (IF c.open THEN c.failures ELSE 0) + 1)
    IN  [open |-> TRUE, failures |-> n, due |-> Lesser(MaxDelay, 2^(n - 1))]

OpenCircuit(p) == circuit' = [circuit EXCEPT ![p] = Opened(@)]

CloseCircuit(p) == circuit' = [circuit EXCEPT ![p] = Closed]

Goto(x, where) == pc' = [pc EXCEPT ![x] = where]

Release(x) == lock' = [p \in Providers |-> IF lock[p] = x THEN None ELSE lock[p]]

\* The state a run writes is seen only while its dictionary is the registry's.
Shown(x, s) == status' = IF x \in shown THEN [status EXCEPT ![x[1]] = s] ELSE status

\* Where a run is once its state says that it waits: a Stage 2C build still
\* has to write that state down, and its task counts as running meanwhile.
Waiting(x) ==
    /\ Shown(x, "waiting")
    /\ Goto(x, IF x[1] \in Persisted THEN "saving" ELSE "none")

\* A recovery that found its endpoint away waits, and opens the circuit (again).
WaitAndOpen(x) ==
    /\ Shown(x, "waiting") /\ OpenCircuit(ProviderOf(x)) /\ Goto(x, "opening")

\* The gate said no: a loop idles, a backfill waits, and a recovery raises the
\* ConnectionError that it then handles like one of the endpoint's.
TurnedAway(x) ==
    \/ x \in Workers /\ Goto(x, "idle") /\ UNCHANGED <<circuit, status>>
    \/ x \in Backfills \X Slots /\ Waiting(x) /\ UNCHANGED circuit
    \/ x \in Recoveries \X Slots /\ WaitAndOpen(x)

Admitted(x) ==
    /\ Goto(x, IF x \in Workers THEN "ready" ELSE "work")
    /\ UNCHANGED <<circuit, status>>

\* The gate, first without the lock, then (Probe) with it: closed, not due, or due.
Gate(x) ==
    LET c == circuit[ProviderOf(x)]
    IN  \/ ~c.open /\ Admitted(x)
        \/ c.open /\ c.due > 0 /\ TurnedAway(x)
        \/ c.open /\ c.due = 0 /\ Goto(x, "wait") /\ UNCHANGED <<circuit, status>>

Probe(x) ==
    LET p == ProviderOf(x)
        c == circuit[p]
    IN  /\ pc[x] = "wait" /\ lock[p] = None
        /\ \/ ~c.open /\ Admitted(x) /\ UNCHANGED lock
           \/ c.open /\ c.due > 0 /\ TurnedAway(x) /\ UNCHANGED lock
           \/ /\ c.open /\ c.due = 0
              /\ lock' = [lock EXCEPT ![p] = x] /\ Goto(x, "health")
              /\ UNCHANGED <<circuit, status>>
        /\ UNCHANGED <<handle, shown, starting, wakeVars, worldVars>>

\* The health answer, under the lock.  A success closes a circuit that is still
\* open; one that a row has closed meanwhile needs no more than the lock back.
Answer(x) ==
    LET p == ProviderOf(x)
    IN  /\ pc[x] = "health"
        /\ \/ device[p] # "down" /\ circuit[p].open /\ CloseCircuit(p) /\ Goto(x, "closing")
              /\ UNCHANGED <<lock, status>>
           \/ device[p] # "down" /\ ~circuit[p].open /\ Admitted(x) /\ Release(x)
           \/ device[p] # "up" /\ OpenCircuit(p) /\ Goto(x, "opening") /\ UNCHANGED <<lock, status>>
        /\ UNCHANGED <<handle, shown, starting, wakeVars, worldVars>>

\* The outage file of a closing circuit is written: a resume pass is created.
WriteClosed(x) ==
    LET p == ProviderOf(x)
    IN  /\ pc[x] = "closing"
        /\ woken' = [woken EXCEPT ![p] = TRUE]
        /\ IF lock[p] = x THEN Admitted(x) ELSE Goto(x, "poll") /\ UNCHANGED <<circuit, status>>
        /\ Release(x)
        /\ UNCHANGED <<todo, handle, shown, starting, worldVars>>

\* The outage file of an opening circuit is written.  A failed probe turns its
\* caller away; a failed row goes back to the queue; a backfill says only now
\* that it waits, after the await; a recovery has said so already.
WriteOpened(x) ==
    /\ pc[x] = "opening"
    /\ \/ lock[ProviderOf(x)] = x /\ TurnedAway(x)
       \/ lock[ProviderOf(x)] # x /\ x \in Backfills \X Slots /\ Waiting(x) /\ UNCHANGED circuit
       \/ /\ lock[ProviderOf(x)] # x /\ x \notin Backfills \X Slots
          /\ Goto(x, IF x \in Workers THEN "poll" ELSE "none")
          /\ UNCHANGED <<circuit, status>>
    /\ Release(x)
    /\ UNCHANGED <<handle, shown, starting, wakeVars, worldVars>>

-----------------------------------------------------------------------------
(* The worker loops. *)

CanStart(l) == l = "oneplus" => device[l] # "cooling"

LoopPass(l) ==
    /\ pc[Worker(l)] = "poll"
    /\ \/ paused[l] /\ Goto(Worker(l), "sleep") /\ UNCHANGED <<circuit, status>>
       \/ ~paused[l] /\ CanStart(l) /\ Gate(Worker(l))
       \/ ~paused[l] /\ ~CanStart(l) /\ Goto(Worker(l), "idle") /\ UNCHANGED <<circuit, status>>
    /\ UNCHANGED <<lock, handle, shown, starting, wakeVars, worldVars>>

\* Nothing to claim: the phone's loop wakes waiting recoveries, then it sleeps.
Idle(l) ==
    /\ Goto(Worker(l), "sleep")
    /\ woken' = [woken EXCEPT ![l] = @ \/ /\ l = "oneplus" /\ CanStart(l)
                                          /\ \E r \in Recoveries : status[r] = "waiting"]

\* A row is claimed if the queue has one for this loop.
LoopClaim(l) ==
    /\ \/ pc[Worker(l)] = "ready" /\ rows[l] > 0 /\ Goto(Worker(l), "job") /\ UNCHANGED woken
       \/ pc[Worker(l)] \in {"ready", "idle"} /\ Idle(l)
    /\ UNCHANGED <<circuit, lock, taskVars, todo, worldVars>>

\* A row that succeeds closes an open circuit without a probe.  A connection
\* failure opens it and defers the row; other failures go the way of retries.
LoopRow(l) ==
    /\ pc[Worker(l)] = "job"
    /\ \/ /\ device[l] = "up" /\ rows' = [rows EXCEPT ![l] = @ - 1]
          /\ IF circuit[l].open THEN CloseCircuit(l) /\ Goto(Worker(l), "closing")
                                ELSE Goto(Worker(l), "poll") /\ UNCHANGED circuit
       \/ device[l] = "down" /\ OpenCircuit(l) /\ Goto(Worker(l), "opening") /\ UNCHANGED rows
       \/ device[l] # "up" /\ Goto(Worker(l), "poll") /\ UNCHANGED <<circuit, rows>>
    /\ UNCHANGED <<lock, taskVars, wakeVars, device, paused, drops, calls>>

\* A poll interval passes.  The parts of a pass that only ask take no time.
Tick ==
    /\ \A x \in Workers : pc[x] \notin {"poll", "ready", "idle"}
    /\ circuit' = [p \in Providers |-> [circuit[p] EXCEPT !.due = IF @ = 0 THEN 0 ELSE @ - 1]]
    /\ pc' = [x \in Actors |-> IF pc[x] = "sleep" THEN "poll" ELSE pc[x]]
    /\ UNCHANGED <<lock, taskVars, wakeVars, worldVars>>

-----------------------------------------------------------------------------
(* The background tasks. *)

Live(t) == handle[t] # 0 /\ pc[<<t, handle[t]>>] # "none"

\* The operator asks for a task; the call reads the store after this check.
StartCall(t) ==
    /\ calls < MaxCalls /\ calls' = calls + 1
    /\ ~Live(t) /\ starting[t] < MaxStarts
    /\ starting' = [starting EXCEPT ![t] = @ + 1]
    /\ UNCHANGED <<circuit, lock, pc, status, handle, shown, wakeVars, device, paused, drops, rows>>

\* The store was read: the task is created, without a second check that none
\* runs by now, with a new state in the registry's place.
StartCreate(t, k) ==
    /\ starting[t] > 0 /\ pc[<<t, k>>] = "none"
    /\ starting' = [starting EXCEPT ![t] = @ - 1]
    /\ handle' = [handle EXCEPT ![t] = k] /\ Goto(<<t, k>>, "begin")
    /\ status' = [status EXCEPT ![t] = "queued"]
    /\ shown' = {x \in shown : x[1] # t}
    /\ UNCHANGED <<circuit, lock, wakeVars, worldVars>>

\* A precondition fails, or no suggestion is missing (done without a task).
StartRefused(t) ==
    /\ starting[t] > 0
    /\ starting' = [starting EXCEPT ![t] = @ - 1]
    /\ \/ UNCHANGED <<status, shown>>
       \/ /\ t \in Backfills \ Persisted
          /\ status' = [status EXCEPT ![t] = "ended"]
          /\ shown' = {x \in shown : x[1] # t}
    /\ UNCHANGED <<circuit, lock, pc, handle, wakeVars, worldVars>>

\* A run takes the registry's state as its own.  A backfill behind a closed
\* circuit asks the endpoint itself; behind an open one it goes by the gate.
RunBegin(x) ==
    /\ pc[x] = "begin" /\ shown' = shown \cup {x}
    /\ status' = [status EXCEPT ![x[1]] = "running"]
    /\ Goto(x, IF x[1] \in Checks THEN "work" ELSE "check")
    /\ UNCHANGED <<circuit, lock, handle, starting, wakeVars, worldVars>>

BackfillReady(x) ==
    /\ pc[x] = "check" /\ x[1] \in Backfills
    /\ \/ circuit["pi5"].open /\ Gate(x)
       \/ ~circuit["pi5"].open /\ device["pi5"] = "up" /\ Admitted(x)
       \/ ~circuit["pi5"].open /\ device["pi5"] # "up" /\ OpenCircuit("pi5")
          /\ Goto(x, "opening") /\ UNCHANGED status
    /\ UNCHANGED <<lock, handle, shown, starting, wakeVars, worldVars>>

RecoveryReady(x) ==
    /\ pc[x] = "check" /\ x[1] \in Recoveries /\ Gate(x)
    /\ UNCHANGED <<lock, handle, shown, starting, wakeVars, worldVars>>

\* A run ends; a Stage 2C build writes its state first.
RunEnds(x) ==
    /\ pc[x] = "work" /\ (x[1] \in Recoveries => device["oneplus"] = "up")
    /\ Shown(x, "ended")
    /\ Goto(x, IF x[1] \in Persisted THEN "saving" ELSE "none")
    /\ UNCHANGED <<circuit, lock, handle, shown, starting, wakeVars, worldVars>>

RunSaved(x) ==
    /\ pc[x] = "saving" /\ Goto(x, "none")
    /\ UNCHANGED <<circuit, lock, taskVars, wakeVars, worldVars>>

\* A request of a backfill fails: the circuit opens before the state says so.
BackfillFails(x) ==
    /\ pc[x] = "work" /\ x[1] \in Backfills /\ device["pi5"] # "up"
    /\ OpenCircuit("pi5") /\ Goto(x, "opening")
    /\ UNCHANGED <<lock, taskVars, wakeVars, worldVars>>

\* A recovery waits when the phone cools down or does not answer; only a failed
\* connection opens the circuit, a timeout does not.
RecoveryFails(x) ==
    /\ pc[x] = "work" /\ x[1] \in Recoveries /\ device["oneplus"] # "up"
    /\ \/ device["oneplus"] = "down" /\ WaitAndOpen(x)
       \/ Shown(x, "waiting") /\ Goto(x, "none") /\ UNCHANGED circuit
    /\ UNCHANGED <<lock, handle, shown, starting, wakeVars, worldVars>>

-----------------------------------------------------------------------------
(* The resume passes. *)

\* Mutant: the resume pass of the text backfills is forgotten.
WakeBeginsPhone(p) ==
    /\ woken[p] /\ woken' = [woken EXCEPT ![p] = FALSE]
    /\ todo' = todo \cup {r \in Recoveries : p = "oneplus" /\ status[r] = "waiting"}
    /\ UNCHANGED <<circuit, lock, pc, taskVars, worldVars>>

\* A resume pass begins: over all backfills, or over the recoveries that wait now.
WakeBegins(p) ==
    /\ woken[p] /\ woken' = [woken EXCEPT ![p] = FALSE]
    /\ todo' = todo \cup IF p = "pi5" THEN Backfills
                         ELSE {r \in Recoveries : status[r] = "waiting"}
    /\ UNCHANGED <<circuit, lock, pc, taskVars, worldVars>>

\* Passes over the same task at the same time are one pass here.
WakeNext(t) ==
    /\ t \in todo /\ todo' = todo \ {t}
    /\ IF (t \in Backfills => status[t] = "waiting") /\ ~Live(t)
       THEN starting[t] < MaxStarts /\ starting' = [starting EXCEPT ![t] = @ + 1]
       ELSE UNCHANGED starting
    /\ UNCHANGED <<circuit, lock, pc, status, handle, shown, woken, worldVars>>

-----------------------------------------------------------------------------
(* The devices and the operator. *)

Drop(p) ==
    /\ device[p] = "up" /\ drops < MaxDrops /\ drops' = drops + 1
    /\ \E s \in {"down"} \cup (IF p = "oneplus" THEN {"cooling"} ELSE {}) :
          device' = [device EXCEPT ![p] = s]
    /\ UNCHANGED <<circuit, lock, pc, taskVars, wakeVars, paused, rows, calls>>

Return(p) ==
    /\ device[p] # "up" /\ device' = [device EXCEPT ![p] = "up"]
    /\ UNCHANGED <<circuit, lock, pc, taskVars, wakeVars, paused, drops, rows, calls>>

SetPaused(l) ==
    /\ calls < MaxCalls /\ calls' = calls + 1
    /\ paused' = [paused EXCEPT ![l] = ~@]
    /\ UNCHANGED <<circuit, lock, pc, taskVars, wakeVars, device, drops, rows>>

Loop(l) == LoopPass(l) \/ LoopClaim(l) \/ LoopRow(l)
Gated(x) == Probe(x) \/ Answer(x) \/ WriteClosed(x) \/ WriteOpened(x)
Run(x) == \/ RunBegin(x) \/ BackfillReady(x) \/ RecoveryReady(x) \/ RunEnds(x)
          \/ RunSaved(x) \/ BackfillFails(x) \/ RecoveryFails(x)
Started(t) == StartRefused(t) \/ \E k \in Slots : StartCreate(t, k)

Next ==
    \/ \E l \in Providers : Loop(l) \/ WakeBegins(l) \/ Drop(l) \/ Return(l) \/ SetPaused(l)
    \/ \E x \in Actors : Gated(x)
    \/ \E x \in Runs : Run(x)
    \/ \E t \in Tasks : StartCall(t) \/ Started(t) \/ WakeNext(t)
    \/ Tick

Spec == Init /\ [][Next]_vars

\* The event loop runs every task that can go on, time passes, and a device
\* comes back; nothing obliges the operator, or a device to go away.
FairSpec ==
    /\ Spec /\ WF_vars(Tick)
    /\ \A l \in Providers : /\ WF_vars(Loop(l) \/ Gated(Worker(l)))
                             /\ WF_vars(WakeBegins(l)) /\ WF_vars(Return(l))
    /\ \A x \in Runs : WF_vars(Run(x) \/ Gated(x))
    /\ \A t \in Tasks : WF_vars(Started(t)) /\ WF_vars(WakeNext(t))

-----------------------------------------------------------------------------
(* Properties. *)

\* A text backfill that waits behind an open Pi 5 circuit, its task over, is
\* started again once the endpoint is back, whoever finds that out: the loop, a
\* row or another backfill.  (Unless the operator keeps the loop that probes
\* paused.  A backfill whose circuit is closed between its failure and its
\* waiting state is outside: nothing wakes that one before the next outage.)
BackfillResumed ==
    \A t \in Backfills :
        (status[t] = "waiting" /\ circuit["pi5"].open /\ ~Live(t))
            ~> (status[t] # "waiting" \/ starting[t] > 0 \/ paused["pi5"])

\* An open circuit is probed again, and the loop gets to its work, unless it is
\* paused: the promise of config.py:204-206.  A waiting recovery breaks it: the
\* idle loop starts it at every poll, the gate turns it away, and each time that
\* counts as one more failure, which starts the back-off afresh.
CircuitProbedAgain ==
    \A p \in Providers :
        circuit[p].open ~> (~circuit[p].open \/ paused[p]
                            \/ \E x \in Actors : ProviderOf(x) = p /\ pc[x] = "health")
=============================================================================

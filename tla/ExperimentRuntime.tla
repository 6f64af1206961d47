------------------------- MODULE ExperimentRuntime --------------------------
(***************************************************************************)
(* One `run` process: its main thread starts the layers of an experiment   *)
(* and stops them again, while sampler threads, the thread of the control  *)
(* socket and an agent worker publish events, use the substrate and append *)
(* to the ledger of the run.                                               *)
(*                                                                         *)
(* Nothing here waits for ever for a thread: a layer that does not stop in *)
(* time is given up, and then the substrate is left alone and the run is   *)
(* not declared finished.  The continuous runtime is reduced to its bus    *)
(* and one worker; ContinuousRuntime has the rest of it.                   *)
(*                                                                         *)
(* Sources: experiment.py, runtime/telemetry.py, runtime/control.py,       *)
(* runtime/ledger.py, runtime/events.py, audit/adapters.py and the run     *)
(* command of cli.py.                                                      *)
(***************************************************************************)
EXTENDS Naturals, Sequences

CONSTANTS
    Samplers,   \* threads of the telemetry pipeline, one per policy
    Clients,    \* clients of the control socket, one intent each
    NoOne,      \* nobody holds the ledger
    Capacity,   \* of the event bus
    MaxSamples, \* bound on the samples of each sampler
    MaxFaults,  \* bound on failures and crashes
    MaxRetries  \* bound on the retries of a stop

ASSUME ExperimentAssumption ==
    /\ Capacity \in Nat \ {0} /\ MaxSamples \in Nat
    /\ MaxFaults \in Nat /\ MaxRetries \in Nat
    /\ Samplers \cap Clients = {}
    /\ {"main", "worker", NoOne} \cap (Samplers \cup Clients) = {}
    /\ NoOne \notin {"main", "worker"}

VARIABLES
    exp,        \* state of the experiment
    phase,      \* where the main thread is
    undo,       \* the start has failed and is being undone
    late,       \* layers that did not stop in time, in this stop
    issue,      \* something else went wrong in this stop
    retries,    \* stops that were tried again
    finished,   \* writers_stopped: everything is verified to have stopped
    substrate,  \* "none", "up", "gone", or "left": a failed deploy left something
    telemetry,  \* state of the pipeline; its stop event is set when it is stopping
    continuous, \* state of the continuous runtime
    sampler,    \* each sampler: [at, count]
    worker,     \* the agent worker
    bus,        \* events accepted and not yet taken
    closed,     \* the bus takes no more events
    taken,      \* events the dispatcher has taken, in order
    intake,     \* the control socket: "none", "open", "closing" or "closed"
    conn,       \* what the server does with each client: [at, seq]
    answer,     \* what each client has heard
    nextSeq,    \* next sequence number of source "terminal"
    opened,     \* the ledger is open
    writer,     \* thread inside a ledger transaction
    rows,       \* rows of that transaction
    records,    \* the ledger: [events, others], its events in order and a count
    faults      \* failures so far

mainVars   == <<exp, phase, undo, late, issue, finished, retries>>
layerVars  == <<substrate, telemetry, continuous>>
busVars    == <<bus, closed, taken>>
intakeVars == <<intake, conn, answer, nextSeq>>
ledgerVars == <<opened, writer, rows, records>>
expVars    == <<mainVars, layerVars, sampler, worker, busVars, intakeVars, ledgerVars, faults>>

Publishers == Samplers \cup Clients

\* The memory of a process that has ended.
Blank ==
    /\ exp' = "created" /\ undo' = FALSE /\ late' = {} /\ issue' = FALSE
    /\ finished' = FALSE /\ retries' = 0 /\ telemetry' = "none" /\ continuous' = "none"
    /\ sampler' = [s \in Samplers |-> [at |-> "off", count |-> 0]] /\ worker' = "off"
    /\ bus' = <<>> /\ closed' = TRUE /\ taken' = <<>> /\ nextSeq' = 0
    /\ opened' = FALSE /\ writer' = NoOne /\ rows' = <<>>

Fault == faults < MaxFaults /\ faults' = faults + 1
Goto(p) == phase' = p

-----------------------------------------------------------------------------
(* The ledger: one connection and one lock for all threads of the process *)

Row(from, seq) == [from |-> from, seq |-> seq]

\* append takes the lock, begins an immediate transaction and inserts.
BeginAppend(t, row) ==
    /\ opened /\ writer = NoOne
    /\ writer' = t /\ rows' = <<row>>
    /\ UNCHANGED <<opened, records>>

\* The order of lifecycle and audit records does not matter here.
Commit ==
    /\ records' = IF writer \in Publishers
                  THEN [records EXCEPT !.events = @ \o rows]
                  ELSE [records EXCEPT !.others = @ + Len(rows)]
    /\ writer' = NoOne /\ rows' = <<>>
    /\ UNCHANGED opened

Rollback ==
    /\ writer' = NoOne /\ rows' = <<>>
    /\ UNCHANGED <<opened, records>>

\* A publisher writes the event to the ledger inside the condition of the bus,
\* and only then does the bus hold it.
Condition == writer \notin Publishers
Accepts   == ~closed /\ Len(bus) < Capacity

Enqueue(row) == bus' = Append(bus, row) /\ UNCHANGED <<closed, taken>>

-----------------------------------------------------------------------------
(* Samplers *)

SamplerAt(s, at) == sampler' = [sampler EXCEPT ![s].at = at]

\* The loop looks at the stop event before each sample, and while it waits.
Observe(s) ==
    /\ sampler[s].at = "waiting" /\ sampler[s].count < MaxSamples
    /\ telemetry = "running"
    /\ SamplerAt(s, "observing")
    /\ UNCHANGED <<mainVars, layerVars, worker, busVars, intakeVars, ledgerVars, faults>>

SamplerEnds(s) ==
    /\ sampler[s].at = "waiting" /\ telemetry # "running"
    /\ SamplerAt(s, "ended")
    /\ UNCHANGED <<mainVars, layerVars, worker, busVars, intakeVars, ledgerVars, faults>>

\* observe returns, or fails: the loop goes on after a failure.
Observed(s) ==
    /\ sampler[s].at = "observing"
    /\ \/ SamplerAt(s, "holding") /\ UNCHANGED faults
       \/ Fault /\ sampler' = [sampler EXCEPT ![s] = [at |-> "waiting", count |-> @.count + 1]]
    /\ UNCHANGED <<mainVars, layerVars, worker, busVars, intakeVars, ledgerVars>>

PublishSample(s) ==
    /\ sampler[s].at = "holding"
    /\ Accepts /\ BeginAppend(s, Row(s, sampler[s].count))
    /\ SamplerAt(s, "writing")
    /\ UNCHANGED <<mainVars, layerVars, worker, busVars, intakeVars, faults>>

\* Fault: a sink that fails does not keep the event from the bus.
SampleKept(s) ==
    /\ writer = s
    /\ Enqueue(rows[1])
    /\ (Commit /\ UNCHANGED faults) \/ (Rollback /\ Fault)
    /\ sampler' = [sampler EXCEPT ![s] = [at |-> "waiting", count |-> @.count + 1]]
    /\ UNCHANGED <<mainVars, layerVars, worker, intakeVars>>

SampleWritten(s) ==
    /\ writer = s
    /\ \/ Commit /\ Enqueue(rows[1]) /\ UNCHANGED faults
       \/ Rollback /\ Fault /\ UNCHANGED busVars
    /\ sampler' = [sampler EXCEPT ![s] = [at |-> "waiting", count |-> @.count + 1]]
    /\ UNCHANGED <<mainVars, layerVars, worker, intakeVars>>

\* The runtime is stopping, the bus is closed or full, or the ledger is closed:
\* the pipeline notes an issue and the sampler goes on.
SampleRefused(s) ==
    /\ sampler[s].at = "holding"
    /\ Condition
    /\ continuous # "running" \/ ~Accepts \/ ~opened
    /\ sampler' = [sampler EXCEPT ![s] = [at |-> "waiting", count |-> @.count + 1]]
    /\ UNCHANGED <<mainVars, layerVars, worker, busVars, intakeVars, ledgerVars, faults>>

-----------------------------------------------------------------------------
(* The control socket: one server thread, one connection at a time *)

Served == {"numbered", "writing", "answering", "refusing"}
ConnAt(c, at) == conn' = [conn EXCEPT ![c].at = at]

\* A client connects and sends its request.
Submit(c) ==
    /\ intake = "open" /\ conn[c].at = "none"
    /\ ConnAt(c, "queued")
    /\ UNCHANGED <<mainVars, layerVars, sampler, worker, busVars, intake, answer, nextSeq,
                   ledgerVars, faults>>

\* Fault: each connection is served by a thread of its own.
ServeBeside(c) ==
    /\ intake = "open" /\ conn[c].at = "queued" /\ exp = "running"
    /\ conn' = [conn EXCEPT ![c] = [at |-> "numbered", seq |-> nextSeq]]
    /\ nextSeq' = nextSeq + 1
    /\ UNCHANGED <<mainVars, layerVars, sampler, worker, busVars, intake, answer, ledgerVars, faults>>

\* The server accepts a connection when it has answered the one before.
\* submit_intent takes a number under the lock of the experiment and publishes
\* outside it.  A request that does not arrive whole, or is not valid, is
\* answered with an error.
Serve(c) ==
    /\ intake = "open" /\ conn[c].at = "queued"
    /\ \A other \in Clients : conn[other].at \notin Served
    /\ \/ /\ exp = "running"
          /\ conn' = [conn EXCEPT ![c] = [at |-> "numbered", seq |-> nextSeq]]
          /\ nextSeq' = nextSeq + 1
          /\ UNCHANGED faults
       \/ Fault /\ ConnAt(c, "refusing") /\ UNCHANGED nextSeq
    /\ UNCHANGED <<mainVars, layerVars, sampler, worker, busVars, intake, answer, ledgerVars>>

PublishIntent(c) ==
    /\ conn[c].at = "numbered"
    /\ Accepts /\ BeginAppend(c, Row(c, conn[c].seq))
    /\ ConnAt(c, "writing")
    /\ UNCHANGED <<mainVars, layerVars, sampler, worker, busVars, intake, answer, nextSeq, faults>>

IntentWritten(c) ==
    /\ writer = c
    /\ \/ Commit /\ Enqueue(rows[1]) /\ ConnAt(c, "answering") /\ UNCHANGED faults
       \/ Rollback /\ Fault /\ ConnAt(c, "refusing") /\ UNCHANGED busVars
    /\ UNCHANGED <<mainVars, layerVars, sampler, worker, intake, answer, nextSeq>>

IntentRefused(c) ==
    /\ conn[c].at = "numbered"
    /\ Condition /\ ~Accepts
    /\ ConnAt(c, "refusing")
    /\ UNCHANGED <<mainVars, layerVars, sampler, worker, busVars, intake, answer, nextSeq,
                   ledgerVars, faults>>

Told(c) == IF conn[c].at = "answering" THEN "accepted" ELSE "refused"

\* The answer reaches the client, or the client has given up by now, or the
\* closing server has cut it off: a lost acknowledgement neither undoes nor
\* replays the accepted work, and the client does not try again.
Answer(c) ==
    /\ conn[c].at \in {"answering", "refusing"}
    /\ \/ intake = "open" /\ answer' = [answer EXCEPT ![c] = Told(c)]
       \/ answer' = [answer EXCEPT ![c] = "unknown"]
    /\ ConnAt(c, "done")
    /\ UNCHANGED <<mainVars, layerVars, sampler, worker, busVars, intake, nextSeq, ledgerVars, faults>>

-----------------------------------------------------------------------------
(* The dispatcher and a worker of the continuous runtime *)

\* A stop that does not drain discards what is queued.
Take ==
    /\ worker = "idle" /\ bus # <<>>
    /\ Condition
    /\ ~(undo /\ closed)
    /\ bus' = Tail(bus) /\ taken' = Append(taken, Head(bus))
    /\ worker' = "executing"
    /\ UNCHANGED <<mainVars, layerVars, sampler, closed, intakeVars, ledgerVars, faults>>

\* The agent has acted on the substrate, and the audit of what it did goes to
\* the ledger.
Audit ==
    /\ worker = "executing"
    /\ IF opened THEN BeginAppend("worker", Row("worker", 0)) /\ worker' = "writing"
       ELSE worker' = "idle" /\ UNCHANGED ledgerVars
    /\ UNCHANGED <<mainVars, layerVars, sampler, busVars, intakeVars, faults>>

Audited ==
    /\ writer = "worker"
    /\ (Commit /\ UNCHANGED faults) \/ (Rollback /\ Fault)
    /\ worker' = "idle"
    /\ UNCHANGED <<mainVars, layerVars, sampler, busVars, intakeVars>>

WorkerEnds ==
    /\ worker = "idle" /\ closed
    /\ bus = <<>> \/ undo
    /\ worker' = "ended"
    /\ UNCHANGED <<mainVars, layerVars, sampler, busVars, intakeVars, ledgerVars, faults>>

-----------------------------------------------------------------------------
(* The main thread starts the layers *)

\* The run command opens the ledger before it creates the runtime.
OpenLedger ==
    /\ opened' = TRUE
    /\ UNCHANGED <<writer, rows, records>>

\* A deploy that fails leaves nothing, verified or not, or it leaves something.
Deploy ==
    /\ phase = "opened"
    /\ \/ /\ exp' = "starting" /\ substrate' = "up" /\ Goto("manifest")
          /\ UNCHANGED <<finished, faults>>
       \/ /\ Fault
          /\ exp' = "failed" /\ Goto("done")
          /\ \/ substrate' = "none" /\ finished' \in BOOLEAN
             \/ substrate' = "left" /\ finished' = FALSE
    /\ UNCHANGED <<undo, late, issue, retries, telemetry, continuous, sampler, worker, busVars,
                   intakeVars, ledgerVars>>

\* Lifecycle records of the main thread, and what follows each of them.
Recording == {"manifest", "announce", "ask", "record"}
After(p) == CASE p = "manifest" -> "consume"
              [] p = "announce" -> "up"
              [] p = "ask"      -> "halt"
              [] p = "record"   -> "settle"

BeginRecord ==
    /\ phase \in Recording
    /\ BeginAppend("main", Row("main", 0))
    /\ UNCHANGED <<mainVars, layerVars, sampler, worker, busVars, intakeVars, faults>>

\* A record that fails undoes a start, and is an issue of a stop.
Recorded ==
    /\ writer = "main"
    /\ \/ Commit /\ Goto(After(phase)) /\ UNCHANGED <<undo, issue, faults>>
       \/ /\ Rollback /\ Fault
          /\ IF phase \in {"manifest", "announce"}
             THEN undo' = TRUE /\ Goto("halt") /\ UNCHANGED issue
             ELSE issue' = TRUE /\ Goto(After(phase)) /\ UNCHANGED undo
    /\ UNCHANGED <<exp, late, finished, retries, layerVars, sampler, worker, busVars, intakeVars>>

\* Both layers are built before the first of them starts.
StartContinuous ==
    /\ phase = "consume"
    /\ telemetry' = "created" /\ continuous' = "running" /\ worker' = "idle"
    /\ Goto("sample")
    /\ UNCHANGED <<exp, undo, late, issue, finished, retries, substrate, sampler, busVars,
                   intakeVars, ledgerVars, faults>>

StartTelemetry ==
    /\ phase = "sample"
    /\ telemetry' = "running"
    /\ sampler' = [s \in Samplers |-> [at |-> "waiting", count |-> 0]]
    /\ exp' = "running"
    /\ Goto("announce")
    /\ UNCHANGED <<undo, late, issue, finished, retries, substrate, continuous, worker, busVars,
                   intakeVars, ledgerVars, faults>>

\* The layers cannot be built, or the continuous runtime has begun to start: its
\* worker does not run yet, runs, or is the thread that could not be started.
ContinuousFails ==
    /\ \/ UNCHANGED <<telemetry, continuous, worker>>
       \/ telemetry' = "created" /\ continuous' = "running" /\ worker' \in {"off", "idle", "unstarted"}
    /\ UNCHANGED sampler

\* One sampler cannot be started: some of the others run.
TelemetryFails ==
    /\ telemetry' = "running"
    /\ \E s \in Samplers : \E running \in SUBSET (Samplers \ {s}) :
        sampler' = [t \in Samplers |->
                       [at |-> IF t = s THEN "unstarted" ELSE IF t \in running THEN "waiting" ELSE "off",
                        count |-> 0]]
    /\ UNCHANGED <<continuous, worker>>

StartFails ==
    /\ phase \in {"consume", "sample"}
    /\ IF phase = "consume" THEN ContinuousFails ELSE TelemetryFails
    /\ Fault
    /\ undo' = TRUE
    /\ Goto("halt")
    /\ UNCHANGED <<exp, late, issue, finished, retries, substrate, busVars, intakeVars, ledgerVars>>

\* The run command opens the control socket; when it cannot, it stops the run.
OpenIntake ==
    /\ phase = "active"
    /\ \/ intake' = "open" /\ Goto("serving") /\ UNCHANGED faults
       \/ Fault /\ Goto("stop") /\ UNCHANGED intake
    /\ UNCHANGED <<exp, undo, late, issue, finished, retries, layerVars, sampler, worker, busVars,
                   conn, answer, nextSeq, ledgerVars>>

-----------------------------------------------------------------------------
(* The main thread stops the layers *)

\* The run is asked to stop: intake closes before anything is drained.
CloseIntake ==
    /\ phase = "serving"
    /\ intake' = "closing"
    /\ Goto("joining")
    /\ UNCHANGED <<exp, undo, late, issue, finished, retries, layerVars, sampler, worker, busVars,
                   conn, answer, nextSeq, ledgerVars, faults>>

\* The server is joined, without a timeout: it looks at its stop event after
\* each connection, and close cuts off the one that is being received.  Connections nobody has accepted are reset.
JoinServer ==
    /\ phase = "joining"
    /\ \A c \in Clients : conn[c].at \notin Served
    /\ intake' = "closed"
    /\ conn' = [c \in Clients |-> [conn[c] EXCEPT !.at = IF @ = "queued" THEN "done" ELSE @]]
    /\ answer' = [c \in Clients |-> IF conn[c].at = "queued" THEN "unknown" ELSE answer[c]]
    /\ Goto("stop")
    /\ UNCHANGED <<exp, undo, late, issue, finished, retries, layerVars, sampler, worker, busVars,
                   nextSeq, ledgerVars, faults>>

BeginStop ==
    /\ phase = "stop"
    /\ exp' = "stopping" /\ late' = {} /\ issue' = FALSE
    /\ Goto("ask")
    /\ UNCHANGED <<undo, finished, retries, layerVars, sampler, worker, busVars, intakeVars,
                   ledgerVars, faults>>

\* The stop event of the samplers is set; then they are joined.
HaltTelemetry ==
    /\ phase = "halt"
    /\ telemetry' = IF telemetry = "running" THEN "stopping" ELSE telemetry
    /\ Goto("join samplers")
    /\ UNCHANGED <<exp, undo, late, issue, finished, retries, substrate, continuous, sampler, worker,
                   busVars, intakeVars, ledgerVars, faults>>

\* A sampler that could not be started cannot be joined: that raises as well.
SamplersLeft == \E s \in Samplers : sampler[s].at \notin {"off", "ended"}

\* stop() of a pipeline that was never started raises; undoing a start skips it.
TelemetryEnds ==
    IF telemetry = "created" /\ ~undo
    THEN late' = late \cup {"telemetry"} /\ UNCHANGED telemetry
    ELSE /\ telemetry' = IF telemetry \in {"none", "created"} THEN telemetry ELSE "stopped"
         /\ UNCHANGED late

\* Fault: a pipeline that has stopped cannot be stopped again.
JoinOnce ==
    /\ phase = "join samplers"
    /\ IF SamplersLeft \/ telemetry = "stopped"
       THEN late' = late \cup {"telemetry"} /\ UNCHANGED telemetry
       ELSE TelemetryEnds
    /\ Goto("close")
    /\ UNCHANGED <<exp, undo, issue, finished, retries, substrate, continuous, sampler, worker, busVars,
                   intakeVars, ledgerVars, faults>>

\* A sampler that has not ended when the deadline has come is given up.
JoinSamplers ==
    /\ phase = "join samplers"
    /\ IF SamplersLeft
       THEN late' = late \cup {"telemetry"} /\ UNCHANGED telemetry
       ELSE TelemetryEnds
    /\ Goto("close")
    /\ UNCHANGED <<exp, undo, issue, finished, retries, substrate, continuous, sampler, worker, busVars,
                   intakeVars, ledgerVars, faults>>

\* The continuous runtime takes no more events and its bus is closed.
CloseBus ==
    /\ phase = "close"
    /\ IF continuous = "none" THEN UNCHANGED <<continuous, closed>>
       ELSE /\ Condition
            /\ continuous' = IF continuous = "running" THEN "stopping" ELSE continuous
            /\ closed' = TRUE
    /\ Goto("join worker")
    /\ UNCHANGED <<exp, undo, late, issue, finished, retries, substrate, telemetry, sampler, worker,
                   bus, taken, intakeVars, ledgerVars, faults>>

JoinWorker ==
    /\ phase = "join worker"
    /\ \/ /\ worker \in {"off", "ended"}
          /\ continuous' = IF continuous = "none" THEN "none" ELSE "stopped"
          /\ UNCHANGED late
       \/ worker \notin {"off", "ended"} /\ late' = late \cup {"continuous"}
          /\ UNCHANGED continuous
    /\ Goto("teardown")
    /\ UNCHANGED <<exp, undo, issue, finished, retries, substrate, telemetry, sampler, worker, busVars,
                   intakeVars, ledgerVars, faults>>

AfterTeardown == Goto(IF undo THEN "settle" ELSE "record")

\* Fault: the substrate is torn down under threads that did not stop in time.
TeardownAnyway ==
    /\ phase = "teardown"
    /\ substrate' = "gone"
    /\ AfterTeardown
    /\ UNCHANGED <<exp, undo, late, issue, finished, retries, telemetry, continuous, sampler, worker,
                   busVars, intakeVars, ledgerVars, faults>>

\* Only under layers that have stopped.  Closing the agents may fail, and then the
\* network is torn down all the same, or tearing it down fails; a second time it
\* finds the run stopped.
Teardown ==
    /\ phase = "teardown"
    /\ \/ late = {} /\ substrate' = "gone" /\ UNCHANGED <<issue, faults>>
       \/ late = {} /\ Fault /\ issue' = TRUE /\ substrate' \in {substrate, "gone"}
       \/ late # {} /\ UNCHANGED <<issue, faults, substrate>>
    /\ AfterTeardown
    /\ UNCHANGED <<exp, undo, late, finished, retries, telemetry, continuous, sampler, worker, busVars,
                   intakeVars, ledgerVars>>

Clean == late = {} /\ ~issue /\ substrate = "gone"

\* Any issue fails the stop; work that failed before fails a clean one as well.
Settle ==
    /\ phase = "settle"
    /\ finished' = Clean
    /\ exp' \in IF undo \/ ~Clean THEN {"failed"} ELSE {"stopped", "failed"}
    /\ Goto("done")
    /\ UNCHANGED <<undo, late, issue, retries, layerVars, sampler, worker, busVars, intakeVars,
                   ledgerVars, faults>>

\* stop() may be called again after a failure, by a library user.
Retry ==
    /\ phase = "done" /\ exp = "failed" /\ ~finished
    /\ substrate \in {"up", "gone"}
    /\ retries < MaxRetries /\ retries' = retries + 1
    /\ undo' = FALSE
    /\ Goto("stop")
    /\ UNCHANGED <<exp, late, issue, finished, layerVars, sampler, worker, busVars,
                   intakeVars, ledgerVars, faults>>

Stopping == {"stop", "ask", "halt", "join samplers", "close", "join worker", "teardown",
             "record", "settle"}

\* Ctrl-C while stop() runs: the signal latch has been left by then.
InterruptStop ==
    /\ phase \in Stopping /\ ~undo
    /\ Fault
    /\ Goto("done")
    /\ IF writer = "main" THEN Rollback ELSE UNCHANGED ledgerVars
    /\ UNCHANGED <<exp, undo, late, issue, finished, retries, layerVars, sampler, worker, busVars, intakeVars>>

\* The lock of the ledger is taken, so that no transaction is under way.
CloseLedger ==
    /\ writer = NoOne
    /\ opened' = FALSE
    /\ UNCHANGED <<writer, rows, records>>

\* The process ends: its memory and its threads are gone, a transaction is
\* rolled back, and clients see their connections reset.
Die ==
    /\ Goto("dead")
    /\ Blank
    /\ intake' = "closed"
    /\ conn' = [c \in Clients |-> [at |-> "done", seq |-> 0]]
    /\ answer' = [c \in Clients |-> IF conn[c].at \notin {"none", "done"} THEN "unknown"
                                    ELSE answer[c]]
    /\ UNCHANGED <<substrate, records>>

-----------------------------------------------------------------------------
(* Every step of the process but opening and closing the ledger, and dying *)

ExperimentInit ==
    /\ exp = "created" /\ phase = "idle" /\ undo = FALSE
    /\ late = {} /\ issue = FALSE /\ finished = FALSE /\ retries = 0
    /\ substrate = "none" /\ telemetry = "none" /\ continuous = "none"
    /\ sampler = [s \in Samplers |-> [at |-> "off", count |-> 0]]
    /\ worker = "off"
    /\ bus = <<>> /\ closed = FALSE /\ taken = <<>>
    /\ intake = "none"
    /\ conn = [c \in Clients |-> [at |-> "none", seq |-> 0]]
    /\ answer = [c \in Clients |-> "none"]
    /\ nextSeq = 0
    /\ opened = FALSE /\ writer = NoOne /\ rows = <<>> /\ records = [events |-> <<>>, others |-> 0]
    /\ faults = 0

\* What the main thread does of itself until the stop has ended.
MainStep ==
    \/ Deploy \/ BeginRecord \/ Recorded \/ StartContinuous \/ StartTelemetry
    \/ OpenIntake \/ JoinServer \/ BeginStop \/ HaltTelemetry \/ JoinSamplers
    \/ CloseBus \/ JoinWorker \/ Teardown \/ Settle

ServerStep(c) == Serve(c) \/ PublishIntent(c) \/ IntentRefused(c) \/ Answer(c)

\* A transaction that has begun ends.
LedgerStep == Audited \/ (\E s \in Samplers : SampleWritten(s)) \/ (\E c \in Clients : IntentWritten(c))

ThreadStep ==
    \/ \E s \in Samplers : \/ Observe(s) \/ SamplerEnds(s) \/ Observed(s)
                           \/ PublishSample(s) \/ SampleRefused(s)
    \/ Take \/ Audit \/ WorkerEnds

Outside ==
    \/ \E c \in Clients : Submit(c)
    \/ StartFails \/ CloseIntake \/ Retry \/ InterruptStop

ExperimentStep ==
    \/ MainStep \/ LedgerStep \/ ThreadStep \/ Outside
    \/ \E c \in Clients : ServerStep(c)

-----------------------------------------------------------------------------
(* Correctness *)

Intent(r) == r.from \in Clients

\* The substrate is torn down only when no sampler observes it and no agent acts
\* on it, in whatever order the layers time out, fail, or are stopped again.
QuietTeardown ==
    substrate = "gone" =>
        /\ \A s \in Samplers : sampler[s].at # "observing"
        /\ worker # "executing"

\* writers_stopped means what exports take it for: nothing of the run is left
\* that could write, act or accept.
FinishedIsQuiet ==
    finished =>
        /\ ~SamplersLeft /\ worker \in {"off", "ended"}
        /\ writer = NoOne
        /\ closed \/ continuous = "none"
        /\ intake \in {"none", "closed"}
        /\ substrate \in {"none", "gone"}

\* A stop leaves nothing behind it: the substrate goes from under nobody, and what
\* a stop that reports success has stopped stays so.
StopIsQuiet == QuietTeardown /\ FinishedIsQuiet

\* Until the process dies, the events in the ledger are the events that agents
\* have been given or will be given, in the same order and each of them once.
LedgerMatchesBus ==
    phase # "dead" =>
        records.events = taken \o bus

\* What a client has heard is true: an accepted intent is recorded once, a
\* refused one is not, and one with a lost answer is not replayed.  Intents of
\* the terminal are recorded in the order of their numbers, so that the
\* dispatcher rejects none as out of order.
IntentsExactlyOnce ==
    LET events == records.events IN
    /\ \A i, j \in DOMAIN events :
        i < j /\ Intent(events[i]) /\ Intent(events[j]) =>
            events[i].seq < events[j].seq /\ events[i].from # events[j].from
    /\ \A c \in Clients :
        /\ answer[c] = "accepted" => \E i \in DOMAIN events : events[i].from = c
        /\ answer[c] = "refused" => \A i \in DOMAIN events : events[i].from # c

-----------------------------------------------------------------------------
(* The parts of the inductive invariant that are about the process alone *)

Setup  == {"idle", "reserved", "prepared", "opened"}
Start  == {"manifest", "consume", "sample", "announce", "up", "active", "serving", "joining"}
Ending == {"done", "closed", "finished", "inspecting", "inspected", "leaving"}
Phases == Setup \cup Start \cup Stopping \cup Ending \cup {"dead"}
Layer  == {"none", "created", "running", "stopping", "stopped"}
ConnStates == Served \cup {"none", "queued", "done"}
Rows   == [from : Publishers \cup {"main", "worker"}, seq : Nat]

\* Types of the memory of the process and of its ledger.
MainTypeOK ==
    /\ exp \in {"created", "starting", "running", "stopping", "stopped", "failed"}
    /\ phase \in Phases
    /\ late \subseteq {"telemetry", "continuous"}
    /\ retries \in Nat /\ faults \in Nat

FlagTypeOK ==
    /\ undo \in BOOLEAN /\ issue \in BOOLEAN /\ finished \in BOOLEAN
    /\ closed \in BOOLEAN /\ opened \in BOOLEAN

ThreadTypeOK ==
    /\ substrate \in {"none", "up", "gone", "left"}
    /\ telemetry \in Layer /\ continuous \in Layer
    /\ sampler \in [Samplers -> [at : {"off", "unstarted", "waiting", "observing", "holding",
                                       "writing", "ended"},
                                 count : Nat]]
    /\ worker \in {"off", "unstarted", "idle", "executing", "writing", "ended"}

IntakeTypeOK ==
    /\ intake \in {"none", "open", "closing", "closed"}
    /\ conn \in [Clients -> [at : ConnStates, seq : Nat]]
    /\ answer \in [Clients -> {"none", "accepted", "refused", "unknown"}]
    /\ nextSeq \in Nat

LedgerTypeOK ==
    /\ bus \in Seq(Rows) /\ taken \in Seq(Rows)
    /\ writer \in Publishers \cup {"main", "worker", NoOne}
    /\ rows \in Seq(Rows)
    /\ records \in [events : Seq(Rows), others : Nat]

ExperimentTypeOK ==
    MainTypeOK /\ FlagTypeOK /\ ThreadTypeOK /\ IntakeTypeOK /\ LedgerTypeOK

\* Who is inside a transaction says so, and has one row in it.
WriterIsWriting ==
    /\ writer # NoOne => opened /\ Len(rows) = 1
    /\ writer = "main" => phase \in Recording
    /\ writer = "worker" => worker = "writing"
    /\ \A s \in Samplers : writer = s => sampler[s].at = "writing" /\ rows[1].from = s
    /\ \A c \in Clients :
        /\ conn[c].at = "writing" => writer = c
        /\ writer = c => conn[c].at = "writing" /\ rows[1] = Row(c, conn[c].seq)

Unstarted == Setup \cup {"manifest", "consume", "sample"}

\* What the threads do at each step of the main thread: they start and end, and
\* the control socket is open, only where it says so.
ThreadsFollowMain ==
    /\ phase \in Setup => continuous = "none" /\ writer = NoOne /\ ~finished
    /\ phase \in Unstarted => ~SamplersLeft /\ substrate # "gone"
    /\ phase \in Unstarted \ {"sample"} => worker = "off"
    /\ intake = "open" => phase = "serving"
    /\ intake = "closing" => phase = "joining"
    /\ \A c \in Clients : conn[c].at \in Served => phase \in {"serving", "joining"}

\* A layer that is not late has ended when the main thread is past its join, and
\* a network that is gone has no threads.
LayersJoined ==
    /\ phase \in {"close", "join worker", "teardown", "record", "settle"} =>
        "telemetry" \in late \/ ~SamplersLeft
    /\ phase \in {"teardown", "record", "settle"} =>
        "continuous" \in late \/ worker \in {"off", "ended"}
    /\ phase \in {"join worker", "teardown", "record", "settle"} =>
        closed \/ continuous = "none"
    /\ substrate = "gone" => ~SamplersLeft /\ worker \in {"off", "ended"}
    /\ finished => phase \in Ending

\* One connection is served at a time, and its number is above all recorded ones.
IntentsInOrder ==
    LET events == records.events IN
    /\ \A c, d \in Clients : conn[c].at \in Served /\ conn[d].at \in Served => c = d
    /\ \A i \in DOMAIN events :
        phase # "dead" /\ Intent(events[i]) => events[i].seq < nextSeq
    /\ \A c \in Clients :
        /\ answer[c] # "none" => conn[c].at = "done"
        /\ conn[c].at \in {"none", "queued", "numbered", "writing", "refusing"} =>
            \A i \in DOMAIN events : events[i].from # c
        /\ conn[c].at = "answering" => \E i \in DOMAIN events : events[i].from = c
        /\ conn[c].at \in {"numbered", "writing"} =>
            /\ conn[c].seq < nextSeq
            /\ \A i \in DOMAIN events : Intent(events[i]) => events[i].seq < conn[c].seq

\* The inductive invariant of the process.
ExperimentInv ==
    /\ ExperimentTypeOK
    /\ WriterIsWriting /\ ThreadsFollowMain /\ LayersJoined /\ FinishedIsQuiet
    /\ LedgerMatchesBus /\ IntentsInOrder /\ IntentsExactlyOnce

=============================================================================

-------------------------- MODULE SavedRunsProofs ---------------------------
(***************************************************************************)
(* Theorems about SavedRuns, and through it about ExperimentRuntime, for   *)
(* any samplers, clients and exporters, any capacity of the bus and any    *)
(* number of samples, failures and retries.                                *)
(*                                                                         *)
(* The invariant is the one of the process (ExperimentInv, which each step *)
(* of ExperimentRuntime preserves) together with four facts about the      *)
(* files: their types, that locks exclude each other, that what an export  *)
(* has copied does not change any more, and who has the destination.       *)
(***************************************************************************)
EXTENDS SavedRuns, SequenceTheorems, TLAPS

-----------------------------------------------------------------------------
(* What steps leave alone *)

LEMMA MainFrame ==
    ASSUME MainStep
    PROVE  /\ BeginRecord \/ Recorded \/ UNCHANGED ledgerVars
           /\ OpenIntake \/ JoinServer \/ UNCHANGED intakeVars
           /\ StartTelemetry \/ UNCHANGED sampler
           /\ StartContinuous \/ UNCHANGED worker
           /\ UNCHANGED <<bus, taken>>
  BY DEF MainStep, Deploy, StartContinuous, StartTelemetry, OpenIntake, JoinServer, BeginStop,
     BeginRecord, Recorded, HaltTelemetry, JoinSamplers, CloseBus, JoinWorker, Teardown, Settle,
     intakeVars, ledgerVars, busVars, layerVars, mainVars

(* Steps of other threads start no thread that has not been started: only the *)
(* main thread does, even when it fails to start them all.                 *)
LEMMA ThreadsAsleep ==
    ASSUME ThreadTypeOK, WriterIsWriting,
           ThreadStep \/ LedgerStep \/ Outside \/ \E c \in Clients : ServerStep(c),
           ~StartFails
    PROVE  /\ ~SamplersLeft => ~SamplersLeft'
           /\ worker \in {"off", "ended"} => worker' = worker
           /\ UNCHANGED <<closed, substrate, finished, continuous>>
<1> USE DEF ThreadTypeOK, SamplersLeft, layerVars, busVars, mainVars
<1>1. CASE ThreadStep
  BY <1>1 DEF ThreadStep, Observe, SamplerEnds, Observed, PublishSample, SampleRefused, Take,
     Audit,
     WorkerEnds, SamplerAt
<1>2. CASE LedgerStep
  BY <1>2 DEF LedgerStep, WriterIsWriting, Audited, SampleWritten, IntentWritten, Enqueue
<1>3. CASE Outside
  BY <1>3 DEF Outside, Submit, CloseIntake, Retry, InterruptStop
<1>4. CASE \E c \in Clients : ServerStep(c)
  BY <1>4 DEF ServerStep, Serve, PublishIntent, IntentRefused, Answer
<1> QED BY <1>1, <1>2, <1>3, <1>4

(* What a start that fails leaves of the threads.                          *)
LEMMA FailedStartTypes ==
    ASSUME ThreadTypeOK, StartFails PROVE ThreadTypeOK'
<1>1. CASE phase = "consume"
  BY <1>1 DEF StartFails, ContinuousFails, ThreadTypeOK, Layer
<1>2. CASE phase = "sample"
  <2>1. PICK s \in Samplers : \E running \in SUBSET (Samplers \ {s}) :
          sampler' = [t \in Samplers |->
                         [at |-> IF t = s THEN "unstarted" ELSE IF t \in running THEN "waiting" ELSE "off",
                          count |-> 0]]
    BY <1>2 DEF StartFails, TelemetryFails
  <2>2. sampler' \in [Samplers -> [at : {"off", "unstarted", "waiting", "observing", "holding",
                                        "writing", "ended"}, count : Nat]]
    BY <2>1
  <2> QED BY <1>2, <2>2 DEF StartFails, TelemetryFails, ThreadTypeOK, Layer
<1> QED BY <1>1, <1>2 DEF StartFails

(* Whoever writes to the bus writes the same row to the ledger.            *)
LEMMA EventsMove ==
    ASSUME LedgerTypeOK, WriterIsWriting, ExperimentStep
    PROVE  \/ UNCHANGED <<records.events, bus, taken>>
           \/ /\ writer \in Publishers
              /\ records'.events = records.events \o rows
              /\ bus' = Append(bus, rows[1]) /\ taken' = taken
           \/ Take
<1> USE ExperimentAssumption DEF Commit, Rollback, LedgerTypeOK, ledgerVars, busVars
<1>1. CASE MainStep
  <2>1. records'.events = records.events
    BY <1>1, MainFrame DEF BeginRecord, BeginAppend, Recorded, Publishers
  <2> QED BY <2>1, <1>1, MainFrame
<1>2. CASE LedgerStep
  BY <1>2 DEF LedgerStep, Audited, SampleWritten, IntentWritten, Enqueue, Publishers
<1>3. CASE (ThreadStep \/ Outside \/ \E c \in Clients : ServerStep(c)) /\ ~Take
  BY <1>3 DEF BeginAppend, ThreadStep, Observe, SamplerEnds, Observed, PublishSample,
     SampleRefused, Audit, WorkerEnds, Outside, Submit, StartFails, CloseIntake, Retry,
     InterruptStop, ServerStep, Serve, PublishIntent, IntentRefused, Answer
<1> QED BY <1>1, <1>2, <1>3 DEF ExperimentStep

(* Facts about sequences that end in the one row of a transaction.         *)
LEMMA OneElement ==
    ASSUME NEW S, NEW s \in Seq(S), NEW r \in Seq(S), Len(r) = 1
    PROVE  r[1] \in S /\ s \o r = Append(s, r[1])
<1>1. 1 \in 1..Len(r)
  OBVIOUS
<1>2. r[1] \in S
  BY <1>1, ElementOfSeq
<1>3. r = <<r[1]>>
  OBVIOUS
<1>4. s \o <<r[1]>> = Append(s, r[1])
  BY <1>2
<1> QED BY <1>2, <1>3, <1>4

LEMMA LastElement ==
    ASSUME NEW S, NEW s \in Seq(S), NEW x \in S
    PROVE  /\ DOMAIN Append(s, x) = DOMAIN s \cup {Len(s) + 1}
           /\ \A i \in DOMAIN s : Append(s, x)[i] = s[i] /\ i < Len(s) + 1
           /\ Append(s, x)[Len(s) + 1] = x
           /\ Len(s) + 1 \notin DOMAIN s /\ DOMAIN s \subseteq Nat /\ Len(s) \in Nat
  OBVIOUS

-----------------------------------------------------------------------------
(* Types *)

LEMMA MainTypes ==
    ASSUME MainTypeOK, WriterIsWriting, ExperimentStep PROVE MainTypeOK'
<1> USE DEF mainVars, Fault
<1>1. faults' \in Nat
  <2> USE DEF MainTypeOK
  <2>1. CASE Deploy \/ OpenIntake \/ Teardown
    BY <2>1 DEF Deploy, OpenIntake, Teardown
  <2>2. CASE Recorded
    BY <2>2 DEF Recorded
  <2>3. CASE MainStep /\ ~(Deploy \/ OpenIntake \/ Teardown \/ Recorded)
    BY <2>3 DEF MainStep, BeginRecord, StartContinuous, StartTelemetry, JoinServer, BeginStop,
       HaltTelemetry, JoinSamplers, CloseBus, JoinWorker, Settle
  <2>4. CASE LedgerStep
    BY <2>4 DEF LedgerStep, Audited, SampleWritten, IntentWritten
  <2>5. CASE ThreadStep
    BY <2>5 DEF ThreadStep, Observe, SamplerEnds, Observed, PublishSample, SampleRefused, Take,
       Audit, WorkerEnds
  <2>6. CASE Outside
    BY <2>6 DEF Outside, Submit, StartFails, CloseIntake, Retry, InterruptStop
  <2>7. CASE \E c \in Clients : ServerStep(c)
    BY <2>7 DEF ServerStep, Serve, PublishIntent, IntentRefused, Answer
  <2> QED BY <2>1, <2>2, <2>3, <2>4, <2>5, <2>6, <2>7 DEF ExperimentStep
<1>2. phase' \in Phases
  <2> USE DEF MainTypeOK, Goto, Phases, Setup, Start, Stopping, Ending
  <2>1. CASE Recorded
    <3>1. phase \in Recording
      BY <2>1 DEF Recorded, WriterIsWriting
    <3> QED BY <2>1, <3>1 DEF Recorded, Recording, After
  <2>2. CASE MainStep /\ ~Recorded
    BY <2>2 DEF MainStep, Deploy, BeginRecord, StartContinuous, StartTelemetry, OpenIntake,
       JoinServer, BeginStop, HaltTelemetry, JoinSamplers, CloseBus, JoinWorker, Teardown,
       AfterTeardown, Settle
  <2>3. CASE LedgerStep
    BY <2>3 DEF LedgerStep, Audited, SampleWritten, IntentWritten
  <2>4. CASE ThreadStep
    BY <2>4 DEF ThreadStep, Observe, SamplerEnds, Observed, PublishSample, SampleRefused, Take,
       Audit, WorkerEnds
  <2>5. CASE Outside
    BY <2>5 DEF Outside, Submit, StartFails, CloseIntake, Retry, InterruptStop
  <2>6. CASE \E c \in Clients : ServerStep(c)
    BY <2>6 DEF ServerStep, Serve, PublishIntent, IntentRefused, Answer
  <2> QED BY <2>1, <2>2, <2>3, <2>4, <2>5, <2>6 DEF ExperimentStep
<1>3. exp' \in {"created", "starting", "running", "stopping", "stopped", "failed"}
  <2> USE DEF MainTypeOK
  <2>1. CASE MainStep
    BY <2>1 DEF MainStep, Deploy, BeginRecord, Recorded, StartContinuous, StartTelemetry,
       OpenIntake, JoinServer, BeginStop, HaltTelemetry, JoinSamplers, CloseBus, JoinWorker,
       Teardown, Settle
  <2>2. CASE LedgerStep \/ ThreadStep
    BY <2>2 DEF LedgerStep, Audited, SampleWritten, IntentWritten, ThreadStep, Observe,
       SamplerEnds, Observed, PublishSample, SampleRefused, Take, Audit, WorkerEnds
  <2>3. CASE Outside \/ \E c \in Clients : ServerStep(c)
    BY <2>3 DEF Outside, Submit, StartFails, CloseIntake, Retry, InterruptStop, ServerStep, Serve,
       PublishIntent, IntentRefused, Answer
  <2> QED BY <2>1, <2>2, <2>3 DEF ExperimentStep
<1>4. late' \subseteq {"telemetry", "continuous"} /\ retries' \in Nat
  <2> USE DEF MainTypeOK
  <2>1. CASE MainStep
    BY <2>1 DEF MainStep, Deploy, BeginRecord, Recorded, StartContinuous, StartTelemetry,
       OpenIntake, JoinServer, BeginStop, HaltTelemetry, JoinSamplers, TelemetryEnds, CloseBus,
       JoinWorker, Teardown, Settle
  <2>2. CASE LedgerStep
    BY <2>2 DEF LedgerStep, Audited, SampleWritten, IntentWritten
  <2>3. CASE ThreadStep
    BY <2>3 DEF ThreadStep, Observe, SamplerEnds, Observed, PublishSample, SampleRefused, Take,
       Audit, WorkerEnds
  <2>4. CASE Outside
    <3>1. CASE StartFails \/ CloseIntake \/ InterruptStop \/ \E c \in Clients : Submit(c)
      <4>1. UNCHANGED <<late, retries>>
        BY <3>1 DEF StartFails, CloseIntake, InterruptStop, Submit
      <4> QED BY <4>1
    <3>2. CASE Retry
      BY <3>2 DEF Retry
    <3> QED BY <2>4, <3>1, <3>2 DEF Outside
  <2>5. CASE \E c \in Clients : ServerStep(c)
    BY <2>5 DEF ServerStep, Serve, PublishIntent, IntentRefused, Answer
  <2> QED BY <2>1, <2>2, <2>3, <2>4, <2>5 DEF ExperimentStep
<1> QED BY <1>1, <1>2, <1>3, <1>4 DEF MainTypeOK

LEMMA FlagTypes ==
    ASSUME FlagTypeOK, ExperimentStep PROVE FlagTypeOK'
<1> USE DEF FlagTypeOK, mainVars, busVars, ledgerVars, Commit, Rollback, BeginAppend
<1>1. CASE MainStep
  BY <1>1 DEF MainStep, Deploy, BeginRecord, Recorded, StartContinuous, StartTelemetry,
     OpenIntake,
     JoinServer, BeginStop, HaltTelemetry, JoinSamplers, CloseBus, JoinWorker, Teardown, Settle,
     Clean
<1>2. CASE LedgerStep
  BY <1>2 DEF LedgerStep, Audited, SampleWritten, IntentWritten, Enqueue
<1>3. CASE ThreadStep
  BY <1>3 DEF ThreadStep, Observe, SamplerEnds, Observed, PublishSample, SampleRefused, Take,
     Audit, WorkerEnds
<1>4. CASE Outside
  BY <1>4 DEF Outside, Submit, StartFails, CloseIntake, Retry, InterruptStop
<1>5. ASSUME NEW c \in Clients, ServerStep(c) PROVE FlagTypeOK'
  BY <1>5 DEF ServerStep, Serve, PublishIntent, IntentRefused, Answer
<1> QED BY <1>1, <1>2, <1>3, <1>4, <1>5 DEF ExperimentStep

LEMMA ThreadTypes ==
    ASSUME ThreadTypeOK, ExperimentStep PROVE ThreadTypeOK'
<1> USE DEF ThreadTypeOK, layerVars
<1>0. CASE StartFails
  BY <1>0, FailedStartTypes
<1>1. ASSUME ~StartFails
      PROVE  /\ telemetry' \in Layer /\ continuous' \in Layer
             /\ substrate' \in {"none", "up", "gone", "left"}
  <2> USE DEF Layer
  <2>1. CASE MainStep
    BY <2>1 DEF MainStep, Deploy, BeginRecord, Recorded, StartContinuous, StartTelemetry,
       OpenIntake, JoinServer, BeginStop, HaltTelemetry, JoinSamplers, TelemetryEnds, CloseBus, JoinWorker,
       Teardown, Settle
  <2>2. CASE LedgerStep
    BY <2>2 DEF LedgerStep, Audited, SampleWritten, IntentWritten
  <2>3. CASE ThreadStep
    BY <2>3 DEF ThreadStep, Observe, SamplerEnds, Observed, PublishSample, SampleRefused, Take,
       Audit, WorkerEnds
  <2>4. CASE Outside
    BY <1>1, <2>4 DEF Outside, Submit, CloseIntake, Retry, InterruptStop
  <2>5. CASE \E c \in Clients : ServerStep(c)
    BY <2>5 DEF ServerStep, Serve, PublishIntent, IntentRefused, Answer
  <2> QED BY <2>1, <2>2, <2>3, <2>4, <2>5 DEF ExperimentStep
<1>2. ASSUME ~StartFails
      PROVE  /\ worker' \in {"off", "unstarted", "idle", "executing", "writing", "ended"}
             /\ sampler' \in [Samplers -> [at : {"off", "unstarted", "waiting", "observing", "holding",
                                                 "writing", "ended"}, count : Nat]]
  <2>1. CASE MainStep
    BY <2>1, MainFrame DEF StartContinuous, StartTelemetry
  <2>2. CASE LedgerStep
    BY <2>2 DEF LedgerStep, Audited, SampleWritten, IntentWritten
  <2>3. CASE ThreadStep
    BY <2>3 DEF ThreadStep, Observe, SamplerEnds, Observed, PublishSample, SampleRefused, Take,
       Audit, WorkerEnds, SamplerAt
  <2>4. CASE Outside
    BY <1>2, <2>4 DEF Outside, Submit, CloseIntake, Retry, InterruptStop
  <2>5. CASE \E c \in Clients : ServerStep(c)
    BY <2>5 DEF ServerStep, Serve, PublishIntent, IntentRefused, Answer
  <2> QED BY <2>1, <2>2, <2>3, <2>4, <2>5 DEF ExperimentStep
<1> QED BY <1>0, <1>1, <1>2

LEMMA IntakeTypes ==
    ASSUME IntakeTypeOK, ExperimentStep PROVE IntakeTypeOK'
<1> USE DEF IntakeTypeOK, intakeVars
<1>1. CASE MainStep
  BY <1>1, MainFrame DEF OpenIntake, JoinServer, ConnStates
<1>2. CASE LedgerStep
  BY <1>2 DEF LedgerStep, Audited, SampleWritten, IntentWritten, ConnAt, ConnStates, Served
<1>3. CASE ThreadStep
  BY <1>3 DEF ThreadStep, Observe, SamplerEnds, Observed, PublishSample, SampleRefused, Take,
     Audit, WorkerEnds
<1>4. CASE Outside
  BY <1>4 DEF Outside, Submit, StartFails, CloseIntake, Retry, InterruptStop, ConnAt, ConnStates
<1>5. ASSUME NEW c \in Clients, ServerStep(c) PROVE IntakeTypeOK'
  <2> USE DEF ConnAt, ConnStates, Served
  <2>1. CASE Serve(c)
    BY <2>1 DEF Serve
  <2>2. CASE PublishIntent(c) \/ IntentRefused(c)
    BY <2>2 DEF PublishIntent, IntentRefused
  <2>3. CASE Answer(c)
    BY <2>3 DEF Answer, Told
  <2> QED BY <1>5, <2>1, <2>2, <2>3 DEF ServerStep
<1> QED BY <1>1, <1>2, <1>3, <1>4, <1>5 DEF ExperimentStep

LEMMA LedgerTypes ==
    ASSUME LedgerTypeOK, IntakeTypeOK, ThreadTypeOK, WriterIsWriting, ExperimentStep
    PROVE  LedgerTypeOK'
<1> DEFINE Mine == /\ writer' \in Publishers \cup {"main", "worker", NoOne}
                   /\ rows' \in Seq(Rows)
                   /\ records' \in [events : Seq(Rows), others : Nat]
<1>1. ASSUME NEW t \in Publishers \cup {"main", "worker"}, NEW row \in Rows, BeginAppend(t, row)
      PROVE  Mine
  BY <1>1 DEF BeginAppend, LedgerTypeOK
<1>2. ASSUME Commit \/ Rollback PROVE Mine
  <2>1. records \in [events : Seq(Rows), others : Nat] /\ rows \in Seq(Rows)
    BY DEF LedgerTypeOK
  <2>2. records.events \o rows \in Seq(Rows) /\ records.others + Len(rows) \in Nat
    BY <2>1, ConcatProperties
  <2>3. records' \in [events : Seq(Rows), others : Nat]
    BY <1>2, <2>1, <2>2 DEF Commit, Rollback
  <2>4. writer' = NoOne /\ rows' = <<>>
    BY <1>2 DEF Commit, Rollback
  <2> QED BY <2>3, <2>4
<1>3. ASSUME UNCHANGED ledgerVars PROVE Mine
  BY <1>3 DEF ledgerVars, LedgerTypeOK
<1>4. ASSUME writer \in Publishers PROVE rows[1] \in Rows
  <2>1. Len(rows) = 1 /\ rows \in Seq(Rows)
    BY <1>4, ExperimentAssumption DEF WriterIsWriting, Publishers, LedgerTypeOK
  <2>2. 1 \in 1..Len(rows)
    BY <2>1
  <2> QED BY <2>1, <2>2, ElementOfSeq
<1>5. Row("main", 0) \in Rows /\ Row("worker", 0) \in Rows
  BY DEF Row, Rows
<1>6. \A s \in Samplers : Row(s, sampler[s].count) \in Rows
  BY DEF Row, Rows, Publishers, ThreadTypeOK
<1>7. \A c \in Clients : Row(c, conn[c].seq) \in Rows
  BY DEF Row, Rows, Publishers, IntakeTypeOK
<1>8. Mine
  <2>1. CASE MainStep
    BY <2>1, <1>1, <1>2, <1>3, <1>5, MainFrame DEF BeginRecord, Recorded
  <2>2. CASE LedgerStep
    BY <2>2, <1>2 DEF LedgerStep, Audited, SampleWritten, IntentWritten
  <2>3. CASE ThreadStep
    BY <2>3, <1>1, <1>3, <1>5, <1>6 DEF ThreadStep, Observe, SamplerEnds, Observed, PublishSample,
       SampleRefused, Take, Audit, WorkerEnds, Publishers
  <2>4. CASE Outside
    BY <2>4, <1>2, <1>3 DEF Outside, Submit, StartFails, CloseIntake, Retry, InterruptStop
  <2>5. CASE \E c \in Clients : ServerStep(c)
    BY <2>5, <1>1, <1>3, <1>7 DEF ServerStep, Serve, PublishIntent, IntentRefused, Answer,
       Publishers
  <2> QED BY <2>1, <2>2, <2>3, <2>4, <2>5 DEF ExperimentStep
<1>9. bus' \in Seq(Rows) /\ taken' \in Seq(Rows)
  <2>1. bus \in Seq(Rows) /\ taken \in Seq(Rows)
    BY DEF LedgerTypeOK
  <2>2. CASE Take
    <3>1. Head(bus) \in Rows /\ Tail(bus) \in Seq(Rows)
      BY <2>1, <2>2, HeadTailProperties DEF Take
    <3> QED BY <2>1, <2>2, <3>1 DEF Take
  <2>3. CASE UNCHANGED <<bus, taken>>
    BY <2>1, <2>3
  <2>4. CASE writer \in Publishers /\ bus' = Append(bus, rows[1]) /\ taken' = taken
    BY <1>4, <2>1, <2>4
  <2> QED BY <2>2, <2>3, <2>4, EventsMove
<1> QED BY <1>8, <1>9 DEF LedgerTypeOK

-----------------------------------------------------------------------------
(* Who writes, and what runs at each step of the main thread *)

LEMMA WriterStep ==
    ASSUME ThreadTypeOK, IntakeTypeOK, WriterIsWriting, ThreadsFollowMain, ExperimentStep
    PROVE  WriterIsWriting'
<1> USE ExperimentAssumption
    DEF WriterIsWriting, ThreadTypeOK, IntakeTypeOK, mainVars, ledgerVars, intakeVars, layerVars
<1>1. ASSUME MainStep PROVE WriterIsWriting'
  <2> USE DEF Goto, Recording
  <2>1. CASE BeginRecord
    BY <2>1 DEF BeginRecord, BeginAppend
  <2>2. CASE Recorded
    BY <2>2 DEF Recorded, Commit, Rollback
  <2>3. CASE OpenIntake
    BY <2>3 DEF OpenIntake
  <2>4. CASE JoinServer
    BY <2>4 DEF JoinServer, Served
  <2>5. CASE StartTelemetry
    BY <2>5 DEF StartTelemetry, ThreadsFollowMain, Unstarted, SamplersLeft
  <2>6. CASE StartContinuous
    BY <2>6 DEF StartContinuous, ThreadsFollowMain, Unstarted, SamplersLeft, Setup
  <2>7. CASE UNCHANGED <<ledgerVars, intakeVars, sampler, worker>>
    <3>1. writer # "main"
      BY <1>1, <2>7 DEF MainStep, Deploy, StartContinuous, StartTelemetry, OpenIntake,
         JoinServer, BeginStop, BeginRecord, Recorded, BeginAppend,
     HaltTelemetry, JoinSamplers, CloseBus, JoinWorker, Teardown, Settle, Commit, Rollback
    <3> QED BY <2>7, <3>1
  <2> QED BY <1>1, <2>1, <2>2, <2>3, <2>4, <2>5, <2>6, <2>7, MainFrame
<1>2. CASE LedgerStep
  <2> USE DEF Commit, Rollback
  <2>1. CASE Audited
    BY <2>1 DEF Audited
  <2>2. ASSUME NEW s \in Samplers, SampleWritten(s) PROVE WriterIsWriting'
    BY <2>2 DEF SampleWritten
  <2>3. ASSUME NEW c \in Clients, IntentWritten(c) PROVE WriterIsWriting'
    BY <2>3 DEF IntentWritten, ConnAt
  <2> QED BY <1>2, <2>1, <2>2, <2>3 DEF LedgerStep
<1>3. CASE ThreadStep
  <2>1. ASSUME NEW s \in Samplers, PublishSample(s) PROVE WriterIsWriting'
    BY <2>1 DEF PublishSample, BeginAppend, SamplerAt, Row
  <2>2. CASE Audit
    BY <2>2 DEF Audit, BeginAppend
  <2>3. ASSUME NEW s \in Samplers,
               Observe(s) \/ SamplerEnds(s) \/ Observed(s) \/ SampleRefused(s)
        PROVE  WriterIsWriting'
    BY <2>3 DEF Observe, SamplerEnds, Observed, SampleRefused, SamplerAt
  <2>4. CASE Take \/ WorkerEnds
    BY <2>4 DEF Take, WorkerEnds
  <2> QED BY <1>3, <2>1, <2>2, <2>3, <2>4 DEF ThreadStep
<1>4. CASE Outside
  <2>1. ASSUME NEW c \in Clients, Submit(c) PROVE WriterIsWriting'
    BY <2>1 DEF Submit, ConnAt
  <2>2. CASE CloseIntake \/ Retry
    BY <2>2 DEF CloseIntake, Retry, Goto, Recording
  <2>3. CASE InterruptStop
    BY <2>3 DEF InterruptStop, Rollback, Goto, Recording
  <2>4. CASE StartFails
    <3>1. /\ phase \in {"consume", "sample"}
          /\ UNCHANGED <<writer, rows, opened, conn>>
      BY <2>4 DEF StartFails
    <3>2. writer # "main" /\ \A s \in Samplers : writer # s
      BY <3>1 DEF ThreadsFollowMain, Unstarted, SamplersLeft, Recording
    <3>3. writer = "worker" => worker' = worker
      BY <2>4, <3>1 DEF StartFails, TelemetryFails, ThreadsFollowMain, Unstarted
    <3> QED BY <3>1, <3>2, <3>3
  <2> QED BY <1>4, <2>1, <2>2, <2>3, <2>4 DEF Outside
<1>5. ASSUME NEW c \in Clients, ServerStep(c) PROVE WriterIsWriting'
  <2>1. CASE PublishIntent(c)
    BY <2>1 DEF PublishIntent, BeginAppend, ConnAt, Row
  <2>2. CASE Serve(c)
    <3>1. UNCHANGED <<phase, opened, writer, rows, sampler, worker>>
      BY <2>2 DEF Serve
    <3>2. ASSUME NEW d \in Clients
          PROVE  \/ conn'[d] = conn[d]
                 \/ conn[d].at = "queued" /\ conn'[d].at \in {"numbered", "refusing"}
      <4>1. /\ conn[c].at = "queued"
            /\ \/ conn' = [conn EXCEPT ![c] = [at |-> "numbered", seq |-> nextSeq]]
               \/ conn' = [conn EXCEPT ![c].at = "refusing"]
        BY <2>2 DEF Serve, ConnAt
      <4>2. conn \in [Clients -> [at : ConnStates, seq : Nat]]
        OBVIOUS
      <4> HIDE DEF IntakeTypeOK, WriterIsWriting, ThreadTypeOK
      <4>3. CASE d = c
        BY <4>1, <4>2, <4>3
      <4>4. CASE d # c
        BY <4>1, <4>2, <4>4
      <4> QED BY <4>3, <4>4
    <3>3. ASSUME NEW d \in Clients
          PROVE  /\ conn'[d].at = "writing" => writer' = d
                 /\ writer' = d => conn'[d].at = "writing" /\ rows'[1] = Row(d, conn'[d].seq)
      <4>1. CASE conn'[d] = conn[d]
        BY <3>1, <4>1
      <4>2. CASE conn[d].at = "queued" /\ conn'[d].at \in {"numbered", "refusing"}
        BY <3>1, <4>2
      <4> QED BY <3>2, <4>1, <4>2
    <3> QED BY <3>1, <3>3
  <2>3. CASE IntentRefused(c)
    BY <2>3 DEF IntentRefused, ConnAt
  <2>4. CASE Answer(c)
    BY <2>4 DEF Answer, ConnAt
  <2> QED BY <1>5, <2>1, <2>2, <2>3, <2>4 DEF ServerStep
<1> QED BY <1>1, <1>2, <1>3, <1>4, <1>5 DEF ExperimentStep

LEMMA MainKeepsThreads ==
    ASSUME MainTypeOK, ThreadTypeOK, IntakeTypeOK, WriterIsWriting, ThreadsFollowMain, MainStep
    PROVE  ThreadsFollowMain'
<1> USE DEF ThreadsFollowMain, Setup, Unstarted, Goto, SamplersLeft, mainVars, layerVars,
            intakeVars, ledgerVars
<1>1. CASE Deploy
  BY <1>1 DEF Deploy
<1>2. CASE BeginRecord
  BY <1>2 DEF BeginRecord, Recording, BeginAppend
<1>3. CASE Recorded
  BY <1>3 DEF Recorded, WriterIsWriting, Recording, After, Commit, Rollback
<1>4. CASE StartContinuous
  BY <1>4 DEF StartContinuous
<1>5. CASE StartTelemetry
  BY <1>5 DEF StartTelemetry
<1>6. CASE OpenIntake
  BY <1>6 DEF OpenIntake, Served
<1>7. CASE JoinServer
  BY <1>7 DEF JoinServer, IntakeTypeOK, Served
<1>8. CASE BeginStop
  BY <1>8 DEF BeginStop
<1>9. CASE HaltTelemetry
  BY <1>9 DEF HaltTelemetry
<1>10. CASE JoinSamplers
  BY <1>10 DEF JoinSamplers, TelemetryEnds
<1>11. CASE CloseBus
  BY <1>11 DEF CloseBus
<1>12. CASE JoinWorker
  BY <1>12 DEF JoinWorker
<1>13. CASE Teardown
  BY <1>13 DEF Teardown, AfterTeardown
<1>14. CASE Settle
  BY <1>14 DEF Settle
<1> QED BY <1>1, <1>2, <1>3, <1>4, <1>5, <1>6, <1>7,
           <1>8, <1>9, <1>10, <1>11, <1>12, <1>13, <1>14 DEF MainStep

LEMMA MainKeepsLayers ==
    ASSUME MainTypeOK, ThreadTypeOK, IntakeTypeOK, WriterIsWriting, ThreadsFollowMain,
           LayersJoined, MainStep
    PROVE  LayersJoined'
<1> USE DEF LayersJoined, Goto, SamplersLeft, Ending, mainVars, layerVars, ledgerVars, busVars
<1>1. CASE Deploy
  <2>1. phase' \in {"manifest", "done"} /\ substrate' # "gone"
    BY <1>1 DEF Deploy
  <2>2. finished' => phase' = "done"
    BY <1>1 DEF Deploy, ThreadsFollowMain, Setup
  <2> QED BY <2>1, <2>2
<1>2. CASE BeginRecord
  BY <1>2 DEF BeginRecord, Recording, BeginAppend
<1>3. CASE Recorded
  BY <1>3 DEF Recorded, WriterIsWriting, Recording, After, Commit, Rollback
<1>4. CASE StartContinuous
  BY <1>4 DEF StartContinuous, ThreadsFollowMain, Unstarted
<1>5. CASE StartTelemetry
  BY <1>5 DEF StartTelemetry, ThreadsFollowMain, Unstarted
<1>6. CASE OpenIntake
  BY <1>6 DEF OpenIntake
<1>7. CASE JoinServer
  BY <1>7 DEF JoinServer
<1>8. CASE BeginStop
  BY <1>8 DEF BeginStop
<1>9. CASE HaltTelemetry
  BY <1>9 DEF HaltTelemetry
<1>10. CASE JoinSamplers
  BY <1>10 DEF JoinSamplers, TelemetryEnds
<1>11. CASE CloseBus
  BY <1>11 DEF CloseBus
<1>12. CASE JoinWorker
  BY <1>12 DEF JoinWorker
<1>13. CASE Teardown
  BY <1>13 DEF Teardown, AfterTeardown
<1>14. CASE Settle
  BY <1>14 DEF Settle, Clean
<1> QED BY <1>1, <1>2, <1>3, <1>4, <1>5, <1>6, <1>7,
           <1>8, <1>9, <1>10, <1>11, <1>12, <1>13, <1>14 DEF MainStep

LEMMA OthersKeepThreads ==
    ASSUME MainTypeOK, ThreadTypeOK, IntakeTypeOK, WriterIsWriting, ThreadsFollowMain,
           LayersJoined,
           ThreadStep \/ LedgerStep \/ Outside \/ \E c \in Clients : ServerStep(c)
    PROVE  ThreadsFollowMain' /\ LayersJoined'
<1>1. CASE StartFails
  <2>1. /\ phase' = "halt" /\ finished' = finished /\ substrate' = substrate
        /\ UNCHANGED <<intakeVars, ledgerVars>>
        /\ phase \in {"consume", "sample"}
    BY <1>1 DEF StartFails, Goto
  <2>2. ThreadsFollowMain'
    BY <2>1 DEF ThreadsFollowMain, Unstarted, Setup, intakeVars, ledgerVars
  <2>3. LayersJoined'
    BY <2>1 DEF LayersJoined, ThreadsFollowMain, Unstarted, Ending
  <2> QED BY <2>2, <2>3
<1>2. CASE (ThreadStep \/ LedgerStep) /\ ~StartFails
  <2>1. /\ phase' = phase /\ intake' = intake /\ late' = late
        /\ phase \in Setup => writer' = NoOne
        /\ \A c \in Clients : conn'[c].at \in Served => conn[c].at \in Served
    <3>1. CASE ThreadStep
      BY <3>1 DEF ThreadStep, Observe, SamplerEnds, Observed, PublishSample, SampleRefused, Take,
         Audit, WorkerEnds, mainVars, intakeVars, ledgerVars, SamplersLeft, ThreadsFollowMain,
         Unstarted, Setup
    <3>2. CASE LedgerStep
      BY <3>2 DEF LedgerStep, Audited, SampleWritten, IntentWritten, mainVars, intakeVars, ConnAt,
         IntakeTypeOK, WriterIsWriting, Served, Commit, Rollback
    <3> QED BY <1>2, <3>1, <3>2
  <2>2. ThreadsFollowMain'
    BY <1>2, <2>1, ThreadsAsleep DEF ThreadsFollowMain, Unstarted, Setup
  <2>3. LayersJoined'
    <3>1. /\ phase' \in {"close", "join worker", "teardown", "record", "settle"} =>
               "telemetry" \in late' \/ ~SamplersLeft'
          /\ phase' \in {"teardown", "record", "settle"} =>
               "continuous" \in late' \/ worker' \in {"off", "ended"}
      BY <1>2, <2>1, ThreadsAsleep DEF LayersJoined
    <3>2. phase' \in {"join worker", "teardown", "record", "settle"} =>
             closed' \/ continuous' = "none"
      BY <1>2, <2>1, ThreadsAsleep DEF LayersJoined
    <3>3. substrate' = "gone" => ~SamplersLeft' /\ worker' \in {"off", "ended"}
      BY <1>2, <2>1, ThreadsAsleep DEF LayersJoined
    <3>4. finished' => phase' \in Ending
      BY <1>2, <2>1, ThreadsAsleep DEF LayersJoined, Ending
    <3> QED BY <3>1, <3>2, <3>3, <3>4 DEF LayersJoined
  <2> QED BY <2>2, <2>3
<1>3. CASE (\E c \in Clients : ServerStep(c)) /\ ~StartFails
  <2>1. PICK c \in Clients : ServerStep(c)
    BY <1>3
  <2>2. /\ phase' = phase /\ intake' = intake /\ late' = late
        /\ phase \in Setup => writer' = writer
        /\ \A d \in Clients : conn'[d].at \in Served => conn[d].at \in Served \/ phase = "serving"
    BY <2>1 DEF ServerStep, Serve, PublishIntent, IntentRefused, Answer, ThreadsFollowMain, Setup,
       Served, ConnAt, IntakeTypeOK, mainVars, ledgerVars
  <2>3. ThreadsFollowMain'
    BY <1>3, <2>2, ThreadsAsleep DEF ThreadsFollowMain, Unstarted, Setup
  <2>4. LayersJoined'
    <3>1. /\ phase' \in {"close", "join worker", "teardown", "record", "settle"} =>
               "telemetry" \in late' \/ ~SamplersLeft'
          /\ phase' \in {"teardown", "record", "settle"} =>
               "continuous" \in late' \/ worker' \in {"off", "ended"}
      BY <1>3, <2>2, ThreadsAsleep DEF LayersJoined
    <3>2. phase' \in {"join worker", "teardown", "record", "settle"} =>
             closed' \/ continuous' = "none"
      BY <1>3, <2>2, ThreadsAsleep DEF LayersJoined
    <3>3. substrate' = "gone" => ~SamplersLeft' /\ worker' \in {"off", "ended"}
      BY <1>3, <2>2, ThreadsAsleep DEF LayersJoined
    <3>4. finished' => phase' \in Ending
      BY <1>3, <2>2, ThreadsAsleep DEF LayersJoined, Ending
    <3> QED BY <3>1, <3>2, <3>3, <3>4 DEF LayersJoined
  <2> QED BY <2>3, <2>4
<1>4. CASE Outside /\ ~StartFails
  <2> USE ThreadsAsleep DEF ThreadsFollowMain, LayersJoined, Unstarted, Setup
  <2>1. ASSUME NEW c \in Clients, Submit(c) PROVE ThreadsFollowMain' /\ LayersJoined'
    BY <1>4, <2>1 DEF Submit, ConnAt, IntakeTypeOK, Served, Outside, mainVars, ledgerVars
  <2>2. CASE CloseIntake
    BY <1>4, <2>2 DEF CloseIntake, Goto, Outside, intakeVars, ledgerVars, Ending
  <2>3. CASE Retry
    BY <1>4, <2>3 DEF Retry, Goto, Outside, intakeVars, ledgerVars, Ending
  <2>4. CASE InterruptStop
    BY <1>4, <2>4 DEF InterruptStop, Goto, Outside, intakeVars, Stopping, Ending
  <2> QED BY <1>4, <2>1, <2>2, <2>3, <2>4 DEF Outside
<1> QED BY <1>1, <1>2, <1>3, <1>4

-----------------------------------------------------------------------------
(* The ledger and the intents in it *)

LEMMA StaysDead ==
    ASSUME WriterIsWriting, ExperimentStep, phase = "dead" PROVE phase' = "dead"
<1>1. CASE MainStep
  BY <1>1 DEF MainStep, Deploy, BeginRecord, Recorded, StartContinuous, StartTelemetry,
     OpenIntake,
     JoinServer, BeginStop, HaltTelemetry, JoinSamplers, CloseBus, JoinWorker, Teardown, Settle,
     WriterIsWriting, Recording
<1>2. CASE LedgerStep
  BY <1>2 DEF LedgerStep, Audited, SampleWritten, IntentWritten, mainVars
<1>3. CASE ThreadStep
  BY <1>3 DEF ThreadStep, Observe, SamplerEnds, Observed, PublishSample, SampleRefused, Take,
     Audit, WorkerEnds, mainVars
<1>4. CASE Outside
  BY <1>4 DEF Outside, Submit, StartFails, CloseIntake, Retry, InterruptStop, Stopping, mainVars
<1>5. CASE \E c \in Clients : ServerStep(c)
  BY <1>5 DEF ServerStep, Serve, PublishIntent, IntentRefused, Answer, mainVars
<1> QED BY <1>1, <1>2, <1>3, <1>4, <1>5 DEF ExperimentStep

LEMMA LedgerFollowsBus ==
    ASSUME LedgerTypeOK, WriterIsWriting, LedgerMatchesBus, ExperimentStep
    PROVE  LedgerMatchesBus'
<1> SUFFICES ASSUME phase' # "dead"
             PROVE  records'.events = taken' \o bus'
  BY DEF LedgerMatchesBus
<1>1. records.events = taken \o bus
  BY StaysDead DEF LedgerMatchesBus
<1>2. bus \in Seq(Rows) /\ taken \in Seq(Rows)
  BY DEF LedgerTypeOK
<1>3. CASE UNCHANGED <<records.events, bus, taken>>
  BY <1>1, <1>3
<1>4. CASE /\ writer \in Publishers
           /\ records'.events = records.events \o rows
           /\ bus' = Append(bus, rows[1]) /\ taken' = taken
  <2>1. Len(rows) = 1 /\ rows \in Seq(Rows)
    BY <1>4, ExperimentAssumption DEF WriterIsWriting, Publishers, LedgerTypeOK
  <2>2. rows[1] \in Rows /\ bus \o rows = Append(bus, rows[1])
    BY <1>2, <2>1, OneElement
  <2>3. (taken \o bus) \o rows = taken \o (bus \o rows)
    BY <1>2, <2>1
  <2> QED BY <1>1, <1>4, <2>2, <2>3
<1>5. CASE Take
  <2>1. taken \o bus = Append(taken, Head(bus)) \o Tail(bus) /\ records' = records
    BY <1>2, <1>5 DEF Take, ledgerVars
  <2> QED BY <1>1, <1>5, <2>1 DEF Take
<1> QED BY <1>3, <1>4, <1>5, EventsMove

LEMMA SampleRecorded ==
    ASSUME LedgerTypeOK, IntentsInOrder, IntentsExactlyOnce,
           NEW s \in Samplers, NEW row \in Rows, row.from = s,
           records'.events = Append(records.events, row), UNCHANGED <<intakeVars, phase>>
    PROVE  IntentsInOrder' /\ IntentsExactlyOnce'
<1> DEFINE e == records.events
<1>1. /\ DOMAIN e' = DOMAIN e \cup {Len(e) + 1}
      /\ \A i \in DOMAIN e : e'[i] = e[i] /\ i < Len(e) + 1
      /\ e'[Len(e) + 1] = row
      /\ Len(e) + 1 \notin DOMAIN e /\ DOMAIN e \subseteq Nat /\ Len(e) \in Nat
  BY LastElement DEF LedgerTypeOK
<1>2. row.from \notin Clients
  BY ExperimentAssumption
<1> HIDE DEF e
<1>3. IntentsInOrder'
  BY <1>1, <1>2 DEF IntentsInOrder, Intent, intakeVars, e
<1>4. IntentsExactlyOnce'
  BY <1>1, <1>2 DEF IntentsExactlyOnce, Intent, intakeVars, e
<1> QED BY <1>3, <1>4

LEMMA IntentRecorded ==
    ASSUME LedgerTypeOK, IntakeTypeOK, IntentsInOrder, IntentsExactlyOnce,
           NEW c \in Clients, NEW row \in Rows, row = Row(c, conn[c].seq), conn[c].at = "writing",
           records'.events = Append(records.events, row), ConnAt(c, "answering"),
           UNCHANGED <<answer, nextSeq, phase>>
    PROVE  IntentsInOrder' /\ IntentsExactlyOnce'
<1> DEFINE e == records.events
<1>1. /\ DOMAIN e' = DOMAIN e \cup {Len(e) + 1}
      /\ \A i \in DOMAIN e : e'[i] = e[i] /\ i < Len(e) + 1
      /\ e'[Len(e) + 1] = row
      /\ Len(e) + 1 \notin DOMAIN e /\ DOMAIN e \subseteq Nat /\ Len(e) \in Nat
  BY LastElement DEF LedgerTypeOK
<1>2. row.from = c /\ row.seq = conn[c].seq /\ conn[c].seq < nextSeq
  BY DEF Row, IntentsInOrder
<1>5. /\ conn'[c].at = "answering" /\ \A d \in Clients \ {c} : conn'[d] = conn[d] /\ conn[d].at \notin Served
  BY DEF ConnAt, IntakeTypeOK, IntentsInOrder, Served
<1> HIDE DEF e
<1>3. IntentsInOrder'
  BY <1>1, <1>2, <1>5 DEF IntentsInOrder, Intent, e, Served
<1>4. IntentsExactlyOnce'
  BY <1>1, <1>2 DEF IntentsExactlyOnce, IntentsInOrder, Intent, e
<1> QED BY <1>3, <1>4

LEMMA IntakeMoves ==
    ASSUME IntakeTypeOK, LedgerTypeOK, ThreadsFollowMain, IntentsInOrder, IntentsExactlyOnce,
           UNCHANGED <<records.events, phase>>,
           NEW c \in Clients,
           \/ Submit(c) \/ ServerStep(c)
           \/ conn[c].at = "writing" /\ ConnAt(c, "refusing") /\ UNCHANGED <<answer, nextSeq>>
    PROVE  IntentsInOrder' /\ IntentsExactlyOnce'
<1> DEFINE e == records.events
<1>1. DOMAIN e \subseteq Nat /\ e' = e /\ \A i \in DOMAIN e : e[i].seq \in Nat
  <2>1. e \in Seq(Rows) /\ e' = e /\ DOMAIN e = 1..Len(e) /\ Len(e) \in Nat
    BY DEF LedgerTypeOK
  <2>2. \A i \in 1..Len(e) : e[i] \in Rows
    BY <2>1, ElementOfSeq
  <2> QED BY <2>1, <2>2 DEF Rows
<1> HIDE DEF e
<1> USE DEF IntakeTypeOK, Served, ConnAt
<1>2. CASE Submit(c)
  <2>1. IntentsInOrder'
    BY <1>1, <1>2 DEF Submit, IntentsInOrder, Intent, e, ledgerVars
  <2>2. IntentsExactlyOnce'
    BY <1>1, <1>2 DEF Submit, IntentsExactlyOnce, Intent, e
  <2> QED BY <2>1, <2>2
<1>3. CASE Serve(c)
  <2>1. IntentsInOrder'
    BY <1>1, <1>3 DEF Serve, IntentsInOrder, Intent, e, ThreadsFollowMain
  <2>2. IntentsExactlyOnce'
    BY <1>1, <1>3 DEF Serve, IntentsExactlyOnce, Intent, e
  <2> QED BY <2>1, <2>2
<1>4. CASE PublishIntent(c)
  <2>1. IntentsInOrder'
    BY <1>1, <1>4 DEF PublishIntent, IntentsInOrder, Intent, e
  <2>2. IntentsExactlyOnce'
    BY <1>1, <1>4 DEF PublishIntent, IntentsExactlyOnce, Intent, e
  <2> QED BY <2>1, <2>2
<1>5. CASE IntentRefused(c)
  <2>1. IntentsInOrder'
    BY <1>1, <1>5 DEF IntentRefused, IntentsInOrder, Intent, e
  <2>2. IntentsExactlyOnce'
    BY <1>1, <1>5 DEF IntentRefused, IntentsExactlyOnce, Intent, e
  <2> QED BY <2>1, <2>2
<1>6. CASE Answer(c)
  <2>1. IntentsInOrder'
    BY <1>1, <1>6 DEF Answer, IntentsInOrder, Intent, e
  <2>2. IntentsExactlyOnce'
    BY <1>1, <1>6 DEF Answer, Told, IntentsExactlyOnce, IntentsInOrder, Intent, e
  <2> QED BY <2>1, <2>2
<1>7. CASE conn[c].at = "writing" /\ ConnAt(c, "refusing") /\ UNCHANGED <<answer, nextSeq>>
  <2>1. IntentsInOrder'
    BY <1>1, <1>7 DEF IntentsInOrder, Intent, e
  <2>2. IntentsExactlyOnce'
    BY <1>1, <1>7 DEF IntentsExactlyOnce, IntentsInOrder, Intent, e
  <2> QED BY <2>1, <2>2
<1> QED BY <1>2, <1>3, <1>4, <1>5, <1>6, <1>7 DEF ServerStep

LEMMA ServerJoined ==
    ASSUME IntakeTypeOK, LedgerTypeOK, ThreadsFollowMain, IntentsInOrder, IntentsExactlyOnce,
           JoinServer
    PROVE  IntentsInOrder' /\ IntentsExactlyOnce'
<1>1. UNCHANGED <<records, nextSeq>> /\ phase # "dead"
  BY DEF JoinServer, ledgerVars
<1>2. ASSUME NEW d \in Clients
      PROVE  /\ \/ conn'[d].at = conn[d].at /\ answer'[d] = answer[d]
                \/ conn'[d].at = "done" /\ answer'[d] = "unknown"
             /\ conn'[d].at \notin {"queued", "numbered", "writing", "answering", "refusing"}
  <2>1. /\ conn'[d].at = IF conn[d].at = "queued" THEN "done" ELSE conn[d].at
        /\ answer'[d] = IF conn[d].at = "queued" THEN "unknown" ELSE answer[d]
    BY DEF JoinServer, IntakeTypeOK
  <2>2. conn[d].at \notin Served
    BY DEF JoinServer
  <2> QED BY <2>1, <2>2 DEF Served
<1>3. \A i \in DOMAIN records.events :
        Intent(records.events[i]) => records.events[i].seq < nextSeq
  BY <1>1 DEF IntentsInOrder
<1>4. \A c \in Clients :
        /\ answer[c] # "none" => conn[c].at = "done"
        /\ conn[c].at = "none" => \A i \in DOMAIN records.events : records.events[i].from # c
  BY DEF IntentsInOrder
<1>5. IntentsInOrder'
  BY <1>1, <1>2, <1>3, <1>4 DEF IntentsInOrder, Intent, Served
<1>6. IntentsExactlyOnce'
  BY <1>1, <1>2 DEF IntentsExactlyOnce, Intent
<1> QED BY <1>5, <1>6

LEMMA IntakeIdle ==
    ASSUME IntentsInOrder, IntentsExactlyOnce,
           UNCHANGED <<records.events, conn, answer, nextSeq>>, phase' # "dead" => phase # "dead"
    PROVE  IntentsInOrder' /\ IntentsExactlyOnce'
  BY DEF IntentsInOrder, IntentsExactlyOnce, Intent

LEMMA IntentsKept ==
    ASSUME IntakeTypeOK, LedgerTypeOK, WriterIsWriting, ThreadsFollowMain, IntentsInOrder,
           IntentsExactlyOnce, ExperimentStep
    PROVE  IntentsInOrder' /\ IntentsExactlyOnce'
<1>0. phase' # "dead" => phase # "dead"
  BY StaysDead
<1>1. CASE MainStep
  <2>1. records'.events = records.events
    BY <1>1, MainFrame, ExperimentAssumption
    DEF BeginRecord, BeginAppend, Recorded, Commit, Rollback, LedgerTypeOK, ledgerVars, Publishers
  <2>2. CASE JoinServer
    BY <2>2, ServerJoined
  <2>3. CASE ~JoinServer
    <3>1. UNCHANGED <<conn, answer, nextSeq>>
      BY <1>1, <2>3, MainFrame DEF OpenIntake, intakeVars
    <3> QED BY <1>0, <2>1, <3>1, IntakeIdle
  <2> QED BY <2>2, <2>3
<1>2. CASE Audited
  <2>1. UNCHANGED <<records.events, conn, answer, nextSeq>>
    BY <1>2, ExperimentAssumption
    DEF Audited, Commit, Rollback, LedgerTypeOK, Publishers, intakeVars
  <2> QED BY <1>0, <2>1, IntakeIdle
<1>3. ASSUME NEW s \in Samplers, SampleWritten(s) PROVE IntentsInOrder' /\ IntentsExactlyOnce'
  <2>1. /\ Len(rows) = 1 /\ rows \in Seq(Rows) /\ rows[1].from = s
        /\ UNCHANGED <<intakeVars, phase>> /\ writer = s
    BY <1>3, ExperimentAssumption
    DEF SampleWritten, WriterIsWriting, LedgerTypeOK, mainVars
  <2>2. CASE Commit
    <3>1. records'.events = records.events \o rows /\ records.events \in Seq(Rows)
      BY <2>1, <2>2 DEF Commit, Publishers, LedgerTypeOK
    <3>2. rows[1] \in Rows /\ records'.events = Append(records.events, rows[1])
      BY <2>1, <3>1, OneElement
    <3> QED BY <2>1, <3>2, SampleRecorded
  <2>3. CASE Rollback
    BY <1>0, <2>1, <2>3, IntakeIdle DEF Rollback, intakeVars
  <2> QED BY <1>3, <2>2, <2>3 DEF SampleWritten
<1>4. ASSUME NEW c \in Clients, IntentWritten(c) PROVE IntentsInOrder' /\ IntentsExactlyOnce'
  <2>1. /\ Len(rows) = 1 /\ rows \in Seq(Rows) /\ rows[1] = Row(c, conn[c].seq)
        /\ conn[c].at = "writing" /\ UNCHANGED <<answer, nextSeq, phase>> /\ writer = c
    BY <1>4, ExperimentAssumption
    DEF IntentWritten, WriterIsWriting, LedgerTypeOK, mainVars
  <2>2. CASE Commit /\ ConnAt(c, "answering")
    <3>1. records'.events = records.events \o rows /\ records.events \in Seq(Rows)
      BY <2>1, <2>2 DEF Commit, Publishers, LedgerTypeOK
    <3>2. rows[1] \in Rows /\ records'.events = Append(records.events, rows[1])
      BY <2>1, <3>1, OneElement
    <3> QED BY <2>1, <2>2, <3>2, IntentRecorded
  <2>3. CASE Rollback /\ ConnAt(c, "refusing")
    BY <2>1, <2>3, IntakeMoves DEF Rollback
  <2> QED BY <1>4, <2>2, <2>3 DEF IntentWritten
<1>5. CASE ThreadStep
  <2>1. UNCHANGED <<records, conn, answer, nextSeq>>
    BY <1>5 DEF ThreadStep, Observe, SamplerEnds, Observed, PublishSample, SampleRefused, Take,
       Audit, WorkerEnds, BeginAppend, intakeVars, ledgerVars
  <2> QED BY <1>0, <2>1, IntakeIdle
<1>6. CASE \E c \in Clients : Submit(c) \/ ServerStep(c)
  <2>1. PICK c \in Clients : Submit(c) \/ ServerStep(c)
    BY <1>6
  <2>2. UNCHANGED <<records, phase>>
    BY <2>1 DEF Submit, ServerStep, Serve, PublishIntent, IntentRefused, Answer, BeginAppend,
       mainVars, ledgerVars
  <2> QED BY <2>1, <2>2, IntakeMoves
<1>7. CASE StartFails \/ Retry \/ InterruptStop \/ CloseIntake
  <2>1. UNCHANGED <<records, conn, answer, nextSeq>>
    BY <1>7 DEF StartFails, Retry, InterruptStop, CloseIntake, Rollback, intakeVars, ledgerVars
  <2> QED BY <1>0, <2>1, IntakeIdle
<1> QED BY <1>1, <1>2, <1>3, <1>4, <1>5, <1>6, <1>7 DEF ExperimentStep, LedgerStep, Outside

-----------------------------------------------------------------------------
(* The process as a whole *)

\* Once everything is verified to have stopped, the process takes no step.
LEMMA FinishedStops ==
    ASSUME LedgerTypeOK, WriterIsWriting, ThreadsFollowMain, LayersJoined, FinishedIsQuiet,
           ExperimentStep, finished
    PROVE  FALSE
<1>1. /\ ~SamplersLeft /\ worker \in {"off", "ended"} /\ writer = NoOne
      /\ intake \notin {"open", "closing"} /\ phase \in Ending
  BY DEF FinishedIsQuiet, LayersJoined
<1>2. phase \notin {"serving", "joining"} \cup Stopping \cup Start \cup Setup
  BY <1>1 DEF Ending, Stopping, Start, Setup, LayersJoined
<1>3. \A c \in Clients : conn[c].at \notin Served
  BY <1>2 DEF ThreadsFollowMain
<1>4. CASE MainStep
  BY <1>1, <1>2, <1>4, ExperimentAssumption
  DEF MainStep, Deploy, BeginRecord, Recorded, StartContinuous, StartTelemetry, OpenIntake,
     JoinServer, BeginStop, HaltTelemetry, JoinSamplers, CloseBus, JoinWorker, Teardown, Settle,
     Recording, Stopping, Start, Setup
<1>5. CASE LedgerStep
  BY <1>1, <1>5, ExperimentAssumption DEF LedgerStep, Audited, SampleWritten, IntentWritten
<1>6. CASE ThreadStep
  BY <1>1, <1>6 DEF ThreadStep, Observe, SamplerEnds, Observed, PublishSample, SampleRefused,
     Take,
     Audit, WorkerEnds, SamplersLeft
<1>7. CASE Outside
  BY <1>1, <1>2, <1>7
  DEF Outside, Submit, StartFails, CloseIntake, Retry, InterruptStop, Stopping, Start
<1>8. CASE \E c \in Clients : ServerStep(c)
  BY <1>1, <1>3, <1>8 DEF ServerStep, Serve, PublishIntent, IntentRefused, Answer, Served
<1> QED BY <1>4, <1>5, <1>6, <1>7, <1>8 DEF ExperimentStep

LEMMA FinishedVerified ==
    ASSUME LedgerTypeOK, WriterIsWriting, ThreadsFollowMain, LayersJoined, FinishedIsQuiet,
           ThreadTypeOK, IntakeTypeOK, ExperimentStep
    PROVE  FinishedIsQuiet'
<1> SUFFICES ASSUME finished' PROVE FinishedIsQuiet'
  BY DEF FinishedIsQuiet
<1>1. ~finished
  BY FinishedStops
<1>2. CASE Settle
  <2>1. /\ phase = "settle" /\ late = {} /\ substrate = "gone"
        /\ UNCHANGED <<writer, sampler, worker, closed, continuous, intake, substrate>>
    BY <1>2 DEF Settle, Clean, ledgerVars, layerVars, busVars, intakeVars
  <2>2. ~SamplersLeft /\ worker \in {"off", "ended"} /\ (closed \/ continuous = "none")
    BY <2>1 DEF LayersJoined
  <2>3. intake \notin {"open", "closing"} /\ \A c \in Clients : conn[c].at \notin Served
    BY <2>1 DEF ThreadsFollowMain
  <2>4. writer = NoOne
    BY <2>1, <2>2, <2>3
    DEF LedgerTypeOK, Publishers, WriterIsWriting, Recording, SamplersLeft, Served
  <2> QED BY <2>1, <2>2, <2>3, <2>4 DEF FinishedIsQuiet, SamplersLeft, IntakeTypeOK
<1>3. CASE Deploy
  <2>1. phase = "opened" /\ UNCHANGED <<writer, sampler, worker, continuous, intake>>
    BY <1>3 DEF Deploy, ledgerVars, intakeVars
  <2>2. substrate' = "none"
    BY <1>1, <1>3 DEF Deploy
  <2>3. /\ continuous = "none" /\ writer = NoOne /\ ~SamplersLeft /\ worker = "off"
        /\ intake \notin {"open", "closing"}
    BY <2>1 DEF ThreadsFollowMain, Setup, Unstarted
  <2> QED BY <2>1, <2>2, <2>3 DEF FinishedIsQuiet, SamplersLeft, IntakeTypeOK
<1>4. CASE MainStep /\ ~Settle /\ ~Deploy
  BY <1>1, <1>4
  DEF MainStep, BeginRecord, Recorded, StartContinuous, StartTelemetry, OpenIntake,
     JoinServer, BeginStop, HaltTelemetry, JoinSamplers, CloseBus, JoinWorker, Teardown, mainVars
<1>5. CASE ThreadStep \/ LedgerStep \/ Outside \/ \E c \in Clients : ServerStep(c)
  BY <1>1, <1>5, ThreadsAsleep DEF StartFails
<1> QED BY <1>2, <1>3, <1>4, <1>5 DEF ExperimentStep

(* Every step of the process preserves its invariant.                      *)
LEMMA ExperimentKept ==
    ASSUME ExperimentInv, ExperimentStep PROVE ExperimentInv'
<1> USE DEF ExperimentInv, ExperimentTypeOK
<1>1. ExperimentTypeOK'
  BY MainTypes, FlagTypes, ThreadTypes, IntakeTypes, LedgerTypes
<1>2. WriterIsWriting' /\ LedgerMatchesBus' /\ IntentsInOrder' /\ IntentsExactlyOnce' /\ FinishedIsQuiet'
  BY WriterStep, LedgerFollowsBus, IntentsKept, FinishedVerified
<1>3. ThreadsFollowMain' /\ LayersJoined'
  BY MainKeepsThreads, MainKeepsLayers, OthersKeepThreads DEF ExperimentStep
<1> QED BY <1>1, <1>2, <1>3


-----------------------------------------------------------------------------
(* The process between its steps: the run command around it, and its end *)

LEMMA ExperimentStarts == ExperimentInit => ExperimentInv
<1> SUFFICES ASSUME ExperimentInit PROVE ExperimentInv
  OBVIOUS
<1> USE ExperimentAssumption DEF ExperimentInit
<1>1. MainTypeOK /\ ThreadTypeOK /\ IntakeTypeOK
  BY DEF MainTypeOK, ThreadTypeOK, IntakeTypeOK, Phases, Setup, Layer, ConnStates
<1>2. FlagTypeOK
  BY DEF FlagTypeOK
<1>3. LedgerTypeOK
  BY EmptySeq DEF LedgerTypeOK
<1>4. WriterIsWriting /\ ThreadsFollowMain /\ LayersJoined /\ FinishedIsQuiet
  BY DEF WriterIsWriting, ThreadsFollowMain, Setup, Unstarted, SamplersLeft, Served,
     LayersJoined,
     FinishedIsQuiet
<1>5. LedgerMatchesBus
  <2>1. <<>> \o <<>> = <<>>
    OBVIOUS
  <2> QED BY <2>1 DEF LedgerMatchesBus
<1>6. IntentsInOrder /\ IntentsExactlyOnce
  BY DEF IntentsInOrder, IntentsExactlyOnce, Served
<1> QED BY <1>1, <1>2, <1>3, <1>4, <1>5, <1>6 DEF ExperimentInv, ExperimentTypeOK

\* The run command moves the main thread and opens or closes the ledger.
LEMMA RunCommandKeeps ==
    ASSUME ExperimentInv,
           UNCHANGED <<mainRest, threadVars, writer, rows, records>>,
           faults' \in Nat, opened' \in BOOLEAN, writer # NoOne => opened',
           \/ phase \in Setup /\ phase' \in Setup \cup {"dead"}
           \/ phase = "up" /\ phase' = "active"
           \/ phase \in Ending /\ phase' \in Ending
    PROVE  ExperimentInv'
<1> USE DEF ExperimentInv, ExperimentTypeOK, mainRest, threadVars, layerVars, busVars, intakeVars
<1>1. MainTypeOK' /\ ThreadTypeOK' /\ IntakeTypeOK' /\ LedgerTypeOK'
  BY DEF MainTypeOK, Phases, Start, ThreadTypeOK, IntakeTypeOK, LedgerTypeOK
<1>2. FlagTypeOK'
  BY DEF FlagTypeOK
<1>3. WriterIsWriting'
  BY DEF WriterIsWriting, Setup, Ending, Recording
<1>4. ThreadsFollowMain'
  BY DEF ThreadsFollowMain, Setup, Ending, Unstarted, SamplersLeft
<1>5. LayersJoined'
  BY DEF LayersJoined, Setup, Ending, SamplersLeft, ThreadsFollowMain
<1>6. FinishedIsQuiet'
  BY DEF FinishedIsQuiet, SamplersLeft
<1>7. LedgerMatchesBus'
  BY DEF LedgerMatchesBus, Setup, Ending
<1>8. IntentsInOrder' /\ IntentsExactlyOnce'
  BY IntakeIdle DEF Setup, Ending
<1> QED BY <1>1, <1>2, <1>3, <1>4, <1>5, <1>6, <1>7, <1>8

\* A process that ends leaves the ledger as it is, and hears of no client.
LEMMA DeathKeeps ==
    ASSUME ExperimentInv, Die, faults' \in Nat PROVE ExperimentInv'
<1> USE ExperimentAssumption DEF ExperimentInv, ExperimentTypeOK, Die, Blank, Goto
<1>1. MainTypeOK' /\ ThreadTypeOK' /\ IntakeTypeOK'
  BY DEF MainTypeOK, Phases, ThreadTypeOK, Layer, IntakeTypeOK, ConnStates
<1>2. FlagTypeOK'
  BY DEF FlagTypeOK
<1>3. LedgerTypeOK'
  BY EmptySeq DEF LedgerTypeOK
<1>4. WriterIsWriting' /\ ThreadsFollowMain' /\ LayersJoined' /\ FinishedIsQuiet' /\ LedgerMatchesBus'
  BY DEF WriterIsWriting, ThreadsFollowMain, Setup, Unstarted, SamplersLeft, Served,
     LayersJoined,
     FinishedIsQuiet, LedgerMatchesBus
<1>5. /\ \A c \in Clients : conn'[c].at = "done" /\ answer'[c] \in {answer[c], "unknown"}
      /\ records' = records
  OBVIOUS
<1>6. IntentsInOrder'
  BY <1>5 DEF IntentsInOrder, Served
<1>7. IntentsExactlyOnce'
  BY <1>5 DEF IntentsExactlyOnce, Intent
<1> QED BY <1>1, <1>2, <1>3, <1>4, <1>6, <1>7

\* What steps of the process do to the ledger, and where the main thread is then.
LEMMA ProcessAtLedger ==
    ASSUME LedgerTypeOK, WriterIsWriting, ExperimentStep
    PROVE  /\ opened' = opened
           /\ writer = NoOne => records' = records
           /\ phase' = phase \/ (phase \in LedgerPhases /\ phase' \in LedgerPhases)
<1> USE DEF ledgerVars, mainVars, Commit, Rollback, BeginAppend, Goto
<1>1. CASE MainStep
  <2>1. opened' = opened /\ (writer = NoOne => records' = records)
    BY <1>1, MainFrame, ExperimentAssumption DEF BeginRecord, Recorded
  <2>2. CASE Recorded
    <3>1. phase \in Recording
      BY <2>2 DEF Recorded, WriterIsWriting
    <3>2. phase \in LedgerPhases /\ phase' \in LedgerPhases
      BY <2>2, <3>1 DEF Recorded, Recording, After, LedgerPhases, Start, Stopping
    <3> QED BY <2>1, <3>2
  <2>3. CASE ~Recorded
    <3>1. phase' = phase \/ (phase \in LedgerPhases /\ phase' \in LedgerPhases)
      BY <1>1, <2>3 DEF MainStep, Deploy, BeginRecord, StartContinuous, StartTelemetry,
         OpenIntake,
         JoinServer, BeginStop, HaltTelemetry, JoinSamplers, CloseBus, JoinWorker, Teardown,
         AfterTeardown, Settle, LedgerPhases, Start, Stopping
    <3> QED BY <2>1, <3>1
  <2> QED BY <2>2, <2>3
<1>2. CASE LedgerStep
  BY <1>2, ExperimentAssumption DEF LedgerStep, Audited, SampleWritten, IntentWritten
<1>3. CASE ThreadStep
  BY <1>3 DEF ThreadStep, Observe, SamplerEnds, Observed, PublishSample, SampleRefused, Take,
     Audit, WorkerEnds
<1>4. CASE Outside
  BY <1>4 DEF Outside, Submit, StartFails, CloseIntake, Retry, InterruptStop, LedgerPhases, Start,
     Stopping
<1>5. CASE \E c \in Clients : ServerStep(c)
  BY <1>5 DEF ServerStep, Serve, PublishIntent, IntentRefused, Answer
<1> QED BY <1>1, <1>2, <1>3, <1>4, <1>5 DEF ExperimentStep

LEMMA ProcessStutters ==
    ASSUME ExperimentInv, UNCHANGED <<mainVars, threadVars, ledgerVars>>, faults' \in Nat
    PROVE  ExperimentInv'
<1> USE DEF ExperimentInv, ExperimentTypeOK, mainVars, threadVars, layerVars, busVars, intakeVars,
            ledgerVars
<1>1. MainTypeOK' /\ ThreadTypeOK' /\ IntakeTypeOK' /\ LedgerTypeOK'
  BY DEF MainTypeOK, ThreadTypeOK, IntakeTypeOK, LedgerTypeOK
<1>2. FlagTypeOK'
  BY DEF FlagTypeOK
<1>3. WriterIsWriting'
  BY DEF WriterIsWriting
<1>4. ThreadsFollowMain'
  BY DEF ThreadsFollowMain, SamplersLeft
<1>5. LayersJoined'
  BY DEF LayersJoined, SamplersLeft
<1>6. FinishedIsQuiet'
  BY DEF FinishedIsQuiet, SamplersLeft
<1>7. LedgerMatchesBus'
  BY DEF LedgerMatchesBus
<1>8. IntentsInOrder' /\ IntentsExactlyOnce'
  BY IntakeIdle
<1> QED BY <1>1, <1>2, <1>3, <1>4, <1>5, <1>6, <1>7, <1>8

\* Steps of exports, of unmanaged writers and of other runs are none of the process.
ExportsMove == \E x \in Exporters : StartManaged(x) \/ StartOffline(x) \/ ExportStep(x)

LEMMA ElsewhereFrame ==
    ASSUME UnmanagedWrite \/ RivalClaims \/ ExportsMove
    PROVE  UNCHANGED <<expVars, runVars>>
  BY DEF UnmanagedWrite, RivalClaims, ExportsMove, StartManaged, StartOffline, ExportStep,
     ClearRun,
     LockForExport, ReadLedger, CopyArtifacts, ClaimDestination, Publish, Certify

LEMMA ProcessKept ==
    ASSUME ExperimentInv, Next PROVE ExperimentInv'
<1>1. faults \in Nat /\ opened \in BOOLEAN /\ (writer # NoOne => opened)
  BY DEF ExperimentInv, ExperimentTypeOK, MainTypeOK, FlagTypeOK, WriterIsWriting
<1>2. CASE Prepare \/ LockSources \/ StartLedger \/ Activate
  BY <1>1, <1>2, RunCommandKeeps
  DEF Prepare, LockSources, StartLedger, OpenLedger, Activate, Goto, Setup, ledgerVars
<1>3. CASE StopLedger \/ Inspect \/ LockInspection \/ ReadInspection
  BY <1>1, <1>3, RunCommandKeeps
  DEF StopLedger, CloseLedger, Inspect, LockInspection, ReadInspection, Goto, Ending, ledgerVars
<1>4. CASE Finish
  BY <1>1, <1>4, RunCommandKeeps DEF Finish, Fault, Goto, Ending, ledgerVars
<1>5. CASE Leave \/ Crash
  BY <1>1, <1>5, DeathKeeps DEF Leave, Crash, Fault
<1>6. CASE Experiment
  BY <1>6, ExperimentKept DEF Experiment
<1>7. CASE UnmanagedWrite \/ RivalClaims \/ ExportsMove
  <2>1. UNCHANGED <<mainVars, threadVars, ledgerVars, faults>>
    BY <1>7, ElsewhereFrame DEF expVars, threadVars
  <2> QED BY <1>1, <2>1, ProcessStutters
<1>8. CASE \E x \in Exporters : ExportFails(x)
  <2>1. UNCHANGED <<mainVars, threadVars, ledgerVars>> /\ faults' \in Nat
    BY <1>1, <1>8 DEF ExportFails, Fault
  <2> QED BY <2>1, ProcessStutters
<1> QED BY <1>2, <1>3, <1>4, <1>5, <1>6, <1>7, <1>8 DEF Next, RunStep, ExportsMove

-----------------------------------------------------------------------------
(* The files, the locks and the exports *)

\* The type of an export record.
AnExport == [kind : {"none", "managed", "offline"}, at : ExportStates, copy : Copies]

LEMMA CopyTypes ==
    ASSUME NEW e \in AnExport, NEW r \in [events : Seq(Rows), others : Nat], NEW n \in Nat
    PROVE  /\ [e EXCEPT !.at = "copying", !.copy.records = r] \in AnExport
           /\ [e EXCEPT !.at = "staged", !.copy.artifacts = n, !.copy.whole = TRUE] \in AnExport
  BY DEF AnExport, Copies, ExportStates, Reading

LEMMA FileTypes ==
    ASSUME FileTypeOK, LedgerTypeOK, Next PROVE FileTypeOK'
<1> DEFINE RunTypes == /\ verified' \in BOOLEAN /\ dirShared' \in BOOLEAN
                       /\ meta' \in {"none", "preparing", "running", "final", "failed"}
                       /\ shared' \subseteq {"evidence", "ledger"}
           ExportTypes == export' \in [Exporters -> [kind : {"none", "managed", "offline"},
                                                     at : ExportStates, copy : Copies]]
           DestTypes == dest' \in [by : Exporters \cup {"rival", NoOne}, copy : Copies,
                                   foreign : BOOLEAN, marker : BOOLEAN]
           LockTypes == dirOwner' \in Exporters \cup {NoOne} /\ owner' \in Exporters \cup {"main", NoOne}
<1>1. Nothing \in Copies /\ records \in [events : Seq(Rows), others : Nat]
  BY EmptySeq DEF Nothing, Copies, LedgerTypeOK
<1>2. CASE Prepare \/ LockSources \/ StartLedger \/ Activate \/ StopLedger \/ Finish \/ Inspect
  BY <1>2 DEF Prepare, LockSources, StartLedger, Activate, StopLedger, Finish, Inspect, Released,
     FileTypeOK
<1>3. CASE LockInspection \/ ReadInspection
  <2>1. CASE LockInspection
    BY <2>1 DEF LockInspection, FileTypeOK, runVars
  <2>2. CASE ReadInspection
    <3>1. [Nothing EXCEPT !.records = records, !.whole = TRUE] \in Copies
      BY <1>1 DEF Copies
    <3> QED BY <2>2, <3>1 DEF ReadInspection, FileTypeOK
  <2> QED BY <1>3, <2>1, <2>2
<1>4. CASE Leave \/ Crash
  BY <1>4 DEF Leave, Crash, Released, FileTypeOK
<1>5. CASE UnmanagedWrite \/ RivalClaims \/ Experiment
  <2>1. CASE UnmanagedWrite
    BY <2>1 DEF UnmanagedWrite, FileTypeOK, runVars
  <2>2. CASE RivalClaims
    BY <2>2 DEF RivalClaims, FileTypeOK, runVars
  <2>3. CASE Experiment
    BY <2>3 DEF Experiment, FileTypeOK, savedVars, runVars
  <2> QED BY <1>5, <2>1, <2>2, <2>3
<1>6. ASSUME NEW x \in Exporters,
             StartManaged(x) \/ StartOffline(x) \/ ExportStep(x) \/ ExportFails(x)
      PROVE  FileTypeOK'
  <2>1. UNCHANGED <<runVars, artifacts>>
    BY <1>6 DEF StartManaged, StartOffline, ExportStep, ClearRun, LockForExport, ReadLedger,
       CopyArtifacts, ClaimDestination, Publish, Certify, ExportFails
  <2>2. LockTypes
    BY <1>6 DEF StartManaged, StartOffline, ExportStep, ClearRun, LockForExport, ReadLedger,
       CopyArtifacts, ClaimDestination, Publish, Certify, ExportFails, Unlock, FileTypeOK
  <2>3. NoExport \in [kind : {"none", "managed", "offline"}, at : ExportStates, copy : Copies]
    BY <1>1 DEF NoExport, ExportStates
  <2>4. export[x] \in AnExport /\ artifacts \in Nat
    BY DEF FileTypeOK, AnExport
  <2>5. ExportTypes
    <3> USE <2>3 DEF FileTypeOK, At, Fails, ExportStates, Reading
    <3>1. CASE StartManaged(x) \/ StartOffline(x) \/ ExportFails(x)
      BY <3>1 DEF StartManaged, StartOffline, ExportFails
    <3>2. CASE ClearRun(x) \/ LockForExport(x)
      BY <3>2 DEF ClearRun, LockForExport
    <3>3. CASE ReadLedger(x)
      <4> DEFINE new == [export[x] EXCEPT !.at = "copying", !.copy.records = records]
      <4>1. new \in AnExport
        BY <1>1, <2>4, CopyTypes
      <4>2. \/ export' = [export EXCEPT ![x] = new]
            \/ export' = [export EXCEPT ![x] = NoExport]
        BY <3>3, Zenon DEF ReadLedger
      <4> HIDE DEF new
      <4> QED BY <4>1, <4>2 DEF AnExport
    <3>4. CASE CopyArtifacts(x)
      <4> DEFINE new == [export[x] EXCEPT !.at = "staged", !.copy.artifacts = artifacts,
                                          !.copy.whole = TRUE]
      <4>1. new \in AnExport
        BY <1>1, <2>4, CopyTypes
      <4>2. export' = [export EXCEPT ![x] = new]
        BY <3>4, Zenon DEF CopyArtifacts
      <4> QED BY <4>1, <4>2 DEF AnExport
    <3>5. CASE ClaimDestination(x) \/ Publish(x) \/ Certify(x)
      BY <3>5 DEF ClaimDestination, Publish, Certify
    <3> QED BY <1>6, <3>1, <3>2, <3>3, <3>4, <3>5 DEF ExportStep
  <2>6. DestTypes
    <3>1. CASE ClaimDestination(x)
      <4>1. [dest EXCEPT !.by = x, !.copy.records = export[x].copy.records]
              \in [by : Exporters \cup {"rival", NoOne}, copy : Copies, foreign : BOOLEAN,
                   marker : BOOLEAN]
        BY DEF FileTypeOK, Copies
      <4> QED BY <3>1, <4>1 DEF ClaimDestination, FileTypeOK
    <3>2. CASE Publish(x)
      BY <3>2 DEF Publish, FileTypeOK
    <3>3. CASE Certify(x)
      BY <3>3 DEF Certify, FileTypeOK
    <3>4. CASE UNCHANGED dest
      BY <3>4 DEF FileTypeOK
    <3> QED BY <1>6, <3>1, <3>2, <3>3, <3>4 DEF StartManaged, StartOffline, ExportStep, ClearRun,
       LockForExport, ReadLedger, CopyArtifacts, ExportFails
  <2> QED BY <2>1, <2>2, <2>5, <2>6 DEF FileTypeOK, runVars
<1> QED BY <1>2, <1>3, <1>4, <1>5, <1>6 DEF Next, RunStep

LEMMA LocksKept ==
    ASSUME FileTypeOK, ExperimentInv, LocksExclude, Next PROVE LocksExclude'
<1> USE SavedRunsAssumption DEF LocksExclude
<1>1. CASE Prepare \/ LockSources
  <2>1. ~opened'
    BY <1>1 DEF Prepare, LockSources, LedgerPhases, Start, Stopping, ledgerVars
  <2>2. (owner' # NoOne => shared' = {}) /\ phase' # "inspecting"
    BY <1>1 DEF Prepare, LockSources, Released, Goto
  <2> QED BY <2>1, <2>2
<1>2. CASE StartLedger \/ Activate
  <2>1. owner' = owner /\ phase' \in LedgerPhases /\ phase' # "inspecting"
    BY <1>2 DEF StartLedger, Activate, Goto, LedgerPhases, Start
  <2>2. (opened' => "ledger" \in shared') /\ (owner' # NoOne => shared' = {})
    BY <1>2 DEF StartLedger, Activate, ledgerVars
  <2> QED BY <2>1, <2>2
<1>3. CASE StopLedger \/ Finish \/ Inspect \/ LockInspection \/ ReadInspection
  <2>1. ~opened'
    BY <1>3 DEF StopLedger, CloseLedger, Finish, Inspect, LockInspection, ReadInspection,
       LedgerPhases, Start, Stopping, ledgerVars
  <2>2. (owner' # NoOne => shared' = {}) /\ (phase' = "inspecting" => shared' = {})
    BY <1>3 DEF StopLedger, Finish, Inspect, LockInspection, ReadInspection, Goto, runVars
  <2> QED BY <2>1, <2>2
<1>4. CASE Leave \/ Crash
  BY <1>4 DEF Leave, Crash, Die, Blank, Released, Goto
<1>5. CASE Experiment
  <2>1. /\ UNCHANGED <<shared, owner, opened>>
        /\ phase' = phase \/ (phase \in LedgerPhases /\ phase' \in LedgerPhases)
    BY <1>5, ProcessAtLedger DEF Experiment, savedVars, runVars, ExperimentInv, ExperimentTypeOK
  <2>2. "inspecting" \notin LedgerPhases
    BY DEF LedgerPhases, Start, Stopping
  <2> QED BY <2>1, <2>2
<1>6. CASE UnmanagedWrite \/ RivalClaims
  BY <1>6 DEF UnmanagedWrite, RivalClaims, expVars, mainVars, ledgerVars, runVars
<1>7. ASSUME NEW x \in Exporters,
             StartManaged(x) \/ StartOffline(x) \/ ExportStep(x) \/ ExportFails(x)
      PROVE  LocksExclude'
  <2>1. UNCHANGED <<opened, phase, shared>>
    BY <1>7 DEF StartManaged, StartOffline, ExportStep, ClearRun, LockForExport, ReadLedger,
       CopyArtifacts, ClaimDestination, Publish, Certify, ExportFails, expVars, mainVars,
       ledgerVars, runVars
  <2>2. owner' \in {owner, NoOne} \/ shared = {}
    BY <1>7 DEF StartManaged, StartOffline, ExportStep, ClearRun, LockForExport, ReadLedger,
       CopyArtifacts, ClaimDestination, Publish, Certify, ExportFails, Unlock, Unused
  <2> QED BY <2>1, <2>2
<1> QED BY <1>1, <1>2, <1>3, <1>4, <1>5, <1>6, <1>7 DEF Next, RunStep

\* The ledger changes only while it is open, and what a finished run has left
\* behind does not change at all.
LEMMA LedgerSettled ==
    ASSUME LedgerTypeOK, WriterIsWriting, Next, ~opened PROVE records' = records
<1>1. CASE Experiment
  BY <1>1, ProcessAtLedger DEF Experiment, WriterIsWriting
<1>2. CASE RunStep \/ Crash
  BY <1>2 DEF RunStep, Prepare, LockSources, StartLedger, OpenLedger, Activate, StopLedger,
     CloseLedger, Finish, Inspect, LockInspection, ReadInspection, Leave, Crash, Die, ledgerVars
<1>3. CASE UnmanagedWrite \/ RivalClaims \/ ExportsMove
  BY <1>3, ElsewhereFrame DEF expVars, ledgerVars
<1>4. CASE \E x \in Exporters : ExportFails(x)
  BY <1>4 DEF ExportFails, ledgerVars
<1> QED BY <1>1, <1>2, <1>3, <1>4 DEF Next, ExportsMove

\* The states of the run command in which run.json is final.
Saved == {"finished", "inspecting", "inspected", "leaving", "dead"}

LEMMA FinalStays ==
    ASSUME ExperimentInv, LocksExclude, CopiesAgree, Next, meta = "final"
    PROVE  /\ meta' = "final" /\ phase' \in Saved /\ UNCHANGED <<verified, records>>
           /\ verified => UNCHANGED artifacts
<1>1. phase \in Saved /\ phase \notin LedgerPhases
  BY DEF CopiesAgree, Saved, LedgerPhases, Start, Stopping
<1>2. records' = records
  BY <1>1, LedgerSettled DEF LocksExclude, ExperimentInv, ExperimentTypeOK
<1>3. CASE Experiment
  BY <1>1, <1>2, <1>3, ProcessAtLedger
  DEF Experiment, savedVars, runVars, ExperimentInv, ExperimentTypeOK
<1>4. CASE RunStep \/ Crash
  BY <1>1, <1>2, <1>4
  DEF RunStep, Prepare, LockSources, StartLedger, Activate, StopLedger, Finish, Inspect,
      LockInspection, ReadInspection, Leave, Crash, Die, Goto, runVars, Saved
<1>5. CASE UnmanagedWrite \/ RivalClaims \/ ExportsMove
  <2>1. UNCHANGED <<phase, meta, verified>>
    BY <1>5, ElsewhereFrame DEF expVars, mainVars, runVars
  <2>2. verified => UNCHANGED artifacts
    BY <1>5 DEF UnmanagedWrite, RivalClaims, ExportsMove, StartManaged, StartOffline, ExportStep,
       ClearRun, LockForExport, ReadLedger, CopyArtifacts, ClaimDestination, Publish, Certify
  <2> QED BY <1>1, <1>2, <2>1, <2>2
<1>6. CASE \E x \in Exporters : ExportFails(x)
  BY <1>1, <1>2, <1>6 DEF ExportFails, mainVars, runVars
<1> QED BY <1>3, <1>4, <1>5, <1>6 DEF Next, ExportsMove

\* The ends of a run: where the main thread is after its last steps.
LEMMA PhaseAfter ==
    ASSUME ExperimentInv, Next, phase \in {"leaving", "dead"}
    PROVE  phase' \in {phase, "dead"}
<1>1. phase \notin LedgerPhases
  BY DEF LedgerPhases, Start, Stopping
<1>2. CASE Experiment
  BY <1>1, <1>2, ProcessAtLedger DEF Experiment, ExperimentInv, ExperimentTypeOK
<1>3. CASE RunStep \/ Crash
  BY <1>3 DEF RunStep, Prepare, LockSources, StartLedger, Activate, StopLedger, Finish, Inspect,
     LockInspection, ReadInspection, Leave, Crash, Die, Goto
<1>4. CASE UnmanagedWrite \/ RivalClaims \/ ExportsMove
  BY <1>4, ElsewhereFrame DEF expVars, mainVars
<1>5. CASE \E x \in Exporters : ExportFails(x)
  BY <1>5 DEF ExportFails, mainVars
<1> QED BY <1>2, <1>3, <1>4, <1>5 DEF Next, ExportsMove

LEMMA DeadIsClosed ==
    ASSUME ExperimentInv, LocksExclude, CopiesAgree, Next, phase' = "dead"
    PROVE  ~opened'
<1>1. CASE Experiment
  <2>1. "dead" \notin LedgerPhases
    BY DEF LedgerPhases, Start, Stopping
  <2>2. phase = "dead" /\ opened' = opened
    BY <1>1, <2>1, ProcessAtLedger DEF Experiment, ExperimentInv, ExperimentTypeOK
  <2> QED BY <2>2 DEF CopiesAgree
<1>2. CASE LockSources
  BY <1>2 DEF LockSources, LocksExclude, LedgerPhases, Start, Stopping, ledgerVars
<1>3. CASE Leave \/ Crash
  BY <1>3 DEF Leave, Crash, Die, Blank
<1>4. CASE RunStep /\ ~LockSources /\ ~Leave
  BY <1>4 DEF RunStep, Prepare, StartLedger, Activate, StopLedger, Finish, Inspect,
     LockInspection, ReadInspection, Goto
<1>5. CASE UnmanagedWrite \/ RivalClaims \/ ExportsMove
  BY <1>5, ElsewhereFrame DEF expVars, mainVars, ledgerVars, CopiesAgree
<1>6. CASE \E x \in Exporters : ExportFails(x)
  BY <1>6 DEF ExportFails, mainVars, ledgerVars, CopiesAgree
<1> QED BY <1>1, <1>2, <1>3, <1>4, <1>5, <1>6 DEF Next, ExportsMove

\* An export moves by its own steps only.
LEMMA OwnSteps ==
    ASSUME FileTypeOK, Next, NEW x \in Exporters, export'[x] # export[x]
    PROVE  StartManaged(x) \/ StartOffline(x) \/ ExportStep(x) \/ ExportFails(x)
<1>1. PICK y \in Exporters :
        StartManaged(y) \/ StartOffline(y) \/ ExportStep(y) \/ ExportFails(y)
  BY DEF Next, RunStep, Prepare, LockSources, StartLedger, Activate, StopLedger, Finish, Inspect,
     LockInspection, ReadInspection, Leave, Crash, UnmanagedWrite, RivalClaims, Experiment,
     savedVars
<1>2. y # x => export'[x] = export[x]
  BY <1>1 DEF StartManaged, StartOffline, ExportStep, ClearRun, LockForExport, ReadLedger,
     CopyArtifacts, ClaimDestination, Publish, Certify, ExportFails, At, Fails, FileTypeOK
<1> QED BY <1>1, <1>2

\* The states of an export that holds a whole copy.
Copied == {"staged", "publishing", "published", "certified"}

LEMMA CopiesKept ==
    ASSUME FileTypeOK, ExperimentInv, LocksExclude, CopiesAgree, Next
    PROVE  CopiesAgree'
<1>1. meta' = "final" => phase' \in Saved
  <2>1. meta' = "final" => meta = "final" \/ phase' = "finished"
    BY DEF Next, RunStep, Prepare, LockSources, StartLedger, Activate, StopLedger, Finish,
       Inspect,
       LockInspection, ReadInspection, Leave, Crash, UnmanagedWrite, RivalClaims, Experiment,
       StartManaged, StartOffline, ExportStep, ClearRun, LockForExport, ReadLedger, CopyArtifacts,
       ClaimDestination, Publish, Certify, ExportFails, savedVars, runVars, Goto
  <2> QED BY <2>1, FinalStays DEF Saved
<1>2. inspection'.whole => inspection'.records = records' /\ phase' \in {"leaving", "dead"}
  <2>1. CASE ReadInspection
    <3>1. inspection'.records = records
      BY <2>1 DEF ReadInspection, Nothing
    <3> QED BY <2>1, <3>1 DEF ReadInspection, Goto, ledgerVars
  <2>2. CASE ~ReadInspection
    <3>1. inspection' = inspection
      BY <2>2 DEF Next, RunStep, Prepare, LockSources, StartLedger, Activate, StopLedger, Finish,
         Inspect, LockInspection, Leave, Crash, UnmanagedWrite, RivalClaims, Experiment,
         StartManaged, StartOffline, ExportStep, ClearRun, LockForExport, ReadLedger,
         CopyArtifacts, ClaimDestination, Publish, Certify, ExportFails, savedVars, runVars
    <3> SUFFICES ASSUME inspection.whole
                 PROVE  records' = records /\ phase' \in {"leaving", "dead"}
      BY <3>1 DEF CopiesAgree
    <3>2. phase \in {"leaving", "dead"} /\ phase \notin LedgerPhases
      BY DEF CopiesAgree, LedgerPhases, Start, Stopping
    <3>3. records' = records
      BY <3>2, LedgerSettled DEF LocksExclude, ExperimentInv, ExperimentTypeOK
    <3>4. phase' \in {phase, "dead"}
      BY <3>2, PhaseAfter
    <3> QED BY <3>2, <3>3, <3>4
  <2> QED BY <2>1, <2>2
<1>3. phase' = "dead" => ~opened'
  BY DeadIsClosed
<1>4. ASSUME NEW x \in Exporters
      PROVE  /\ export'[x].copy.whole <=> export'[x].at \in Copied
             /\ export'[x].kind = "managed" /\ export'[x].at \notin {"idle", "locked"} =>
                  /\ meta' = "final" /\ verified'
                  /\ export'[x].at = "copying" => export'[x].copy.records = records'
                  /\ export'[x].copy.whole => export'[x].copy = Source'
  <2>1. /\ export[x].copy.whole <=> export[x].at \in Copied
        /\ export[x].kind = "managed" /\ export[x].at \notin {"idle", "locked"} =>
             /\ meta = "final" /\ verified
             /\ export[x].at = "copying" => export[x].copy.records = records
             /\ export[x].copy.whole => export[x].copy = Source
    BY DEF CopiesAgree, Copied
  <2>2. CASE export'[x] = export[x]
    BY <2>1, <2>2, FinalStays DEF Source
  <2>3. CASE export'[x] # export[x]
    <3>1. StartManaged(x) \/ StartOffline(x) \/ ExportStep(x) \/ ExportFails(x)
      BY <2>3, OwnSteps
    <3>2. CASE export' = [export EXCEPT ![x] = NoExport]
      <4>1. export'[x] = NoExport
        BY <3>2 DEF FileTypeOK
      <4> QED BY <4>1 DEF NoExport, Nothing, Copied
    <3>3. CASE StartManaged(x) \/ StartOffline(x)
      <4>1. /\ export[x].at = "idle" /\ export'[x].copy = export[x].copy
            /\ export'[x].kind = "managed" => export'[x].at = "locked"
            /\ export'[x].at \in {"locked", "reading"}
        BY <3>3 DEF StartManaged, StartOffline, FileTypeOK
      <4>2. export'[x].kind # "managed" \/ export'[x].at = "locked"
        BY <4>1
      <4> QED BY <2>1, <4>1, <4>2 DEF Copied
    <3>4. CASE ClearRun(x) /\ ~Fails(x)
      <4>1. /\ meta = "final" /\ verified /\ export[x].at = "locked" /\ export'[x].at = "cleared"
            /\ export'[x].copy = export[x].copy
        BY <3>4 DEF ClearRun, At, FileTypeOK
      <4>2. ~export'[x].copy.whole
        BY <2>1, <4>1 DEF Copied
      <4> QED BY <4>1, <4>2, FinalStays DEF Copied
    <3>5. CASE LockForExport(x) /\ ~Fails(x)
      <4>1. /\ export[x].at = "cleared" /\ export'[x].at = "reading"
            /\ export'[x].copy = export[x].copy /\ export'[x].kind = export[x].kind
        BY <3>5 DEF LockForExport, At, FileTypeOK
      <4>2. ~export'[x].copy.whole
        BY <2>1, <4>1 DEF Copied
      <4> QED BY <2>1, <4>1, <4>2, FinalStays DEF Copied
    <3>6. CASE ReadLedger(x) /\ ~Fails(x)
      <4>1. /\ export[x].at = "reading" /\ export'[x].at = "copying"
            /\ export'[x].copy.records = records /\ export'[x].copy.whole = export[x].copy.whole
            /\ export'[x].kind = export[x].kind
        <5> DEFINE new == [export[x] EXCEPT !.at = "copying", !.copy.records = records]
        <5>1. export[x].at = "reading" /\ export' = [export EXCEPT ![x] = new]
          BY <3>6, Zenon DEF ReadLedger
        <5>2. export'[x] = new /\ export[x] \in AnExport
          BY <5>1 DEF FileTypeOK, AnExport
        <5>3. /\ new.kind = export[x].kind /\ new.at = "copying"
              /\ new.copy.records = records /\ new.copy.whole = export[x].copy.whole
          BY <5>2 DEF AnExport, Copies
        <5> HIDE DEF new
        <5> QED BY <5>1, <5>2, <5>3
      <4>2. ~export'[x].copy.whole
        BY <2>1, <4>1 DEF Copied
      <4> QED BY <2>1, <4>1, <4>2, FinalStays DEF Copied
    <3>7. CASE CopyArtifacts(x)
      <4>1. /\ export[x].at = "copying" /\ export'[x].at = "staged"
            /\ export'[x].kind = export[x].kind
            /\ export'[x].copy = [records |-> export[x].copy.records, artifacts |-> artifacts,
                                  whole |-> TRUE]
        <5> DEFINE new == [export[x] EXCEPT !.at = "staged", !.copy.artifacts = artifacts,
                                            !.copy.whole = TRUE]
        <5>1. export[x].at = "copying" /\ export' = [export EXCEPT ![x] = new]
          BY <3>7, Zenon DEF CopyArtifacts
        <5>2. export'[x] = new /\ export[x] \in AnExport
          BY <5>1 DEF FileTypeOK, AnExport
        <5>3. /\ new.kind = export[x].kind /\ new.at = "staged"
              /\ new.copy = [records |-> export[x].copy.records, artifacts |-> artifacts,
                             whole |-> TRUE]
          BY <5>2 DEF AnExport, Copies
        <5> HIDE DEF new
        <5> QED BY <5>1, <5>2, <5>3
      <4>2. export'[x].copy.whole
        BY <4>1
      <4> QED BY <2>1, <4>1, <4>2, FinalStays DEF Copied, Source
    <3>8. CASE (ClaimDestination(x) \/ Publish(x) \/ Certify(x)) /\ ~Fails(x)
      <4>1. /\ export[x].at \in Copied /\ export'[x].at \in Copied
            /\ export'[x].copy = export[x].copy /\ export'[x].kind = export[x].kind
        BY <3>8 DEF ClaimDestination, Publish, Certify, At, FileTypeOK, Copied
      <4> QED BY <2>1, <4>1, FinalStays DEF Copied, Source
    <3> QED BY <3>1, <3>2, <3>3, <3>4, <3>5, <3>6, <3>7, <3>8 DEF ExportStep, ExportFails, Fails
  <2> QED BY <2>2, <2>3
<1> QED BY <1>1, <1>2, <1>3, <1>4 DEF CopiesAgree, Saved, Copied

LEMMA DestinationKept ==
    ASSUME FileTypeOK, DestinationClaimed, Next
    PROVE  DestinationClaimed'
<1> USE SavedRunsAssumption
<1>1. /\ dest.foreign => dest.by = "rival"
      /\ \A x \in Exporters : export[x].at \in {"publishing", "published", "certified"} => dest.by = x
      /\ dest.marker => /\ dest.by \in Exporters
                        /\ export[dest.by].at = "certified" /\ dest.copy = export[dest.by].copy
  BY DEF DestinationClaimed
<1>2. CASE UNCHANGED <<export, dest>>
  BY <1>2 DEF DestinationClaimed
<1>3. CASE RivalClaims
  <2>1. dest.by = NoOne /\ dest'.by = "rival" /\ dest'.marker = dest.marker /\ export' = export
    BY <1>3 DEF RivalClaims, FileTypeOK
  <2>2. ~dest'.marker
    BY <1>1, <2>1
  <2>3. \A x \in Exporters : export'[x].at \notin {"publishing", "published", "certified"}
    BY <1>1, <2>1
  <2> QED BY <2>1, <2>2, <2>3 DEF DestinationClaimed
<1>4. ASSUME NEW x \in Exporters,
             StartManaged(x) \/ StartOffline(x) \/ ExportStep(x) \/ ExportFails(x)
      PROVE  DestinationClaimed'
  <2>1. \A y \in Exporters \ {x} : export'[y] = export[y]
    BY <1>4 DEF StartManaged, StartOffline, ExportStep, ClearRun, LockForExport, ReadLedger,
       CopyArtifacts, ClaimDestination, Publish, Certify, ExportFails, At, Fails, FileTypeOK
  <2>2. CASE dest' = dest /\ export[x].at # "certified"
             /\ (export'[x].at \in {"publishing", "published", "certified"}
                   => export[x].at \in {"publishing", "published", "certified"})
    BY <1>1, <2>1, <2>2 DEF DestinationClaimed
  <2>3. CASE ClaimDestination(x) /\ ~Fails(x)
    <3>1. /\ dest.by = NoOne /\ dest'.by = x /\ export'[x].at = "publishing"
          /\ dest'.marker = dest.marker /\ dest'.foreign = dest.foreign
      <4>1. /\ dest.by = NoOne /\ At(x, "publishing")
            /\ dest' = [dest EXCEPT !.by = x, !.copy.records = export[x].copy.records]
        BY <2>3 DEF ClaimDestination
      <4> QED BY <4>1 DEF At, FileTypeOK
    <3>2. ~dest'.marker /\ ~dest'.foreign
      BY <1>1, <3>1
    <3>3. \A y \in Exporters \ {x} : export'[y].at \notin {"publishing", "published", "certified"}
      BY <1>1, <2>1, <3>1
    <3> QED BY <3>1, <3>2, <3>3 DEF DestinationClaimed
  <2>4. CASE Publish(x)
    <3>1. /\ export[x].at = "publishing" /\ export'[x].at = "published"
          /\ dest'.by = dest.by /\ dest'.marker = dest.marker /\ dest'.foreign = dest.foreign
      BY <2>4 DEF Publish, At, FileTypeOK
    <3>2. dest.by = x /\ ~dest'.marker
      BY <1>1, <3>1
    <3> QED BY <1>1, <2>1, <3>1, <3>2 DEF DestinationClaimed
  <2>5. CASE Certify(x) /\ ~Fails(x)
    <3>1. /\ export[x].at = "published" /\ export'[x].at = "certified"
          /\ export'[x].copy = export[x].copy /\ dest.copy = export[x].copy /\ dest'.copy = dest.copy
          /\ dest'.by = x /\ dest.by = x /\ dest'.foreign = dest.foreign
      BY <2>5 DEF Certify, At, FileTypeOK
    <3> QED BY <1>1, <2>1, <3>1 DEF DestinationClaimed
  <2>6. CASE ~ClaimDestination(x) /\ ~Publish(x) /\ ~Certify(x)
    <3>1. dest' = dest /\ export[x].at # "certified"
      BY <1>4, <2>6 DEF StartManaged, StartOffline, ExportStep, ClearRun, LockForExport,
         ReadLedger,
         CopyArtifacts, ExportFails
    <3>2. export'[x].at \notin {"publishing", "published", "certified"}
      BY <1>4, <2>6 DEF StartManaged, StartOffline, ExportStep, ClearRun, LockForExport,
         ReadLedger,
         CopyArtifacts, ExportFails, At, Fails, NoExport, FileTypeOK
    <3> QED BY <2>2, <3>1, <3>2
  <2>7. CASE (ClaimDestination(x) \/ Certify(x)) /\ Fails(x) /\ dest' = dest
    <3>1. export[x].at # "certified" /\ export'[x].at = "idle"
      BY <2>7 DEF ClaimDestination, Certify, Fails, NoExport, FileTypeOK
    <3> QED BY <2>2, <2>7, <3>1
  <2>8. (ClaimDestination(x) \/ Certify(x)) /\ Fails(x) => dest' = dest
    <3>1. ASSUME Fails(x), At(x, "publishing") \/ At(x, "certified") PROVE FALSE
      BY <3>1 DEF Fails, At, NoExport, FileTypeOK
    <3> QED BY <3>1 DEF ClaimDestination, Certify
  <2> QED BY <2>3, <2>4, <2>5, <2>6, <2>7, <2>8
<1>5. CASE RunStep \/ Crash \/ UnmanagedWrite \/ Experiment
  BY <1>2, <1>5 DEF RunStep, Prepare, LockSources, StartLedger, Activate, StopLedger, Finish,
     Inspect, LockInspection, ReadInspection, Leave, Crash, UnmanagedWrite, Experiment, savedVars
<1> QED BY <1>3, <1>4, <1>5 DEF Next

-----------------------------------------------------------------------------
(* The theorems *)

LEMMA SavedRunsStart == Init => SavedRunsInv
<1> SUFFICES ASSUME Init PROVE SavedRunsInv
  OBVIOUS
<1> USE SavedRunsAssumption DEF Init, NoExport, Nothing
<1>1. ExperimentInv
  BY ExperimentStarts
<1>2. /\ phase = "idle" /\ opened = FALSE /\ records = [events |-> <<>>, others |-> 0]
      /\ <<>> \in Seq(Rows)
  BY EmptySeq DEF ExperimentInit
<1>3. Nothing \in Copies
  BY <1>2 DEF Copies
<1>4. FileTypeOK
  BY <1>3 DEF FileTypeOK, ExportStates
<1>5. LocksExclude /\ CopiesAgree /\ DestinationClaimed
  BY <1>2 DEF LocksExclude, CopiesAgree, DestinationClaimed
<1> QED BY <1>1, <1>4, <1>5 DEF SavedRunsInv

LEMMA SavedRunsStep == SavedRunsInv /\ [Next]_vars => SavedRunsInv'
<1> SUFFICES ASSUME SavedRunsInv, [Next]_vars PROVE SavedRunsInv'
  OBVIOUS
<1> USE DEF SavedRunsInv
<1>1. CASE Next
  <2>1. ExperimentInv'
    BY <1>1, ProcessKept
  <2>2. FileTypeOK'
    BY <1>1, FileTypes DEF ExperimentInv, ExperimentTypeOK
  <2>3. LocksExclude' /\ CopiesAgree' /\ DestinationClaimed'
    BY <1>1, LocksKept, CopiesKept, DestinationKept
  <2> QED BY <2>1, <2>2, <2>3
<1>2. CASE UNCHANGED vars
  <2>1. UNCHANGED <<mainVars, threadVars, ledgerVars, faults, phase, meta, records, opened>>
        /\ UNCHANGED <<savedVars, runVars>>
    BY <1>2 DEF vars, expVars, threadVars, savedVars, mainVars, runVars, ledgerVars
  <2>2. ExperimentInv'
    <3>1. faults' \in Nat
      BY <2>1 DEF ExperimentInv, ExperimentTypeOK, MainTypeOK
    <3> QED BY <2>1, <3>1, ProcessStutters
  <2>3. FileTypeOK' /\ LocksExclude' /\ CopiesAgree' /\ DestinationClaimed'
    <3> USE <2>1 DEF savedVars, runVars
    <3>1. FileTypeOK'
      BY DEF FileTypeOK
    <3>2. LocksExclude' /\ DestinationClaimed'
      BY DEF LocksExclude, DestinationClaimed
    <3>3. CopiesAgree'
      <4>1. /\ meta' = "final" => phase' \in {"finished", "inspecting", "inspected", "leaving", "dead"}
            /\ inspection'.whole => inspection'.records = records' /\ phase' \in {"leaving", "dead"}
        BY DEF CopiesAgree
      <4>2. phase' = "dead" => ~opened'
        BY DEF CopiesAgree
      <4>3. Source' = Source /\ UNCHANGED <<export, meta, verified, records>>
        BY DEF Source
      <4> QED BY <4>1, <4>2, <4>3 DEF CopiesAgree
    <3> QED BY <3>1, <3>2, <3>3
  <2> QED BY <2>2, <2>3
<1> QED BY <1>1, <1>2

\* The inductive invariant of the process, its files and the exports of it.
THEOREM Invariance == Spec => []SavedRunsInv
  BY SavedRunsStart, SavedRunsStep, PTL DEF Spec

\* Every variable keeps its type, whatever crashes, fails or is tried again.
THEOREM TypeCorrect == Spec => []TypeOK
<1>1. SavedRunsInv => TypeOK
  BY DEF SavedRunsInv, ExperimentInv, TypeOK
<1> QED BY <1>1, Invariance, PTL

\* experiment.stop tears the substrate down under nobody, and a run that reports
\* that its writers have stopped has nothing left that writes, acts or accepts,
\* for any number of samplers that are late, failures and repeated stops.
THEOREM StopsQuietly == Spec => []StopIsQuiet
<1>1. SavedRunsInv => StopIsQuiet
  BY DEF SavedRunsInv, ExperimentInv, LayersJoined, StopIsQuiet, QuietTeardown, SamplersLeft
<1> QED BY <1>1, Invariance, PTL

\* What the ledger of a living run has recorded is what its agents have been given
\* and will be given, in the same order.
THEOREM LedgerAgrees == Spec => []LedgerMatchesBus
<1>1. SavedRunsInv => LedgerMatchesBus
  BY DEF SavedRunsInv, ExperimentInv
<1> QED BY <1>1, Invariance, PTL

\* Intents are recorded once and in the order of their numbers, and the control
\* socket has told no client otherwise.
THEOREM IntentsRecordedOnce == Spec => []IntentsExactlyOnce
<1>1. SavedRunsInv => IntentsExactlyOnce
  BY DEF SavedRunsInv, ExperimentInv
<1> QED BY <1>1, Invariance, PTL

\* A certified export of a managed run, and the inspection, have read all there
\* will ever be: no writer of the run is left that could add to it.
THEOREM EvidenceComplete == Spec => []EvidenceIsComplete
<1>1. SavedRunsInv => EvidenceIsComplete
  BY DEF SavedRunsInv, CopiesAgree, DestinationClaimed, EvidenceIsComplete
<1> QED BY <1>1, Invariance, PTL

\* The completion marker stands on a tree that one export has published whole,
\* into which no other export has written.
THEOREM MarkersAreWhole == Spec => []MarkerIsWhole
<1>1. SavedRunsInv => MarkerIsWhole
  BY SavedRunsAssumption DEF SavedRunsInv, CopiesAgree, DestinationClaimed, MarkerIsWhole
<1> QED BY <1>1, Invariance, PTL

\* The ledger does not change while an export or the inspection has its sources
\* locked, also when the run has crashed.
THEOREM ReadersSeeOneLedger == Spec => StableWhileRead
<1>1. SavedRunsInv /\ [Next]_vars => [owner # NoOne => records' = records]_vars
  <2> SUFFICES ASSUME SavedRunsInv, Next, owner # NoOne PROVE records' = records
    OBVIOUS
  <2>1. ~opened
    BY DEF SavedRunsInv, LocksExclude
  <2> QED BY <2>1, LedgerSettled DEF SavedRunsInv, ExperimentInv, ExperimentTypeOK
<1> QED BY <1>1, Invariance, PTL DEF Spec, StableWhileRead

=============================================================================

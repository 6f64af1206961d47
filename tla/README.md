# A verification of mininet-ai

mininet-ai runs networking experiments in which *agents* (language models, services, scripted
policies) observe an emulated network, propose actions on it and keep shared operational state.
The specification of an experiment is YAML; a compiler turns it into a plan; an experiment
runtime deploys the network, starts the agents and reacts to events until it is stopped.

This directory holds TLA+ modules of the parts of that program where several threads meet,
TLC configurations that check them on small instances, and theorems that TLAPS checks for every
value of the constants. File names of the form `coordination/admission.py` are relative to
`mininet_ai/` in the repository, `docs/...` to its root.

## 1. Inventory

### Where the difficulty is

The program is multi-threaded throughout. Events come from interval threads, telemetry threads,
the control socket and the embedding program. One dispatcher thread distributes them; one worker
thread per agent hands each item to a request thread; each request may delegate to other agents,
and every delegation is *prepared* (the model reasons) in a thread of its own, after which all the
prepared decisions of all requests meet in one admission object. No lock is held during reasoning,
validation or the execution of an action, and many methods check a state, release the lock and
act afterwards. Stops may time out and be repeated.

It is also a program of several processes. A `run` process owns the network, `stop` and `status`
processes talk to it through two records on disk, a signal and a lock, intents come in over a
socket, and `export` processes read what a run has written. Any of them may die between two steps.
Nobody waits for a lock: locks are tried, and the kernel frees those of a process that dies.

### Components

| Component | State | Operations | Meets | What makes it correct |
|---|---|---|---|---|
| Conflict arbitration (`coordination/arbitration.py`) | none | effects of an action, conflict relation, actions kept inside one response | admission, commitment | under `reject` the kept actions are pairwise compatible and no action is dropped for a dropped one |
| Action admission (`coordination/admission.py`) | waiting and committing reservations, pending and active candidates, history per request, one condition variable | `decision()`, `admit()` | every coordinated invocation of the experiment | effects that conflict are never active together; decisions are isolated; nobody starves; verdicts stand |
| Shared state (`runtime/state.py`) | versioned entries, tombstones | snapshot, compare-and-set batch | agents, reconciliation | no lost update, versions are never reused, limits hold |
| One-shot agent runtime (`agents/runtime.py`) | one invocation's snapshot, results | prepare, validate, execute, reject, complete | store, capability engine, audit | nothing happens on the strength of a stale view |
| Coordination runtime (`coordination/routing.py`, `contracts.py`) | invocation budget, leases, sessions, active requests | coordinate, reserve, commit, close | admission, one-shot runtime, channel | budgets hold, requests end, commitment is atomic |
| Coordination graph, message channel (`coordination/graph.py`, `channel.py`) | queue of messages shared by all requests | authorize, enqueue, dequeue | compiler, coordination runtime | only declared delegations, bounded hops and messages, no cyclic hierarchy |
| Agent supervision (`runtime/supervision.py`) | lifecycle state and failure count per agent | execute, pause, resume, resume_paused, stop | workers, request threads, callers | restart budget, one restart at a time, no resurrection |
| Continuous runtime (`runtime/continuous.py`) | lifecycle, queues, slots, leases, fates of items | start, publish, dispatch, process, pause, resume, stop | all of the above | nothing accepted is lost or left behind, budgets hold, a stop ends |
| Event bus (`runtime/events.py`) | bounded queue, closed flag | publish, receive, close | producers, dispatcher | no event after close, none lost |
| Bounded decisions (`agents/bounded.py`, `bounded_contracts.py`, `reconciliation.py`) | decision authority: deadline, revocation, started actions | inspect, run, recheck, authorize, revoke, record results | continuous runtime, capability engine, substrate | no action without authority, bundles in order, a retry starts only what is known to be missing, a reported recovery is in place |
| Capability engine (`capabilities/engine.py`, `verification.py`) | none between calls | admit, execute, verify, roll back | substrate providers | what is reported of an action is true of the network |
| Capability providers (`capabilities/adapters.py`) | none | argument conversion | engine, substrate | |
| Experiment runtime (`experiment.py`, `outcomes.py`) | lifecycle, owned runtimes | start, stop, submit_intent | everything | cleanup after a failed start, a repeated stop finishes the first one, no layer is removed from under another |
| Intent control (`runtime/control.py`) | socket, connections | serve, submit | experiment runtime, other processes | an accepted intent is recorded once and reported as accepted |
| Telemetry pipeline (`runtime/telemetry.py`) | detector state, sequence numbers | sample, detect, publish | substrate, continuous runtime | each breach is reported once, nothing is sampled after the stop |
| Run ledger, audit (`runtime/ledger.py`, `audit/*`) | records of a run | append, close | every component | it tells the history the agents lived through |
| Saved runs, exports (`saved_runs.py`, `exports.py`, `evidence_reader.py`, ...) | lock files, `run.json`, destination | reserve, finish, inspect, export | ledger, other processes | no export of a run that is still written, no half export that looks whole |
| Mininet/OVS runtime (`substrates/mininet_ovs/runtime.py`, `state.py`) | deployed network, active and stopped record, lock | deploy, teardown, request_stop, status, recover | experiment runtime, command line, operating system | no network without a record, recovery after a crash, nobody deletes another run's network |
| Mininet/OVS providers (`actions.py`, `observations.py`, `driver.py`) | none | shell and OpenFlow commands | operating system | |
| Fake substrate (`substrates/fake*.py`, registries) | in-memory network | as above | tests | |
| Compiler, specification (`compiler/*`, `specification/*`) | the plan under construction | load, validate, compile | command line, coordination graph | a plan is consistent, a refusal is justified |
| Agent providers (`agents/agno`, `models`, `transports`) | sessions | invoke | external services | |
| Command line (`cli.py`) | signal latch | run, stop, status, export | all runtimes | a signal ends a run in order, a call ends |
| SDK, plugins | registries | register | users | |

`PROJECT.json` lists the same components with their status, and under `hazards` the places in the
code where they may go wrong in a way a test would hardly reach, each with its line and the
properties that watch it.

## 2. Plan

Modules in the order of their importance; all are in place.

1. **ConflictArbitration** and **ActionAdmission**: where all decisions of an experiment meet.
2. **SharedStateStore**: versions and compare-and-set.
3. **AtomicDecisions** (abstract) and **CoordinatedCommit**, which composes 1 and 2 with the
   one-shot runtime and is shown to implement it.
4. **AgentSupervisor**: the restart policy.
5. **ContinuousRuntime**, which composes 4 with queues, slots, leases and the stop protocol.
6. **BoundedRecovery**: the authority of a bounded decision against the start of its actions, the
   inspection and reconciliation of a partial bundle, and the capability engine's execution,
   verification and rollback of its steps.
7. **RunOwnership**: the processes around one network, with crashes anywhere.
8. **ExperimentRuntime**: one `run` process, its layers, threads and ledger; **SavedRuns** extends
   it with the evidence directory, its locks and the exports.
9. **PlanCompiler**: documents, plan, coordination graph; **MessageRouting** extends it with the
   requests that run over that graph.

What could follow: detectors and numbering of the telemetry pipeline; the content of audit records;
the observations of the Mininet provider.

Theorems, in the order of what they say about the system; all are in place (section 6).

1. Admission and the store, alone: isolation, verdicts, wake-ups; versions and updates.
2. The supervisor alone: restart budget and ownership of restarts.
3. Bounded recovery: order, truth of reports, finality of a revocation.
4. Ownership of the network across processes that die.
5. One run with its ledger, and the evidence it leaves.
6. Coordinated commitment: it uses 1 as specified, and implements AtomicDecisions.
7. The continuous runtime: it uses 2 as specified, and keeps its limits, its items and its stop.
8. The compiler's and the run's check of one hierarchy, and requests over the coordination graph:
   budgets, and what becomes of every message.
9. The compiler alone: a plan it accepts is consistent, and a subnet it calls exhausted is full.

Every module that is to be proved about is free of RECURSIVE operators.

Runs are kept few and each asks a question of its own; the instances of later modules replace
configurations whose questions they subsume.

## 3. The modules and the code

### ConflictArbitration, ActionAdmission

A proposed action is reduced to its target and its effects. `EffectsOf` is the classification of
`arbitration.py` (observations have none, trusted mutations have those they declare, all else may
change anything: `AnyEffect`), `Conflicts` its conflict relation. `Keeps` characterises the loop of
`arbitrate()` instead of repeating it: a position is kept exactly when no earlier kept position
conflicts with it.

ActionAdmission has one thread per prepared invocation. The variables `waiting`, `committing`,
`pending`, `active` are the fields `_waiting`, `_committing`, `_pending`, `_active`; `history` is
the per-request admitted list that `routing.py` passes in; `awake` is the set of threads that a
`notify_all` has released and that have not looked at their predicate again, which makes lost and
spurious wake-ups visible.

| Action | Code |
|---|---|
| `Decide` | the entry of `decision()` up to its wait, the rejection before waiting included |
| `Wake` | one evaluation of the predicate of either `wait_for` |
| `Admit` | `admit()` up to its wait |
| `Finish`, `Leave` | the `finally` blocks of `admit()` and `decision()` |
| `Skip` | a candidate that `routing.py` never passes to `admit()` |

Leave may happen with actions left to do: an exception ends the block early.

### SharedStateStore

Both adapters (in memory, SQLite) apply a batch as one step, so one module stands for both. A row
keeps its version when it is deleted. What a value is does not matter to the store; the model gives
every write a number, so that "the same version" and "the same write" can be told apart. The
batches of the model expect the versions of the snapshot their author took; an expected version
that differs from it occurs in the code only when a response is malformed, and is then refused by
validation (in CoordinatedCommit: `fit = FALSE`).

### AtomicDecisions, CoordinatedCommit

CoordinatedCommit is the path of one coordinated invocation through `_commit_prepared` and
`_finish_prepared`. It INSTANCEs the store and the admission object over its own variables, so that
their actions are used as they are, and adds the response, the result of each proposal, the kept
order and the outcome. Every access to the store or to admission is a step of its own. `fit` is the
verdict of the capability engine, which may change from the first validation to the second because
the network does. `Raise` stands for any exception of the calls in between (the audit journal, a
capability). The second check of `complete()` and the store's own comparison are separate steps
(`Complete`, `Publish`), as in the code.

The decisions that reach admission are computed from the responses (`Decisions`), so that what
ActionAdmission assumes of a decision has to be shown of arbitration here, and is (section 6).
`CommitAssumption` types the constants; the one clause that is more than a type is that a response
updates a key at most once, which the validation of a response ensures before the store sees it.

Left out: session memory, audit records, the authority of bounded decisions (BoundedRecovery has
it), and an audit journal that fails *after* the store has accepted the batch.

AtomicDecisions is what ADR 0008 promises, with the protocol taken away: an action starts, and
updates are published, only while everything the decision depends on is as its agent saw it.

### AgentSupervisor

`execute()` split at every release of the condition's lock: entering, blocked, passed (the lock is
released, the invocation has not begun), invoking, failing or raising, backoff. `resume_paused`
lists and then resumes one agent at a time, and raises when one of them is not paused any more. A
tolerant job is one whose failed result `continuous.py` does not treat as a failure of the agent
(a tick of a bounded decision). `start()` is collapsed into `Init`. Restarts are counted while they
follow each other without a success, as in the code.

### ContinuousRuntime

An item is an event together with the position of the trigger it matched: `_matches` makes one
item per trigger, and two triggers may lead to the same agent when a coordination graph maps both
to one entry agent (`Executor`). A cooldown may keep an event from some of its triggers
(`Filtered`, `Matches`). `ContinuousAssumption` types the constants; besides, agents and events are
finitely many and an agent is not an item, since both hold leases. The threads are: producers (`CheckedIn`, `Put`), the
dispatcher (`Receive`, `Enqueue`, `EndDispatch`), a worker per agent (`Look`, `Unpark`,
`AwaitAgent`, `TakeSlot`, `Reserve`, `Submit`, `Handle`), a request thread per item (the
supervisor's steps, `StartRoot`, `EndRoot`, `StartDelegate`, `EndDelegate`, `Return`, `Settle`,
`EndRequest`), callers (`CheckControl`, `Control`) and the thread in `stop()`. The supervisor is
AgentSupervisor, instantiated over the same variables with items as jobs. `leases` are the
invocations the coordinator counts, `freeSlots` is `_request_slots`.

Abstractions: a cooldown is a free choice for the events in `Filtered`; a request delegates at most
once and one level deep; the message channel has room; the generic worker for invokers without
an invocation budget is not modelled; `start()` is `Init`.

### BoundedRecovery

The decisions of one agent that may install a recovery bundle, one after the other: each inspects
the rules, asks the model, rechecks the evidence, executes the missing steps in order and inspects
once more. Beside them run the clock, callers of `cancel_bounded_decision()`, and whoever else
changes a rule. `rules` is what the switches hold for each step, `seen` the states the last
inspection read, `results` the results of the steps, `revocation` the field `_revocation` of the
authority of each decision, `registered` the entry in `_active_authorities`, `held` the authority
that a cancelling thread has fetched before it revokes. `touched` belongs to the properties: the
rules somebody else has changed since the last inspection began.

| Action | Code |
|---|---|
| `Prepare` | `prepare()` up to `provider.run`: deadline from the scheduled tick, authority bound and registered |
| `InspectSwitch`, `InspectNothing` | `inspect_scenario_actions`, one dump per switch, and every way it fails |
| `Answer`, `NoAnswer` | `run()` after the request: late answers, `no_action`, refusals by reconciliation, failures of the service |
| `Recheck` | the evidence is read again; the first validation of `_commit_prepared` |
| `Stop`, `Lose`, `Start` | the loop of `_finish_prepared`: halted, rejected by validation or admission, `execute_if_authorized` |
| `Install`, `InstallFails` | `CapabilityEngine.execute` with `_install_flow`; a command that fails may have had its effect |
| `Verify`, `VerifyFails`, `Rollback` | `_verify_effect`, `_postcondition_failure`, `_rollback` with the removal it leads to |
| `Complete`, `Conclude` | `record_action_results` with its inspection, the status of the result |
| `Abort` | an audit journal that raises: no further step, the authority stays registered |
| `FetchAuthority`, `Cancel` | `cancel_bounded_decision`, which releases its lock before it revokes |

Abstractions: a rule is there, missing or wrong (another rule with its identity, or several); a
postcondition observes what its step's rule brings about; `Covers` says which rules a removal by
match takes away, since the removal is not strict; `Timed` are the steps with a timeout, whose
inverse `_remove_flow` refuses because `adapters.py` passes `idleTimeout` and `hardTimeout` on, so
that their rollback always fails. Two steps of a bundle do not conflict with each other here; when
they do, CoordinatedCommit and the finding BundleStops apply. A step that the substrate rejects for
its parameters does not occur: the inspection parses the same parameters first and would have
failed.

### RunOwnership

A `run` process (an owner, which stands for its run too) deploys, records, tears down and leaves;
`stop` and `status` processes (callers) look at the records, try the lock, signal the owner, poll,
and recover the run when its owner is dead. `record` and `stopped` are the two JSON files, `lock`
the `flock` that is tried and never awaited, `network` the runs of which bridges and interfaces
exist, `asked` the owners whose signal latch is set. `op` are the threads inside `execute()`,
which compares the host processes before and after an action and then writes the groups.

| Action | Code |
|---|---|
| `Claim`, `RecordClaim`, `Build`, `Start`, `DeployFails`, `SettleFailedDeploy` | `deploy()` and what it leaves when it fails |
| `StartProcess`, `StopProcess`, `CompareProcesses`, `RecordProcesses` | `execute()` around a host process |
| `Interrupt`, `BeginTeardown`, `LeaveUndone`, `TearDown`, `RecordStopped`, `ClearRecord`, `Release`, `Exit` | the signal latch, `teardown()` step by step, the end of the run command |
| `Look`, `Probe`, `EndProbe`, `Signal`, `Poll`, `TimeOut` | `request_stop()` and `status()` |
| `Recover`, `Repeat`, `KillGroups`, `DeleteNetwork`, `RecoveryFails`, `SaveStopped`, `ForgetRun`, `ReleaseRecovery` | `_recover_persisted()` and `_recovery()` |
| `Dies`, `Crash`, `CallerDies` | a process killed at any of these points; the kernel frees its lock |

Networks carry the names of the plan, not of the run, so `DeleteNetwork` and `TearDown` remove
whatever network there is: that they hit the right one is a property (DeletesOwnNetwork), not a
guard. Building and removing a network are one step each, with a partial result when they fail.

### ExperimentRuntime, SavedRuns

ExperimentRuntime is the inside of one `run` process. Its main thread opens the ledger, deploys,
starts continuous and telemetry runtime, opens the control socket and stops all that again, layer
by layer; `phase` is where it is, `undo` says that it undoes a failed start, `late` which layers
did not stop in time. A layer is "none" until it is built; both are built before the first is started
("created"). A start may fail before that, or between two threads of a layer (`ContinuousFails`,
`TelemetryFails`): the thread that could not be started ("unstarted") can never be joined, and a stop
gives its layer up. Closing the agents may fail while the substrate is torn down all the same. Beside it run samplers, clients with the server thread that serves them one
at a time, and one agent worker. An append to the ledger is a transaction of a thread (`writer`,
`rows`), which commits or rolls back.

| Action | Code |
|---|---|
| `OpenLedger`, `Deploy`, `BeginRecord`, `Recorded`, `StartContinuous`, `StartTelemetry`, `StartFails`, `OpenIntake`, `CloseIntake`, `JoinServer` | `start()` and the run command around it |
| `BeginStop`, `HaltTelemetry`, `JoinSamplers`, `CloseBus`, `JoinWorker`, `Teardown`, `Settle`, `Retry`, `InterruptStop`, `CloseLedger`, `Die` | `stop()` and its reports, a Ctrl-C in it, the death of the process |
| `Observe`, `Observed`, `PublishSample`, `SampleWritten`, `SampleRefused`, `SamplerEnds` | a sampling thread |
| `Submit`, `Serve`, `PublishIntent`, `IntentWritten`, `IntentRefused`, `Answer` | an intent through `control.py`, `submit_intent()` and the bus |
| `Take`, `Audit`, `Audited`, `WorkerEnds` | dispatcher and worker |

Abstractions: holding the bus's condition and the ledger's lock while an event is written is one
critical section; dispatcher and worker are one thread, since ContinuousRuntime has them apart;
records that are not events are counted; `Serve` accepts, reads and numbers in one step; the
client's time-out is the lost answer of `Answer`; after its death a process's memory is blanked.
`exp` may be "failed" after a clean stop, when work failed before.

SavedRuns puts the rest of the run command around it (`Prepare`, `LockSources`, `StartLedger`,
`Activate`, `StopLedger`, `Finish`, the inspection `Inspect` to `ReadInspection`, `Leave`, `Crash`)
and adds `export` processes (`StartManaged`, `StartOffline`, `ClearRun`, `LockForExport`,
`ReadLedger`, `CopyArtifacts`, `ClaimDestination`, `Publish`, `Certify`, `ExportFails`), an
unmanaged writer of artifacts and a rival at the destination. There are several lock files; the
directory's is one lock of the model and the sources', always taken together and in one order, the
other. What an export may believe about writers it cannot see is `meta`, the file `run.json`.
`verified` is false for runs whose writers were not all known to have stopped.

### PlanCompiler, MessageRouting

PlanCompiler is `compile_experiment()` as a sequence of stages over one of `Documents`, a step per
loop iteration where the order of the loop matters, then `CoordinationGraph`'s validation of the
result when the run starts. Names are tuples of one or two numbers, so that a generated name can
collide with a given one; addresses are offsets in the subnet, and `Hash` is the hash of a switch's
name, which may be the same for all of them. A free number or datapath id is the least element of
what the search passes over (`FirstFree`, and `FreeFrom`, which wraps at `MaxDpid`): the search is
within one step, so what it returns is all that shows. `DocumentsAssumption` holds what the
specification's own validators have ensured, and that there are at least as many datapath ids as
resources, which 2^64 - 1 grants.

| Action | Code |
|---|---|
| `CheckResources`, `DeclareAdapter`, `EndResource`, `ResolveLink`, `LinksResolved` | `_validate_resource_graph`, `_declare_adapters`, `_resolve_links` with the adapters it creates |
| `ReserveFixed`, `AllocateAddress`, `ReserveMacs`, `AllocateMac` | `_allocate_addresses` |
| `ReserveDpids`, `AllocateDpid` | `_allocate_switch_dpids` |
| `CompileInstances`, `Coordinate` | `_compile_instances`, `_coordination` |
| `BuildGraph`, `Visit`, `EndVisit` | `CoordinationGraph` |

Driver validation and most checks of bounded decisions are flags of a deployment (`attachable`,
`bounded`); where an agent that takes bounded decisions may be placed depends on whether its inputs
are current measurements only (`currentOnly`, `BoundedFits`). Plan snapshot and digest are left out.

MessageRouting runs requests over the graph of the plan that came out. `status` is where the thread
of each request is in `coordinate()`, `messages` what it sent and what became of each, `channel`
the one bounded channel all requests share, `leases` the invocations that hold budget.

| Action | Code |
|---|---|
| `Ask`, `Reserve`, `Open`, `SendRoot`, `Enter` | `coordinate()` up to its loop, `reserve_invocation`, the session |
| `Take`, `Return`, `Wait`, `Collect`, `Resume`, `Delegate` | the loop: take what has budget, submit, collect results, send delegations |
| `Answer` | an invocation ends and gives its budget back |
| `Close`, `EndClose` | `close()` |

The targets an agent proposes are chosen when its result is collected; how many it may propose in a
run is the bound `load.proposals` of the document. After a submit that raised, the request has left
its loop, its messages stay in the channel, and its running invocations go on, as in the code; the
work item that a failed thread start leaves in the executor is not modelled. What an invocation
does inside is CoordinatedCommit. A request takes the first message of the channel that is its own and has
budget (`Receive`), so that its own order is kept while other requests' messages are passed over.

## 4. What the runs show

| Run | Instance | Shows |
|---|---|---|
| AdmissionReject | 3 invocations of 2 requests, 6 decisions, `reject` | no verdict given before the wait is overturned after it; a request never executes conflicting actions; no lost wake-up |
| AdmissionPriority | the same with a decision that conflicts with itself, `priority` | conflicting effects are never active together; reservations are isolated; waiting decisions never wait for one another in a circle; no starvation |
| SharedState | 2 clients, 3 keys, a limit of 1 in each of 2 namespaces, 6 batches | versions identify writes through deletion and re-creation; no lost update |
| CommitReject | 2 invocations, 5 responses, exceptions anywhere | the protocol implements AtomicDecisions; the store's comparison never fails for a version; every invocation ends and releases its keys |
| BundleReject | the same | **a violation**, see section 7 |
| Supervisor | 3 jobs of one agent with 2 restarts, 1 of a second agent without | restarts are owned by one job and within the budget; a failed agent stays failed |
| ContinuousTicks | 2 ticks, 1 link event for both agents, queues of 1, 2 invocations at once | after a stop everything is at rest; one bounded tick at a time |
| ContinuousStop | 2 link events, one with a delegate, reordered, coalesced, filtered, a pausable agent, 1 invocation at a time | queues, slots and budgets keep their limits; a draining stop loses nothing it accepted; a stop that is repeated after time-outs ends, though root and delegate share a budget of one |
| Recovery | 2 decisions, 3 steps on 2 switches, 2 with postconditions, 1 of them reversible | bundles go in order; reports and recoveries are true of the network; a revoked decision starts nothing |
| Ownership | 2 runs of one plan, 2 callers, 1 host process, 1 crash or failing call | no network without its record; what is called stopped is gone; nobody deletes another run's network; every call ends |
| SavedRuns | 1 sampler, 2 clients, 1 worker, 2 exports, a bus of 2, 1 crash or failure, 1 retried stop | stops are quiet, never stuck, and give a layer up only while it runs, so that a second stop finishes; ledger and bus tell the same history; intents are recorded once and in order; certified exports are complete and whole; nothing is written under a reader |
| Delegation | about 1370 documents; 5 of them with 1 or 2 requests, budgets and channels of 1 to 3, 1 failing submit, close at any time | plans are consistent; a subnet reported full is full; the graph refuses just the cyclic hierarchies; requests account for all their messages, and end |

### Bounds

* Admission: three threads are the least that let one pass another behind a third, and let a
  conflict chain or a circle form; two of them share a request, since histories are per request. One key and
  two switches are enough to have state conflicts without network conflicts and the other way
  around; the decisions include read-only, state-only, wildcard and self-conflicting ones and one
  whose every action failed validation. Under `serialize` the order is that of arrival; two of the
  three agents of AdmissionPriority rank alike and are ordered just so.
* Store: `MaxVersion = 4` lets a key be created, deleted, created and deleted.
* Commit: two invocations make every pair of steps interleave; three are covered by admission. The
  versions of the instance never reach `MaxVersion`, since each invocation publishes at most once.
* Supervisor: three jobs can fail together against a budget of two.
* Continuous: queues of one, and one or two slots, so that every limit is reached; two events of one
  source for reordering and coalescing; two agents because budgets, delegation and drops relate two
  of them. Events are published at most once, which is the bound on the run's length; the stop may
  time out and be called again any number of times.
* Recovery: two decisions, so that one may leave a partial bundle to the other, or an authority
  that a cancelling thread still holds; three steps, so that one can be before and one after the
  step that fails; the first and the third on one switch, so that a dump of it is older than that
  of the other. The deadline of two ticks can pass in any phase. One outside change and one
  cancellation at any moment are enough to make any one reading stale.
* Ownership: two runs, so that a caller's view of the first is old when the second is deployed; two
  callers, so that both find the owner dead. One crash is what the code promises to recover from;
  the theorems of section 6 lift that bound.
* SavedRuns: two clients for the order of numbers, two exports for one destination; one sampler and
  one worker, because samplers do not meet except at the ledger. `MaxSamples`, `MaxArtifacts`,
  `MaxRetries`, `MaxFaults` are one: one event of each kind, at any moment. The two initial states
  are a run whose writers are all known and one where they are not.
* Delegation: every mixture of fixed and automatic addresses and MACs of three interfaces where the
  subnet has room for two; every mixture of given datapath ids of three switches whose hashes agree
  and stand next to the largest id, so that the search wraps; mixtures of port names and numbers
  around three links, with names that are those of a node, of a link or of a port still to be
  generated; every relation between three deployments; placements and node graphs
  that fit and that do not. The five loaded documents reach the hop limit, share a channel with room
  for one message, share one slot, and have three agents in a tree or around a coordinator.

Deadlock is checked on none of the runs: every instance has finitely many invocations or events, and
its threads end, so a state without successors is where the system is expected to arrive. What must
not remain blocked is stated by the liveness properties, StoppedIsQuiet and StopsGoThrough instead.
SavedRuns uses symmetry (clients, exports), which is sound for it: its properties are safety
properties, and neither clients nor exports are told apart. No other run does.

Five configurations stand beside the runs and are not among them: PauseDelegates, RecoveryNested,
LostProcess, RepeatedStop and FailedStart show what section 7 describes, and each of them ends in a violation.

### Fairness

Weak fairness per thread in admission and commitment: a thread that stays able to take a step takes
one. The operating system schedules threads, and reasoning, validation and actions return because
each is called with a timeout. Nothing is assumed about *which* step a thread takes, nor that it is
granted anything. In ContinuousRuntime there is one such condition per thread (dispatcher, worker,
request, the caller in `stop()`), and one that says that a stop that failed is called again, as
`experiment.py` and its callers do. Nobody is obliged to publish, pause, resume or begin a stop.

In RunOwnership fairness is per owner, per thread of an action and per caller; crashes, signals from
elsewhere, time-outs and the start of a call are free, so that CallsEnd does not rest on a time-out.
In MessageRouting it is per request thread and per request's invocations (model calls have time-outs),
and for the end of `close()`, and strong for collecting answers, since `wait()` returns whatever has
ended by then, while the loop may go around without it; nobody has to ask or to close. That a waiting request is never starved
of budget by others rests on there being finitely many of them. ExperimentRuntime has no fairness:
that its main thread is never held up is stated as a safety property (StopsGoThrough: from every state
it can go on, and it gives up a layer only while a thread of it runs), which needs none and allows for
the symmetry. The violation run is a safety
counterexample and needs no fairness.

## 5. Properties

Each is stated in the module with the behaviour it is about. In short: the admission properties say
that the object is a fair, deadlock-free lock table with a verdict that stands; those of the store
say that compare-and-set on versions is compare-and-set on writes; KeepsPromise says that the two
together make a decision atomic towards the state it depends on; those of the supervisor and the
continuous runtime say that counts, budgets and shutdown survive every interleaving; those of bounded
recovery relate what a decision has read, done and reported to what the switches hold. Those of
RunOwnership relate the network to two files, a lock and program counters across processes that
die; those of ExperimentRuntime and SavedRuns relate what happened in a run to what its ledger, its
clients and the exports say of it; those of PlanCompiler and MessageRouting relate a plan to its
documents, the two separate checks of it to each other, and requests to the messages, budgets and
channel they share. For each property of a passing run `PROJECT.json` names a plausible fault of the
code (an operator commented "Fault:" beside the definition it would replace) under which TLC finds
the property violated.

The type invariants (`TypeOK` of each module, `ExperimentTypeOK`) are parts of the inductive
invariants and are proved wherever those are (section 6); they are not among the runs' properties,
where every other property already evaluates the variables they type.

Not counted by OneBoundedTick: a tick that the worker of a failed agent takes only to report the
failure (`continuous.py:664-671`). It is not added to `_bounded_active`, executes nothing, and may
coincide with a tick that is queued meanwhile.

## 6. Proofs

Eight modules: `SharedObjectsProofs` (admission and the store), `CoordinatedCommitProofs`,
`AgentSupervisorProofs`, `ContinuousRuntimeProofs`, `BoundedRecoveryProofs`, `RunOwnershipProofs`,
`SavedRunsProofs` and `MessageRoutingProofs` (with the compiler it extends), checked by TLAPS for
every set of invocations, requests, keys, responses, batches, limits, agents, events, restart
budgets, bundles, deadlines, processes, crashes, samplers, clients, exporters and documents.

The assumptions are `AdmissionAssumption`, `StoreAssumption`, `CommitAssumption`,
`SupervisorAssumption`, `ContinuousAssumption`, `RecoveryAssumption`, `OwnershipAssumption`,
`ExperimentAssumption`, `SavedRunsAssumption` and `DocumentsAssumption`: the typing of the constants,
that sets counted by the code are finite, what the specification's validators ensure of documents,
and for ActionAdmission alone that arbitration has been applied to a decision before it reaches
admission. TLC evaluates them on the runs of their modules. In the two
compositions the assumptions of the parts are not assumed again but proved.

**Admission.** The inductive invariant is

    IInv == TypeOK /\ Bookkeeping /\ NoHoldAndWait /\ ReservationsIsolated /\ WaitersApart

`NoHoldAndWait` is not inductive: that a committing thread finds its action admissible depends on
all others that are active being compatible with it. Active candidates belong to reservations of
committing threads (`Bookkeeping`), and those are compatible with this thread's: under `serialize`
and `priority` by `ReservationsIsolated`, which then includes network conflicts; under `reject`,
where it does not, because every decision lost to all reservations it met when it *started
waiting*, and so is compatible with each of them from then on (`WaitersApart`). From NoHoldAndWait
it follows that nothing is ever pending, which is why `ActiveConflictFree` holds.

| Theorem | Says |
|---|---|
| InductiveInvariant | `Spec => []IInv` |
| TypeCorrect, DecisionsNeverWaitInside | TypeOK, NoHoldAndWait, for every instance |
| CommitIsolation, EffectsProtected | the run properties ReservationsIsolated, ActiveConflictFree, for every instance |

The order of decisions needs, besides,

    VerdictInv == OwnActionsApart /\ HistoryApart /\ RequestHistoryConflictFree

Arbitration makes the actions of one response compatible (OwnActionsApart); `decision()` removes
those that conflict with what the request has done, and whatever another invocation of the request
admits later belongs to a reservation this one is apart from (HistoryApart, by WaitersApart).
NoLostWakeup is inductive beside IInv: a thread that stops waiting starts committing and stands in
the same threads' way, so only the steps that notify everybody remove an obstacle. NoCircularWait follows from it: of any
group of waiting decisions one precedes all others, by rank and then by arrival (`SomebodyFirst`), so
that what keeps it waiting, if it has not been notified, is not in the group.

| Theorem | Says |
|---|---|
| VerdictsStand, RequestsConflictFree, WakeupsKept, NobodyWaitsInACircle | the run properties VerdictStands, RequestHistoryConflictFree, NoLostWakeup, NoCircularWait, for every instance |

Lemmas on the way: conflicts are symmetric; removing an entry of a queue keeps the others in their
order (`WithoutProperties`); what a reservation contains (`ReservationForType`).

A consequence worth knowing: with callers that reserve what they admit, the waiting branch of
`admit()` is never taken. It protects callers that do not.

**Store.** `StoreInv == StoreTypeOK /\ RowsWritten /\ VersionIdentifiesWrite`. RowsWritten (a visible
row has a version above 0, and a client saw such a row or nothing) is what turns "the expected version
is the current one" into "the row is the one I saw", absence included.

| Theorem | Says |
|---|---|
| StoreInvariant | `StoreSpec => []StoreInv` |
| VersionsIdentifyWrites, NoUpdateLost | the run properties VersionIdentifiesWrite, NoLostUpdate, for any clients, keys, limits and batches |

**Supervisor.** `IInv == TypeOK /\ RestartBudget /\ OneRestarter`. The end of a backoff sets the
agent running without looking at its state; OneRestarter (a job in a backoff has a restarting agent
and shares it with no other such job, a restarting agent has such a job) is why that is right, and
why the supervisor may be stopped only once no job executes, as the continuous runtime does.

| Theorem | Says |
|---|---|
| SupervisorInvariant | `Spec => []IInv` |
| BudgetRespected, RestartsOwned, FailedStaysFailed | the run properties RestartBudget, RestartOwned, NoResurrection, for every instance |

**Coordinated commitment.**

    CommitInv == Store!StoreInv /\ Admission!IInv /\ OwnTypeOK
                   /\ \A i \in Invocation : InvocationInv(i)
    InvocationInv(i) == ResultsInPlace(i) /\ PhaseInPlace(i) /\ QueueInPlace(i)
                          /\ KeysReserved(i) /\ CheckHolds(i)

The point is CheckHolds: the versions were compared in an earlier step (`Revalidate`, `Complete`)
than the action starts or the updates are published, and other invocations publish in between. It
is inductive because a thread that publishes and a thread that has checked are both committing,
KeysReserved says that their reservations cover what they depend on, and Admission!IInv (its
ReservationsIsolated) that these are apart. KeysReserved has an exception, which is why it has two
halves: when no action of a decision survives, the code reserves nothing at all, and then no action
of it may ever have run. QueueInPlace (the candidates left stand for distinct proposals that are
still "valid") links the admission object's queue to the results, ResultsInPlace and PhaseInPlace
the results to the thread's place.

| Theorem | Says |
|---|---|
| CommitInvariant, CommitTypes | `Spec => []CommitInv`, TypeOK |
| VersionsHold | the run property VersionsHoldAtPublish, for every instance and policy |
| UsesAdmission, UsesStore | `Spec => Admission!Spec`, `Spec => Store!StoreSpec` |
| PromiseKept | the run property KeepsPromise: `Spec` implements AtomicDecisions |
| AdmissionHolds | VerdictStands, NoLostWakeup and ActiveConflictFree hold in the composition |
| StoreHolds | VersionIdentifiesWrite and NoLostUpdate hold in the composition |

The last two are not proved again: UsesAdmission and UsesStore make every behaviour of the composition
one of each object, and the theorems of SharedObjectsProofs apply through an INSTANCE of that module.
This needs its assumptions: that batches change a key once (`BatchesFit`), which the responses are
assumed to, and that the actions of a decision are apart, for `Decisions`: the lemma
`KeptExists` shows that arbitration finds the positions it keeps for any proposals (`Keeps` has a
solution on every initial segment, else take the least one that has none), `ArbitratedProperties`
that listing them in order gives compatible actions.

PromiseKept goes step by step: `Prepare` is an answer, `Admit` a start (CheckHolds gives the
freshness AtomicDecisions asks for), `Execute` a success or a stutter, `Complete` without updates and
`Publish` the publication, all other steps stutter.

**Continuous runtime.**

    ContinuousInv == TypeOK /\ EventsInPlace /\ ItemsInPlace /\ InlineAlone
                       /\ LeasesHeld /\ LeasesWithinBudget /\ QueuesWithinBudget /\ SlotsAddUp
                       /\ TicksInPlace /\ DrainDropsNothing /\ StopInOrder

Where an item is, is said by five variables (queue, fate, request thread, job, tree of invocations);
EventsInPlace and ItemsInPlace say that they agree, so that no item is on two queues, taken twice or
enqueued after the workers have been closed. WithinBudget counts invocations, which is not inductive:
a request may lose its lease to a pause or a backoff and invoke again, and the worker takes a lease
before there is a request. LeasesHeld gives every lease an owner and every invocation a lease of its
own, LeasesWithinBudget counts the leases, and the count of invocations follows by an injection
(`ExecutingLeased`). TicksInPlace ties `_bounded_active` to the request threads that process a tick;
a tick is found superfluous by looking at that field and at the queue, and that both together miss
no tick is what makes OneBoundedTick inductive. StopInOrder lists what a stop may rely on after each
join. It survives a time-out and a second call, because what has been closed or joined stays so,
and it has nothing on paused agents, because a pause that raced the stop may still come.

| Theorem | Says |
|---|---|
| ContinuousInvariant, ContinuousTypes | `Spec => []ContinuousInv`, TypeOK |
| NothingLost, StopLeavesNothing, TicksDoNotPile, LimitsHold | the run properties DrainDropsNothing, StoppedIsQuiet, OneBoundedTick, WithinBudget, for any agents, events, triggers and limits |
| UsesSupervisor | `Spec => Supervisor!Spec`: the runtime only makes the steps AgentSupervisor allows, with items as jobs |
| RuntimeKeepsBudget, RuntimeDoesNotResurrect | RestartBudget and NoResurrection hold in the running system |

UsesSupervisor rests on ContinuousInv too: the supervisor may be stopped only when no job executes,
and the runtime stops it when no *request* is left, which comes to the same by ItemsInPlace and
StopInOrder. The last two theorems follow from it and the supervisor's own.

**Bounded recovery.**

    IInv == TypeOK /\ Preparing /\ Bookkeeping /\ Fresh /\ InOrder /\ RecoveryVerified

InOrder needs the bookkeeping: while a bundle is not halted every result so far is a success, and
the step that starts is the first one that is missing and has none. RecoveryVerified and
OnlyKnownMissing need Fresh: what was read is still so where nobody else and no step has acted,
through the steps of the bundle, a rollback included. ReportsHold is inductive beside IInv when no
removal covers another step's rule (`Apart`), which the code does not ensure (section 7).

| Theorem | Says |
|---|---|
| BundleInOrder, RecoveryIsVerified, RevocationsFinal | the run properties InOrder, RecoveryVerified, RevocationFinal, for bundles of any length |
| TypeCorrect, StepsKnownMissing | TypeOK, OnlyKnownMissing, likewise |
| ReportsTrue | ReportsHold, for bundles whose matches are apart |

**Ownership.**

    OwnershipInv == TypeOK /\ LockIsHeld /\ OwnerFollowsRecord /\ NetworkIsRecorded
                      /\ RecoversAlone /\ CallerFollowsRecord

The lock alone does not protect the network: it is freed by death, and a caller reads the record
before it has the lock. NetworkIsRecorded needs OwnerFollowsRecord (what record and network are at
each step of an owner), and that needs RecoversAlone: a caller that holds the lock and has read the
record again knows that the owner it names has ended, or will not touch the network any more.
CallerFollowsRecord carries what a caller has established from one step to the next, which is why
an answer "stopped" stays true after the lock is given back and another run has been deployed.

| Theorem | Says |
|---|---|
| OwnershipInvariant | `Spec => []OwnershipInv` |
| NetworksAreRecorded, StoppedRunsAreGone, OnlyOwnNetworksAreDeleted | the run properties NetworkIsRecorded, StoppedIsGone, DeletesOwnNetwork, for any number of processes and crashes |
| RecoveriesAreAlone | nobody works on a run while it is recovered |

**Run and saved evidence.**

    ExperimentInv == ExperimentTypeOK /\ WriterIsWriting /\ ThreadsFollowMain /\ LayersJoined
                       /\ FinishedIsQuiet /\ LedgerMatchesBus /\ IntentsInOrder /\ IntentsExactlyOnce
    SavedRunsInv  == ExperimentInv /\ FileTypeOK /\ LocksExclude /\ CopiesAgree
                       /\ DestinationClaimed

The first part of SavedRunsProofs shows, step by step, that a process keeps ExperimentInv (`ExperimentKept`). Only
the writer of the sink's lock touches bus and ledger, and whoever puts a row on the one puts it in
the other; ThreadsFollowMain and LayersJoined say which threads may still run at each step of start
and stop, and FinishedIsQuiet that after a finished stop none of them can take a step at all.
The second part adds the files. The ledger grows only while it is open, and it is open only under
the shared lock of its directory; an export or the inspection copies under the exclusive lock, so
that they read one ledger (LocksExclude). Once `run.json` is final the process has no step left
that would change the ledger, hence a copy taken of such a run stays complete (CopiesAgree).
DestinationClaimed says that the export that has created a destination is the only one that writes
to it, up to its marker.

| Theorem | Says |
|---|---|
| Invariance, TypeCorrect | `Spec => []SavedRunsInv`, TypeOK |
| StopsQuietly, LedgerAgrees, IntentsRecordedOnce | the run properties StopIsQuiet, LedgerMatchesBus, IntentsExactlyOnce, for any number of samplers, clients, time-outs and repeated stops |
| EvidenceComplete, MarkersAreWhole, ReadersSeeOneLedger | the run properties EvidenceIsComplete, MarkerIsWhole, StableWhileRead, for any number of exporters, failures and crashes |

**Plans.**

    PlanInv        == NetworkInPlace /\ GraphInPlace
    NetworkInPlace == ResourcesChecked /\ AdaptersFit(adapters) /\ DeclaredInOrder
                        /\ LinksInPlace /\ AddressesInPlace /\ DpidsInPlace /\ ExhaustionIsReal
    GraphInPlace   == PlanTypeOK /\ EdgesOfPlan /\ VisitInOrder /\ PlanIsExecutable

PlanIsConsistent speaks of accepted plans only; its conjuncts are stated in NetworkInPlace for every
stage from which they hold. Most depend on what an earlier stage left. That two ports of a switch
have two numbers depends on the order of declaration (DeclaredInOrder): an automatic number avoids
the numbers already given, *and* those that ports further down the list ask for, so that an explicit
one finds its number free when its turn comes. An interface, which is numbered by its place, finds
smaller numbers taken only. A generated name is compared to all names there are (`Reserved`), and so
is a name that a later port brings, so it does not matter which of the two comes first. LinksInPlace
follows a link's two adapters from the step that names them: `Endpoint` leaves all earlier adapters in
place, and an adapter it makes is one no link has used.

Addresses are handed out upwards, by `candidate`, which never goes back. What AddressesInPlace says of
it (every usable address below it is taken) gives ExhaustionIsReal: when the pool is empty every
usable address is one of an interface, those of fixed interfaces apart there is one interface for each
of the others, and the interface that asks has none (`ExhaustedForReal`, which counts by an
injection). FreeFrom finds an id because fewer are taken than there are resources, hence than ids
(`FreeDpid`), and the search around the range misses none.

| Theorem | Says |
|---|---|
| PlansAreConsistent, ExhaustionsAreReal | the run properties PlanIsConsistent, ExhaustionIsReal, for any documents |

**Requests and the graph they run on.**

    RouteInv   == RouteTypeOK /\ RunFollowsPlan
                    /\ \A r \in Request : MessagesInPlace(r) /\ ProposalsInPlace(r)
                    /\ ChannelInPlace /\ LeasesInPlace /\ RoutesWithinBudget
    RoutingInv == PlanInv /\ RouteInv

GraphInPlace is the part of PlanInv that it needs. The graph visits agents whose superiors have all been visited. VisitInOrder says that a set of agents
each of which is below another one of them (`Cyclic`) is never entered; a visit that is stuck has
such a set, so what it refuses is a cycle. That nothing else of a compiled plan is refused is
because the compiler has already made the checks of shape (`ShapeOfPlan`).

Accounted is a count at the return of a request: delegations sent, refused and still to be sent make
what was proposed (ProposalsInPlace), nothing is queued or running any more, and the messages of a
request in the channel are just its queued ones, once each (ChannelInPlace), though all requests
share the channel. RoutesWithinBudget needs LeasesInPlace: a reservation is the root message's lease
before there is a message, and a take finds its message without one, so it adds what `Available` has
left room for.

| Theorem | Says |
|---|---|
| RefusesCyclesOnly | the run property PlanIsExecutable, for any documents |
| RoutingInvariant | `Spec => []RoutingInv` |
| RequestsAccount | the run property Accounted, for any documents, requests, delegations and channel sizes |
| RequestsKeepBudget | RoutesWithinBudget: the invocations under way, of each agent and of all, stay within the limits of the plan |

**Model-checked only.** Everything about liveness (EveryDecisionGranted, EveryInvocationEnds, StopEnds,
CallsEnd, RequestsEnd) and StopsGoThrough, which speaks of ENABLED: both are outside the prover's reach.
RoutesWithinBudget is proved and is no property of a run: TLC has checked it on the
instance of Delegation. No theorem is to be expected of BundleStops, which the code violates (section 7). That
the model of a loop computes what the loop computes (`Keeps`, `Matches`)
is a translation by hand; that it has a solution for every input is proved.

## 7. Where code and documents differ

* **BundleStops** (run BundleReject). `docs/bounded-decision.md:24` says "The fixed bundle stops at
  the first rejection or execution failure." Under `reject`, a step that arbitration drops inside
  the response is recorded as rejected only after the loop over the kept steps
  (`coordination/routing.py:682`), and whether the bundle is halted is computed before the loop
  from validation results alone. The counterexample: three steps, the second conflicts with the
  first and is dropped, the third is executed.
* **PauseCoversDelegates** (PauseDelegates.cfg, module MCContinuousRuntime).
  `runtime/supervision.py:75` says of `pause()` "Prevent new invocations from starting for one
  running agent." The coordinator starts delegated invocations when the budget has room
  (`coordination/routing.py:514`) and never asks the supervisor; the counterexample pauses the
  monitor, and a delegation to it starts.
* **PartialEffectsStay** (RecoveryNested.cfg, module MCBoundedRecovery).
  `docs/bounded-decision.md:25` says "partial or unknown effects are not reported as successful
  recovery or rolled back." The inverse of an installation is a removal by the step's own match
  (`capabilities/adapters.py:99`), and that removal is not strict
  (`substrates/mininet_ovs/actions.py:379`). The counterexample: the first step succeeds, the third
  one, whose match covers the first one's, fails its postconditions and is rolled back; the first
  one's rule is gone, and its result still says that it succeeded.
* **RepeatedStopIdempotent** (RepeatedStop.cfg, module MCRunOwnership). `docs/compatibility.md:343`
  says that repeated `stop` and later `status` calls remain idempotent across CLI processes. A stop
  that looks between the owner's `clear()` of the active record
  (`substrates/mininet_ovs/runtime.py:522`) and the release of its lock (line 554) finds no active
  record and a held lock, and reports `runtime.run.active` for a run whose stop is recorded. The
  window is short and a further call answers right.
* **RecordOwnsProcesses** (LostProcess.cfg, module MCRunOwnership). Two threads inside `execute()`
  compare and write the list of process groups without a common lock
  (`substrates/mininet_ovs/runtime.py:385`): the second write may lack the first one's process. A
  recovery also searches the namespaces of the nodes, which bounds the harm.
* **RetryResolves** (FailedStart.cfg, module MCSavedRuns). A comment in `stop()`
  (`experiment.py:449`) says "Worker-drain and substrate cleanup uncertainty can be resolved by
  retry". Not after a start that failed in `continuous.start()`, when undoing it could not stop that
  layer in time: the pipeline has been built (`experiment.py:270`) and not started, its `stop()`
  raises in that state (`runtime/telemetry.py:191`), and `_stop_telemetry` asks only whether there is
  one (`experiment.py:562`). Every retry then gives telemetry up although it has no thread, and the
  substrate is never torn down. The same holds for a layer one of whose threads could not be
  started: it stands in the list of threads to join (`runtime/telemetry.py:162`), and joining it
  raises. StopsGoThrough, which the run SavedRuns checks, leaves just these cases out (`HalfStarted`).
* Telemetry (not modelled further): the samplers share one sequence of numbers and publish outside
  its lock (`runtime/telemetry.py:435`), so that the dispatcher may reject an event as out of order
  when its detector has already begun its cooldown.

## 8. Not modelled

The specification loader, plugins and the SDK transform data in one thread before anything runs.
Agent providers and the observations of the Mininet provider are input and output: the modules see
them as calls that succeed, fail, raise or take long. The fake substrate is a stand-in for tests.
Of the compiler the snapshot, the digest and driver validation are left out, of the telemetry
pipeline the arithmetic of the detectors, of the audit trail the content of its records, of session
memory everything, of exports the layout and the checksums of the bundle. An issue listener that
raises ends the dispatcher thread (`runtime/continuous.py:882`); listeners belong to the embedding
program and are not modelled.

---------------------------- MODULE RunOwnership ----------------------------
(***************************************************************************)
(* Who owns the one Mininet/OVS network of a machine.                      *)
(*                                                                         *)
(* `run` processes (the owners, each the owner of the run it deploys) and  *)
(* `stop` and `status` processes (the callers) share two JSON records on   *)
(* disk, the active run and the last stopped run, and one advisory lock    *)
(* that is only ever tried, never waited for, and that the kernel frees    *)
(* when its holder dies.  A stop asks the owner with SIGTERM and polls the *)
(* record; when the owner is dead it takes the lock and recovers the run   *)
(* from the record.  Bridges and interfaces carry the names of the plan,   *)
(* so whoever deletes them deletes those of every run of that plan.        *)
(*                                                                         *)
(* Sources: substrates/mininet_ovs/runtime.py, state.py, actions.py (host  *)
(* processes) and the run, stop and status commands of cli.py.             *)
(***************************************************************************)
EXTENDS Naturals, FiniteSets

CONSTANTS
    Owners,     \* `run` processes; an owner stands also for the run it deploys
    Callers,    \* `stop` and `status` processes
    Procs,      \* host processes an agent may start with host.process.start
    NoOne,      \* the lock is free, no stopped record
    MaxFaults   \* bound on crashes and failing operating-system calls

ASSUME OwnershipAssumption ==
    /\ MaxFaults \in Nat
    /\ NoOne \notin Owners \cup Callers
    /\ Owners \cap Callers = {}

VARIABLES
    lock,       \* holder of the flock
    record,     \* the active-run record, or NoRecord
    stopped,    \* run named by the stopped-run record
    network,    \* runs whose bridges, interfaces and node shells exist
    live,       \* state of each host process: "unused", its run, or "ended"
    op,         \* thread of execute() for each host process
    pc,         \* where each owner is
    asked,      \* owners whose signal latch is set
    call,       \* what each caller does: [at, run, result]
    faults      \* crashes and failures so far

vars == <<lock, record, stopped, network, live, op, pc, asked, call, faults>>

-----------------------------------------------------------------------------
(* Records and processes *)

NoRecord == [run |-> NoOne, state |-> "none", groups |-> {}]
Idle     == [at |-> "idle", seen |-> {}, new |-> {}]

\* actions.owned_pids: the host processes of o that still run.
OwnedPids(o) == {p \in Procs : live[p] = o}

\* The latch is installed around start and wait, not around stop.
Latched == {"claimed", "deploying", "built", "running", "unwinding", "leftover",
            "abandoning"}
Ended   == {"refused", "gone"}

\* ProcessOwner.is_alive
IsAlive(o) == pc[o] \notin Ended \cup {"idle"}

WriteRecord(o, state, groups) ==
    record' = [run |-> o, state |-> state, groups |-> groups]

\* An operating-system call may fail while the bound on faults allows it.
Fault == faults < MaxFaults /\ faults' = faults + 1

Goto(o, at) == pc' = [pc EXCEPT ![o] = at]

Init ==
    /\ lock = NoOne
    /\ record = NoRecord
    /\ stopped = NoOne
    /\ network = {}
    /\ live = [p \in Procs |-> "unused"]
    /\ op = [p \in Procs |-> Idle]
    /\ pc = [o \in Owners |-> "idle"]
    /\ asked = {}
    /\ call = [c \in Callers |-> [at |-> "idle", run |-> NoOne, result |-> "none"]]
    /\ faults = 0

-----------------------------------------------------------------------------
(* Deploying a run *)

\* _claim_run takes the lock, refuses when a record is left, and discards the
\* stopped record of the run before.
Claim(o) ==
    /\ pc[o] = "idle"
    /\ IF lock = NoOne /\ record = NoRecord
       THEN lock' = o /\ stopped' = NoOne /\ Goto(o, "claimed")
       ELSE Goto(o, "refused") /\ UNCHANGED <<lock, stopped>>
    /\ UNCHANGED <<record, network, live, op, asked, call, faults>>

\* The record names the run before anything is built; a write that fails, before
\* or after it replaced the file, gives the lock back.
RecordClaim(o) ==
    /\ pc[o] = "claimed"
    /\ \/ WriteRecord(o, "deploying", {}) /\ Goto(o, "deploying") /\ UNCHANGED faults
       \/ /\ Fault /\ Goto(o, "abandoning")
          /\ WriteRecord(o, "deploying", {}) \/ UNCHANGED record
    /\ UNCHANGED <<lock, stopped, network, live, op, asked, call>>

\* Interfaces of the same names fail the preflight before there is a network.
Build(o) ==
    /\ pc[o] = "deploying"
    /\ IF network = {}
       THEN network' = {o} /\ Goto(o, "built")
       ELSE Goto(o, "unwinding") /\ UNCHANGED network
    /\ UNCHANGED <<lock, record, stopped, live, op, asked, call, faults>>

\* The network starts, its resources are operational, the record says so.
Start(o) ==
    /\ pc[o] = "built"
    /\ WriteRecord(o, "running", {})
    /\ Goto(o, "running")
    /\ UNCHANGED <<lock, stopped, network, live, op, asked, call, faults>>

\* A step of deploy fails: the network is rolled back, or is not.
DeployFails(o) ==
    /\ Fault
    /\ \/ pc[o] = "deploying" /\ Goto(o, "unwinding") /\ UNCHANGED network
       \/ pc[o] = "built" /\ network' = {} /\ Goto(o, "unwinding")
       \/ pc[o] = "built" /\ Goto(o, "leftover") /\ UNCHANGED network
    /\ UNCHANGED <<lock, record, stopped, live, op, asked, call>>

\* Fault: a failed rollback clears the record as a clean one does.
ForgetLeftover(o) ==
    /\ pc[o] \in {"unwinding", "leftover"}
    /\ record' = NoRecord
    /\ Goto(o, "abandoning")
    /\ UNCHANGED <<lock, stopped, network, live, op, asked, call, faults>>

\* _settle_failed_deploy: only a rollback that left nothing clears the record.
SettleFailedDeploy(o) ==
    /\ \/ pc[o] = "unwinding" /\ record' = NoRecord
       \/ pc[o] = "leftover" /\ WriteRecord(o, "failed", {})
    /\ Goto(o, "abandoning")
    /\ UNCHANGED <<lock, stopped, network, live, op, asked, call, faults>>

-----------------------------------------------------------------------------
(* Host processes: execute() in request threads of a running owner *)

\* execute reads the owned pids and starts the process of the request.
StartProcess(o, p) ==
    /\ pc[o] = "running" /\ live[p] = "unused"
    /\ live' = [live EXCEPT ![p] = o]
    /\ op' = [op EXCEPT ![p] = [at |-> "changed", seen |-> OwnedPids(o), new |-> {}]]
    /\ UNCHANGED <<lock, record, stopped, network, pc, asked, call, faults>>

\* host.process.stop, as a thread of its own.
StopProcess(o, p) ==
    /\ pc[o] = "running" /\ live[p] = o /\ op[p] = Idle
    /\ live' = [live EXCEPT ![p] = "ended"]
    /\ op' = [op EXCEPT ![p] = [at |-> "changed", seen |-> OwnedPids(o), new |-> {}]]
    /\ UNCHANGED <<lock, record, stopped, network, pc, asked, call, faults>>

\* A host process ends by itself: nothing is written.
ProcessEnds(p) ==
    /\ live[p] \in Owners
    /\ live' = [live EXCEPT ![p] = "ended"]
    /\ UNCHANGED <<lock, record, stopped, network, op, pc, asked, call, faults>>

\* The thread reads the owned pids again; when they are as before it is done.
CompareProcesses(o, p) ==
    /\ pc[o] = "running" /\ op[p].at = "changed"
    /\ op' = [op EXCEPT ![p] =
                IF OwnedPids(o) = op[p].seen THEN Idle
                ELSE [at |-> "writing", seen |-> OwnedPids(o),
                      new |-> OwnedPids(o) \ op[p].seen]]
    /\ UNCHANGED <<lock, record, stopped, network, live, pc, asked, call, faults>>

\* It writes the groups it has read, or ends the processes that are new to it.
RecordProcesses(o, p) ==
    /\ pc[o] = "running" /\ op[p].at = "writing"
    /\ op' = [op EXCEPT ![p] = Idle]
    /\ \/ /\ WriteRecord(o, "running", op[p].seen)
          /\ UNCHANGED <<live, faults>>
       \/ /\ Fault
          /\ live' = [q \in Procs |-> IF q \in op[p].new /\ live[q] = o
                                      THEN "ended" ELSE live[q]]
          /\ UNCHANGED record
    /\ UNCHANGED <<lock, stopped, network, pc, asked, call>>

-----------------------------------------------------------------------------
(* Stopping a run in its owner *)

\* Ctrl-C, a duration that ends, or the last intent of --stop-after-intents.
Interrupt(o) ==
    /\ pc[o] \in Latched \ {"unwinding", "leftover", "abandoning"}
    /\ o \notin asked
    /\ asked' = asked \cup {o}
    /\ UNCHANGED <<lock, record, stopped, network, live, op, pc, call, faults>>

\* The latch is left and teardown begins, when no thread uses the substrate.
BeginTeardown(o) ==
    /\ pc[o] = "running" /\ o \in asked
    /\ op = [p \in Procs |-> Idle]
    /\ WriteRecord(o, "stopping", OwnedPids(o))
    /\ Goto(o, "stopping")
    /\ UNCHANGED <<lock, stopped, network, live, op, asked, call, faults>>

\* A thread that does not stop in time: the experiment leaves the network up
\* and the process ends; its lock goes with it, its record stays.
LeaveUndone(o) ==
    /\ pc[o] = "running" /\ o \in asked
    /\ op # [p \in Procs |-> Idle]
    /\ Goto(o, "leaving")
    /\ op' = [p \in Procs |-> Idle]
    /\ UNCHANGED <<lock, record, stopped, network, live, asked, call, faults>>

\* Fault: a cleanup operation that fails does not fail the teardown.
TearDownAnyway(o) ==
    /\ pc[o] = "stopping"
    /\ \E left \in {{}, network} : network' = left
    /\ live' = [p \in Procs |-> IF live[p] = o THEN "ended" ELSE live[p]]
    /\ Goto(o, "torn")
    /\ UNCHANGED <<lock, record, stopped, op, asked, call, faults>>

\* All three cleanup operations are tried; one failure fails the teardown.
TearDown(o) ==
    /\ pc[o] = "stopping"
    /\ \E ended \in SUBSET OwnedPids(o), left \in {{}, network} :
        /\ live' = [p \in Procs |-> IF p \in ended THEN "ended" ELSE live[p]]
        /\ network' = left
        /\ IF ended = OwnedPids(o) /\ left = {}
           THEN Goto(o, "torn") /\ UNCHANGED <<record, faults>>
           ELSE /\ Fault
                /\ WriteRecord(o, "failed", OwnedPids(o) \ ended)
                /\ Goto(o, "releasing")
    /\ UNCHANGED <<lock, stopped, op, asked, call>>

\* Completion is recorded before the active record goes away.
RecordStopped(o) ==
    /\ pc[o] = "torn"
    /\ \/ stopped' = o /\ Goto(o, "clearing") /\ UNCHANGED <<record, faults>>
       \/ Fault /\ WriteRecord(o, "failed", {}) /\ Goto(o, "releasing")
          /\ UNCHANGED stopped
    /\ UNCHANGED <<lock, network, live, op, asked, call>>

ClearRecord(o) ==
    /\ pc[o] = "clearing"
    /\ record' = NoRecord
    /\ Goto(o, "releasing")
    /\ UNCHANGED <<lock, stopped, network, live, op, asked, call, faults>>

Release(o) ==
    /\ pc[o] \in {"releasing", "abandoning"}
    /\ lock' = NoOne
    /\ Goto(o, "leaving")
    /\ UNCHANGED <<record, stopped, network, live, op, asked, call, faults>>

\* The process ends, now or by a crash, and the kernel frees what it held.
Freed(holder) == IF lock = holder THEN NoOne ELSE lock

Exit(o) ==
    /\ pc[o] = "leaving"
    /\ lock' = Freed(o)
    /\ Goto(o, "gone")
    /\ UNCHANGED <<record, stopped, network, live, op, asked, call, faults>>

Dies(o) ==
    /\ lock' = Freed(o)
    /\ Goto(o, "gone")
    /\ op' = IF pc[o] = "running" THEN [p \in Procs |-> Idle] ELSE op
    /\ UNCHANGED <<record, stopped, network, live, asked>>

Crash(o) ==
    /\ IsAlive(o)
    /\ Fault
    /\ Dies(o)
    /\ UNCHANGED call

-----------------------------------------------------------------------------
(* Callers: request_stop and inspect in another process *)

At(c, at)      == call' = [call EXCEPT ![c].at = at]
Ends(c, result) == call' = [call EXCEPT ![c] = [@ EXCEPT !.at = "done", !.result = result]]

\* A caller names a run that has shown its id, and the id is never used again.
\* request_stop reads the record: without one, or with a dead owner, it goes on
\* to recover; inspect looks at the same two things.
Look(c, r, at) ==
    /\ call[c].at = "idle" /\ pc[r] \notin {"idle", "claimed"}
    /\ call' = [call EXCEPT ![c] =
        IF record = NoRecord
        THEN [at |-> IF at = "stop" THEN "recover" ELSE "done", run |-> r,
              result |-> IF at = "stop" THEN "none" ELSE "inspected"]
        ELSE IF record.run # r THEN [at |-> "done", run |-> r, result |-> "unknown"]
        ELSE IF IsAlive(r) THEN [at |-> at, run |-> r, result |-> "none"]
        ELSE [at |-> IF at = "stop" THEN "recover" ELSE "done", run |-> r,
              result |-> IF at = "stop" THEN "none" ELSE "inspected"]]
    /\ UNCHANGED <<lock, record, stopped, network, live, op, pc, asked, faults>>

\* is_locked finds the lock held, or takes it to find out.
Probe(c) ==
    /\ call[c].at \in {"stop", "status"}
    /\ IF lock # NoOne
       THEN /\ IF call[c].at = "stop" THEN At(c, "signal") ELSE Ends(c, "inspected")
            /\ UNCHANGED lock
       ELSE lock' = c /\ At(c, IF call[c].at = "stop" THEN "probing" ELSE "viewing")
    /\ UNCHANGED <<record, stopped, network, live, op, pc, asked, faults>>

\* ... and gives it back: nobody owns the run.
EndProbe(c) ==
    /\ call[c].at \in {"probing", "viewing"}
    /\ lock' = NoOne
    /\ IF call[c].at = "probing" THEN At(c, "recover") ELSE Ends(c, "inspected")
    /\ UNCHANGED <<record, stopped, network, live, op, pc, asked, faults>>

\* Fault: the latch is installed only once the run is up, and a signal that
\* comes before is lost.
SignalLost(c) ==
    LET r == call[c].run IN
    /\ call[c].at = "signal"
    /\ asked' = IF pc[r] = "running" THEN asked \cup {r} ELSE asked
    /\ At(c, "poll")
    /\ UNCHANGED <<lock, record, stopped, network, live, op, pc, faults>>

\* SIGTERM: the latch takes it, and an owner that has left the latch dies of it.
Signal(c) ==
    LET r == call[c].run IN
    /\ call[c].at = "signal"
    /\ IF ~IsAlive(r)
       THEN At(c, "recover") /\ UNCHANGED <<lock, record, stopped, network, live, op, pc, asked>>
       ELSE /\ At(c, "poll")
            /\ IF pc[r] \in Latched
               THEN /\ asked' = asked \cup {r}
                    /\ UNCHANGED <<lock, record, stopped, network, live, op, pc>>
               ELSE Dies(r)
    /\ UNCHANGED faults

\* The poll ends when the record is gone or another's, or its owner is dead.
Poll(c) ==
    LET r == call[c].run IN
    /\ call[c].at = "poll"
    /\ \/ record = NoRecord /\ At(c, "recover")
       \/ record # NoRecord /\ record.run # r /\ Ends(c, "changed")
       \/ record.run = r /\ ~IsAlive(r) /\ At(c, "recover")
    /\ UNCHANGED <<lock, record, stopped, network, live, op, pc, asked, faults>>

TimeOut(c) ==
    /\ call[c].at = "poll"
    /\ Ends(c, "timeout")
    /\ UNCHANGED <<lock, record, stopped, network, live, op, pc, asked, faults>>

\* Fault: recovery does not ask whose record it has found.
RecoverAnyRecord(c) ==
    /\ call[c].at = "recover"
    /\ IF lock # NoOne
       THEN Ends(c, "active") /\ UNCHANGED lock
       ELSE lock' = c /\ At(c, IF record = NoRecord THEN "repeat" ELSE "kill")
    /\ UNCHANGED <<record, stopped, network, live, op, pc, asked, faults>>

\* _recover_persisted takes the lock, or says that the owner is active; then it
\* looks for the run in the active record and in the stopped one.
Recover(c) ==
    /\ call[c].at = "recover"
    /\ IF lock # NoOne
       THEN Ends(c, "active") /\ UNCHANGED lock
       ELSE /\ lock' = c
            /\ At(c, IF record.run = call[c].run THEN "kill" ELSE "repeat")
    /\ UNCHANGED <<record, stopped, network, live, op, pc, asked, faults>>

\* No active record of the run: the result of the stop that completed, if any.
Repeat(c) ==
    /\ call[c].at = "repeat"
    /\ Ends(c, IF record = NoRecord /\ stopped = call[c].run THEN "stopped" ELSE "unknown")
    /\ lock' = NoOne
    /\ UNCHANGED <<record, stopped, network, live, op, pc, asked, faults>>

\* The recorded process groups are ended.  Node shells are found by their
\* marker as well; a host process has lost it when it runs its own command.
KillGroups(c) ==
    /\ call[c].at = "kill"
    /\ live' = [p \in Procs |-> IF p \in record.groups /\ live[p] = record.run
                                THEN "ended" ELSE live[p]]
    /\ At(c, "delete")
    /\ UNCHANGED <<lock, record, stopped, network, op, pc, asked, faults>>

\* Bridges and interfaces are deleted by name.
DeleteNetwork(c) ==
    /\ call[c].at = "delete"
    /\ network' = {}
    /\ At(c, "record")
    /\ UNCHANGED <<lock, record, stopped, live, op, pc, asked, faults>>

\* A cleanup command fails: the record stays for another attempt.
RecoveryFails(c) ==
    /\ call[c].at \in {"kill", "delete", "record"}
    /\ Fault
    /\ Ends(c, "failed")
    /\ lock' = NoOne
    /\ UNCHANGED <<record, stopped, network, live, op, pc, asked>>

SaveStopped(c) ==
    /\ call[c].at = "record"
    /\ stopped' = record.run
    /\ At(c, "clear")
    /\ UNCHANGED <<lock, record, network, live, op, pc, asked, faults>>

ForgetRun(c) ==
    /\ call[c].at = "clear"
    /\ record' = NoRecord
    /\ At(c, "release")
    /\ UNCHANGED <<lock, stopped, network, live, op, pc, asked, faults>>

ReleaseRecovery(c) ==
    /\ call[c].at = "release"
    /\ lock' = NoOne
    /\ Ends(c, "stopped")
    /\ UNCHANGED <<record, stopped, network, live, op, pc, asked, faults>>

\* The caller dies, at any step of a recovery too.
CallerDies(c) ==
    /\ call[c].at \notin {"idle", "done"}
    /\ Fault
    /\ lock' = Freed(c)
    /\ Ends(c, "killed")
    /\ UNCHANGED <<record, stopped, network, live, op, pc, asked>>

-----------------------------------------------------------------------------
(* The system *)

\* What an owner does of itself once it runs.
OwnerStep(o) ==
    \/ RecordClaim(o) \/ Build(o) \/ Start(o) \/ SettleFailedDeploy(o)
    \/ BeginTeardown(o) \/ LeaveUndone(o) \/ TearDown(o) \/ RecordStopped(o)
    \/ ClearRecord(o) \/ Release(o) \/ Exit(o)

Threads(o, p) == CompareProcesses(o, p) \/ RecordProcesses(o, p)

\* What a caller does of itself once it runs.
CallerStep(c) ==
    \/ Probe(c) \/ EndProbe(c) \/ Signal(c) \/ Poll(c) \/ Recover(c) \/ Repeat(c)
    \/ KillGroups(c) \/ DeleteNetwork(c) \/ SaveStopped(c) \/ ForgetRun(c)
    \/ ReleaseRecovery(c)

Environment ==
    \/ \E o \in Owners : Claim(o) \/ DeployFails(o) \/ Interrupt(o) \/ Crash(o)
    \/ \E o \in Owners, p \in Procs : StartProcess(o, p) \/ StopProcess(o, p)
    \/ \E p \in Procs : ProcessEnds(p)
    \/ \E c \in Callers, r \in Owners : Look(c, r, "stop") \/ Look(c, r, "status")
    \/ \E c \in Callers : TimeOut(c) \/ RecoveryFails(c) \/ CallerDies(c)

Next ==
    \/ \E o \in Owners : OwnerStep(o)
    \/ \E o \in Owners, p \in Procs : Threads(o, p)
    \/ \E c \in Callers : CallerStep(c)
    \/ Environment

\* Every process is scheduled; nobody has to start one, to interrupt a run or
\* to let a poll time out.
Fairness ==
    /\ \A o \in Owners : WF_vars(OwnerStep(o))
    /\ \A o \in Owners, p \in Procs : WF_vars(Threads(o, p))
    /\ \A c \in Callers : WF_vars(CallerStep(c))

Spec == Init /\ [][Next]_vars /\ Fairness

-----------------------------------------------------------------------------
(* Correctness *)

OwnerStates == Latched \cup Ended \cup
    {"idle", "stopping", "torn", "clearing", "releasing", "leaving"}
Holding == OwnerStates \ (Ended \cup {"idle", "leaving"})
Recovering == {"repeat", "kill", "delete", "record", "clear", "release"}
CallStates == Recovering \cup {"idle", "stop", "status", "probing", "viewing",
                               "signal", "poll", "recover", "done"}
Results == {"none", "stopped", "unknown", "active", "changed", "timeout",
            "failed", "inspected", "killed"}
RecordStates == {"none", "deploying", "running", "stopping", "failed"}

\* Types of the shared files, of the processes and of their threads.
TypeOK ==
    /\ lock \in Owners \cup Callers \cup {NoOne}
    /\ record \in [run : Owners \cup {NoOne}, state : RecordStates, groups : SUBSET Procs]
    /\ stopped \in Owners \cup {NoOne}
    /\ network \in SUBSET Owners
    /\ live \in [Procs -> Owners \cup {"unused", "ended"}]
    /\ op \in [Procs -> [at : {"idle", "changed", "writing"},
                         seen : SUBSET Procs, new : SUBSET Procs]]
    /\ pc \in [Owners -> OwnerStates]
    /\ asked \in SUBSET Owners
    /\ call \in [Callers -> [at : CallStates, run : Owners \cup {NoOne}, result : Results]]
    /\ faults \in 0..MaxFaults

\* Whatever crashes, a network that exists is named by the active record, so
\* that a later stop can remove it: the record is written before the network is
\* built and cleared after it is gone.
NetworkIsRecorded == \A r \in network : record.run = r

\* A recovery never runs beside an owner that is still at work on the run, and
\* no other caller recovers at the same time.
RecoversAlone ==
    \A c \in Callers : call[c].at \in {"kill", "delete", "record", "clear"} =>
        /\ lock = c
        /\ record.run = call[c].run
        /\ pc[record.run] \in Ended \cup {"leaving"}

\* A stop that reports success, and the stopped record that later stops and
\* status calls answer from, mean that the network of that run is gone for good.
StoppedIsGone ==
    /\ stopped \in Owners => stopped \notin network
    /\ \A c \in Callers : call[c].result = "stopped" => call[c].run \notin network

\* When no thread of a run at work is about to write the groups, the record owns
\* every host process of the run that is alive, for the recovery that a crash
\* would call for.
RecordOwnsProcesses ==
    /\ record.run \in Owners
    /\ pc[record.run] \in {"running", "stopping", "releasing"}
    /\ op = [p \in Procs |-> Idle]
    => \A p \in Procs : live[p] = record.run => p \in record.groups

\* The lock has the holder that the program counters say, if any.
LockIsHeld ==
    /\ \A o \in Owners : pc[o] \in Holding => lock = o
    /\ \A c \in Callers : call[c].at \in Recovering \cup {"probing", "viewing"} => lock = c

\* What the record and the network are at each step of an owner.
OwnerFollowsRecord ==
    /\ record.run # NoOne => pc[record.run] # "idle"
    /\ record.run = NoOne => record = NoRecord
    /\ \A o \in Owners :
        /\ pc[o] = "claimed" => record = NoRecord
        /\ pc[o] \in {"deploying", "built", "running", "unwinding", "leftover",
                      "stopping", "torn", "clearing"} => record.run = o
        /\ pc[o] \in {"claimed", "deploying", "unwinding", "torn", "clearing"} =>
                network = {}

\* A run whose stop has been recorded or reported is past its last step.
Over(o) == o \notin network /\ pc[o] \in Ended \cup {"clearing", "releasing", "leaving"}

\* What each caller has established so far.
CallerFollowsRecord ==
    /\ stopped # NoOne => Over(stopped)
    /\ \A c \in Callers :
        /\ call[c].at # "idle" => call[c].run \in Owners
        /\ call[c].result = "stopped" => call[c].at = "done" /\ Over(call[c].run)
        /\ call[c].at \in {"record", "clear"} => network = {}
        /\ call[c].at = "release" => Over(call[c].run)

\* The inductive invariant: the lock, the record, the network and every process
\* agree on who may do what, at every step and after every crash.
OwnershipInv ==
    /\ TypeOK
    /\ LockIsHeld
    /\ OwnerFollowsRecord
    /\ NetworkIsRecorded
    /\ RecoversAlone
    /\ CallerFollowsRecord

\* Names are shared by all runs of a plan: a step that deletes a network
\* deletes only that of the run it stops or rolls back.
DeletesOwnNetwork ==
    [][\A r \in network \ network' :
        \/ pc[r] \in {"built", "stopping"}
        \/ \E c \in Callers : call[c].at = "delete" /\ call[c].run = r]_vars

\* A stop or status command ends though its timeout never fires: an owner that
\* is asked, at whatever moment, ends its run or itself.
CallsEnd == \A c \in Callers : call[c].at # "idle" ~> call[c].at = "done"

\* A repeated stop is idempotent: it does not report an active owner for a run
\* whose stop is complete and recorded.
RepeatedStopIdempotent ==
    [][\A c \in Callers :
        call'[c].result = "active" /\ call[c].result = "none" =>
            ~(record = NoRecord /\ stopped = call[c].run)]_vars

=============================================================================

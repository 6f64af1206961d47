-------------------------- MODULE ContinuousRuntime --------------------------
(***************************************************************************)
(* The continuous runtime (runtime/continuous.py) with its event bus       *)
(* (runtime/events.py), its supervisor and the invocation budget of the    *)
(* coordinator it calls (CoordinationRuntime in coordination/routing.py).  *)
(*                                                                         *)
(* Producers publish events; one dispatcher thread turns them into items   *)
(* on the queue of the agent that executes them; one worker thread per     *)
(* agent reserves a request slot and an invocation lease, then takes an    *)
(* item and hands it to a request thread, which runs it under the          *)
(* supervisor; a caller pauses, resumes and stops.  A stop drains or drops,*)
(* may time out while it joins threads, and may be called again.           *)
(***************************************************************************)
EXTENDS Integers, FiniteSets, SequencesExt

CONSTANTS
    Agent,
    Event,
    Source, SourceOf, SequenceOf,  \* who emits an event, and its number there
    Interval,        \* sources that are interval threads: one event at a time
    TargetsOf,       \* Event -> for each trigger it may match, in order, the
                     \*          agent that executes; twice the same one, maybe
    Filtered,        \* events a cooldown may keep from any of their triggers
    KeyOf,           \* Item -> coalescing key
    Bounded,         \* events that are ticks of bounded decisions
    DelegateOf,      \* Item -> agent its root invocation delegates to
    NoAgent,
    Overflow, QueueCapacity, Concurrency, MaxAttempts,  \* per agent
    Pausable,        \* agents that callers pause and resume
    MaxQueued,       \* max_queued_events, of the bus and of all queues
    MaxConcurrent    \* max_concurrent_invocations

OverflowPolicy == {"reject", "drop-oldest", "coalesce"}

(* An item is an event together with the trigger it matched.               *)
Item == UNION {{e} \X DOMAIN TargetsOf[e] : e \in Event}

(* _execution_agent_id: the agent whose queue the item belongs on.         *)
Executor(j) == TargetsOf[j[1]][j[2]]

BoundedTick(j) == j[1] \in Bounded

RequestCapacity == MaxQueued + MaxConcurrent

ASSUME ContinuousAssumption ==
    /\ IsFiniteSet(Agent) /\ IsFiniteSet(Event)
    /\ NoAgent \notin Agent /\ Agent \cap Item = {}
    /\ SourceOf \in [Event -> Source] /\ SequenceOf \in [Event -> Int]
    /\ TargetsOf \in [Event -> Seq(Agent)]
    /\ DelegateOf \in [Item -> Agent \cup {NoAgent}]
    /\ Overflow \in [Agent -> OverflowPolicy] /\ QueueCapacity \in [Agent -> Nat]
    /\ Concurrency \in [Agent -> Nat] /\ MaxAttempts \in [Agent -> Nat]
    /\ Pausable \subseteq Agent
    /\ MaxQueued \in Nat /\ MaxConcurrent \in Nat

VARIABLES
    states, attempts, jobs, resuming,  \* the supervisor's
    life,          \* _state
    drain,         \* _drain
    published,     \* Event -> how far its publication and dispatch got
    bus, busClosed,
    lastSequence,  \* _last_sequences
    matched,       \* items of the event being dispatched, still to enqueue
    queues,        \* Agent -> items
    workersClosed,
    workers,       \* Agent -> where its worker thread is
    requests,      \* Item -> where the thread that processes it is
    freeSlots,     \* _request_slots
    leases,        \* [holder, agent]: invocations counted by the coordinator
    boundedActive, \* _bounded_active
    trees,         \* Item -> where the invocations its request caused are
    fate,          \* Item -> what became of it
    control,       \* pause and resume calls past their state check
    stopper        \* where the thread that called stop() is

supervisorVars == <<states, attempts, jobs, resuming>>
intakeVars == <<published, bus, busClosed, lastSequence, matched>>
workVars == <<queues, workersClosed, workers, requests, freeSlots, leases, boundedActive,
              trees, fate>>
stopVars == <<life, drain, control, stopper>>
vars == <<supervisorVars, intakeVars, workVars, stopVars>>

Supervisor == INSTANCE AgentSupervisor WITH
    Job <- Item, AgentOf <- [j \in Item |-> Executor(j)], Tolerant <- {j \in Item : BoundedTick(j)}

Init ==
    /\ Supervisor!Init
    /\ life = "running"
    /\ drain = TRUE
    /\ published = [e \in Event |-> "new"]
    /\ bus = <<>>
    /\ busClosed = FALSE
    /\ lastSequence = [s \in Source |-> -1]
    /\ matched = <<>>
    /\ queues = [a \in Agent |-> <<>>]
    /\ workersClosed = FALSE
    /\ workers = [a \in Agent |-> "idle"]
    /\ requests = [j \in Item |-> "none"]
    /\ freeSlots = RequestCapacity
    /\ leases = {}
    /\ boundedActive = {}
    /\ trees = [j \in Item |-> "none"]
    /\ fate = [j \in Item |-> "none"]
    /\ control = {}
    /\ stopper = "idle"

-----------------------------------------------------------------------------
(* publish(): the state is checked, the lock released, then the bus takes  *)
(* the event if it is open and has room.                                   *)
CheckedIn(e) ==
    /\ published[e] = "new"
    /\ SourceOf[e] \in Interval =>
          \A f \in Event : SourceOf[f] = SourceOf[e] /\ SequenceOf[f] < SequenceOf[e]
              => published[f] \notin {"new", "checked"}
    /\ published' = [published EXCEPT ![e] = IF life = "running" THEN "checked" ELSE "refused"]
    /\ UNCHANGED <<supervisorVars, bus, busClosed, lastSequence, matched, workVars, stopVars>>

Put(e) ==
    /\ published[e] = "checked"
    /\ IF busClosed \/ Len(bus) >= MaxQueued
       THEN /\ published' = [published EXCEPT ![e] = "refused"]
            /\ UNCHANGED bus
       ELSE /\ published' = [published EXCEPT ![e] = "accepted"]
            /\ bus' = Append(bus, e)
    /\ UNCHANGED <<supervisorVars, busClosed, lastSequence, matched, workVars, stopVars>>

(* Fault: any stop drops events.                                         *)
DroppingAtStop == life # "running"

Dropping == ~drain

(* _matches: the items of an event in their order, without those that a    *)
(* cooldown keeps away.                                                    *)
Matches(e) ==
    LET all     == DOMAIN TargetsOf[e]
        kept    == IF e \in Filtered THEN SUBSET all ELSE {all}
        lists(k) == {t \in [1 .. Cardinality(k) -> k] :
                        \A m, n \in DOMAIN t : m < n => t[m] < t[n]}
    IN  UNION {{[n \in DOMAIN t |-> <<e, t[n]>>] : t \in lists(k)} : k \in kept}

(* The dispatcher takes the next event: dropped when the stop does not     *)
(* drain, rejected when its source already got past it, matched otherwise. *)
Receive ==
    LET e == Head(bus)
        s == SourceOf[e]
    IN  /\ ~workersClosed
        /\ matched = <<>>
        /\ bus # <<>>
        /\ bus' = Tail(bus)
        /\ IF Dropping
           THEN /\ published' = [published EXCEPT ![e] = "dropped"]
                /\ UNCHANGED <<lastSequence, matched>>
           ELSE IF SequenceOf[e] <= lastSequence[s]
           THEN /\ published' = [published EXCEPT ![e] = "out-of-order"]
                /\ UNCHANGED <<lastSequence, matched>>
           ELSE /\ published' = [published EXCEPT ![e] = "dispatched"]
                /\ lastSequence' = [lastSequence EXCEPT ![s] = SequenceOf[e]]
                /\ matched' \in Matches(e)
        /\ UNCHANGED <<supervisorVars, busClosed, workVars, stopVars>>

(* _queued: the items on all queues.                                       *)
Queued == Cardinality(UNION {{a} \X DOMAIN queues[a] : a \in Agent})

SameKey(queue, j) == SelectInSeq(queue, LAMBDA k : KeyOf[k] = KeyOf[j])

Full(a) == Len(queues[a]) >= QueueCapacity[a] \/ Queued >= MaxQueued

(* Fault: only the queue is looked at, not what is in flight.            *)
QueuedAlready(j) == BoundedTick(j) /\ queues[Executor(j)] # <<>>

(* A tick of a bounded decision while another one is queued or in flight.  *)
Superfluous(j) == BoundedTick(j) /\ (Executor(j) \in boundedActive \/ queues[Executor(j)] # <<>>)

(* _enqueue, under the condition's lock.                                   *)
Enqueue ==
    LET j     == Head(matched)
        a     == Executor(j)
        queue == queues[a]
        into(q) == queues' = [queues EXCEPT ![a] = q]
    IN  /\ matched # <<>>
        /\ matched' = Tail(matched)
        /\ IF Superfluous(j)
           THEN /\ fate' = [fate EXCEPT ![j] = "coalesced"]
                /\ UNCHANGED queues
           ELSE IF Overflow[a] = "coalesce" /\ SameKey(queue, j) # 0
           THEN /\ into([queue EXCEPT ![SameKey(queue, j)] = j])
                /\ fate' = [fate EXCEPT ![j] = "queued", ![queue[SameKey(queue, j)]] = "coalesced"]
           ELSE IF ~Full(a)
           THEN /\ into(Append(queue, j))
                /\ fate' = [fate EXCEPT ![j] = "queued"]
           ELSE IF Overflow[a] = "drop-oldest" /\ queue # <<>>
           THEN /\ into(Append(Tail(queue), j))
                /\ fate' = [fate EXCEPT ![j] = "queued", ![Head(queue)] = "dropped"]
           ELSE /\ fate' = [fate EXCEPT ![j] = "rejected"]
                /\ UNCHANGED queues
        /\ UNCHANGED <<supervisorVars, published, bus, busClosed, lastSequence, workersClosed,
                       workers, requests, freeSlots, leases, boundedActive, trees, stopVars>>

(* The bus is closed and empty: the dispatcher drops what is queued, unless*)
(* the stop drains, and tells the workers.                                 *)
EndDispatch ==
    /\ ~workersClosed
    /\ matched = <<>>
    /\ bus = <<>>
    /\ busClosed
    /\ workersClosed' = TRUE
    /\ IF drain
       THEN UNCHANGED <<queues, fate>>
       ELSE /\ queues' = [a \in Agent |-> <<>>]
            /\ fate' = [j \in Item |->
                           IF j \in ToSet(queues[Executor(j)]) THEN "dropped" ELSE fate[j]]
    /\ UNCHANGED <<supervisorVars, intakeVars, workers, requests, freeSlots, leases,
                   boundedActive, trees, stopVars>>

-----------------------------------------------------------------------------
(* _available and the leases of the coordinator.                           *)
Available(a) ==
    /\ Cardinality(leases) < MaxConcurrent
    /\ Cardinality({l \in leases : l.agent = a}) < Concurrency[a]

Lease(holder, a) == [holder |-> holder, agent |-> a]

WorkerMoves(a, place) == workers' = [workers EXCEPT ![a] = place]

(* The worker looks at its queue, under the lock.                          *)
Look(a) ==
    /\ workers[a] = "idle"
    /\ queues[a] # <<>> \/ workersClosed
    /\ WorkerMoves(a, IF ~drain /\ life # "running" THEN "parked"
                      ELSE IF queues[a] = <<>> THEN "exited" ELSE "found")
    /\ UNCHANGED <<supervisorVars, intakeVars, queues, workersClosed, requests, freeSlots,
                   leases, boundedActive, trees, fate, stopVars>>

Unpark(a) ==
    /\ workers[a] = "parked"
    /\ workersClosed
    /\ WorkerMoves(a, "exited")
    /\ UNCHANGED <<supervisorVars, intakeVars, queues, workersClosed, requests, freeSlots,
                   leases, boundedActive, trees, fate, stopVars>>

(* wait_until_running, before anything is reserved.                        *)
AwaitAgent(a) ==
    /\ workers[a] = "found"
    /\ states[a] \notin Supervisor!Waits
    /\ WorkerMoves(a, IF states[a] = "running" THEN "admitted" ELSE "refused")
    /\ UNCHANGED <<supervisorVars, intakeVars, queues, workersClosed, requests, freeSlots,
                   leases, boundedActive, trees, fate, stopVars>>

TakeSlot(a) ==
    /\ workers[a] = "admitted"
    /\ freeSlots > 0
    /\ freeSlots' = freeSlots - 1
    /\ WorkerMoves(a, "slotted")
    /\ UNCHANGED <<supervisorVars, intakeVars, queues, workersClosed, requests, leases,
                   boundedActive, trees, fate, stopVars>>

(* reserve_invocation.                                                     *)
Reserve(a) ==
    /\ workers[a] = "slotted"
    /\ Available(a)
    /\ leases' = leases \cup {Lease(a, a)}
    /\ WorkerMoves(a, "leased")
    /\ UNCHANGED <<supervisorVars, intakeVars, queues, workersClosed, requests, freeSlots,
                   boundedActive, trees, fate, stopVars>>

(* The queue is looked at again: the item may have been dropped meanwhile. *)
Submit(a) ==
    LET j == Head(queues[a])
    IN  /\ workers[a] = "leased"
        /\ WorkerMoves(a, "idle")
        /\ IF queues[a] = <<>>
           THEN /\ leases' = leases \ {Lease(a, a)}
                /\ freeSlots' = freeSlots + 1
                /\ UNCHANGED <<supervisorVars, queues, requests, boundedActive, fate>>
           ELSE /\ queues' = [queues EXCEPT ![a] = Tail(@)]
                /\ leases' = (leases \ {Lease(a, a)}) \cup {Lease(j, a)}
                /\ boundedActive' = IF BoundedTick(j) THEN boundedActive \cup {a}
                                    ELSE boundedActive
                /\ requests' = [requests EXCEPT ![j] = "submitted"]
                /\ fate' = [fate EXCEPT ![j] = "running"]
                /\ Supervisor!Execute(j)
                /\ UNCHANGED freeSlots
        /\ UNCHANGED <<intakeVars, workersClosed, trees, stopVars>>

(* The agent does not run any more: the worker processes the item itself,  *)
(* to report the failure.                                                  *)
Handle(a) ==
    LET j == Head(queues[a])
    IN  /\ workers[a] = "refused"
        /\ IF queues[a] = <<>>
           THEN /\ WorkerMoves(a, "idle")
                /\ UNCHANGED <<supervisorVars, queues, requests, fate>>
           ELSE /\ WorkerMoves(a, "handling")
                /\ queues' = [queues EXCEPT ![a] = Tail(@)]
                /\ requests' = [requests EXCEPT ![j] = "inline"]
                /\ fate' = [fate EXCEPT ![j] = "running"]
                /\ Supervisor!Execute(j)
        /\ UNCHANGED <<intakeVars, workersClosed, freeSlots, leases, boundedActive, trees,
                       stopVars>>

-----------------------------------------------------------------------------
(* A request under the supervisor.  Before it sleeps, its lease goes back. *)
Block(j) ==
    /\ Supervisor!Block(j)
    /\ leases' = {l \in leases : l.holder # j}
    /\ UNCHANGED <<intakeVars, queues, workersClosed, workers, requests, freeSlots,
                   boundedActive, trees, fate, stopVars>>

Supervised(j) ==
    /\ \/ Supervisor!Pass(j)
       \/ Supervisor!NotRunning(j)
       \/ Supervisor!Recover(j)
       \/ Supervisor!Restart(j)
    /\ UNCHANGED <<intakeVars, workVars, stopVars>>

Grows(j, tree) == trees' = [trees EXCEPT ![j] = tree]

(* Fault: a lease that was given back is taken for granted.              *)
StartRootUnbudgeted(j) ==
    /\ Supervisor!Invoke(j)
    /\ leases' = leases \cup {Lease(j, Executor(j))}
    /\ Grows(j, "root")
    /\ UNCHANGED <<intakeVars, queues, workersClosed, workers, requests, freeSlots,
                   boundedActive, fate, stopVars>>

(* coordinate(): the root invocation runs under the lease of the request,  *)
(* or takes one as soon as the budget has room.                            *)
StartRoot(j) ==
    /\ Supervisor!Invoke(j)
    /\ Lease(j, Executor(j)) \in leases \/ Available(Executor(j))
    /\ leases' = leases \cup {Lease(j, Executor(j))}
    /\ Grows(j, "root")
    /\ UNCHANGED <<intakeVars, queues, workersClosed, workers, requests, freeSlots,
                   boundedActive, fate, stopVars>>

(* Fault: the lease of the root lasts until its delegates have ended.    *)
EndRootHolding(j, result) ==
    /\ trees[j] = "root"
    /\ Grows(j, IF result = "succeeded" /\ DelegateOf[j] # NoAgent THEN "delegated"
                ELSE result)
    /\ UNCHANGED <<supervisorVars, intakeVars, queues, workersClosed, workers, requests,
                   freeSlots, leases, boundedActive, fate, stopVars>>

(* The lease of the root ends with it; only a success delegates.           *)
EndRoot(j, result) ==
    /\ trees[j] = "root"
    /\ leases' = leases \ {Lease(j, Executor(j))}
    /\ Grows(j, IF result = "succeeded" /\ DelegateOf[j] # NoAgent THEN "delegated"
                ELSE result)
    /\ UNCHANGED <<supervisorVars, intakeVars, queues, workersClosed, workers, requests,
                   freeSlots, boundedActive, fate, stopVars>>

(* The delegate is invoked by the coordinator, not by the supervisor.      *)
StartDelegate(j) ==
    LET a == DelegateOf[j]
    IN  /\ trees[j] = "delegated"
        /\ Available(a)
        /\ leases' = leases \cup {Lease(j, a)}
        /\ Grows(j, "delegate")
        /\ UNCHANGED <<supervisorVars, intakeVars, queues, workersClosed, workers, requests,
                       freeSlots, boundedActive, fate, stopVars>>

EndDelegate(j) ==
    /\ trees[j] = "delegate"
    /\ leases' = leases \ {Lease(j, DelegateOf[j])}
    /\ Grows(j, "succeeded")
    /\ UNCHANGED <<supervisorVars, intakeVars, queues, workersClosed, workers, requests,
                   freeSlots, boundedActive, fate, stopVars>>

(* The supervisor sees the result of the root, when all of it has ended.   *)
Return(j) ==
    /\ trees[j] \in {"succeeded", "failing", "raising"}
    /\ IF trees[j] = "succeeded" THEN Supervisor!Succeed(j) ELSE Supervisor!Fail(j, trees[j])
    /\ Grows(j, "none")
    /\ UNCHANGED <<intakeVars, queues, workersClosed, workers, requests, freeSlots, leases,
                   boundedActive, fate, stopVars>>

(* The outcome is counted.  A worker that processed the item itself goes   *)
(* back to its queue; a request thread gives its lease and slot back, ...  *)
Settle(j) ==
    /\ requests[j] \in {"submitted", "inline"}
    /\ jobs[j] \in {"returned", "raised"}
    /\ fate' = [fate EXCEPT ![j] = IF jobs[j] = "returned" THEN "completed" ELSE "failed"]
    /\ IF requests[j] = "inline"
       THEN /\ requests' = [requests EXCEPT ![j] = "ended"]
            /\ WorkerMoves(Executor(j), "idle")
            /\ UNCHANGED <<leases, freeSlots>>
       ELSE /\ requests' = [requests EXCEPT ![j] = "settled"]
            /\ leases' = {l \in leases : l.holder # j}
            /\ freeSlots' = freeSlots + 1
            /\ UNCHANGED workers
    /\ UNCHANGED <<supervisorVars, intakeVars, queues, workersClosed, boundedActive, trees,
                   stopVars>>

(* ... then, under the lock, stops counting as active.                     *)
EndRequest(j) ==
    /\ requests[j] = "settled"
    /\ requests' = [requests EXCEPT ![j] = "ended"]
    /\ boundedActive' = IF BoundedTick(j) THEN boundedActive \ {Executor(j)} ELSE boundedActive
    /\ UNCHANGED <<supervisorVars, intakeVars, queues, workersClosed, workers, freeSlots,
                   leases, trees, fate, stopVars>>

-----------------------------------------------------------------------------
(* pause() and resume() check the runtime's state, then act.               *)
CheckControl(operation, a) ==
    /\ control = {}
    /\ life = "running"
    /\ control' = {<<operation, a>>}
    /\ UNCHANGED <<supervisorVars, intakeVars, workVars, life, drain, stopper>>

Control(operation, a) ==
    /\ <<operation, a>> \in control
    /\ control' = {}
    /\ CASE operation = "pause" /\ states[a] = "running" -> Supervisor!Pause(a)
         [] operation = "resume" /\ states[a] = "paused"  -> Supervisor!Resume(a)
         [] OTHER -> UNCHANGED supervisorVars
    /\ UNCHANGED <<intakeVars, workVars, life, drain, stopper>>

StopperMoves(place) ==
    /\ stopper' = place
    /\ UNCHANGED <<intakeVars, workVars, control>>

(* stop(): only the first call decides whether to drain.                   *)
BeginStop(draining) ==
    /\ stopper \in {"idle", "failed"}
    /\ IF life = "running"
       THEN life' = "stopping" /\ drain' = draining
       ELSE draining = drain /\ UNCHANGED <<life, drain>>
    /\ StopperMoves("resuming")
    /\ UNCHANGED supervisorVars

ListPaused ==
    /\ stopper = "resuming"
    /\ Supervisor!ListPaused
    /\ StopperMoves("listed")
    /\ UNCHANGED <<life, drain>>

ResumeListed ==
    /\ stopper = "listed"
    /\ \/ /\ \E a \in Agent : Supervisor!ResumeListed(a)
          /\ StopperMoves("listed")
       \/ /\ Supervisor!ResumeRaises
          /\ StopperMoves("failed")
       \/ /\ resuming = {}
          /\ StopperMoves("intervals")
          /\ UNCHANGED supervisorVars
    /\ UNCHANGED <<life, drain>>

(* Fault: stop() does not wait for request threads.                      *)
JoinedWithoutRequests(place) ==
    CASE place = "intervals"  -> \A e \in Event : SourceOf[e] \in Interval
                                                  => published[e] # "checked"
      [] place = "dispatcher" -> workersClosed
      [] place = "workers"    -> \A a \in Agent : workers[a] = "exited"
      [] place = "requests"   -> TRUE
      [] OTHER -> FALSE

(* The thread waits for each group of threads in turn.                     *)
Joined(place) ==
    CASE place = "intervals"  -> \A e \in Event : SourceOf[e] \in Interval
                                                  => published[e] # "checked"
      [] place = "dispatcher" -> workersClosed
      [] place = "workers"    -> \A a \in Agent : workers[a] = "exited"
      [] place = "requests"   -> \A j \in Item : requests[j] \notin {"submitted", "settled"}
      [] OTHER -> FALSE

After == [intervals |-> "dispatcher", dispatcher |-> "workers", workers |-> "requests",
          requests |-> "supervisor"]

Join ==
    /\ Joined(stopper)
    /\ stopper' = After[stopper]
    /\ busClosed' = (busClosed \/ stopper = "intervals")
    /\ UNCHANGED <<supervisorVars, published, bus, lastSequence, matched, workVars, life,
                   drain, control>>

Timeout ==
    /\ stopper \in DOMAIN After
    /\ ~Joined(stopper)
    /\ StopperMoves("failed")
    /\ UNCHANGED <<supervisorVars, life, drain>>

StopSupervisor ==
    /\ stopper = "supervisor"
    /\ IF \E a \in Agent : states[a] # "stopped"
       THEN /\ \E a \in Agent : Supervisor!Stop(a)
            /\ StopperMoves("supervisor")
            /\ UNCHANGED life
       ELSE /\ life' = "stopped"
            /\ StopperMoves("done")
            /\ UNCHANGED supervisorVars
    /\ UNCHANGED drain

-----------------------------------------------------------------------------
Dispatcher == Receive \/ Enqueue \/ EndDispatch

Worker(a) ==
    \/ Look(a)
    \/ Unpark(a)
    \/ AwaitAgent(a)
    \/ TakeSlot(a)
    \/ Reserve(a)
    \/ Submit(a)
    \/ Handle(a)

Request(j) ==
    \/ Block(j)
    \/ Supervised(j)
    \/ StartRoot(j)
    \/ \E result \in {"succeeded", "failing", "raising"} : EndRoot(j, result)
    \/ StartDelegate(j)
    \/ EndDelegate(j)
    \/ Return(j)
    \/ Settle(j)
    \/ EndRequest(j)

ContinueStop == ListPaused \/ ResumeListed \/ Join \/ Timeout \/ StopSupervisor

Next ==
    \/ \E e \in Event : CheckedIn(e) \/ Put(e)
    \/ Dispatcher
    \/ \E a \in Agent : Worker(a)
    \/ \E j \in Item : Request(j)
    \/ \E operation \in {"pause", "resume"}, a \in Pausable :
           CheckControl(operation, a) \/ Control(operation, a)
    \/ \E draining \in BOOLEAN : BeginStop(draining)
    \/ ContinueStop

Spec == Init /\ [][Next]_vars

(* Threads run, invocations end (they have timeouts), a call that timed    *)
(* out is made again.  Nobody has to publish, pause, resume or stop.       *)
FairSpec ==
    /\ Spec
    /\ \A e \in Event : WF_vars(Put(e))
    /\ WF_vars(Dispatcher)
    /\ \A a \in Agent : WF_vars(Worker(a))
    /\ \A j \in Item : WF_vars(Request(j))
    /\ \A a \in Agent, operation \in {"pause", "resume"} : WF_vars(Control(operation, a))
    /\ WF_vars(ContinueStop)
    /\ WF_vars(stopper = "failed" /\ \E draining \in BOOLEAN : BeginStop(draining))

-----------------------------------------------------------------------------
(* Types.                                                                  *)
IntakeTypeOK ==
    /\ published \in [Event -> {"new", "checked", "refused", "accepted", "dropped",
                                "out-of-order", "dispatched"}]
    /\ bus \in Seq(Event)
    /\ busClosed \in BOOLEAN
    /\ lastSequence \in [Source -> Int]
    /\ matched \in Seq(Item)

WorkTypeOK ==
    /\ queues \in [Agent -> Seq(Item)]
    /\ workersClosed \in BOOLEAN
    /\ workers \in [Agent -> {"idle", "found", "admitted", "slotted", "leased", "refused",
                              "handling", "parked", "exited"}]
    /\ requests \in [Item -> {"none", "submitted", "inline", "settled", "ended"}]
    /\ freeSlots \in Nat
    /\ leases \subseteq [holder : Agent \cup Item, agent : Agent]
    /\ boundedActive \subseteq Agent
    /\ trees \in [Item -> {"none", "root", "delegated", "delegate", "succeeded", "failing",
                           "raising"}]
    /\ fate \in [Item -> {"none", "queued", "running", "completed", "failed", "coalesced",
                          "dropped", "rejected"}]

StopTypeOK ==
    /\ life \in {"running", "stopping", "stopped"}
    /\ drain \in BOOLEAN
    /\ control \subseteq {"pause", "resume"} \X Agent
    /\ stopper \in {"idle", "resuming", "listed", "intervals", "dispatcher", "workers",
                    "requests", "supervisor", "done", "failed"}

TypeOK == Supervisor!TypeOK /\ IntakeTypeOK /\ WorkTypeOK /\ StopTypeOK

(* When stop() has returned everything is at rest, in spite of timeouts,   *)
(* publications and pauses that raced it: no event or item is left behind, *)
(* nothing executes, every lease and request slot was given back.          *)
StoppedIsQuiet ==
    life = "stopped" =>
        /\ bus = <<>> /\ matched = <<>>
        /\ \A e \in Event : published[e] # "accepted"
        /\ \A j \in Item : fate[j] \notin {"queued", "running"} /\ Supervisor!Ended(j)
        /\ leases = {} /\ freeSlots = RequestCapacity /\ boundedActive = {}
        /\ \A a \in Agent : states[a] = "stopped" /\ workers[a] = "exited"

(* A draining stop loses nothing it accepted: an item is dropped only for  *)
(* a younger one of a full queue.                                          *)
DrainDropsNothing ==
    drain =>
        /\ \A e \in Event : published[e] # "dropped"
        /\ \A j \in Item : fate[j] = "dropped" => Overflow[Executor(j)] = "drop-oldest"

Executing(a) ==
    Cardinality({j \in Item : trees[j] = "root" /\ Executor(j) = a})
        + Cardinality({j \in Item : trees[j] = "delegate" /\ DelegateOf[j] = a})

(* The limits of the plan hold whatever overlaps: of queued items, of      *)
(* invocations that execute, and of requests, whose slots neither leak nor *)
(* get spent twice.                                                        *)
WithinBudget ==
    /\ Len(bus) <= MaxQueued /\ Queued <= MaxQueued
    /\ \A a \in Agent : Len(queues[a]) <= QueueCapacity[a]
    /\ freeSlots + Cardinality({a \in Agent : workers[a] \in {"slotted", "leased"}})
                 + Cardinality({j \in Item : requests[j] = "submitted"}) = RequestCapacity
    /\ \A a \in Agent : Executing(a) <= Concurrency[a]
    /\ Cardinality({j \in Item : trees[j] \in {"root", "delegate"}}) <= MaxConcurrent

(* docs/bounded-decision.md: while a bounded decision is queued or in      *)
(* flight, ticks are dropped rather than queued to catch up.  (Not counted *)
(* is a tick that a worker takes only to report that its agent failed.)    *)
OneBoundedTick ==
    \A a \in Agent :
        Cardinality({j \in Item : /\ BoundedTick(j) /\ Executor(j) = a
                                 /\ fate[j] \in {"queued", "running"}
                                 /\ requests[j] # "inline"}) <= 1

(* A stop that has begun, and is repeated when it timed out, ends: paused  *)
(* agents, full budgets and pauses that race it notwithstanding.           *)
StopEnds == life = "stopping" ~> life = "stopped"

(* pause() "Prevent new invocations from starting for one running agent"   *)
(* (supervision.py:75): no delegated invocation of a paused agent starts.  *)
PauseCoversDelegates ==
    [][\A j \in Item : trees[j] = "delegated" /\ trees'[j] = "delegate"
          => states[DelegateOf[j]] # "paused"]_vars

-----------------------------------------------------------------------------
(* What the proofs need besides: the inductive invariant.                  *)

(* Every accepted event is on the bus once, every matched item is a new    *)
(* one of a dispatched event.                                              *)
EventsInPlace ==
    /\ IsInjective(bus) /\ ToSet(bus) = {e \in Event : published[e] = "accepted"}
    /\ IsInjective(matched) /\ \A j \in ToSet(matched) : fate[j] = "none"
    /\ \A j \in Item : fate[j] # "none" \/ j \in ToSet(matched)
                          => published[j[1]] = "dispatched"

(* Every queued item is on the queue of its executor once, and what became *)
(* of an item agrees with where its thread and its job are.                *)
ItemsInPlace ==
    /\ \A a \in Agent :
        /\ IsInjective(queues[a])
        /\ ToSet(queues[a]) = {j \in Item : Executor(j) = a /\ fate[j] = "queued"}
    /\ \A j \in Item :
        CASE fate[j] = "running" ->
                requests[j] \in {"submitted", "inline"} /\ jobs[j] # "idle"
          [] fate[j] \in {"completed", "failed"} ->
                requests[j] \in {"settled", "ended"} /\ jobs[j] \in {"returned", "raised"}
          [] OTHER -> requests[j] = "none" /\ jobs[j] = "idle"

(* A worker that processes an item itself processes no other.              *)
InlineAlone ==
    /\ \A j \in Item : requests[j] = "inline" => workers[Executor(j)] = "handling"
    /\ \A i, j \in Item :
        requests[i] = "inline" /\ requests[j] = "inline" /\ Executor(i) = Executor(j) => i = j

(* Who has a lease needs it, who needs one has it.                         *)
LeasesHeld ==
    /\ \A j \in Item :
        /\ trees[j] # "none" => jobs[j] = "invoking"
        /\ trees[j] \in {"delegated", "delegate"} => DelegateOf[j] # NoAgent
        /\ trees[j] = "root" => Lease(j, Executor(j)) \in leases
        /\ trees[j] = "delegate" => Lease(j, DelegateOf[j]) \in leases
    /\ \A a \in Agent : workers[a] = "leased" => Lease(a, a) \in leases
    /\ \A l \in leases :
        \/ l.holder \in Agent /\ l.agent = l.holder /\ workers[l.holder] = "leased"
        \/ /\ l.holder \in Item
           /\ \/ requests[l.holder] = "submitted"
              \/ trees[l.holder] = "root" /\ l.agent = Executor(l.holder)
              \/ trees[l.holder] = "delegate" /\ l.agent = DelegateOf[l.holder]

LeasesWithinBudget ==
    /\ IsFiniteSet(leases) /\ Cardinality(leases) <= MaxConcurrent
    /\ \A a \in Agent : Cardinality({l \in leases : l.agent = a}) <= Concurrency[a]

(* No queue is longer than it may be, no request slot is lost or spent     *)
(* twice.                                                                  *)
QueuesWithinBudget ==
    /\ Len(bus) <= MaxQueued /\ Queued <= MaxQueued
    /\ \A a \in Agent : Len(queues[a]) <= QueueCapacity[a]

SlotsAddUp ==
    freeSlots + Cardinality({a \in Agent : workers[a] \in {"slotted", "leased"}})
              + Cardinality({j \in Item : requests[j] = "submitted"}) = RequestCapacity

(* At most one tick of a bounded decision is queued or with a request      *)
(* thread, and an agent counts as active exactly while one is with it.     *)
Processing(j) == BoundedTick(j) /\ requests[j] \in {"submitted", "settled"}

TicksInPlace ==
    /\ boundedActive = {a \in Agent : \E j \in Item : Processing(j) /\ Executor(j) = a}
    /\ \A i, j \in Item :
        /\ BoundedTick(i) /\ BoundedTick(j) /\ Executor(i) = Executor(j)
        /\ Processing(i) \/ fate[i] = "queued"
        /\ Processing(j) \/ fate[j] = "queued"
        => i = j

(* How far a stop got, and what it may rely on from then on, whether it    *)
(* goes on, times out or is called again.                                  *)
StopInOrder ==
    /\ life = "running" <=> stopper = "idle"
    /\ life = "stopped" <=> stopper = "done"
    /\ life = "running" => drain /\ ~busClosed
    /\ workersClosed => busClosed /\ bus = <<>> /\ matched = <<>>
    /\ workersClosed /\ ~drain => \A a \in Agent : queues[a] = <<>>
    /\ \A a \in Agent : workers[a] = "parked" => ~drain
    /\ \A a \in Agent : workers[a] = "exited" => workersClosed /\ queues[a] = <<>>
    /\ stopper \in {"dispatcher", "workers", "requests", "supervisor", "done"} => busClosed
    /\ stopper \in {"workers", "requests", "supervisor", "done"} => workersClosed
    /\ stopper \in {"requests", "supervisor", "done"} =>
          \A a \in Agent : workers[a] = "exited"
    /\ stopper \in {"supervisor", "done"} =>
          \A j \in Item : requests[j] \notin {"submitted", "settled"}
    /\ stopper = "done" => \A a \in Agent : states[a] = "stopped"

ContinuousInv ==
    /\ TypeOK
    /\ EventsInPlace /\ ItemsInPlace /\ InlineAlone
    /\ LeasesHeld /\ LeasesWithinBudget /\ QueuesWithinBudget /\ SlotsAddUp
    /\ TicksInPlace /\ DrainDropsNothing /\ StopInOrder
=============================================================================

--------------------------- MODULE AgentSupervisor ---------------------------
(***************************************************************************)
(* Supervised agent states and the restart policy (runtime/supervision.py).*)
(*                                                                         *)
(* execute() runs one job (an invocation requested of an agent) in the     *)
(* caller's thread: it waits until the agent runs, invokes, and after a    *)
(* failure restarts the agent and tries again while the restart budget     *)
(* lasts.  The condition's lock covers each state change, never the        *)
(* invocation or the backoff, so jobs of one agent, pause(), resume() and  *)
(* stop() interleave between the steps below.                              *)
(***************************************************************************)
EXTENDS Integers, FiniteSets

CONSTANTS
    Agent,
    Job,           \* invocations requested of agents
    AgentOf,       \* Job -> Agent
    MaxAttempts,   \* Agent -> restarts in a row, 0 when the policy is "never"
    Tolerant       \* jobs that return a failed result without a restart

ASSUME SupervisorAssumption ==
    /\ AgentOf \in [Job -> Agent]
    /\ MaxAttempts \in [Agent -> Nat]
    /\ Tolerant \subseteq Job

VARIABLES
    states,    \* lifecycle state of each agent
    attempts,  \* failures since the last success
    jobs,      \* where the thread of each job is in execute()
    resuming   \* agents resume_paused() has yet to resume

vars == <<states, attempts, jobs, resuming>>

AgentState ==
    {"starting", "running", "paused", "restarting", "failed", "stopping", "stopped"}

Waits == {"starting", "paused", "restarting"}

(* start() has brought every agent up before workers ask for any.          *)
Init ==
    /\ states = [a \in Agent |-> "running"]
    /\ attempts = [a \in Agent |-> 0]
    /\ jobs = [j \in Job |-> "idle"]
    /\ resuming = {}

-----------------------------------------------------------------------------
State(j) == states[AgentOf[j]]

SetState(a, state) == states' = [states EXCEPT ![a] = state]

Moves(j, place) == jobs' = [jobs EXCEPT ![j] = place]

Ended(j) == jobs[j] \in {"idle", "returned", "raised"}

Execute(j) ==
    /\ jobs[j] = "idle"
    /\ Moves(j, "entering")
    /\ UNCHANGED <<states, attempts, resuming>>

(* wait_until_running: the thread goes to sleep, calling before_wait, ...  *)
Block(j) ==
    /\ jobs[j] = "entering"
    /\ State(j) \in Waits
    /\ Moves(j, "blocked")
    /\ UNCHANGED <<states, attempts, resuming>>

(* ... and goes on when the agent runs; the lock is released before the    *)
(* invocation starts.                                                      *)
Pass(j) ==
    /\ jobs[j] \in {"entering", "blocked"}
    /\ State(j) = "running"
    /\ Moves(j, "passed")
    /\ UNCHANGED <<states, attempts, resuming>>

NotRunning(j) ==
    /\ jobs[j] \in {"entering", "blocked"}
    /\ State(j) \notin Waits \cup {"running"}
    /\ Moves(j, "raised")
    /\ UNCHANGED <<states, attempts, resuming>>

Invoke(j) ==
    /\ jobs[j] = "passed"
    /\ Moves(j, "invoking")
    /\ UNCHANGED <<states, attempts, resuming>>

(* Any result but a failure clears the count, if the agent still runs.     *)
Succeed(j) ==
    /\ jobs[j] = "invoking"
    /\ Moves(j, "returned")
    /\ attempts' = IF State(j) = "running"
                   THEN [attempts EXCEPT ![AgentOf[j]] = 0] ELSE attempts
    /\ UNCHANGED <<states, resuming>>

(* A failed result, or an exception.                                       *)
Fail(j, place) ==
    /\ jobs[j] = "invoking"
    /\ place \in {"failing", "raising"}
    /\ Moves(j, IF place = "failing" /\ j \in Tolerant THEN "returned" ELSE place)
    /\ UNCHANGED <<states, attempts, resuming>>

GiveUp(j) == Moves(j, IF jobs[j] = "failing" THEN "returned" ELSE "raised")

(* Fault: a second job does not wait for the restart of the first.       *)
RecoverAtOnce(j) ==
    LET a == AgentOf[j]
    IN  /\ jobs[j] \in {"failing", "raising"}
        /\ IF states[a] \notin {"running", "restarting"}
           THEN GiveUp(j) /\ UNCHANGED <<states, attempts>>
           ELSE /\ attempts' = [attempts EXCEPT ![a] = @ + 1]
                /\ IF attempts[a] + 1 <= MaxAttempts[a]
                   THEN SetState(a, "restarting") /\ Moves(j, "backoff")
                   ELSE SetState(a, "failed") /\ GiveUp(j)
        /\ UNCHANGED resuming

(* Fault: the budget is off by one.                                      *)
RecoverOnceMore(j) ==
    LET a == AgentOf[j]
    IN  /\ jobs[j] \in {"failing", "raising"}
        /\ states[a] # "restarting"
        /\ IF states[a] # "running"
           THEN GiveUp(j) /\ UNCHANGED <<states, attempts>>
           ELSE /\ attempts' = [attempts EXCEPT ![a] = @ + 1]
                /\ IF attempts[a] <= MaxAttempts[a]
                   THEN SetState(a, "restarting") /\ Moves(j, "backoff")
                   ELSE SetState(a, "failed") /\ GiveUp(j)
        /\ UNCHANGED resuming

(* _recover, which waits as long as another job is restarting the agent.   *)
Recover(j) ==
    LET a == AgentOf[j]
    IN  /\ jobs[j] \in {"failing", "raising"}
        /\ states[a] # "restarting"
        /\ IF states[a] # "running"
           THEN GiveUp(j) /\ UNCHANGED <<states, attempts>>
           ELSE /\ attempts' = [attempts EXCEPT ![a] = @ + 1]
                /\ IF attempts[a] + 1 <= MaxAttempts[a]
                   THEN SetState(a, "restarting") /\ Moves(j, "backoff")
                   ELSE SetState(a, "failed") /\ GiveUp(j)
        /\ UNCHANGED resuming

(* The backoff is over: the agent runs, whatever its state was.            *)
Restart(j) ==
    /\ jobs[j] = "backoff"
    /\ SetState(AgentOf[j], "running")
    /\ Moves(j, "entering")
    /\ UNCHANGED <<attempts, resuming>>

-----------------------------------------------------------------------------
(* Fault: the state is not looked at.                                    *)
PauseAnyway(a) ==
    /\ states[a] # "stopped"
    /\ SetState(a, "paused")
    /\ UNCHANGED <<attempts, jobs, resuming>>

Pause(a) ==
    /\ states[a] = "running"
    /\ SetState(a, "paused")
    /\ UNCHANGED <<attempts, jobs, resuming>>

Resume(a) ==
    /\ states[a] = "paused"
    /\ SetState(a, "running")
    /\ UNCHANGED <<attempts, jobs, resuming>>

(* resume_paused: the paused agents are listed, then resumed one by one.   *)
ListPaused ==
    /\ resuming' = {a \in Agent : states[a] = "paused"}
    /\ UNCHANGED <<states, attempts, jobs>>

ResumeListed(a) ==
    /\ a \in resuming
    /\ resuming' = resuming \ {a}
    /\ states[a] = "paused"
    /\ SetState(a, "running")
    /\ UNCHANGED <<attempts, jobs>>

(* An agent of the list that somebody resumed meanwhile ends it early.     *)
ResumeRaises ==
    /\ \E a \in resuming : states[a] # "paused"
    /\ resuming' = {}
    /\ UNCHANGED <<states, attempts, jobs>>

(* stop(): stopping, then stopped.                                         *)
Stop(a) ==
    /\ states[a] # "stopped"
    /\ SetState(a, IF states[a] = "stopping" THEN "stopped" ELSE "stopping")
    /\ UNCHANGED <<attempts, jobs, resuming>>

JobStep(j) ==
    \/ Block(j)
    \/ Pass(j)
    \/ NotRunning(j)
    \/ Invoke(j)
    \/ Succeed(j)
    \/ \E place \in {"failing", "raising"} : Fail(j, place)
    \/ Recover(j)
    \/ Restart(j)

(* The runtime that owns the supervisor stops it when nothing executes and *)
(* lets nothing execute afterwards (ContinuousAgentRuntime.stop).          *)
Next ==
    \/ \E j \in Job : Execute(j) \/ JobStep(j)
    \/ \E a \in Agent : Pause(a) \/ Resume(a) \/ ResumeListed(a)
    \/ \E a \in Agent : (\A j \in Job : Ended(j)) /\ Stop(a)
    \/ ListPaused
    \/ ResumeRaises

Spec == Init /\ [][Next]_vars

-----------------------------------------------------------------------------
TypeOK ==
    /\ states \in [Agent -> AgentState]
    /\ attempts \in [Agent -> Nat]
    /\ jobs \in [Job -> {"idle", "entering", "blocked", "passed", "invoking", "failing",
                         "raising", "backoff", "returned", "raised"}]
    /\ resuming \subseteq Agent

(* One job at a time restarts an agent, and an agent that is restarting    *)
(* has a job that will bring it back: nobody waits for a restart that      *)
(* nobody is making.                                                       *)
RestartOwned ==
    \A a \in Agent :
        Cardinality({j \in Job : AgentOf[j] = a /\ jobs[j] = "backoff"})
            = IF states[a] = "restarting" THEN 1 ELSE 0

(* The restart budget: an agent that runs, or will run again, has not used *)
(* it up; one that used it up has failed for good.                         *)
RestartBudget ==
    \A a \in Agent :
        /\ states[a] \in {"running", "paused", "restarting"} => attempts[a] <= MaxAttempts[a]
        /\ states[a] = "failed" => attempts[a] = MaxAttempts[a] + 1

(* An agent that failed or stopped never runs again, in spite of the       *)
(* unconditional transition at the end of a backoff.                       *)
NoResurrection ==
    [][\A a \in Agent :
          states[a] \in {"failed", "stopping", "stopped"}
              => states'[a] \in {"failed", "stopping", "stopped"}]_vars

-----------------------------------------------------------------------------
(* What the proofs need besides: who is in a backoff, without counting.    *)
OneRestarter ==
    /\ \A j \in Job : jobs[j] = "backoff" => State(j) = "restarting"
    /\ \A i, j \in Job :
          jobs[i] = "backoff" /\ jobs[j] = "backoff" /\ AgentOf[i] = AgentOf[j] => i = j
    /\ \A a \in Agent :
          states[a] = "restarting" => \E j \in Job : AgentOf[j] = a /\ jobs[j] = "backoff"

IInv == TypeOK /\ RestartBudget /\ OneRestarter
=============================================================================

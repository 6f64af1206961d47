------------------------ MODULE AgentSupervisorProofs ------------------------
(***************************************************************************)
(* Theorems about AgentSupervisor for any agents, jobs and restart budgets.*)
(***************************************************************************)
EXTENDS AgentSupervisor, FiniteSetTheorems, TLAPS

-----------------------------------------------------------------------------
LEMMA InitInvariant == Init => IInv
<1> SUFFICES ASSUME Init PROVE IInv
  OBVIOUS
<1>1. TypeOK
  BY DEF Init, TypeOK, AgentState
<1>2. RestartBudget
  BY SupervisorAssumption DEF Init, RestartBudget
<1>3. OneRestarter
  BY DEF Init, OneRestarter
<1> QED BY <1>1, <1>2, <1>3 DEF IInv

(* A job that moves anywhere but in or out of a backoff, without touching  *)
(* the agents, keeps the invariant.                                        *)
LEMMA MovePreserves ==
    ASSUME IInv, NEW j \in Job, NEW place, Moves(j, place),
           jobs[j] # "backoff", place # "backoff",
           place \in {"entering", "blocked", "passed", "invoking", "failing", "raising",
                      "returned", "raised"},
           UNCHANGED <<states, attempts, resuming>>
    PROVE  IInv'
<1>1. \A i \in Job : jobs'[i] = "backoff" <=> jobs[i] = "backoff"
  BY DEF IInv, TypeOK, Moves
<1>2. TypeOK'
  BY DEF IInv, TypeOK, Moves
<1>3. RestartBudget'
  BY DEF IInv, RestartBudget
<1>4. OneRestarter'
  BY <1>1 DEF IInv, OneRestarter, State
<1> QED BY <1>2, <1>3, <1>4 DEF IInv

LEMMA SucceedPreserves ==
    ASSUME IInv, NEW j \in Job, Succeed(j)
    PROVE  IInv'
<1> USE SupervisorAssumption
<1>1. \A i \in Job : jobs'[i] = "backoff" <=> jobs[i] = "backoff"
  BY DEF IInv, TypeOK, Succeed, Moves
<1>2. \A a \in Agent : attempts'[a] \in {attempts[a], 0}
                       /\ (states[a] # "running" => attempts'[a] = attempts[a])
  BY DEF IInv, TypeOK, Succeed, State
<1>3. TypeOK'
  BY DEF IInv, TypeOK, Succeed, Moves
<1>4. RestartBudget'
  BY <1>2 DEF IInv, TypeOK, RestartBudget, Succeed
<1>5. OneRestarter'
  BY <1>1 DEF IInv, OneRestarter, State, Succeed
<1> QED BY <1>3, <1>4, <1>5 DEF IInv

LEMMA RecoverPreserves ==
    ASSUME IInv, NEW j \in Job, Recover(j)
    PROVE  IInv'
<1> USE SupervisorAssumption
<1> DEFINE a == AgentOf[j]
<1>1. a \in Agent /\ jobs[j] # "backoff"
  BY DEF Recover
<1>2. CASE states[a] # "running"
  <2>1. PICK place \in {"returned", "raised"} :
           Moves(j, place) /\ UNCHANGED <<states, attempts, resuming>>
    BY <1>2 DEF Recover, GiveUp
  <2> QED BY <1>1, <2>1, MovePreserves
<1>3. CASE states[a] = "running" /\ attempts[a] + 1 <= MaxAttempts[a]
  <2>1. /\ states' = [states EXCEPT ![a] = "restarting"]
        /\ attempts' = [attempts EXCEPT ![a] = @ + 1]
        /\ jobs' = [jobs EXCEPT ![j] = "backoff"]
        /\ resuming' = resuming
    BY <1>3 DEF Recover, SetState, Moves
  <2>2. TypeOK'
    BY <1>1, <2>1 DEF IInv, TypeOK, AgentState
  <2>3. RestartBudget'
    BY <1>1, <1>3, <2>1 DEF IInv, TypeOK, RestartBudget
  <2>4. \A i \in Job : jobs[i] = "backoff" => AgentOf[i] # a
    BY <1>3 DEF IInv, OneRestarter, State
  <2>5. \A i \in Job : jobs'[i] = "backoff" <=> i = j \/ jobs[i] = "backoff"
    BY <2>1 DEF IInv, TypeOK
  <2>6. \A b \in Agent : states'[b] = IF b = a THEN "restarting" ELSE states[b]
    BY <2>1 DEF IInv, TypeOK
  <2>7. OneRestarter'
    BY <1>1, <2>4, <2>5, <2>6 DEF IInv, OneRestarter, State
  <2> QED BY <2>2, <2>3, <2>7 DEF IInv
<1>4. CASE states[a] = "running" /\ ~(attempts[a] + 1 <= MaxAttempts[a])
  <2>1. PICK place \in {"returned", "raised"} :
           /\ states' = [states EXCEPT ![a] = "failed"]
           /\ attempts' = [attempts EXCEPT ![a] = @ + 1]
           /\ jobs' = [jobs EXCEPT ![j] = place]
           /\ resuming' = resuming
    BY <1>4 DEF Recover, GiveUp, SetState, Moves
  <2>2. TypeOK'
    BY <1>1, <2>1 DEF IInv, TypeOK, AgentState
  <2>3. attempts[a] = MaxAttempts[a]
    BY <1>1, <1>4 DEF IInv, TypeOK, RestartBudget
  <2>4. RestartBudget'
    BY <1>1, <2>1, <2>3 DEF IInv, TypeOK, RestartBudget
  <2>5. \A i \in Job : jobs'[i] = "backoff" <=> jobs[i] = "backoff"
    BY <1>1, <2>1 DEF IInv, TypeOK
  <2>6. \A b \in Agent : states'[b] = "restarting" <=> states[b] = "restarting"
    BY <1>1, <1>4, <2>1 DEF IInv, TypeOK
  <2>7. OneRestarter'
    BY <2>5, <2>6 DEF IInv, OneRestarter, State
  <2> QED BY <2>2, <2>4, <2>7 DEF IInv
<1> QED BY <1>2, <1>3, <1>4

LEMMA RestartPreserves ==
    ASSUME IInv, NEW j \in Job, Restart(j)
    PROVE  IInv'
<1> USE SupervisorAssumption
<1> DEFINE a == AgentOf[j]
<1>1. a \in Agent /\ jobs[j] = "backoff" /\ states[a] = "restarting"
  BY DEF Restart, IInv, OneRestarter, State
<1>2. /\ states' = [states EXCEPT ![a] = "running"]
      /\ jobs' = [jobs EXCEPT ![j] = "entering"]
      /\ UNCHANGED <<attempts, resuming>>
  BY DEF Restart, SetState, Moves
<1>3. TypeOK'
  BY <1>1, <1>2 DEF IInv, TypeOK, AgentState
<1>4. RestartBudget'
  BY <1>1, <1>2 DEF IInv, TypeOK, RestartBudget
<1>5. \A i \in Job : jobs'[i] = "backoff" <=> i # j /\ jobs[i] = "backoff"
  BY <1>2 DEF IInv, TypeOK
<1>6. \A b \in Agent : states'[b] = IF b = a THEN "running" ELSE states[b]
  BY <1>2 DEF IInv, TypeOK
<1>7. \A i \in Job : jobs[i] = "backoff" /\ i # j => AgentOf[i] # a
  BY <1>1 DEF IInv, OneRestarter
<1>8. OneRestarter'
  BY <1>1, <1>5, <1>6, <1>7 DEF IInv, OneRestarter, State
<1> QED BY <1>3, <1>4, <1>8 DEF IInv

(* An agent that is not restarting goes to a state that is not either, and *)
(* does not leave "failed" for a state its restart budget speaks about.    *)
LEMMA ControlPreserves ==
    ASSUME IInv, NEW a \in Agent, NEW state, SetState(a, state),
           states[a] # "restarting",
           \/ state \in {"running", "paused"} /\ states[a] \in {"running", "paused"}
           \/ state \in {"stopping", "stopped"},
           resuming' \subseteq Agent,
           UNCHANGED <<attempts, jobs>>
    PROVE  IInv'
<1>1. TypeOK'
  BY DEF IInv, TypeOK, AgentState, SetState
<1>2. RestartBudget'
  BY DEF IInv, TypeOK, RestartBudget, SetState
<1>3. \A b \in Agent : states'[b] = "restarting" <=> states[b] = "restarting"
  BY DEF IInv, TypeOK, SetState
<1>4. OneRestarter'
  BY <1>3, SupervisorAssumption DEF IInv, OneRestarter, State
<1> QED BY <1>1, <1>2, <1>4 DEF IInv

LEMMA ListPreserves ==
    ASSUME IInv, resuming' \subseteq Agent, UNCHANGED <<states, attempts, jobs>>
    PROVE  IInv'
BY DEF IInv, TypeOK, RestartBudget, OneRestarter, State

LEMMA NextPreserves == IInv /\ [Next]_vars => IInv'
<1> SUFFICES ASSUME IInv, [Next]_vars PROVE IInv'
  OBVIOUS
<1>1. CASE UNCHANGED vars
  BY <1>1 DEF vars, IInv, TypeOK, RestartBudget, OneRestarter, State
<1>2. ASSUME NEW j \in Job, Execute(j) PROVE IInv'
  BY <1>2, MovePreserves DEF Execute
<1>3. ASSUME NEW j \in Job, JobStep(j) PROVE IInv'
  <2>1. CASE Block(j)
    BY <2>1, MovePreserves DEF Block
  <2>2. CASE Pass(j)
    BY <2>2, MovePreserves DEF Pass
  <2>3. CASE NotRunning(j)
    BY <2>3, MovePreserves DEF NotRunning
  <2>4. CASE Invoke(j)
    BY <2>4, MovePreserves DEF Invoke
  <2>5. ASSUME NEW place \in {"failing", "raising"}, Fail(j, place) PROVE IInv'
    BY <2>5, MovePreserves DEF Fail
  <2> QED BY <1>3, <2>1, <2>2, <2>3, <2>4, <2>5, SucceedPreserves, RecoverPreserves,
             RestartPreserves DEF JobStep
<1>4. ASSUME NEW a \in Agent, Pause(a) PROVE IInv'
  BY <1>4, ControlPreserves DEF Pause, IInv, TypeOK
<1>5. ASSUME NEW a \in Agent, Resume(a) PROVE IInv'
  BY <1>5, ControlPreserves DEF Resume, IInv, TypeOK
<1>6. ASSUME NEW a \in Agent, ResumeListed(a) PROVE IInv'
  BY <1>6, ControlPreserves DEF ResumeListed, IInv, TypeOK
<1>7. ASSUME NEW a \in Agent, \A j \in Job : Ended(j), Stop(a) PROVE IInv'
  <2>1. states[a] # "restarting"
    BY <1>7 DEF IInv, OneRestarter, Ended
  <2> QED BY <1>7, <2>1, ControlPreserves DEF Stop, IInv, TypeOK
<1>8. CASE ListPaused
  BY <1>8, ListPreserves DEF ListPaused
<1>9. CASE ResumeRaises
  BY <1>9, ListPreserves DEF ResumeRaises
<1> QED BY <1>1, <1>2, <1>3, <1>4, <1>5, <1>6, <1>7, <1>8, <1>9 DEF Next

-----------------------------------------------------------------------------
(* The inductive invariant of the supervisor.                              *)
THEOREM SupervisorInvariant == Spec => []IInv
BY InitInvariant, NextPreserves, PTL DEF Spec

(* The restart budget holds for every agent and any number of jobs that    *)
(* fail together.                                                          *)
THEOREM BudgetRespected == Spec => []RestartBudget
<1>1. IInv => RestartBudget
  BY DEF IInv
<1> QED BY <1>1, SupervisorInvariant, PTL

(* Exactly one job restarts an agent that is restarting, none any other.   *)
THEOREM RestartsOwned == Spec => []RestartOwned
<1>1. ASSUME IInv PROVE RestartOwned
  <2> SUFFICES ASSUME NEW a \in Agent
               PROVE  Cardinality({j \in Job : AgentOf[j] = a /\ jobs[j] = "backoff"})
                         = IF states[a] = "restarting" THEN 1 ELSE 0
    BY DEF RestartOwned
  <2> DEFINE S == {j \in Job : AgentOf[j] = a /\ jobs[j] = "backoff"}
  <2>1. CASE states[a] = "restarting"
    <3>1. PICK j \in Job : AgentOf[j] = a /\ jobs[j] = "backoff"
      BY <1>1, <2>1 DEF IInv, OneRestarter
    <3>2. S = {j}
      BY <1>1, <3>1 DEF IInv, OneRestarter
    <3>3. Cardinality({j}) = 1
      BY FS_Singleton
    <3> QED BY <2>1, <3>2, <3>3
  <2>2. CASE states[a] # "restarting"
    <3>1. S = {}
      BY <1>1, <2>2 DEF IInv, OneRestarter, State
    <3>2. Cardinality({}) = 0
      BY FS_EmptySet
    <3> QED BY <2>2, <3>1, <3>2
  <2> QED BY <2>1, <2>2
<1> QED BY <1>1, SupervisorInvariant, PTL

(* No step brings back an agent that failed or was stopped: in particular  *)
(* not the end of a backoff, which does not look at the state.             *)
THEOREM FailedStaysFailed == Spec => NoResurrection
<1> DEFINE Down == {"failed", "stopping", "stopped"}
<1>1. ASSUME IInv, [Next]_vars, NEW a \in Agent, states[a] \in Down
      PROVE  states'[a] \in Down
  <2>1. ASSUME NEW b \in Agent, NEW state, SetState(b, state),
               b = a => state \in Down
        PROVE  states'[a] \in Down
    BY <1>1, <2>1 DEF IInv, TypeOK, SetState
  <2>2. CASE UNCHANGED states
    BY <1>1, <2>2
  <2>3. ASSUME NEW j \in Job, Execute(j) \/ JobStep(j) PROVE states'[a] \in Down
    <3>1. AgentOf[j] \in Agent
      BY SupervisorAssumption
    <3>2. CASE Recover(j)
      BY <1>1, <2>1, <2>2, <3>1, <3>2 DEF Recover
    <3>3. CASE Restart(j)
      <4>1. State(j) = "restarting"
        BY <1>1, <3>3 DEF Restart, IInv, OneRestarter
      <4> QED BY <1>1, <2>1, <3>1, <3>3, <4>1 DEF Restart, State
    <3> QED BY <2>2, <2>3, <3>2, <3>3
            DEF Execute, JobStep, Block, Pass, NotRunning, Invoke, Succeed, Fail
  <2>4. ASSUME NEW b \in Agent, Pause(b) \/ Resume(b) \/ ResumeListed(b)
        PROVE  states'[a] \in Down
    BY <1>1, <2>1, <2>4 DEF Pause, Resume, ResumeListed
  <2>5. ASSUME NEW b \in Agent, Stop(b) PROVE states'[a] \in Down
    BY <2>1, <2>5 DEF Stop
  <2> QED BY <1>1, <2>2, <2>3, <2>4, <2>5 DEF Next, ListPaused, ResumeRaises, vars
<1>2. IInv /\ [Next]_vars
        => [\A a \in Agent : states[a] \in Down => states'[a] \in Down]_vars
  BY <1>1
<1> QED BY <1>2, SupervisorInvariant, PTL DEF Spec, NoResurrection
=============================================================================

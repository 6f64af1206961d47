--------------------------- MODULE AtomicDecisions ---------------------------
(***************************************************************************)
(* What coordinated execution promises about one decision (ADR 0008).      *)
(*                                                                         *)
(* An agent sees the shared state, answers, and then acts and publishes.   *)
(* Whatever other decisions run meanwhile, each of its actions starts, and *)
(* its updates are published in one step, only while every key it depends  *)
(* on is as the agent saw it; nothing is published unless every action of  *)
(* the decision succeeded.                                                 *)
(***************************************************************************)
EXTENDS Integers, Sequences

CONSTANTS Invocation, StateKey, Response, NoResponse, Value

VARIABLES
    values,    \* StateKey -> the visible entry
    seen,      \* Invocation -> the entries the agent saw
    answer,    \* Invocation -> its response
    started,   \* Invocation -> proposals whose execution has started
    succeeded, \* Invocation -> proposals that succeeded
    published  \* invocations that published their updates

vars == <<values, seen, answer, started, succeeded, published>>

Updated(r) == {r.updates[n].key : n \in DOMAIN r.updates}

DependsOn(r) == r.reads \cup Updated(r)

Fresh(i) == \A k \in DependsOn(answer[i]) : values[k] = seen[i][k]

Init ==
    /\ values \in [StateKey -> Value]
    /\ seen = [i \in Invocation |-> values]
    /\ answer = [i \in Invocation |-> NoResponse]
    /\ started = [i \in Invocation |-> {}]
    /\ succeeded = [i \in Invocation |-> {}]
    /\ published = {}

Answer(i, r) ==
    /\ answer[i] = NoResponse
    /\ answer' = [answer EXCEPT ![i] = r]
    /\ seen' = [seen EXCEPT ![i] = values]
    /\ UNCHANGED <<values, started, succeeded, published>>

Start(i, n) ==
    /\ n \notin started[i]
    /\ Fresh(i)
    /\ started' = [started EXCEPT ![i] = @ \cup {n}]
    /\ UNCHANGED <<values, seen, answer, succeeded, published>>

Succeed(i, n) ==
    /\ n \in started[i] \ succeeded[i]
    /\ succeeded' = [succeeded EXCEPT ![i] = @ \cup {n}]
    /\ UNCHANGED <<values, seen, answer, started, published>>

Publish(i) ==
    /\ i \notin published
    /\ Fresh(i)
    /\ succeeded[i] = DOMAIN answer[i].proposals
    /\ published' = published \cup {i}
    /\ \A k \in StateKey : values'[k] # values[k] => k \in Updated(answer[i])
    /\ UNCHANGED <<seen, answer, started, succeeded>>

Next ==
    \E i \in Invocation :
        \/ \E r \in Response : Answer(i, r)
        \/ /\ answer[i] # NoResponse
           /\ \/ \E n \in DOMAIN answer[i].proposals : Start(i, n) \/ Succeed(i, n)
              \/ Publish(i)

Spec == Init /\ [][Next]_vars
=============================================================================

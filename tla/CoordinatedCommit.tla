-------------------------- MODULE CoordinatedCommit --------------------------
(***************************************************************************)
(* The life of coordinated invocations from their snapshot to their result *)
(* (CoordinationRuntime._commit_prepared and _finish_prepared in           *)
(* coordination/routing.py, OneShotAgentRuntime in agents/runtime.py).     *)
(*                                                                         *)
(* Composes the admission of decisions with the shared-state store: a      *)
(* thread snapshots the store and reasons, validates every proposal,       *)
(* arbitrates, waits for its decision, then validates again, admits and    *)
(* executes one action at a time, and publishes its updates if all of them *)
(* succeeded.  Every access to the store or to the admission object is a   *)
(* step of its own, so that threads interleave between any two of them.    *)
(***************************************************************************)
EXTENDS ConflictArbitration, SequencesExt

CONSTANTS
    Policy, Invocation, Request, RequestOf, PriorityOf, StateKey, Target, Effect,
    Namespace, NamespaceOf, Limit,
    Response,    \* what agents may answer
    NoResponse,  \* the invocation has not answered
    MaxVersion   \* bound on versions: above the number of invocations

VARIABLES
    entries, snapshots, writes,
    pc, todo, reservation, waiting, committing, pending, active, history, awake,
    response,  \* the prepared response of each invocation
    results,   \* what became of each of its proposals
    order,     \* the proposals arbitration kept, in order
    checked,   \* the next action passed its second validation
    outcome    \* how the invocation ended

storeVars == <<entries, snapshots, writes>>
admissionVars ==
    <<pc, todo, reservation, waiting, committing, pending, active, history, awake>>
ownVars == <<response, results, order, checked, outcome>>
vars == <<storeVars, admissionVars, ownVars>>

Store == INSTANCE SharedStateStore WITH
            Key <- StateKey, Client <- Invocation,
            Batch <- {r.updates : r \in Response}

Writes(r) == {r.updates[n].key : n \in DOMAIN r.updates}

(* arbitrate(): of the valid proposals, the positions kept, in order.      *)
Arbitrated(r, valid) ==
    LET kept == CHOOSE s \in SUBSET valid :
                    Keeps(Policy, Restrict(r.proposals, valid), s)
    IN  CHOOSE s \in [1 .. Cardinality(kept) -> kept] :
            \A m, n \in DOMAIN s : m < n => s[m] < s[n]

ActionsAt(r, positions) == [k \in DOMAIN positions |-> r.proposals[positions[k]]]

DecisionFor(r, valid) ==
    [reads |-> r.reads, writes |-> Writes(r),
     actions |-> ActionsAt(r, Arbitrated(r, valid)),
     proposed |-> r.proposals # <<>>]

(* The decisions that can come of the responses.                           *)
Decisions ==
    UNION {{DecisionFor(r, valid) : valid \in SUBSET DOMAIN r.proposals} : r \in Response}

Admission == INSTANCE ActionAdmission WITH Decision <- Decisions

(* A response changes a key at most once, as the store demands.            *)
ASSUME CommitAssumption ==
    /\ Policy \in ArbitrationPolicy
    /\ RequestOf \in [Invocation -> Request]
    /\ PriorityOf \in [Invocation -> Int]
    /\ NamespaceOf \in [StateKey -> Namespace]
    /\ Limit \in [Namespace -> Nat]
    /\ IsFiniteSet(StateKey)
    /\ MaxVersion \in Nat
    /\ NoResponse \notin Response
    /\ \A r \in Response :
          /\ r.reads \subseteq StateKey
          /\ r.updates \in Seq(Store!Update)
          /\ \A m, n \in DOMAIN r.updates : m # n => r.updates[m].key # r.updates[n].key
          /\ r.proposals \in Seq(Admission!Action)
          /\ r.bundle \in BOOLEAN

Init ==
    /\ Store!StoreInit
    /\ Admission!Init
    /\ response = [i \in Invocation |-> NoResponse]
    /\ results = [i \in Invocation |-> <<>>]
    /\ order = [i \in Invocation |-> <<>>]
    /\ checked = [i \in Invocation |-> FALSE]
    /\ outcome = [i \in Invocation |-> "open"]

-----------------------------------------------------------------------------
(* _check_shared_state: every declared dependency, updated keys included,  *)
(* still has the version of the invocation's snapshot.                     *)
Fresh(i) ==
    \A k \in response[i].reads \cup Writes(response[i]) :
        Store!VisibleVersion(entries[k]) = snapshots[i][k].version

(* The proposal an admission candidate stands for.                         *)
Proposal(i) == order[i][Head(todo[i]).index]

(* A recovery bundle stops once an action of it has a bad result.          *)
Halted(i) ==
    /\ response[i].bundle
    /\ \E n \in DOMAIN results[i] : results[i][n] \in {"rejected", "failed"}

SetResult(i, n, result) == results' = [results EXCEPT ![i][n] = result]

Preparing(i) == pc[i] = "reasoning" /\ response[i] # NoResponse /\ outcome[i] = "open"

Inside(i) == pc[i] = "committing" /\ outcome[i] = "open"

-----------------------------------------------------------------------------
(* prepare(): the agent sees a snapshot and answers.                       *)
Prepare(i, r) ==
    /\ response[i] = NoResponse
    /\ response' = [response EXCEPT ![i] = r]
    /\ results' = [results EXCEPT ![i] = [n \in DOMAIN r.proposals |-> "unseen"]]
    /\ Store!Snapshot(i)
    /\ UNCHANGED <<admissionVars, order, checked, outcome>>

(* First validation of one proposal: against the store as it is now, then  *)
(* by the capability engine, whose verdict depends on the network.         *)
Validate(i, n, fit) ==
    /\ Preparing(i)
    /\ n = SelectInSeq(results[i], LAMBDA result : result = "unseen")
    /\ n # 0
    /\ SetResult(i, n, IF Fresh(i) /\ fit THEN "valid" ELSE "rejected")
    /\ UNCHANGED <<storeVars, admissionVars, response, order, checked, outcome>>

(* Arbitration inside the response, then the wait for the decision.        *)
Decide(i) ==
    LET valid == {n \in DOMAIN results[i] : results[i][n] = "valid"}
    IN  /\ Preparing(i)
        /\ \A n \in DOMAIN results[i] : results[i][n] # "unseen"
        /\ Admission!Decide(i, DecisionFor(response[i], valid))
        /\ order' = [order EXCEPT ![i] = Arbitrated(response[i], valid)]
        /\ UNCHANGED <<storeVars, response, results, checked, outcome>>

Wake(i) ==
    /\ Admission!Wake(i)
    /\ UNCHANGED <<storeVars, ownVars>>

(* The head of the loop: a halted bundle rejects what is left, and a       *)
(* candidate that lost in decision() is rejected.                          *)
Refuse(i) ==
    /\ Inside(i)
    /\ ~checked[i]
    /\ todo[i] # <<>>
    /\ Halted(i) \/ Head(todo[i]) \notin reservation[i].candidates
    /\ SetResult(i, Proposal(i), "rejected")
    /\ Admission!Skip(i)
    /\ UNCHANGED <<storeVars, response, order, checked, outcome>>

(* Second validation, inside the decision.                                 *)
Revalidate(i, fit) ==
    /\ Inside(i)
    /\ ~checked[i]
    /\ todo[i] # <<>>
    /\ ~Halted(i)
    /\ Head(todo[i]) \in reservation[i].candidates
    /\ IF Fresh(i) /\ fit
       THEN /\ checked' = [checked EXCEPT ![i] = TRUE]
            /\ UNCHANGED <<admissionVars, results>>
       ELSE /\ SetResult(i, Proposal(i), "rejected")
            /\ Admission!Skip(i)
            /\ UNCHANGED checked
    /\ UNCHANGED <<storeVars, response, order, outcome>>

(* admit(): the action starts, or is refused for what runs by now.         *)
Admit(i) ==
    /\ Inside(i)
    /\ checked[i]
    /\ checked' = [checked EXCEPT ![i] = FALSE]
    /\ Admission!Admit(i)
    /\ IF Admission!LosesLate(i, Head(todo[i]))
       THEN SetResult(i, Proposal(i), "rejected")
       ELSE UNCHANGED results
    /\ UNCHANGED <<storeVars, response, order, outcome>>

Execute(i, result) ==
    /\ pc[i] = "executing"
    /\ SetResult(i, Proposal(i), result)
    /\ Admission!Finish(i)
    /\ UNCHANGED <<storeVars, response, order, checked, outcome>>

(* complete(): what arbitration dropped is rejected; unless every action   *)
(* succeeded nothing is published; the dependencies are checked once more. *)
Complete(i) ==
    LET final == [n \in DOMAIN results[i] |->
                     IF results[i][n] = "valid" THEN "rejected" ELSE results[i][n]]
        ended == IF \E n \in DOMAIN final : final[n] # "succeeded" THEN "unsuccessful"
                 ELSE IF response[i].reads \cup Writes(response[i]) # {} /\ ~Fresh(i)
                 THEN "stale"
                 ELSE IF response[i].updates = <<>> THEN "succeeded"
                 ELSE "publishing"
    IN  /\ Inside(i)
        /\ todo[i] = <<>>
        /\ results' = [results EXCEPT ![i] = final]
        /\ outcome' = [outcome EXCEPT ![i] = ended]
        /\ UNCHANGED <<storeVars, admissionVars, response, order, checked>>

(* _apply_shared_state: the store takes the whole batch or refuses it.     *)
Publish(i) ==
    /\ outcome[i] = "publishing"
    /\ IF Store!BatchAccepted(response[i].updates,
                              [k \in StateKey |-> snapshots[i][k].version])
       THEN /\ outcome' = [outcome EXCEPT ![i] = "succeeded"]
            /\ Store!Apply(i, response[i].updates)
       ELSE /\ outcome' = [outcome EXCEPT ![i] = "refused"]
            /\ UNCHANGED storeVars
    /\ UNCHANGED <<admissionVars, response, results, order, checked>>

(* A call the thread makes raised: the audit journal, a capability.        *)
Raise(i) ==
    /\ Preparing(i) \/ Inside(i)
    /\ outcome' = [outcome EXCEPT ![i] = "raised"]
    /\ UNCHANGED <<storeVars, admissionVars, response, results, order, checked>>

Leave(i) ==
    /\ outcome[i] \notin {"open", "publishing"}
    /\ Admission!Leave(i)
    /\ UNCHANGED <<storeVars, ownVars>>

Step(i) ==
    \/ \E r \in Response : Prepare(i, r)
    \/ \E n \in DOMAIN results[i], fit \in BOOLEAN : Validate(i, n, fit)
    \/ Decide(i)
    \/ Wake(i)
    \/ Refuse(i)
    \/ \E fit \in BOOLEAN : Revalidate(i, fit)
    \/ Admit(i)
    \/ \E result \in {"succeeded", "failed"} : Execute(i, result)
    \/ Complete(i)
    \/ Publish(i)
    \/ Raise(i)
    \/ Leave(i)

Next == \E i \in Invocation : Step(i)

Spec == Init /\ [][Next]_vars

(* Reasoning, validation and actions return: each is bounded by a timeout. *)
FairSpec == Spec /\ \A i \in Invocation : WF_vars(Step(i))

-----------------------------------------------------------------------------
Result == {"unseen", "valid", "rejected", "failed", "succeeded"}

OwnTypeOK ==
    /\ response \in [Invocation -> Response \cup {NoResponse}]
    /\ results \in [Invocation -> Seq(Result)]
    /\ order \in [Invocation -> Seq(Nat)]
    /\ checked \in [Invocation -> BOOLEAN]
    /\ outcome \in [Invocation -> {"open", "publishing", "succeeded", "unsuccessful",
                                   "stale", "refused", "raised"}]

TypeOK == Store!StoreTypeOK /\ Admission!TypeOK /\ OwnTypeOK

(* Between the last check of complete() and the store's own comparison no  *)
(* other decision publishes over this one: a batch is refused for the      *)
(* limit of its namespace or a missing key, never for a version.           *)
VersionsHoldAtPublish ==
    \A i \in Invocation :
        outcome[i] = "publishing" =>
            \A k \in Writes(response[i]) :
                Store!Expected(snapshots[i][k].version, k)

(* docs/bounded-decision.md: "The fixed bundle stops at the first          *)
(* rejection or execution failure": no step of a bundle is executed after  *)
(* an earlier one was rejected, dropped by arbitration or failed.          *)
BundleStops ==
    \A i \in Invocation :
        pc[i] = "executing" /\ response[i].bundle =>
            \A n \in 1 .. Proposal(i) - 1 : results[i][n] = "succeeded"

(* Every invocation ends, with the decision left and its keys released.    *)
EveryInvocationEnds ==
    \A i \in Invocation :
        response[i] # NoResponse
            ~> outcome[i] \notin {"open", "publishing"} /\ pc[i] \in {"reasoning", "done"}

(* Coordinated execution keeps the promise of AtomicDecisions.             *)
Started(i) ==
    {n \in DOMAIN results[i] : results[i][n] \in {"succeeded", "failed"}}
        \cup {n \in DOMAIN results[i] : pc[i] = "executing" /\ n = Proposal(i)}

Promise == INSTANCE AtomicDecisions WITH
    Value     <- Store!Entry,
    values    <- [k \in StateKey |-> Store!VisibleEntry(entries[k])],
    seen      <- snapshots,
    answer    <- response,
    started   <- [i \in Invocation |-> Started(i)],
    succeeded <- [i \in Invocation |->
                    {n \in DOMAIN results[i] : results[i][n] = "succeeded"}],
    published <- {i \in Invocation : outcome[i] = "succeeded"}

KeepsPromise == Promise!Spec

-----------------------------------------------------------------------------
(* What the proofs need besides the invariants of the two objects.         *)

(* Every proposal of an answer has a result, and only those.               *)
ResultsInPlace(i) ==
    IF response[i] = NoResponse
    THEN pc[i] = "reasoning" /\ outcome[i] = "open" /\ results[i] = <<>>
    ELSE DOMAIN results[i] = DOMAIN response[i].proposals

(* How far a thread is, by its place in the admission object.              *)
PhaseInPlace(i) ==
    /\ pc[i] = "reasoning" =>
          /\ outcome[i] \in {"open", "raised"}
          /\ ~checked[i]
          /\ \A n \in DOMAIN results[i] : results[i][n] \in {"unseen", "valid", "rejected"}
    /\ pc[i] \in {"waiting", "pending", "executing"} => outcome[i] = "open" /\ ~checked[i]
    /\ pc[i] = "done" => outcome[i] \notin {"open", "publishing"}

(* The candidates a thread has left stand for distinct valid proposals.    *)
QueueInPlace(i) ==
    pc[i] # "reasoning" =>
        /\ \A n \in DOMAIN order[i] : order[i][n] \in DOMAIN results[i]
        /\ IsInjective(order[i])
        /\ \A m \in DOMAIN todo[i] :
              /\ todo[i][m].index \in DOMAIN order[i]
              /\ results[i][order[i][todo[i][m].index]] = "valid"
              /\ \A n \in DOMAIN todo[i] : todo[i][m].index = todo[i][n].index => m = n

(* The reservation covers what the decision depends on, unless none of its *)
(* actions survived; then none of them is ever executed.                   *)
KeysReserved(i) ==
    pc[i] # "reasoning" =>
        /\ \/ /\ reservation[i].reads = response[i].reads
              /\ reservation[i].writes = Writes(response[i])
           \/ reservation[i].candidates = {} /\ response[i].proposals # <<>>
        /\ \A n \in DOMAIN results[i] :
              results[i][n] \in {"failed", "succeeded"} => reservation[i].candidates # {}

(* A check of the versions stays true until what it allows is done: until  *)
(* the action starts, and until the updates are published.                 *)
CheckHolds(i) ==
    /\ checked[i] /\ outcome[i] = "open" =>
          /\ todo[i] # <<>>
          /\ Head(todo[i]) \in reservation[i].candidates
          /\ Fresh(i)
    /\ outcome[i] = "publishing" =>
          /\ \A n \in DOMAIN results[i] : results[i][n] = "succeeded"
          /\ Fresh(i)

InvocationInv(i) ==
    /\ ResultsInPlace(i)
    /\ PhaseInPlace(i)
    /\ QueueInPlace(i)
    /\ KeysReserved(i)
    /\ CheckHolds(i)

CommitInv ==
    /\ Store!StoreInv
    /\ Admission!IInv
    /\ OwnTypeOK
    /\ \A i \in Invocation : InvocationInv(i)
=============================================================================

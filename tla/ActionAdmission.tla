--------------------------- MODULE ActionAdmission ---------------------------
(***************************************************************************)
(* Experiment-wide admission of prepared decisions                         *)
(* (coordination/admission.py, with the calls routing.py makes to it).     *)
(*                                                                         *)
(* Every prepared invocation runs in a thread of its own.  The thread      *)
(* takes a reservation for the whole decision (the shared-state keys it    *)
(* depends on and the actions it wants to run), waits until no reservation *)
(* it is incompatible with is ahead of it, and then walks through its      *)
(* actions, admitting them one at a time, until it leaves the decision.    *)
(* All of this is guarded by one condition variable, modelled with the set *)
(*  awake  of sleeping threads that a notify_all has released.             *)
(***************************************************************************)
EXTENDS ConflictArbitration, SequencesExt

CONSTANTS
    Policy,      \* the plan's conflicting-actions policy
    Invocation,  \* the prepared invocations, one thread each
    Request,     \* the coordination requests they belong to
    RequestOf,   \* Invocation -> Request
    PriorityOf,  \* Invocation -> priority of the invoked agent
    StateKey,    \* shared-state keys
    Target,      \* targets of actions
    Effect,      \* effects of actions, AnyEffect among them
    Decision     \* the decisions an invocation may arrive with

Action == [target : Target, effects : SUBSET Effect]

(* A decision names the keys it read and updates, the actions arbitration  *)
(* kept, in order, and whether the response proposed any action at all.    *)
DecisionOK(d) ==
    /\ d.reads \subseteq StateKey
    /\ d.writes \subseteq StateKey
    /\ d.actions \in Seq(Action)
    /\ d.proposed \in BOOLEAN
    /\ Keeps(Policy, d.actions, DOMAIN d.actions)

ASSUME AdmissionAssumption ==
    /\ Policy \in ArbitrationPolicy
    /\ RequestOf \in [Invocation -> Request]
    /\ PriorityOf \in [Invocation -> Int]
    /\ \A d \in Decision : DecisionOK(d)

(* An action of one invocation (ArbitrationCandidate).                     *)
Candidate == [invocation : Invocation, index : Nat \ {0},
              target : Target, effects : SUBSET Effect]

CandidatesOf(i, d) ==
    [n \in DOMAIN d.actions |->
        [invocation |-> i, index |-> n,
         target |-> d.actions[n].target, effects |-> d.actions[n].effects]]

Reservation ==
    [reads : SUBSET StateKey, writes : SUBSET StateKey, candidates : SUBSET Candidate]

NoReservation == [reads |-> {}, writes |-> {}, candidates |-> {}]

VARIABLES
    pc,          \* where the thread of each invocation is
    todo,        \* candidates a thread has not dealt with yet, in order
    reservation, \* the _CommitReservation of each thread
    waiting,     \* _waiting: threads waiting for their decision, by arrival
    committing,  \* _committing: threads inside their decision
    pending,     \* _pending: candidates waiting to be admitted, by arrival
    active,      \* _active: candidates whose effects are being produced
    history,     \* per request, the candidates ever admitted for it
    awake        \* sleepers that were notified and have not looked yet

vars == <<pc, todo, reservation, waiting, committing, pending, active, history, awake>>

Init ==
    /\ pc = [i \in Invocation |-> "reasoning"]
    /\ todo = [i \in Invocation |-> <<>>]
    /\ reservation = [i \in Invocation |-> NoReservation]
    /\ waiting = <<>>
    /\ committing = {}
    /\ pending = <<>>
    /\ active = {}
    /\ history = [r \in Request |-> {}]
    /\ awake = {}

-----------------------------------------------------------------------------
(* Position of x in a queue that holds it once.                            *)
PositionOf(x, queue) == CHOOSE k \in DOMAIN queue : queue[k] = x

Without(queue, x) == RemoveAt(queue, PositionOf(x, queue))

(* Fault: of two that rank alike, each lets the other go first.          *)
TiesYield(left, leftPosition, right, rightPosition) ==
    IF Policy = "priority"
    THEN PriorityOf[left] >= PriorityOf[right]
    ELSE leftPosition < rightPosition

(* Who goes first among two entries of one queue: the older one, unless    *)
(* the policy ranks the agents.                                            *)
Precedes(left, leftPosition, right, rightPosition) ==
    IF Policy = "priority" /\ PriorityOf[left] # PriorityOf[right]
    THEN PriorityOf[left] > PriorityOf[right]
    ELSE leftPosition < rightPosition

(* Fault: only write-write conflicts count.                              *)
ReadsForgotten(left, right) == left.writes \cap right.writes # {}

(* Fault: only read-write conflicts count.                               *)
WritesForgotten(left, right) ==
    left.writes \cap right.reads # {} \/ right.writes \cap left.reads # {}

StateConflict(left, right) ==
    \/ left.writes \cap (right.reads \cup right.writes) # {}
    \/ right.writes \cap left.reads # {}

NetworkConflict(left, right) ==
    \E a \in left.candidates, b \in right.candidates : Conflicts(a, b)

DecisionConflict(left, right) ==
    \/ StateConflict(left, right)
    \/ Policy # "reject" /\ NetworkConflict(left, right)

(* Fault: the decisions under commitment are not looked at.              *)
ReadyBesideAnything(i, mine, position) ==
    \A k \in DOMAIN waiting :
       /\ waiting[k] # i
       /\ DecisionConflict(mine, reservation[waiting[k]])
       => ~Precedes(waiting[k], k, i, position)

(* _decision_ready of a thread standing at a position of the waiting list  *)
(* (one past its end when the thread is just joining it).                  *)
DecisionReady(i, mine, position) ==
    /\ \A j \in committing : ~DecisionConflict(mine, reservation[j])
    /\ \A k \in DOMAIN waiting :
          /\ waiting[k] # i
          /\ DecisionConflict(mine, reservation[waiting[k]])
          => ~Precedes(waiting[k], k, i, position)

(* _ready of a candidate standing at a position of the pending list.       *)
AdmissionReady(c, position) ==
    /\ \A other \in active : ~Conflicts(other, c)
    /\ \A k \in DOMAIN pending :
          /\ pending[k] # c
          /\ Conflicts(pending[k], c)
          => ~Precedes(pending[k].invocation, k, c.invocation, position)

(* Fault: the request's earlier actions are forgotten.                   *)
OnlyRunning(i) == active

(* What the invocation's request had admitted, and what runs for others.   *)
Admitted(i) == history[RequestOf[i]] \cup active

(* Fault: reservations of unfinished decisions are not looked at.        *)
AdmittedOnly(i) == Admitted(i)

(* What a new decision loses to under "reject": everything admitted, and   *)
(* everything reserved by a thread that has not finished its decision.     *)
AdmittedFor(i) ==
    Admitted(i)
        \cup UNION {reservation[j].candidates : j \in committing \cup ToSet(waiting)}

Rejections(i, candidates) ==
    {c \in candidates : Policy = "reject" /\ \E w \in AdmittedFor(i) : Conflicts(w, c)}

(* Candidates of which nothing survives leave no reason to hold state.     *)
ReservationFor(i, d) ==
    LET candidates == ToSet(CandidatesOf(i, d))
        surviving  == candidates \ Rejections(i, candidates)
    IN  IF d.proposed /\ surviving = {}
        THEN NoReservation
        ELSE [reads |-> d.reads, writes |-> d.writes, candidates |-> surviving]

-----------------------------------------------------------------------------
(* Fault: nobody is notified.                                            *)
NotifyNobody == awake' = awake

(* Fault: notify() in place of notify_all().                             *)
NotifyOne ==
    LET asleep == {i \in Invocation : pc'[i] \in {"waiting", "pending"}}
    IN  IF asleep = {} THEN awake' = {} ELSE \E i \in asleep : awake' = {i}

(* notify_all: every thread asleep in one of the two waits looks again.    *)
NotifyAll == awake' = {i \in Invocation : pc'[i] \in {"waiting", "pending"}}

(* decision(): reject, join the waiting list, and go ahead at once when    *)
(* nothing stands in the way.  The lock is held throughout.                *)
Decide(i, d) ==
    LET mine == ReservationFor(i, d)
    IN  /\ pc[i] = "reasoning"
        /\ todo' = [todo EXCEPT ![i] = CandidatesOf(i, d)]
        /\ reservation' = [reservation EXCEPT ![i] = mine]
        /\ IF DecisionReady(i, mine, Len(waiting) + 1)
           THEN /\ pc' = [pc EXCEPT ![i] = "committing"]
                /\ committing' = committing \cup {i}
                /\ UNCHANGED waiting
           ELSE /\ pc' = [pc EXCEPT ![i] = "waiting"]
                /\ waiting' = Append(waiting, i)
                /\ UNCHANGED committing
        /\ UNCHANGED <<pending, active, history, awake>>

(* A candidate that decision() rejected, that fails its second validation  *)
(* or that a halted bundle gives up never reaches admit().                 *)
Skip(i) ==
    /\ pc[i] = "committing"
    /\ todo[i] # <<>>
    /\ todo' = [todo EXCEPT ![i] = Tail(@)]
    /\ UNCHANGED <<pc, reservation, waiting, committing, pending, active, history, awake>>

LosesLate(i, c) ==
    Policy = "reject" /\ \E w \in Admitted(i) : Conflicts(w, c)

(* admit(): under "reject" a conflict with running work refuses the        *)
(* candidate; otherwise it queues, and runs at once when nothing conflicts.*)
Admit(i) ==
    LET c == Head(todo[i])
    IN  /\ pc[i] = "committing"
        /\ todo[i] # <<>>
        /\ c \in reservation[i].candidates
        /\ IF LosesLate(i, c)
           THEN /\ todo' = [todo EXCEPT ![i] = Tail(@)]
                /\ UNCHANGED <<pc, pending, active, history>>
           ELSE IF AdmissionReady(c, Len(pending) + 1)
           THEN /\ pc' = [pc EXCEPT ![i] = "executing"]
                /\ active' = active \cup {c}
                /\ history' = [history EXCEPT ![RequestOf[i]] = @ \cup {c}]
                /\ UNCHANGED <<todo, pending>>
           ELSE /\ pc' = [pc EXCEPT ![i] = "pending"]
                /\ pending' = Append(pending, c)
                /\ UNCHANGED <<todo, active, history>>
        /\ UNCHANGED <<reservation, waiting, committing, awake>>

(* Fault: an if in place of the loop of wait_for.                        *)
WakeWithoutLooking(i) ==
    LET c == Head(todo[i])
    IN  /\ i \in awake
        /\ awake' = awake \ {i}
        /\ IF pc[i] = "waiting"
           THEN /\ pc' = [pc EXCEPT ![i] = "committing"]
                /\ waiting' = Without(waiting, i)
                /\ committing' = committing \cup {i}
                /\ UNCHANGED <<pending, active, history>>
           ELSE /\ pc' = [pc EXCEPT ![i] = "executing"]
                /\ pending' = Without(pending, c)
                /\ active' = active \cup {c}
                /\ history' = [history EXCEPT ![RequestOf[i]] = @ \cup {c}]
                /\ UNCHANGED <<waiting, committing>>
        /\ UNCHANGED <<todo, reservation>>

(* A notified thread evaluates the predicate of its wait_for again, and    *)
(* goes back to sleep when it does not hold.                               *)
Wake(i) ==
    LET c == Head(todo[i])
    IN  /\ i \in awake
        /\ awake' = awake \ {i}
        /\ IF pc[i] = "waiting" /\ DecisionReady(i, reservation[i], PositionOf(i, waiting))
           THEN /\ pc' = [pc EXCEPT ![i] = "committing"]
                /\ waiting' = Without(waiting, i)
                /\ committing' = committing \cup {i}
                /\ UNCHANGED <<pending, active, history>>
           ELSE IF pc[i] = "pending" /\ AdmissionReady(c, PositionOf(c, pending))
           THEN /\ pc' = [pc EXCEPT ![i] = "executing"]
                /\ pending' = Without(pending, c)
                /\ active' = active \cup {c}
                /\ history' = [history EXCEPT ![RequestOf[i]] = @ \cup {c}]
                /\ UNCHANGED <<waiting, committing>>
           ELSE UNCHANGED <<pc, waiting, committing, pending, active, history>>
        /\ UNCHANGED <<todo, reservation>>

(* The action has produced its effects (or failed, or raised).             *)
Finish(i) ==
    /\ pc[i] = "executing"
    /\ pc' = [pc EXCEPT ![i] = "committing"]
    /\ todo' = [todo EXCEPT ![i] = Tail(@)]
    /\ active' = active \ {Head(todo[i])}
    /\ NotifyAll
    /\ UNCHANGED <<reservation, waiting, committing, pending, history>>

(* The decision block ends: normally once no candidate is left, early when *)
(* validation, an action or the completion raised.                         *)
Leave(i) ==
    /\ pc[i] = "committing"
    /\ pc' = [pc EXCEPT ![i] = "done"]
    /\ committing' = committing \ {i}
    /\ NotifyAll
    /\ UNCHANGED <<todo, reservation, waiting, pending, active, history>>

Step(i) ==
    \/ \E d \in Decision : Decide(i, d)
    \/ Wake(i)
    \/ Skip(i)
    \/ Admit(i)
    \/ Finish(i)
    \/ Leave(i)

Next == \E i \in Invocation : Step(i)

Spec == Init /\ [][Next]_vars

(* A thread that can take a step eventually takes one: the scheduler runs  *)
(* it, reasoning, validation and actions return (they have timeouts).      *)
FairSpec == Spec /\ \A i \in Invocation : WF_vars(Step(i))

-----------------------------------------------------------------------------
Inside == {"committing", "pending", "executing"}

TypeOK ==
    /\ pc \in [Invocation ->
                 {"reasoning", "waiting", "committing", "pending", "executing", "done"}]
    /\ todo \in [Invocation -> Seq(Candidate)]
    /\ reservation \in [Invocation -> Reservation]
    /\ waiting \in Seq(Invocation)
    /\ committing \subseteq Invocation
    /\ pending \in Seq(Candidate)
    /\ active \subseteq Candidate
    /\ history \in [Request -> SUBSET Candidate]
    /\ awake \subseteq Invocation

(* Two actions whose effects can interfere are never produced at the same  *)
(* time, whichever requests they come from: what ActionAdmission's         *)
(* docstring calls protecting effects for the entire execution.            *)
ActiveConflictFree ==
    \A a, b \in active : a # b => ~Conflicts(a, b)

(* Decisions under commitment together are independent: none writes a key  *)
(* another one read or writes and, unless conflicts are rejected, no two   *)
(* of their actions conflict.  This is the isolation ADR 0008 promises     *)
(* between the version check of a decision and its update.                 *)
ReservationsIsolated ==
    \A i, j \in committing :
        i # j => ~DecisionConflict(reservation[i], reservation[j])

(* Once the decision is granted its verdict stands: under "reject" no      *)
(* surviving action can be refused by admit() after earlier actions of the *)
(* same decision already changed the network.                              *)
VerdictStands ==
    \A i \in committing :
        pc[i] = "committing" =>
            \A c \in ToSet(todo[i]) \cap reservation[i].candidates : ~LosesLate(i, c)

(* A thread inside its decision never sleeps in admit(): were it possible, *)
(* a thread would hold state reservations while waiting for the network.   *)
NoHoldAndWait == pending = <<>> /\ \A i \in Invocation : pc[i] # "pending"

(* Under "reject" the actions a request ever executes are pairwise         *)
(* compatible, however its invocations overlapped.                         *)
RequestHistoryConflictFree ==
    Policy = "reject" =>
        \A r \in Request : \A a, b \in history[r] : a # b => ~Conflicts(a, b)

(* No wake-up is lost: a thread that could go ahead has been notified,     *)
(* although grants themselves notify nobody.                               *)
NoLostWakeup ==
    \A k \in DOMAIN waiting :
        DecisionReady(waiting[k], reservation[waiting[k]], k) => waiting[k] \in awake

(* The waiter at position n is ahead of the one at position k.             *)
Obstructs(n, k) ==
    /\ waiting[n] # waiting[k]
    /\ DecisionConflict(reservation[waiting[k]], reservation[waiting[n]])
    /\ Precedes(waiting[n], n, waiting[k], k)

(* No group of waiting decisions waits only for itself, whatever their     *)
(* conflicts, ranks and arrivals: somebody in it was notified, or has to   *)
(* wait for a decision under commitment or for a waiter outside the group. *)
NoCircularWait ==
    \A group \in (SUBSET DOMAIN waiting) \ {{}} :
        \E k \in group :
            \/ waiting[k] \in awake
            \/ \E j \in committing :
                   DecisionConflict(reservation[waiting[k]], reservation[j])
            \/ \E n \in DOMAIN waiting \ group : Obstructs(n, k)

(* Every decision that waits is granted: nobody waits for ever, not even   *)
(* behind higher priorities, as long as invocations are finite in number.  *)
EveryDecisionGranted ==
    \A i \in Invocation : pc[i] = "waiting" ~> pc[i] = "committing"

-----------------------------------------------------------------------------
(* What the proofs of the properties above need besides them.              *)

(* The lists of the object say where the threads are.                      *)
Bookkeeping ==
    /\ \A k \in DOMAIN waiting : pc[waiting[k]] = "waiting"
    /\ \A j, k \in DOMAIN waiting : waiting[j] = waiting[k] => j = k
    /\ \A i \in Invocation : pc[i] = "waiting" => \E k \in DOMAIN waiting : waiting[k] = i
    /\ committing = {i \in Invocation : pc[i] \in Inside}
    /\ \A i \in Invocation : pc[i] = "executing" =>
          /\ todo[i] # <<>>
          /\ Head(todo[i]) \in reservation[i].candidates
    /\ \A i \in Invocation : \A c \in reservation[i].candidates : c.invocation = i
    /\ active = {Head(todo[i]) : i \in {j \in Invocation : pc[j] = "executing"}}

(* Under "reject" a decision is compatible with every other one from the   *)
(* moment it starts waiting, not only from the moment it is granted.       *)
WaitersApart ==
    Policy = "reject" =>
        \A i, j \in Invocation :
            /\ i # j
            /\ pc[i] \in Inside \cup {"waiting"}
            /\ pc[j] \in Inside \cup {"waiting"}
            => ~NetworkConflict(reservation[i], reservation[j])

IInv ==
    /\ TypeOK
    /\ Bookkeeping
    /\ NoHoldAndWait
    /\ ReservationsIsolated
    /\ WaitersApart

(* Under "reject" the actions a thread has left conflict neither with each *)
(* other nor, those that survived, with anything its request ever did.     *)
OwnActionsApart ==
    Policy = "reject" =>
        \A i \in Invocation : \A m, n \in DOMAIN todo[i] :
            m < n => ~Conflicts(todo[i][m], todo[i][n])

HistoryApart ==
    Policy = "reject" =>
        \A i \in Invocation :
            pc[i] \in Inside \cup {"waiting"} =>
                \A n \in DOMAIN todo[i] :
                    /\ todo[i][n] \in reservation[i].candidates
                    /\ pc[i] = "executing" => n # 1
                    => \A w \in history[RequestOf[i]] : ~Conflicts(w, todo[i][n])

VerdictInv == OwnActionsApart /\ HistoryApart /\ RequestHistoryConflictFree
=============================================================================

------------------------- MODULE SharedObjectsProofs -------------------------
(***************************************************************************)
(* Theorems about the two objects that all invocations of an experiment    *)
(* share, each by itself: ActionAdmission, for every policy, every set of  *)
(* invocations and every set of decisions (what holds in each state, then  *)
(* what holds over time: that verdicts stand, that no wake-up is lost and  *)
(* that no group of threads waits only for itself); and SharedStateStore,  *)
(* for every set of keys, clients, limits and batches.                     *)
(***************************************************************************)
EXTENDS ActionAdmission, SharedStateStore, SequenceTheorems, FiniteSetTheorems,
        NaturalsInduction, WellFoundedInduction, TLAPS

-----------------------------------------------------------------------------
(* Facts about the operators the module is built from.                     *)

(* Conflicts is symmetric: no caller depends on which action came first.   *)
LEMMA ConflictsSymmetric ==
    ASSUME NEW a, NEW b
    PROVE  Conflicts(a, b) <=> Conflicts(b, a)
BY DEF Conflicts

LEMMA DecisionConflictSymmetric ==
    ASSUME NEW left, NEW right
    PROVE  DecisionConflict(left, right) <=> DecisionConflict(right, left)
<1>1. StateConflict(left, right) <=> StateConflict(right, left)
  BY DEF StateConflict
<1>2. NetworkConflict(left, right) <=> NetworkConflict(right, left)
  BY ConflictsSymmetric DEF NetworkConflict
<1> QED BY <1>1, <1>2 DEF DecisionConflict

(* Removing an entry keeps the other ones, in their order: entry n of the  *)
(* shorter queue is entry  Kept(queue, x, n)  of the longer one.           *)
Kept(queue, x, n) == IF n < PositionOf(x, queue) THEN n ELSE n + 1

LEMMA PositionFound ==
    ASSUME NEW S, NEW queue \in Seq(S), NEW k \in DOMAIN queue
    PROVE  /\ PositionOf(queue[k], queue) \in DOMAIN queue
           /\ queue[PositionOf(queue[k], queue)] = queue[k]
BY DEF PositionOf

LEMMA WithoutProperties ==
    ASSUME NEW S, NEW queue \in Seq(S), NEW x, NEW k \in DOMAIN queue, queue[k] = x
    PROVE  /\ Without(queue, x) \in Seq(S)
           /\ Len(Without(queue, x)) = Len(queue) - 1
           /\ \A n \in DOMAIN Without(queue, x) :
                 /\ Kept(queue, x, n) \in DOMAIN queue
                 /\ Without(queue, x)[n] = queue[Kept(queue, x, n)]
<1> DEFINE p == PositionOf(x, queue)
           left == SubSeq(queue, 1, p - 1)
           right == SubSeq(queue, p + 1, Len(queue))
<1>1. p \in 1 .. Len(queue) /\ Len(queue) \in Nat
  BY PositionFound, LenProperties
<1>2. /\ left \in Seq(S)
      /\ Len(left) = p - 1
      /\ \A n \in 1 .. p - 1 : left[n] = queue[n]
  <2>1. \A n \in 1 .. p - 1 : queue[n] \in S
    BY <1>1, ElementOfSeq
  <2> QED BY <1>1, <2>1, SubSeqProperties
<1>3. /\ right \in Seq(S)
      /\ Len(right) = Len(queue) - p
      /\ \A n \in 1 .. Len(queue) - p : right[n] = queue[p + n]
  <2>1. \A n \in p + 1 .. Len(queue) : queue[n] \in S
    BY <1>1, ElementOfSeq
  <2>2. /\ right \in Seq(S)
        /\ Len(right) = IF p + 1 <= Len(queue) THEN Len(queue) - (p + 1) + 1 ELSE 0
        /\ \A n \in 1 .. Len(queue) - (p + 1) + 1 : right[n] = queue[(p + 1) + n - 1]
    <3> HIDE DEF p
    <3>1. p + 1 \in Int /\ Len(queue) \in Int
      BY <1>1
    <3> QED BY <2>1, <3>1, SubSeqProperties
  <2> HIDE DEF p, right
  <2> QED BY <1>1, <2>2
<1>4. Without(queue, x) = left \o right
  BY DEF Without, RemoveAt
<1>5. /\ left \o right \in Seq(S)
      /\ Len(left \o right) = Len(left) + Len(right)
      /\ \A n \in 1 .. Len(left) + Len(right) :
            (left \o right)[n] = IF n <= Len(left) THEN left[n] ELSE right[n - Len(left)]
  <2>1. left \in Seq(S) /\ right \in Seq(S)
    BY <1>2, <1>3
  <2> HIDE DEF left, right, p
  <2> QED BY <2>1, ConcatProperties
<1>6. DOMAIN (left \o right) = 1 .. Len(queue) - 1
  <2> HIDE DEF left, right, p
  <2>1. Len(left) + Len(right) = Len(queue) - 1
    BY <1>1, <1>2, <1>3
  <2>2. DOMAIN (left \o right) = 1 .. Len(left \o right)
    BY <1>5, LenProperties
  <2> QED BY <1>5, <2>1, <2>2
<1> HIDE DEF left, right, p
<1>7. ASSUME NEW n \in 1 .. Len(queue) - 1
      PROVE  /\ Kept(queue, x, n) \in 1 .. Len(queue)
             /\ (left \o right)[n] = queue[Kept(queue, x, n)]
  <2>1. CASE n < p
    BY <1>1, <1>2, <1>3, <1>5, <2>1 DEF Kept, p
  <2>2. CASE ~(n < p)
    <3>1. n - Len(left) \in 1 .. Len(queue) - p
      BY <1>1, <1>2, <2>2
    <3>2. right[n - Len(left)] = queue[p + (n - Len(left))]
      BY <1>3, <3>1
    <3>3. p + (n - Len(left)) = n + 1
      BY <1>1, <1>2
    <3>4. n \in 1 .. Len(left) + Len(right) /\ ~(n <= Len(left))
      BY <1>1, <1>2, <1>3, <2>2
    <3>5. (left \o right)[n] = right[n - Len(left)]
      BY <1>5, <3>4
    <3>6. Kept(queue, x, n) = n + 1
      BY <2>2 DEF Kept, p
    <3>7. n + 1 \in 1 .. Len(queue)
      BY <1>1
    <3> QED BY <3>2, <3>3, <3>5, <3>6, <3>7
  <2> QED BY <2>1, <2>2
<1>8. Len(left \o right) = Len(queue) - 1
  BY <1>1, <1>2, <1>3, <1>5
<1>9. DOMAIN queue = 1 .. Len(queue)
  BY LenProperties
<1> QED BY <1>4, <1>5, <1>6, <1>7, <1>8, <1>9

(* A decision becomes a queue of well-formed candidates.                   *)
LEMMA CandidatesOfType ==
    ASSUME NEW i \in Invocation, NEW d \in Decision
    PROVE  CandidatesOf(i, d) \in Seq(Candidate)
<1>1. d.actions \in Seq(Action)
  BY AdmissionAssumption DEF DecisionOK
<1>2. Len(d.actions) \in Nat /\ DOMAIN d.actions = 1 .. Len(d.actions)
  BY <1>1, LenProperties
<1>3. ASSUME NEW n \in 1 .. Len(d.actions)
      PROVE  [invocation |-> i, index |-> n,
              target |-> d.actions[n].target, effects |-> d.actions[n].effects]
                \in Candidate
  <2>1. d.actions[n] \in Action
    BY <1>1, ElementOfSeq
  <2> QED BY <1>2, <2>1 DEF Action, Candidate
<1>4. CandidatesOf(i, d) \in [1 .. Len(d.actions) -> Candidate]
  BY <1>2, <1>3 DEF CandidatesOf
<1> QED BY <1>2, <1>4, SeqDef

LEMMA ReservationForType ==
    ASSUME NEW i \in Invocation, NEW d \in Decision
    PROVE  /\ ReservationFor(i, d) \in Reservation
           /\ ReservationFor(i, d).candidates
                 \subseteq {c \in ToSet(CandidatesOf(i, d)) :
                             Policy = "reject" => \A w \in AdmittedFor(i) : ~Conflicts(w, c)}
           /\ \A c \in ReservationFor(i, d).candidates : c.invocation = i
<1>0. \A c \in ToSet(CandidatesOf(i, d)) : c.invocation = i
  <2>1. \A n \in DOMAIN d.actions : CandidatesOf(i, d)[n].invocation = i
    BY DEF CandidatesOf
  <2>2. DOMAIN CandidatesOf(i, d) = DOMAIN d.actions
    BY DEF CandidatesOf
  <2> QED BY <2>1, <2>2 DEF ToSet
<1>1. ToSet(CandidatesOf(i, d)) \subseteq Candidate
  BY CandidatesOfType, ElementOfSeq, LenProperties DEF ToSet
<1>2. d.reads \subseteq StateKey /\ d.writes \subseteq StateKey
  BY AdmissionAssumption DEF DecisionOK
<1> QED
  BY <1>0, <1>1, <1>2 DEF ReservationFor, Rejections, Reservation, NoReservation

-----------------------------------------------------------------------------
(* The inductive invariant.                                                *)

LEMMA InitIInv == Init => IInv
BY EmptySeq
DEF Init, IInv, TypeOK, Bookkeeping, Inside, NoHoldAndWait, ReservationsIsolated,
    WaitersApart, Reservation, NoReservation

(* Two decisions being committed have no conflicting actions, whichever    *)
(* policy is in force.                                                     *)
LEMMA CommittingApart ==
    ASSUME IInv, NEW i \in committing, NEW j \in committing, i # j
    PROVE  ~NetworkConflict(reservation[i], reservation[j])
<1>1. CASE Policy = "reject"
  BY <1>1 DEF IInv, Bookkeeping, WaitersApart, Inside
<1>2. CASE Policy # "reject"
  BY <1>2 DEF IInv, ReservationsIsolated, DecisionConflict
<1> QED BY <1>1, <1>2

(* Hence an action of a granted decision conflicts with nothing that runs. *)
LEMMA HeadConflictsWithNothing ==
    ASSUME IInv, NEW i \in committing, pc[i] # "executing",
           NEW c \in reservation[i].candidates, NEW other \in active
    PROVE  ~Conflicts(other, c)
<1>1. PICK j \in Invocation : pc[j] = "executing" /\ other = Head(todo[j])
  BY DEF IInv, Bookkeeping
<1>2. j \in committing /\ other \in reservation[j].candidates
  BY <1>1 DEF IInv, Bookkeeping, Inside
<1> QED BY <1>1, <1>2, CommittingApart DEF NetworkConflict

LEMMA DecideIInv ==
    ASSUME IInv, NEW i \in Invocation, NEW d \in Decision, Decide(i, d)
    PROVE  IInv'
<1> DEFINE mine == ReservationFor(i, d)
<1>0. TypeOK /\ Bookkeeping /\ NoHoldAndWait /\ ReservationsIsolated /\ WaitersApart
  BY DEF IInv
<1>1. /\ pc[i] = "reasoning"
      /\ todo' = [todo EXCEPT ![i] = CandidatesOf(i, d)]
      /\ reservation' = [reservation EXCEPT ![i] = mine]
      /\ UNCHANGED <<pending, active, history, awake>>
  BY DEF Decide
<1>2. mine \in Reservation /\ CandidatesOf(i, d) \in Seq(Candidate)
  BY ReservationForType, CandidatesOfType
<1>3. \/ /\ DecisionReady(i, mine, Len(waiting) + 1)
         /\ pc' = [pc EXCEPT ![i] = "committing"]
         /\ committing' = committing \cup {i}
         /\ waiting' = waiting
      \/ /\ pc' = [pc EXCEPT ![i] = "waiting"]
         /\ waiting' = Append(waiting, i)
         /\ committing' = committing
  BY DEF Decide
<1> HIDE DEF mine
<1>4. TypeOK'
  <2>1. /\ todo' \in [Invocation -> Seq(Candidate)]
        /\ reservation' \in [Invocation -> Reservation]
    BY <1>0, <1>1, <1>2 DEF TypeOK
  <2>2. /\ pc' \in [Invocation ->
                 {"reasoning", "waiting", "committing", "pending", "executing", "done"}]
        /\ waiting' \in Seq(Invocation)
        /\ committing' \subseteq Invocation
    <3>1. CASE waiting' = waiting
      BY <1>0, <1>3, <3>1 DEF TypeOK
    <3>2. CASE waiting' = Append(waiting, i)
      <4>1. Append(waiting, i) \in Seq(Invocation)
        BY <1>0 DEF TypeOK
      <4> QED BY <1>0, <1>3, <3>2, <4>1 DEF TypeOK
    <3> QED BY <1>3, <3>1, <3>2
  <2> QED BY <1>0, <1>1, <2>1, <2>2 DEF TypeOK
<1>5. Bookkeeping'
  <2>1. \A j \in Invocation : pc[j] = "executing" =>
           j # i /\ todo'[j] = todo[j] /\ reservation'[j] = reservation[j] /\ pc'[j] = "executing"
    BY <1>0, <1>1, <1>3 DEF TypeOK
  <2>2. \A j \in Invocation : pc'[j] = "executing" => pc[j] = "executing"
    BY <1>0, <1>1, <1>3 DEF TypeOK
  <2>3. active' = {Head(todo'[j]) : j \in {k \in Invocation : pc'[k] = "executing"}}
    BY <1>0, <1>1, <2>1, <2>2 DEF Bookkeeping
  <2>4. \A j \in Invocation : pc'[j] = "executing" =>
           todo'[j] # <<>> /\ Head(todo'[j]) \in reservation'[j].candidates
    BY <1>0, <2>1, <2>2 DEF Bookkeeping
  <2>5. committing' = {j \in Invocation : pc'[j] \in Inside}
    BY <1>0, <1>1, <1>3 DEF Bookkeeping, TypeOK, Inside
  <2>8. \A j \in Invocation : \A c \in reservation'[j].candidates : c.invocation = j
    BY <1>0, <1>1, ReservationForType DEF Bookkeeping, TypeOK, mine
  <2>6. CASE waiting' = waiting /\ pc' = [pc EXCEPT ![i] = "committing"]
    BY <1>0, <1>1, <2>3, <2>4, <2>5, <2>6, <2>8 DEF Bookkeeping, TypeOK
  <2>7. CASE waiting' = Append(waiting, i) /\ pc' = [pc EXCEPT ![i] = "waiting"]
    <3>1. \A k \in DOMAIN waiting : waiting[k] # i
      BY <1>0, <1>1 DEF Bookkeeping
    <3>2. /\ DOMAIN waiting' = 1 .. Len(waiting) + 1
          /\ DOMAIN waiting = 1 .. Len(waiting)
          /\ Len(waiting) \in Nat
          /\ waiting'[Len(waiting) + 1] = i
          /\ \A k \in DOMAIN waiting : waiting'[k] = waiting[k]
      BY <1>0, <2>7, LenProperties DEF TypeOK
    <3>3. \A k \in DOMAIN waiting' : k \in DOMAIN waiting \/ k = Len(waiting) + 1
      BY <3>2
    <3>4. \A k \in DOMAIN waiting' : pc'[waiting'[k]] = "waiting"
      BY <1>0, <2>7, <3>1, <3>2, <3>3 DEF Bookkeeping, TypeOK
    <3>5. \A j, k \in DOMAIN waiting' : waiting'[j] = waiting'[k] => j = k
      BY <1>0, <3>1, <3>2, <3>3 DEF Bookkeeping
    <3>6. ASSUME NEW j \in Invocation, pc'[j] = "waiting"
          PROVE  \E k \in DOMAIN waiting' : waiting'[k] = j
      <4>1. CASE j = i
        BY <3>2, <4>1
      <4>2. CASE j # i
        <5>1. pc[j] = "waiting"
          BY <1>0, <2>7, <3>6, <4>2 DEF TypeOK
        <5>2. PICK k \in DOMAIN waiting : waiting[k] = j
          BY <1>0, <5>1 DEF Bookkeeping
        <5> QED BY <3>2, <5>2
      <4> QED BY <4>1, <4>2
    <3> QED BY <2>3, <2>4, <2>5, <2>8, <3>4, <3>5, <3>6 DEF Bookkeeping
  <2> QED BY <1>3, <2>6, <2>7
<1>6. NoHoldAndWait'
  BY <1>0, <1>1, <1>3 DEF NoHoldAndWait, TypeOK
<1>7. \A j \in Invocation : j # i => reservation'[j] = reservation[j] /\ pc'[j] = pc[j]
  BY <1>0, <1>1, <1>3 DEF TypeOK
<1>8. reservation'[i] = mine /\ i \notin committing
  BY <1>0, <1>1 DEF TypeOK, Bookkeeping, Inside
<1>9. ReservationsIsolated'
  <2>1. CASE DecisionReady(i, mine, Len(waiting) + 1) /\ committing' = committing \cup {i}
    <3>1. \A j \in committing : ~DecisionConflict(mine, reservation[j])
      BY <2>1 DEF DecisionReady
    <3> QED
      BY <1>0, <1>7, <1>8, <2>1, <3>1, DecisionConflictSymmetric
      DEF ReservationsIsolated, TypeOK
  <2>2. CASE committing' = committing
    BY <1>0, <1>7, <1>8, <2>2 DEF ReservationsIsolated, TypeOK
  <2> QED BY <1>3, <2>1, <2>2
<1>10. WaitersApart'
  <2> SUFFICES ASSUME Policy = "reject",
                      NEW j \in Invocation, NEW k \in Invocation, j # k,
                      pc'[j] \in Inside \cup {"waiting"}, pc'[k] \in Inside \cup {"waiting"}
               PROVE  ~NetworkConflict(reservation'[j], reservation'[k])
    BY DEF WaitersApart
  <2>1. ASSUME NEW m \in Invocation, m # i, pc[m] \in Inside \cup {"waiting"}
        PROVE  ~NetworkConflict(reservation[m], mine) /\ ~NetworkConflict(mine, reservation[m])
    <3>1. m \in committing \cup ToSet(waiting)
      BY <1>0, <2>1 DEF Bookkeeping, ToSet
    <3>2. reservation[m].candidates \subseteq AdmittedFor(i)
      BY <3>1 DEF AdmittedFor
    <3> QED
      BY <3>2, ReservationForType, ConflictsSymmetric DEF NetworkConflict, mine
  <2> QED
    BY <1>0, <1>7, <1>8, <2>1 DEF WaitersApart
<1> QED BY <1>4, <1>5, <1>6, <1>9, <1>10 DEF IInv

(* A thread that wakes up either sleeps on or enters its decision; it      *)
(* never finds itself in the wait of admit().                              *)
LEMMA WakeIInv ==
    ASSUME IInv, NEW i \in Invocation, Wake(i)
    PROVE  IInv'
<1>0. TypeOK /\ Bookkeeping /\ NoHoldAndWait /\ ReservationsIsolated /\ WaitersApart
  BY DEF IInv
<1>1. awake' = awake \ {i} /\ UNCHANGED <<todo, reservation>>
  BY DEF Wake
<1>2. CASE pc[i] = "waiting" /\ DecisionReady(i, reservation[i], PositionOf(i, waiting))
  <2>1. /\ pc' = [pc EXCEPT ![i] = "committing"]
        /\ waiting' = Without(waiting, i)
        /\ committing' = committing \cup {i}
        /\ UNCHANGED <<pending, active, history>>
    BY <1>2 DEF Wake
  <2>2. PICK p \in DOMAIN waiting : waiting[p] = i
    BY <1>0, <1>2 DEF Bookkeeping
  <2>3. /\ waiting' \in Seq(Invocation)
        /\ Len(waiting') = Len(waiting) - 1
        /\ \A n \in DOMAIN waiting' :
              /\ Kept(waiting, i, n) \in DOMAIN waiting
              /\ waiting'[n] = waiting[Kept(waiting, i, n)]
    BY <1>0, <2>1, <2>2, WithoutProperties DEF TypeOK
  <2>4. PositionOf(i, waiting) = p
    BY <1>0, <2>2 DEF PositionOf, Bookkeeping
  <2>5. /\ DOMAIN waiting = 1 .. Len(waiting) /\ Len(waiting) \in Nat
        /\ DOMAIN waiting' = 1 .. Len(waiting) - 1
    BY <1>0, <2>3, LenProperties DEF TypeOK
  <2>6. TypeOK'
    BY <1>0, <1>1, <2>1, <2>3 DEF TypeOK
  <2>7. Bookkeeping'
    <3>1. \A n \in DOMAIN waiting' : waiting'[n] # i
      BY <1>0, <2>2, <2>3, <2>4, <2>5 DEF Kept, Bookkeeping
    <3>2. \A n \in DOMAIN waiting' : pc'[waiting'[n]] = "waiting"
      BY <1>0, <2>1, <2>3, <3>1 DEF Bookkeeping, TypeOK
    <3>3. \A m, n \in DOMAIN waiting' : waiting'[m] = waiting'[n] => m = n
      <4>1. \A m, n \in DOMAIN waiting' :
               Kept(waiting, i, m) = Kept(waiting, i, n) => m = n
        BY <2>4, <2>5 DEF Kept
      <4> QED BY <1>0, <2>3, <4>1 DEF Bookkeeping
    <3>4. ASSUME NEW j \in Invocation, pc'[j] = "waiting"
          PROVE  \E n \in DOMAIN waiting' : waiting'[n] = j
      <4>1. j # i /\ pc[j] = "waiting"
        BY <1>0, <2>1, <3>4 DEF TypeOK
      <4>2. PICK k \in DOMAIN waiting : waiting[k] = j
        BY <1>0, <4>1 DEF Bookkeeping
      <4>3. k # p
        BY <2>2, <4>1, <4>2
      <4> DEFINE n == IF k < p THEN k ELSE k - 1
      <4>4. n \in DOMAIN waiting' /\ Kept(waiting, i, n) = k
        BY <2>4, <2>5, <4>3 DEF Kept
      <4> QED BY <2>3, <4>2, <4>4
    <3>5. committing' = {j \in Invocation : pc'[j] \in Inside}
      BY <1>0, <2>1 DEF Bookkeeping, TypeOK, Inside
    <3>6. \A j \in Invocation : pc'[j] = "executing" <=> pc[j] = "executing"
      BY <1>0, <1>2, <2>1 DEF TypeOK
    <3> QED BY <1>0, <1>1, <2>1, <3>2, <3>3, <3>4, <3>5, <3>6 DEF Bookkeeping
  <2>8. ReservationsIsolated'
    <3>1. \A j \in committing : ~DecisionConflict(reservation[i], reservation[j])
      BY <1>2 DEF DecisionReady
    <3> QED
      BY <1>0, <1>1, <2>1, <3>1, DecisionConflictSymmetric DEF ReservationsIsolated
  <2>9. WaitersApart'
    BY <1>0, <1>1, <1>2, <2>1 DEF WaitersApart, TypeOK, Inside
  <2> QED
    BY <1>0, <2>1, <2>6, <2>7, <2>8, <2>9 DEF IInv, NoHoldAndWait, TypeOK
<1>3. CASE pc[i] = "pending"
  BY <1>0, <1>3 DEF NoHoldAndWait
<1>4. CASE /\ ~(pc[i] = "waiting" /\ DecisionReady(i, reservation[i], PositionOf(i, waiting)))
           /\ pc[i] # "pending"
  <2>1. UNCHANGED <<pc, todo, reservation, waiting, committing, pending, active, history>>
    BY <1>1, <1>4 DEF Wake
  <2> QED
    BY <1>0, <1>1, <2>1
    DEF IInv, TypeOK, Bookkeeping, NoHoldAndWait, ReservationsIsolated, WaitersApart,
        DecisionConflict, StateConflict, NetworkConflict
<1> QED BY <1>2, <1>3, <1>4

LEMMA SkipIInv ==
    ASSUME IInv, NEW i \in Invocation, Skip(i)
    PROVE  IInv'
<1>1. /\ pc[i] = "committing" /\ todo[i] # <<>>
      /\ todo' = [todo EXCEPT ![i] = Tail(todo[i])]
      /\ UNCHANGED <<pc, reservation, waiting, committing, pending, active, history, awake>>
  BY DEF Skip
<1>2. TypeOK'
  BY <1>1, HeadTailProperties DEF IInv, TypeOK
<1>3. Bookkeeping'
  <2>1. \A j \in Invocation : pc[j] = "executing" => todo'[j] = todo[j]
    BY <1>1 DEF IInv, TypeOK
  <2>2. active' = {Head(todo'[j]) : j \in {k \in Invocation : pc'[k] = "executing"}}
    BY <1>1, <2>1 DEF IInv, Bookkeeping
  <2> QED BY <1>1, <2>1, <2>2 DEF IInv, Bookkeeping
<1> QED
  BY <1>1, <1>2, <1>3
  DEF IInv, NoHoldAndWait, ReservationsIsolated, WaitersApart,
      DecisionConflict, StateConflict, NetworkConflict

(* Admission under any policy: refused, or running at once.                *)
LEMMA AdmitIInv ==
    ASSUME IInv, NEW i \in Invocation, Admit(i)
    PROVE  IInv'
<1> DEFINE c == Head(todo[i])
<1>0. TypeOK /\ Bookkeeping /\ NoHoldAndWait
  BY DEF IInv
<1>1. /\ pc[i] = "committing" /\ todo[i] # <<>> /\ c \in reservation[i].candidates
      /\ UNCHANGED <<reservation, waiting, committing, awake>>
  BY DEF Admit
<1>2. c \in Candidate /\ Tail(todo[i]) \in Seq(Candidate)
  BY <1>0, <1>1, HeadTailProperties DEF TypeOK
<1>3. AdmissionReady(c, Len(pending) + 1)
  <2>1. i \in committing
    BY <1>0, <1>1 DEF Bookkeeping, Inside
  <2>2. \A other \in active : ~Conflicts(other, c)
    BY <1>1, <2>1, HeadConflictsWithNothing
  <2>3. DOMAIN pending = {}
    BY <1>0 DEF NoHoldAndWait
  <2> QED BY <2>2, <2>3 DEF AdmissionReady
<1>4. \/ /\ todo' = [todo EXCEPT ![i] = Tail(todo[i])]
         /\ UNCHANGED <<pc, pending, active, history>>
      \/ /\ pc' = [pc EXCEPT ![i] = "executing"]
         /\ active' = active \cup {c}
         /\ history' = [history EXCEPT ![RequestOf[i]] = @ \cup {c}]
         /\ UNCHANGED <<todo, pending>>
  BY <1>3 DEF Admit
<1> HIDE DEF c
<1>5. CASE /\ todo' = [todo EXCEPT ![i] = Tail(todo[i])]
           /\ UNCHANGED <<pc, pending, active, history>>
  <2>1. Skip(i)
    BY <1>1, <1>5 DEF Skip
  <2> QED BY <2>1, SkipIInv
<1>6. CASE /\ pc' = [pc EXCEPT ![i] = "executing"]
           /\ active' = active \cup {c}
           /\ history' = [history EXCEPT ![RequestOf[i]] = @ \cup {c}]
           /\ UNCHANGED <<todo, pending>>
  <2>1. TypeOK'
    BY <1>0, <1>1, <1>2, <1>6, AdmissionAssumption DEF TypeOK
  <2>2. Bookkeeping'
    <3>1. \A j \in Invocation :
             pc'[j] = "executing" <=> (j = i \/ pc[j] = "executing")
      BY <1>0, <1>6 DEF TypeOK
    <3>2. active' = {Head(todo'[j]) : j \in {k \in Invocation : pc'[k] = "executing"}}
      BY <1>0, <1>6, <3>1 DEF Bookkeeping, c
    <3>3. committing' = {j \in Invocation : pc'[j] \in Inside}
      BY <1>0, <1>1, <1>6 DEF Bookkeeping, TypeOK, Inside
    <3>4. /\ \A k \in DOMAIN waiting : pc'[waiting[k]] = "waiting"
          /\ \A j \in Invocation : pc'[j] = "waiting" <=> pc[j] = "waiting"
      BY <1>0, <1>1, <1>6 DEF Bookkeeping, TypeOK
    <3>5. \A j \in Invocation : pc'[j] = "executing" =>
             todo'[j] # <<>> /\ Head(todo'[j]) \in reservation'[j].candidates
      BY <1>0, <1>1, <1>6, <3>1 DEF Bookkeeping, c
    <3> QED BY <1>0, <1>1, <3>2, <3>3, <3>4, <3>5 DEF Bookkeeping
  <2>3. NoHoldAndWait'
    BY <1>0, <1>6 DEF NoHoldAndWait, TypeOK
  <2>4. ReservationsIsolated'
    BY <1>1
    DEF IInv, ReservationsIsolated, DecisionConflict, StateConflict, NetworkConflict
  <2>5. WaitersApart'
    BY <1>1, <1>6 DEF IInv, WaitersApart, TypeOK, Inside, NetworkConflict
  <2> QED BY <2>1, <2>2, <2>3, <2>4, <2>5 DEF IInv
<1> QED BY <1>4, <1>5, <1>6

LEMMA FinishIInv ==
    ASSUME IInv, NEW i \in Invocation, Finish(i)
    PROVE  IInv'
<1>0. TypeOK /\ Bookkeeping /\ NoHoldAndWait
  BY DEF IInv
<1>1. /\ pc[i] = "executing"
      /\ pc' = [pc EXCEPT ![i] = "committing"]
      /\ todo' = [todo EXCEPT ![i] = Tail(todo[i])]
      /\ active' = active \ {Head(todo[i])}
      /\ awake' \subseteq Invocation
      /\ UNCHANGED <<reservation, waiting, committing, pending, history>>
  BY DEF Finish, NotifyAll
<1>2. TypeOK'
  BY <1>0, <1>1, HeadTailProperties DEF TypeOK, Bookkeeping
<1>3. Bookkeeping'
  <2>1. \A j \in Invocation :
           pc'[j] = "executing" <=> (j # i /\ pc[j] = "executing")
    BY <1>0, <1>1 DEF TypeOK
  <2>2. \A j \in Invocation : j # i => todo'[j] = todo[j]
    BY <1>0, <1>1 DEF TypeOK
  <2>3. ASSUME NEW j \in Invocation, j # i, pc[j] = "executing"
        PROVE  Head(todo[j]) # Head(todo[i])
    BY <1>0, <1>1, <2>3 DEF Bookkeeping, Inside
  <2>4. active' = {Head(todo'[j]) : j \in {k \in Invocation : pc'[k] = "executing"}}
    BY <1>0, <1>1, <2>1, <2>2, <2>3 DEF Bookkeeping
  <2>5. committing' = {j \in Invocation : pc'[j] \in Inside}
    BY <1>0, <1>1 DEF Bookkeeping, TypeOK, Inside
  <2>6. /\ \A k \in DOMAIN waiting : pc'[waiting[k]] = "waiting"
        /\ \A j \in Invocation : pc'[j] = "waiting" <=> pc[j] = "waiting"
    BY <1>0, <1>1 DEF Bookkeeping, TypeOK
  <2> QED BY <1>0, <1>1, <2>1, <2>2, <2>4, <2>5, <2>6 DEF Bookkeeping
<1>4. NoHoldAndWait'
  BY <1>0, <1>1 DEF NoHoldAndWait, TypeOK
<1>5. ReservationsIsolated'
  BY <1>1
  DEF IInv, ReservationsIsolated, DecisionConflict, StateConflict, NetworkConflict
<1>6. WaitersApart'
  BY <1>1 DEF IInv, WaitersApart, TypeOK, Inside, NetworkConflict
<1> QED BY <1>2, <1>3, <1>4, <1>5, <1>6 DEF IInv

LEMMA LeaveIInv ==
    ASSUME IInv, NEW i \in Invocation, Leave(i)
    PROVE  IInv'
<1>0. TypeOK /\ Bookkeeping /\ NoHoldAndWait
  BY DEF IInv
<1>1. /\ pc[i] = "committing"
      /\ pc' = [pc EXCEPT ![i] = "done"]
      /\ committing' = committing \ {i}
      /\ awake' \subseteq Invocation
      /\ UNCHANGED <<todo, reservation, waiting, pending, active, history>>
  BY DEF Leave, NotifyAll
<1>2. TypeOK'
  BY <1>0, <1>1 DEF TypeOK
<1>3. Bookkeeping'
  <2>1. \A j \in Invocation : pc'[j] = "executing" <=> pc[j] = "executing"
    BY <1>0, <1>1 DEF TypeOK
  <2>2. committing' = {j \in Invocation : pc'[j] \in Inside}
    BY <1>0, <1>1 DEF Bookkeeping, TypeOK, Inside
  <2>3. /\ \A k \in DOMAIN waiting : pc'[waiting[k]] = "waiting"
        /\ \A j \in Invocation : pc'[j] = "waiting" <=> pc[j] = "waiting"
    BY <1>0, <1>1 DEF Bookkeeping, TypeOK
  <2> QED BY <1>0, <1>1, <2>1, <2>2, <2>3 DEF Bookkeeping
<1>4. NoHoldAndWait'
  BY <1>0, <1>1 DEF NoHoldAndWait, TypeOK
<1>5. ReservationsIsolated'
  BY <1>1
  DEF IInv, ReservationsIsolated, DecisionConflict, StateConflict, NetworkConflict
<1>6. WaitersApart'
  BY <1>1 DEF IInv, WaitersApart, TypeOK, Inside, NetworkConflict
<1> QED BY <1>2, <1>3, <1>4, <1>5, <1>6 DEF IInv

LEMMA StepIInv == IInv /\ [Next]_vars => IInv'
<1> SUFFICES ASSUME IInv, [Next]_vars PROVE IInv'
  OBVIOUS
<1>1. CASE Next
  <2>1. PICK i \in Invocation : Step(i)
    BY <1>1 DEF Next
  <2> QED
    BY <2>1, DecideIInv, WakeIInv, SkipIInv, AdmitIInv, FinishIInv, LeaveIInv DEF Step
<1>2. CASE UNCHANGED vars
  BY <1>2
  DEF vars, IInv, TypeOK, Bookkeeping, NoHoldAndWait, ReservationsIsolated, WaitersApart,
      DecisionConflict, StateConflict, NetworkConflict
<1> QED BY <1>1, <1>2

(* The lists of the admission object always agree with where the threads   *)
(* are, and what is granted together is compatible.                        *)
THEOREM InductiveInvariant == Spec => []IInv
BY InitIInv, StepIInv, PTL DEF Spec

-----------------------------------------------------------------------------
(* Every variable keeps its type, for every policy and every workload.     *)
THEOREM TypeCorrect == Spec => []TypeOK
<1>1. IInv => TypeOK
  BY DEF IInv
<1> QED BY <1>1, InductiveInvariant, PTL

(* Decisions under commitment are isolated from each other, however many   *)
(* of them there are and whatever they read, write and do.                 *)
THEOREM CommitIsolation == Spec => []ReservationsIsolated
<1>1. IInv => ReservationsIsolated
  BY DEF IInv
<1> QED BY <1>1, InductiveInvariant, PTL

(* No thread that holds a reservation ever waits for another action.       *)
THEOREM DecisionsNeverWaitInside == Spec => []NoHoldAndWait
<1>1. IInv => NoHoldAndWait
  BY DEF IInv
<1> QED BY <1>1, InductiveInvariant, PTL

(* Conflicting effects are never produced at the same time.                *)
THEOREM EffectsProtected == Spec => []ActiveConflictFree
<1>1. IInv => ActiveConflictFree
  <2> SUFFICES ASSUME IInv, NEW a \in active, NEW b \in active, a # b
               PROVE  ~Conflicts(a, b)
    BY DEF ActiveConflictFree
  <2>1. PICK i \in Invocation : pc[i] = "executing" /\ a = Head(todo[i])
    BY DEF IInv, Bookkeeping
  <2>2. PICK j \in Invocation : pc[j] = "executing" /\ b = Head(todo[j])
    BY DEF IInv, Bookkeeping
  <2>3. /\ i \in committing /\ a \in reservation[i].candidates
        /\ j \in committing /\ b \in reservation[j].candidates
    BY <2>1, <2>2 DEF IInv, Bookkeeping, Inside
  <2> QED BY <2>1, <2>2, <2>3, CommittingApart DEF NetworkConflict
<1> QED BY <1>1, InductiveInvariant, PTL

-----------------------------------------------------------------------------
(* The verdict.                                                            *)

LEMMA InitVerdict == Init => VerdictInv
<1> SUFFICES ASSUME Init PROVE VerdictInv
  OBVIOUS
<1>1. \A i \in Invocation : todo[i] = <<>> /\ DOMAIN todo[i] = {}
  BY DEF Init
<1>2. OwnActionsApart
  BY <1>1 DEF OwnActionsApart
<1>3. HistoryApart
  BY <1>1 DEF HistoryApart
<1>4. RequestHistoryConflictFree
  BY DEF Init, RequestHistoryConflictFree
<1> QED BY <1>2, <1>3, <1>4 DEF VerdictInv

(* Arbitration inside a response made its actions compatible.              *)
LEMMA CandidatesApart ==
    ASSUME Policy = "reject", NEW i \in Invocation, NEW d \in Decision,
           NEW m \in DOMAIN CandidatesOf(i, d), NEW n \in DOMAIN CandidatesOf(i, d), m < n
    PROVE  ~Conflicts(CandidatesOf(i, d)[m], CandidatesOf(i, d)[n])
<1>1. m \in DOMAIN d.actions /\ n \in DOMAIN d.actions
  BY DEF CandidatesOf
<1>2. ~Conflicts(d.actions[m], d.actions[n])
  BY <1>1, AdmissionAssumption DEF DecisionOK, Keeps
<1>3. /\ CandidatesOf(i, d)[m].target = d.actions[m].target
      /\ CandidatesOf(i, d)[m].effects = d.actions[m].effects
      /\ CandidatesOf(i, d)[n].target = d.actions[n].target
      /\ CandidatesOf(i, d)[n].effects = d.actions[n].effects
  BY <1>1 DEF CandidatesOf
<1> QED BY <1>2, <1>3 DEF Conflicts, ConflictKeys

LEMMA DecideVerdict ==
    ASSUME IInv, VerdictInv, NEW i \in Invocation, NEW d \in Decision, Decide(i, d)
    PROVE  VerdictInv'
<1>1. /\ todo' = [todo EXCEPT ![i] = CandidatesOf(i, d)]
      /\ reservation' = [reservation EXCEPT ![i] = ReservationFor(i, d)]
      /\ history' = history
  BY DEF Decide
<1>2. \A j \in Invocation : j # i => pc'[j] = pc[j] /\ todo'[j] = todo[j]
                                      /\ reservation'[j] = reservation[j]
  BY DEF Decide, IInv, TypeOK
<1>3. todo'[i] = CandidatesOf(i, d) /\ reservation'[i] = ReservationFor(i, d)
  BY <1>1 DEF IInv, TypeOK
<1>4. OwnActionsApart'
  BY <1>2, <1>3, CandidatesApart DEF VerdictInv, OwnActionsApart
<1>5. HistoryApart'
  <2>1. ASSUME Policy = "reject", NEW c \in ReservationFor(i, d).candidates,
               NEW w \in history[RequestOf[i]]
        PROVE  ~Conflicts(w, c)
    <3>1. w \in AdmittedFor(i)
      BY DEF AdmittedFor, Admitted
    <3> QED BY <2>1, <3>1, ReservationForType
  <2> QED BY <1>1, <1>2, <1>3, <2>1 DEF VerdictInv, HistoryApart
<1>6. RequestHistoryConflictFree'
  BY <1>1 DEF VerdictInv, RequestHistoryConflictFree
<1> QED BY <1>4, <1>5, <1>6 DEF VerdictInv

(* A thread that gets past an action keeps less to worry about.            *)
LEMMA TailVerdict ==
    ASSUME IInv, VerdictInv, NEW i \in Invocation, todo[i] # <<>>,
           todo' = [todo EXCEPT ![i] = Tail(todo[i])],
           pc[i] \in Inside, pc' = [pc EXCEPT ![i] = "committing"],
           UNCHANGED <<reservation, history>>
    PROVE  VerdictInv'
<1>1. \A j \in Invocation : j # i => pc'[j] = pc[j] /\ todo'[j] = todo[j]
  BY DEF IInv, TypeOK
<1>2. pc'[i] = "committing" /\ todo'[i] = Tail(todo[i]) /\ todo[i] \in Seq(Candidate)
  BY DEF IInv, TypeOK
<1>3. \A n \in DOMAIN todo'[i] :
         n \in Nat /\ n + 1 \in DOMAIN todo[i] /\ n + 1 # 1 /\ todo'[i][n] = todo[i][n + 1]
  <2> DEFINE q == todo[i]
  <2>1. /\ Tail(q) \in Seq(Candidate) /\ Len(Tail(q)) = Len(q) - 1
        /\ \A n \in 1 .. Len(Tail(q)) : Tail(q)[n] = q[n + 1]
    BY <1>2, HeadTailProperties
  <2>2. /\ DOMAIN Tail(q) = 1 .. Len(q) - 1 /\ DOMAIN q = 1 .. Len(q)
        /\ Len(q) \in Nat
    BY <1>2, <2>1, LenProperties
  <2> HIDE DEF q
  <2>3. \A n \in DOMAIN Tail(q) :
           n \in Nat /\ n + 1 \in DOMAIN q /\ n + 1 # 1 /\ Tail(q)[n] = q[n + 1]
    BY <2>1, <2>2
  <2> QED BY <1>2, <2>3 DEF q
<1>4. OwnActionsApart'
  <2> SUFFICES ASSUME Policy = "reject", NEW j \in Invocation,
                      NEW m \in DOMAIN todo'[j], NEW n \in DOMAIN todo'[j], m < n
               PROVE  ~Conflicts(todo'[j][m], todo'[j][n])
    BY DEF OwnActionsApart
  <2>1. CASE j = i
    <3>1. m + 1 < n + 1
      BY <1>3, <2>1
    <3> QED BY <1>3, <2>1, <3>1 DEF VerdictInv, OwnActionsApart
  <2>2. CASE j # i
    BY <1>1, <2>2 DEF VerdictInv, OwnActionsApart
  <2> QED BY <2>1, <2>2
<1>5. HistoryApart'
  <2> SUFFICES ASSUME Policy = "reject", NEW j \in Invocation,
                      pc'[j] \in Inside \cup {"waiting"},
                      NEW n \in DOMAIN todo'[j], todo'[j][n] \in reservation[j].candidates,
                      pc'[j] = "executing" => n # 1,
                      NEW w \in history[RequestOf[j]]
               PROVE  ~Conflicts(w, todo'[j][n])
    BY DEF HistoryApart
  <2>1. CASE j = i
    BY <1>3, <2>1 DEF VerdictInv, HistoryApart
  <2>2. CASE j # i
    BY <1>1, <2>2 DEF VerdictInv, HistoryApart
  <2> QED BY <2>1, <2>2
<1>6. RequestHistoryConflictFree'
  BY DEF VerdictInv, RequestHistoryConflictFree
<1> QED BY <1>4, <1>5, <1>6 DEF VerdictInv

LEMMA AdmitVerdict ==
    ASSUME IInv, VerdictInv, NEW i \in Invocation, Admit(i)
    PROVE  VerdictInv'
<1> DEFINE c == Head(todo[i])
           r == RequestOf[i]
<1>1. /\ pc[i] = "committing" /\ todo[i] # <<>> /\ c \in reservation[i].candidates
      /\ reservation' = reservation
  BY DEF Admit
<1>2. todo[i] \in Seq(Candidate) /\ 1 \in DOMAIN todo[i] /\ c = todo[i][1]
  BY <1>1, HeadTailProperties, LenProperties, EmptySeq DEF IInv, TypeOK
<1>3. r \in Request
  BY AdmissionAssumption
<1>4. CASE /\ pc' = [pc EXCEPT ![i] = "executing"]
           /\ history' = [history EXCEPT ![r] = @ \cup {c}]
           /\ todo' = todo
  <2>1. /\ \A q \in Request : q # r => history'[q] = history[q]
        /\ history'[r] = history[r] \cup {c}
    BY <1>3, <1>4 DEF IInv, TypeOK
  <2>2. Policy = "reject" => \A w \in history[r] : ~Conflicts(w, c)
    BY <1>1, <1>2 DEF VerdictInv, HistoryApart, Inside
  <2>3. OwnActionsApart'
    BY <1>4 DEF VerdictInv, OwnActionsApart
  <2>4. RequestHistoryConflictFree'
    BY <2>1, <2>2, ConflictsSymmetric DEF VerdictInv, RequestHistoryConflictFree
  <2>5. HistoryApart'
    <3> SUFFICES ASSUME Policy = "reject", NEW j \in Invocation,
                        pc'[j] \in Inside \cup {"waiting"},
                        NEW n \in DOMAIN todo[j], todo[j][n] \in reservation[j].candidates,
                        pc'[j] = "executing" => n # 1,
                        NEW w \in history'[RequestOf[j]]
                 PROVE  ~Conflicts(w, todo[j][n])
      BY <1>1, <1>4 DEF HistoryApart
    <3>1. RequestOf[j] \in Request
      BY AdmissionAssumption
    <3>2. pc[j] \in Inside \cup {"waiting"} /\ (pc[j] = "executing" => n # 1)
      BY <1>1, <1>4 DEF IInv, TypeOK, Inside
    <3>3. CASE w \in history[RequestOf[j]]
      BY <3>2, <3>3 DEF VerdictInv, HistoryApart
    <3>4. CASE w = c /\ j # i
      <4>1. ~NetworkConflict(reservation[i], reservation[j])
        BY <1>1, <3>2, <3>4 DEF IInv, WaitersApart, Inside
      <4> QED BY <1>1, <3>4, <4>1 DEF NetworkConflict
    <3>5. CASE w = c /\ j = i
      <4>1. n # 1 /\ n \in Nat /\ n >= 1
        <5>1. pc'[i] = "executing"
          BY <1>4 DEF IInv, TypeOK
        <5> QED BY <1>2, <3>5, <5>1, LenProperties
      <4>2. 1 < n
        BY <4>1
      <4> QED BY <1>2, <3>5, <4>2 DEF VerdictInv, OwnActionsApart
    <3> QED BY <2>1, <3>1, <3>3, <3>4, <3>5
  <2> QED BY <2>3, <2>4, <2>5 DEF VerdictInv
<1>5. CASE todo' = [todo EXCEPT ![i] = Tail(@)] /\ UNCHANGED <<pc, history>>
  <2>1. pc' = [pc EXCEPT ![i] = "committing"] /\ pc[i] \in Inside
    BY <1>1, <1>5 DEF IInv, TypeOK, Inside
  <2> QED BY <1>1, <1>5, <2>1, TailVerdict
<1>6. CASE pc' = [pc EXCEPT ![i] = "pending"] /\ UNCHANGED <<todo, history>>
  <2>1. \A j \in Invocation : pc'[j] \in Inside \cup {"waiting"}
           => pc[j] \in Inside \cup {"waiting"} /\ (pc[j] = "executing" => pc'[j] = "executing")
    BY <1>1, <1>6 DEF IInv, TypeOK, Inside
  <2> QED
    BY <1>1, <1>6, <2>1
    DEF VerdictInv, OwnActionsApart, HistoryApart, RequestHistoryConflictFree
<1> QED BY <1>4, <1>5, <1>6 DEF Admit

(* Steps that give no thread a new action and no request a new past.       *)
LEMMA QuietVerdict ==
    ASSUME VerdictInv, UNCHANGED <<todo, reservation, history>>,
           \A j \in Invocation : pc'[j] \in Inside \cup {"waiting"} =>
              pc[j] \in Inside \cup {"waiting"} /\ (pc[j] = "executing" => pc'[j] = "executing")
    PROVE  VerdictInv'
BY DEF VerdictInv, OwnActionsApart, HistoryApart, RequestHistoryConflictFree

LEMMA StepVerdict == IInv /\ VerdictInv /\ [Next]_vars => VerdictInv'
<1> SUFFICES ASSUME IInv, VerdictInv, [Next]_vars PROVE VerdictInv'
  OBVIOUS
<1>1. CASE UNCHANGED vars
  BY <1>1, QuietVerdict DEF vars
<1>2. ASSUME NEW i \in Invocation, Step(i) PROVE VerdictInv'
  <2>1. CASE Wake(i)
    <3>1. UNCHANGED <<todo, reservation, history>>
      BY <2>1 DEF Wake, IInv, NoHoldAndWait
    <3>2. \/ pc' = pc
          \/ pc[i] = "waiting" /\ pc' = [pc EXCEPT ![i] = "committing"]
      BY <2>1 DEF Wake, IInv, NoHoldAndWait
    <3>3. \A j \in Invocation : pc'[j] \in Inside \cup {"waiting"} =>
             pc[j] \in Inside \cup {"waiting"} /\ (pc[j] = "executing" => pc'[j] = "executing")
      BY <3>2 DEF IInv, TypeOK, Inside
    <3> QED BY <3>1, <3>3, QuietVerdict
  <2>2. CASE Skip(i)
    <3>1. /\ pc' = [pc EXCEPT ![i] = "committing"] /\ pc[i] \in Inside /\ todo[i] # <<>>
          /\ todo' = [todo EXCEPT ![i] = Tail(todo[i])]
          /\ UNCHANGED <<reservation, history>>
      BY <2>2 DEF Skip, IInv, TypeOK, Inside
    <3> QED BY <3>1, TailVerdict
  <2>3. CASE Finish(i)
    <3>1. /\ pc' = [pc EXCEPT ![i] = "committing"] /\ pc[i] \in Inside /\ todo[i] # <<>>
          /\ todo' = [todo EXCEPT ![i] = Tail(todo[i])]
          /\ UNCHANGED <<reservation, history>>
      BY <2>3 DEF Finish, IInv, Bookkeeping, Inside
    <3> QED BY <3>1, TailVerdict
  <2>4. CASE Leave(i)
    <3>1. UNCHANGED <<todo, reservation, history>> /\ pc' = [pc EXCEPT ![i] = "done"]
      BY <2>4 DEF Leave
    <3>2. \A j \in Invocation : pc'[j] \in Inside \cup {"waiting"} =>
             pc[j] \in Inside \cup {"waiting"} /\ (pc[j] = "executing" => pc'[j] = "executing")
      BY <2>4, <3>1 DEF Leave, IInv, TypeOK, Inside
    <3> QED BY <3>1, <3>2, QuietVerdict
  <2> QED BY <1>2, <2>1, <2>2, <2>3, <2>4, DecideVerdict, AdmitVerdict DEF Step
<1> QED BY <1>1, <1>2 DEF Next

(* The invariant of verdicts and notifications, over every behaviour of    *)
(* decision() and admit().                                                 *)
THEOREM VerdictInvariant == Spec => []VerdictInv
BY InitVerdict, StepVerdict, InductiveInvariant, PTL DEF Spec

(* What decision() granted, admit() never refuses: under "reject" no       *)
(* decision is broken off half way because of another one.                 *)
THEOREM VerdictsStand == Spec => []VerdictStands
<1>1. ASSUME IInv, VerdictInv PROVE VerdictStands
  <2> SUFFICES ASSUME NEW i \in committing, pc[i] = "committing", Policy = "reject",
                      NEW c \in ToSet(todo[i]) \cap reservation[i].candidates,
                      NEW w \in Admitted(i)
               PROVE  ~Conflicts(w, c)
    BY DEF VerdictStands, LosesLate
  <2>1. i \in Invocation
    BY <1>1 DEF IInv, TypeOK
  <2>2. CASE w \in active
    BY <1>1, <2>2, HeadConflictsWithNothing
  <2>3. CASE w \in history[RequestOf[i]]
    <3>1. PICK n \in DOMAIN todo[i] : todo[i][n] = c
      BY DEF ToSet
    <3> QED BY <1>1, <2>1, <2>3, <3>1 DEF VerdictInv, HistoryApart, Inside
  <2> QED BY <2>2, <2>3 DEF Admitted
<1> QED BY <1>1, InductiveInvariant, VerdictInvariant, PTL

(* Whatever a request executes under "reject" is free of conflicts, however*)
(* its invocations overlapped.                                             *)
THEOREM RequestsConflictFree == Spec => []RequestHistoryConflictFree
<1>1. VerdictInv => RequestHistoryConflictFree
  BY DEF VerdictInv
<1> QED BY <1>1, VerdictInvariant, PTL

-----------------------------------------------------------------------------
(* Waiting.                                                                *)

(* DecisionReady with the state it looks at made explicit: the threads     *)
(* committing, those waiting, and the reservations.                        *)
Unobstructed(threads, queue, reserved, i, position) ==
    /\ \A j \in threads : ~DecisionConflict(reserved[i], reserved[j])
    /\ \A k \in DOMAIN queue :
          /\ queue[k] # i
          /\ DecisionConflict(reserved[i], reserved[queue[k]])
          => ~Precedes(queue[k], k, i, position)

LEMMA WakeupNow ==
    NoLostWakeup <=>
        \A k \in DOMAIN waiting :
            Unobstructed(committing, waiting, reservation, waiting[k], k)
                => waiting[k] \in awake
BY DEF NoLostWakeup, DecisionReady, Unobstructed

LEMMA WakeupNext ==
    NoLostWakeup' <=>
        \A k \in DOMAIN waiting' :
            Unobstructed(committing', waiting', reservation', waiting'[k], k)
                => waiting'[k] \in awake'
BY DEF NoLostWakeup, DecisionReady, Unobstructed, DecisionConflict, StateConflict,
       NetworkConflict, Precedes

LEMMA InitWakeup == Init => NoLostWakeup
BY DEF Init, NoLostWakeup

(* A thread joins the waiting list because somebody is ahead of it, and    *)
(* new obstacles make nobody ready.                                        *)
LEMMA DecideWakeup ==
    ASSUME IInv, NoLostWakeup, NEW i \in Invocation, NEW d \in Decision, Decide(i, d)
    PROVE  NoLostWakeup'
<1> DEFINE mine == ReservationFor(i, d)
<1>1. /\ reservation' = [reservation EXCEPT ![i] = mine]
      /\ awake' = awake /\ pc[i] = "reasoning"
  BY DEF Decide
<1>2. \A k \in DOMAIN waiting : waiting[k] # i
  BY <1>1 DEF IInv, Bookkeeping
<1>3. waiting \in Seq(Invocation) /\ committing \subseteq Invocation /\ i \notin committing
  BY <1>1 DEF IInv, TypeOK, Bookkeeping, Inside
<1>4. /\ \A j \in Invocation : j # i => reservation'[j] = reservation[j]
      /\ reservation'[i] = mine
  BY <1>1 DEF IInv, TypeOK
<1>5. /\ DOMAIN waiting = 1 .. Len(waiting) /\ Len(waiting) \in Nat
      /\ \A k \in DOMAIN waiting : waiting[k] \in Invocation
  BY <1>3, LenProperties, ElementOfSeq
<1> HIDE DEF mine
<1>6. CASE /\ committing' = committing \cup {i}
           /\ waiting' = waiting
  <2>1. ASSUME NEW k \in DOMAIN waiting,
               Unobstructed(committing', waiting', reservation', waiting[k], k)
        PROVE  Unobstructed(committing, waiting, reservation, waiting[k], k)
    BY <1>2, <1>3, <1>4, <1>5, <1>6, <2>1 DEF Unobstructed
  <2> QED BY <1>1, <1>6, <2>1, WakeupNow, WakeupNext
<1>7. CASE /\ ~DecisionReady(i, mine, Len(waiting) + 1)
           /\ waiting' = Append(waiting, i)
           /\ committing' = committing
  <2>1. /\ DOMAIN waiting' = 1 .. Len(waiting) + 1
        /\ waiting'[Len(waiting) + 1] = i
        /\ \A k \in DOMAIN waiting : waiting'[k] = waiting[k] /\ k \in DOMAIN waiting'
    BY <1>3, <1>5, <1>7
  <2>2. ASSUME NEW k \in DOMAIN waiting,
               Unobstructed(committing', waiting', reservation', waiting[k], k)
        PROVE  Unobstructed(committing, waiting, reservation, waiting[k], k)
    BY <1>2, <1>3, <1>4, <1>5, <1>7, <2>1, <2>2 DEF Unobstructed
  <2>3. ~Unobstructed(committing', waiting', reservation', i, Len(waiting) + 1)
    BY <1>2, <1>3, <1>4, <1>5, <1>7, <2>1 DEF Unobstructed, DecisionReady
  <2>4. \A k \in DOMAIN waiting' : k \in DOMAIN waiting \/ k = Len(waiting) + 1
    BY <1>5, <2>1
  <2> QED BY <1>1, <2>1, <2>2, <2>3, <2>4, WakeupNow, WakeupNext
<1> QED BY <1>6, <1>7 DEF Decide, mine

(* A thread that stops waiting starts committing, and stands in the way of *)
(* the same threads as before.                                             *)
LEMMA WakeWakeup ==
    ASSUME IInv, NoLostWakeup, NEW i \in Invocation, Wake(i)
    PROVE  NoLostWakeup'
<1>1. awake' = awake \ {i} /\ UNCHANGED <<todo, reservation>>
  BY DEF Wake
<1>2. waiting \in Seq(Invocation) /\ committing \subseteq Invocation
  BY DEF IInv, TypeOK
<1>3. CASE pc[i] = "waiting" /\ DecisionReady(i, reservation[i], PositionOf(i, waiting))
  <2>1. waiting' = Without(waiting, i) /\ committing' = committing \cup {i}
    BY <1>3 DEF Wake
  <2>2. PICK p \in DOMAIN waiting : waiting[p] = i
    BY <1>3 DEF IInv, Bookkeeping
  <2>3. PositionOf(i, waiting) = p
    BY <2>2 DEF PositionOf, IInv, Bookkeeping
  <2>4. /\ waiting' \in Seq(Invocation)
        /\ Len(waiting') = Len(waiting) - 1
        /\ \A n \in DOMAIN waiting' :
              /\ Kept(waiting, i, n) \in DOMAIN waiting
              /\ waiting'[n] = waiting[Kept(waiting, i, n)]
    BY <1>2, <2>1, <2>2, WithoutProperties
  <2>5. /\ DOMAIN waiting = 1 .. Len(waiting) /\ Len(waiting) \in Nat
        /\ DOMAIN waiting' = 1 .. Len(waiting) - 1
    BY <1>2, <2>4, LenProperties
  <2>6. \A m, n \in DOMAIN waiting' :
           m < n <=> Kept(waiting, i, m) < Kept(waiting, i, n)
    BY <2>3, <2>5 DEF Kept
  <2>7. ASSUME NEW n \in DOMAIN waiting',
               Unobstructed(committing', waiting', reservation', waiting'[n], n)
        PROVE  waiting'[n] \in awake \ {i}
    <3> DEFINE k == Kept(waiting, i, n)
               t == waiting'[n]
    <3>1. k \in DOMAIN waiting /\ waiting[k] = t
      BY <2>4
    <3>2. t # i
      BY <2>2, <2>3, <2>5, <3>1 DEF Kept, IInv, Bookkeeping
    <3>3. \A j \in committing \cup {i} : ~DecisionConflict(reservation[t], reservation[j])
      BY <1>1, <2>1, <2>7 DEF Unobstructed
    <3>4. ASSUME NEW q \in DOMAIN waiting, waiting[q] # t,
                 DecisionConflict(reservation[t], reservation[waiting[q]])
          PROVE  ~Precedes(waiting[q], q, t, k)
      <4>1. q # p
        BY <2>2, <3>3, <3>4
      <4> DEFINE m == IF q < p THEN q ELSE q - 1
      <4>2. m \in DOMAIN waiting' /\ Kept(waiting, i, m) = q
        BY <2>3, <2>5, <4>1 DEF Kept
      <4>3. waiting'[m] = waiting[q]
        BY <2>4, <4>2
      <4>4. m < n <=> q < k
        BY <2>6, <4>2
      <4> HIDE DEF m, k
      <4>5. ~Precedes(waiting[q], m, t, n)
        BY <1>1, <2>7, <3>4, <4>2, <4>3 DEF Unobstructed
      <4> QED BY <4>4, <4>5 DEF Precedes
    <3>5. Unobstructed(committing, waiting, reservation, t, k)
      BY <3>3, <3>4 DEF Unobstructed
    <3> HIDE DEF k, t
    <3>6. t \in awake
      BY <3>1, <3>5, WakeupNow
    <3> QED BY <3>2, <3>6 DEF t
  <2> QED BY <1>1, <2>7, WakeupNext
<1>4. CASE ~(pc[i] = "waiting" /\ DecisionReady(i, reservation[i], PositionOf(i, waiting)))
  <2>1. UNCHANGED <<waiting, committing>>
    BY <1>4 DEF Wake, IInv, NoHoldAndWait
  <2>2. ASSUME NEW k \in DOMAIN waiting,
               Unobstructed(committing, waiting, reservation, waiting[k], k)
        PROVE  waiting[k] # i
    <3> SUFFICES ASSUME waiting[k] = i PROVE FALSE
      OBVIOUS
    <3>1. PositionOf(i, waiting) = k
      BY DEF PositionOf, IInv, Bookkeeping
    <3>2. pc[i] = "waiting"
      BY DEF IInv, Bookkeeping
    <3>3. DecisionReady(i, reservation[i], k)
      BY <2>2 DEF DecisionReady, Unobstructed
    <3> QED BY <1>4, <3>1, <3>2, <3>3
  <2> QED BY <1>1, <2>1, <2>2, WakeupNow, WakeupNext
<1> QED BY <1>3, <1>4

LEMMA NotifiedWakeup ==
    ASSUME IInv, NotifyAll, UNCHANGED waiting,
           \A j \in Invocation : pc[j] = "waiting" => pc'[j] = "waiting"
    PROVE  NoLostWakeup'
<1>1. \A k \in DOMAIN waiting : waiting[k] \in Invocation /\ pc[waiting[k]] = "waiting"
  BY ElementOfSeq, LenProperties DEF IInv, TypeOK, Bookkeeping
<1>2. \A k \in DOMAIN waiting' : waiting'[k] \in awake'
  BY <1>1 DEF NotifyAll
<1> QED BY <1>2 DEF NoLostWakeup

LEMMA StepWakeup == IInv /\ NoLostWakeup /\ [Next]_vars => NoLostWakeup'
<1> SUFFICES ASSUME IInv, NoLostWakeup, [Next]_vars PROVE NoLostWakeup'
  OBVIOUS
<1>1. ASSUME UNCHANGED <<reservation, waiting, committing, awake>> PROVE NoLostWakeup'
  BY <1>1, WakeupNow, WakeupNext
<1>2. CASE UNCHANGED vars
  BY <1>1, <1>2 DEF vars
<1>3. ASSUME NEW i \in Invocation, Step(i) PROVE NoLostWakeup'
  <2>1. CASE Skip(i)
    BY <1>1, <2>1 DEF Skip
  <2>2. CASE Admit(i)
    BY <1>1, <2>2 DEF Admit
  <2>3. CASE Finish(i)
    BY <2>3, NotifiedWakeup DEF Finish, IInv, TypeOK
  <2>4. CASE Leave(i)
    BY <2>4, NotifiedWakeup DEF Leave, IInv, TypeOK
  <2> QED BY <1>3, <2>1, <2>2, <2>3, <2>4, DecideWakeup, WakeWakeup DEF Step
<1> QED BY <1>2, <1>3 DEF Next

(* A thread whose obstacles are gone has been notified: only the end of an *)
(* action or of a decision notifies, and that is enough.                   *)
THEOREM WakeupsKept == Spec => []NoLostWakeup
BY InitWakeup, StepWakeup, InductiveInvariant, PTL DEF Spec

(* A set of numbers has a least member.                                    *)
LEMMA LeastPlace ==
    ASSUME NEW T \in SUBSET Nat, T # {}
    PROVE  \E n \in T : \A m \in T : n <= m
<1> DEFINE Less == {p \in Nat \X Nat : p[1] < p[2]}
<1>1. IsWellFoundedOn(Less, Nat)
  BY NatLessThanWellFounded DEF OpToRel
<1> HIDE DEF Less
<1>2. PICK n \in T : \A m \in T : <<m, n>> \notin Less
  BY <1>1, WFMin
<1>3. ASSUME NEW m \in T PROVE n <= m
  <2>1. m \in Nat /\ n \in Nat /\ <<m, n>> \in Nat \X Nat
    OBVIOUS
  <2>2. ~(m < n)
    BY <1>2, <2>1 DEF Less
  <2> QED BY <2>1, <2>2
<1> QED BY <1>3

(* Among any waiters there is one that nobody in the group is ahead of.    *)
LEMMA SomebodyFirst ==
    ASSUME waiting \in Seq(Invocation), NEW group \in SUBSET DOMAIN waiting, group # {}
    PROVE  \E k \in group : \A n \in group : ~Precedes(waiting[n], n, waiting[k], k)
<1> DEFINE Before(k) == {n \in group : Precedes(waiting[n], n, waiting[k], k)}
           places == {Cardinality(Before(k)) : k \in group}
<1>1. /\ group \in SUBSET Int
      /\ \A k \in group : PriorityOf[waiting[k]] \in Int
  <2>1. DOMAIN waiting = 1 .. Len(waiting) /\ Len(waiting) \in Nat
    BY LenProperties
  <2>2. \A k \in DOMAIN waiting : waiting[k] \in Invocation
    BY <2>1, ElementOfSeq
  <2> QED BY <2>1, <2>2, AdmissionAssumption
<1>2. IsFiniteSet(group)
  <2>1. DOMAIN waiting = 1 .. Len(waiting) /\ Len(waiting) \in Nat
    BY LenProperties
  <2>2. IsFiniteSet(1 .. Len(waiting))
    BY <2>1, FS_Interval
  <2> QED BY <2>1, <2>2, FS_Subset
<1>3. \A k \in group : IsFiniteSet(Before(k)) /\ Cardinality(Before(k)) \in Nat
  BY <1>2, FS_Subset, FS_CardinalityType
<1>4. ASSUME NEW k \in group, NEW n \in group, Precedes(waiting[n], n, waiting[k], k)
      PROVE  Cardinality(Before(n)) < Cardinality(Before(k))
  <2>1. Before(n) \subseteq Before(k)
    BY <1>1, <1>4 DEF Precedes
  <2>2. n \in Before(k) /\ n \notin Before(n)
    BY <1>1, <1>4 DEF Precedes
  <2>3. Cardinality(Before(n)) <= Cardinality(Before(k))
        /\ Cardinality(Before(n)) # Cardinality(Before(k))
    <3> HIDE DEF Before
    <3> QED BY <1>3, <2>1, <2>2, FS_Subset
  <2> HIDE DEF Before
  <2> QED BY <1>3, <2>3
<1> HIDE DEF Before
<1>5. places \in SUBSET Nat /\ places # {}
  BY <1>3
<1>6. PICK least \in places : \A m \in places : least <= m
  BY <1>5, LeastPlace
<1>7. PICK k \in group : Cardinality(Before(k)) = least
  BY <1>6
<1>8. \A n \in group : ~Precedes(waiting[n], n, waiting[k], k)
  <2> SUFFICES ASSUME NEW n \in group, Precedes(waiting[n], n, waiting[k], k)
               PROVE  FALSE
    OBVIOUS
  <2>1. Cardinality(Before(n)) < least
    BY <1>4, <1>7
  <2>2. least <= Cardinality(Before(n))
    BY <1>6
  <2> QED BY <1>3, <1>7, <2>1, <2>2
<1> QED BY <1>8

(* No circular wait: the one nobody in the group is ahead of is held up    *)
(* from outside the group, or nothing holds it up and it was notified.     *)
THEOREM NobodyWaitsInACircle == Spec => []NoCircularWait
<1>1. IInv /\ NoLostWakeup => NoCircularWait
  <2> SUFFICES ASSUME IInv, NoLostWakeup,
                      NEW group \in (SUBSET DOMAIN waiting) \ {{}}
               PROVE  \E k \in group :
                        \/ waiting[k] \in awake
                        \/ \E j \in committing :
                              DecisionConflict(reservation[waiting[k]], reservation[j])
                        \/ \E n \in DOMAIN waiting \ group : Obstructs(n, k)
    BY DEF NoCircularWait
  <2>1. waiting \in Seq(Invocation) /\ group \in SUBSET DOMAIN waiting /\ group # {}
    BY DEF IInv, TypeOK
  <2>2. PICK k \in group : \A n \in group : ~Precedes(waiting[n], n, waiting[k], k)
    BY <2>1, SomebodyFirst
  <2>3. CASE DecisionReady(waiting[k], reservation[waiting[k]], k)
    BY <2>1, <2>3 DEF NoLostWakeup
  <2>4. CASE ~DecisionReady(waiting[k], reservation[waiting[k]], k)
    <3>1. \/ \E j \in committing :
               DecisionConflict(reservation[waiting[k]], reservation[j])
          \/ \E n \in DOMAIN waiting : Obstructs(n, k)
      BY <2>4 DEF DecisionReady, Obstructs
    <3>2. \A n \in group : ~Obstructs(n, k)
      BY <2>2 DEF Obstructs
    <3> QED BY <3>1, <3>2
  <2> QED BY <2>3, <2>4
<1> QED BY <1>1, WakeupsKept, InductiveInvariant, PTL

-----------------------------------------------------------------------------
(* The shared store.                                                       *)

(* The row an update leaves is newer than the row before, and is written.  *)
LEMMA UpdatedRow ==
    ASSUME entries \in [Key -> Entry], writes \in Nat,
           NEW b \in Batch, NEW k \in Key
    PROVE  /\ Updated(b)[k] \in Entry
           /\ \/ Updated(b)[k] = entries[k]
              \/ Updated(b)[k].version = entries[k].version + 1
<1>1. b \in Seq(Update)
  BY StoreAssumption
<1>2. CASE \E n \in DOMAIN b : b[n].key = k
  <2> DEFINE n == CHOOSE n \in DOMAIN b : b[n].key = k
  <2>1. n \in DOMAIN b
    BY <1>2
  <2>2. n \in Nat
    BY <1>1, <2>1
  <2>3. Updated(b)[k] = [version |-> entries[k].version + 1,
                         deleted |-> b[n].operation = "delete",
                         value   |-> writes + n]
    BY <1>2 DEF Updated
  <2>4. entries[k].version \in Nat
    BY DEF Entry
  <2> QED
    BY <2>2, <2>3, <2>4 DEF Entry
<1>3. CASE ~\E n \in DOMAIN b : b[n].key = k
  <2>1. Updated(b)[k] = entries[k]
    BY <1>3 DEF Updated
  <2> QED
    BY <2>1
<1> QED
  BY <1>2, <1>3

LEMMA InitStore == StoreInit => StoreInv
  BY DEF StoreInit, StoreInv, StoreTypeOK, RowsWritten, VersionIdentifiesWrite, Entry, Absent

LEMMA SnapshotStore ==
    ASSUME StoreInv, NEW c \in Client, Snapshot(c)
    PROVE  StoreInv'
<1> USE DEF StoreInv
<1>1. StoreTypeOK'
  BY DEF Snapshot, StoreTypeOK, Entry, Absent, VisibleEntry
<1>2. ASSUME NEW d \in Client, NEW k \in Key
      PROVE  snapshots'[d][k] = IF d = c THEN VisibleEntry(entries[k]) ELSE snapshots[d][k]
  BY DEF Snapshot, StoreTypeOK
<1>3. entries' = entries
  BY DEF Snapshot
<1>4. \A k \in Key : entries[k].version \in Nat /\ entries[k].deleted \in BOOLEAN
  BY DEF StoreTypeOK, Entry
<1>5. RowsWritten'
  BY <1>2, <1>3, <1>4 DEF RowsWritten, VisibleEntry
<1>6. VersionIdentifiesWrite'
  BY <1>2, <1>3, <1>4 DEF VersionIdentifiesWrite, VisibleEntry, Absent
<1> QED
  BY <1>1, <1>5, <1>6

LEMMA ApplyStore ==
    ASSUME StoreInv, NEW c \in Client, NEW b \in Batch, Apply(c, b)
    PROVE  StoreInv'
<1> USE DEF StoreInv
<1>1. /\ entries' = Updated(b)
      /\ snapshots' = snapshots
      /\ writes' = writes + Len(b)
  BY DEF Apply
<1>2. \A k \in Key : /\ entries'[k] \in Entry
                     /\ \/ entries'[k] = entries[k]
                        \/ entries'[k].version = entries[k].version + 1
  BY <1>1, UpdatedRow DEF StoreTypeOK
<1>3. \A k \in Key : entries[k].version \in Nat
  BY DEF StoreTypeOK, Entry
<1>4. StoreTypeOK'
  <2>1. entries' \in [Key -> Entry]
    BY <1>1, <1>2 DEF Updated
  <2>2. Len(b) \in Nat
    BY StoreAssumption
  <2> QED
    BY <1>1, <2>1, <2>2 DEF StoreTypeOK
<1>5. RowsWritten'
  BY <1>1, <1>2, <1>3 DEF RowsWritten
<1>6. \A d \in Client, k \in Key : snapshots[d][k].version \in Nat
  BY DEF StoreTypeOK, Entry
<1>7. VersionIdentifiesWrite'
  BY <1>1, <1>2, <1>3, <1>6 DEF VersionIdentifiesWrite
<1> QED
  BY <1>4, <1>5, <1>7

LEMMA StepStore == StoreInv /\ [StoreNext]_storeVars => StoreInv'
<1> SUFFICES ASSUME StoreInv, [StoreNext]_storeVars PROVE StoreInv'
  OBVIOUS
<1>1. CASE UNCHANGED storeVars
  BY <1>1 DEF StoreInv, StoreTypeOK, RowsWritten, VersionIdentifiesWrite, storeVars
<1> QED
  BY <1>1, SnapshotStore, ApplyStore DEF StoreNext

(* The strengthened invariant of the store.                                *)
THEOREM StoreInvariant == StoreSpec => []StoreInv
  BY InitStore, StepStore, PTL DEF StoreSpec

(* Whatever sequence of deletions and re-creations happens, a current      *)
(* version a client saw stands for the very row it saw.                    *)
THEOREM VersionsIdentifyWrites == StoreSpec => []VersionIdentifiesWrite
<1>1. StoreInv => VersionIdentifiesWrite
  BY DEF StoreInv
<1> QED
  BY <1>1, StoreInvariant, PTL

(* A batch goes through only over rows that are what its author saw.       *)
THEOREM NoUpdateLost == StoreSpec => NoLostUpdate
<1> DEFINE Seen(c, b) == \A n \in DOMAIN b :
                VisibleEntry(entries[b[n].key]) = snapshots[c][b[n].key]
<1>1. ASSUME StoreInv, NEW c \in Client, NEW b \in Batch, Apply(c, b)
      PROVE  Seen(c, b)
  <2> TAKE n \in DOMAIN b
  <2> DEFINE k == b[n].key
  <2>1. k \in Key
    <3>1. b \in Seq(Update)
      BY StoreAssumption
    <3>2. b[n] \in Update
      BY <3>1
    <3> QED
      BY <3>2 DEF Update
  <2>2. snapshots[c][k].version = VisibleVersion(entries[k])
    BY <1>1, <2>1 DEF Apply, BatchAccepted, Accepted, Expected
  <2>3. entries[k].deleted \in BOOLEAN
    BY <1>1, <2>1 DEF StoreInv, StoreTypeOK, Entry
  <2>4. CASE entries[k].deleted
    <3>1. snapshots[c][k].version = 0
      BY <2>2, <2>4 DEF VisibleVersion
    <3>2. snapshots[c][k] = Absent
      BY <1>1, <2>1, <3>1 DEF StoreInv, RowsWritten
    <3> QED
      BY <2>4, <3>2 DEF VisibleEntry
  <2>5. CASE ~entries[k].deleted
    <3>1. /\ snapshots[c][k].version = entries[k].version
          /\ entries[k].version > 0
      BY <1>1, <2>1, <2>2, <2>5 DEF VisibleVersion, StoreInv, RowsWritten
    <3>2. ~snapshots[c][k].deleted
      BY <1>1, <2>1, <3>1 DEF StoreInv, RowsWritten, Absent
    <3>3. snapshots[c][k] = entries[k]
      BY <1>1, <2>1, <3>1, <3>2 DEF StoreInv, VersionIdentifiesWrite
    <3> QED
      BY <2>5, <3>3 DEF VisibleEntry
  <2> QED
    BY <2>3, <2>4, <2>5
<1>2. StoreInv => [\A c \in Client, b \in Batch : Apply(c, b) => Seen(c, b)]_storeVars
  BY <1>1
<1> QED
  BY <1>2, StoreInvariant, PTL DEF NoLostUpdate
=============================================================================

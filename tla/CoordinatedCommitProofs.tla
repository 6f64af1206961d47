----------------------- MODULE CoordinatedCommitProofs -----------------------
(***************************************************************************)
(* Theorems about CoordinatedCommit for any number of invocations, any     *)
(* responses, keys, limits and policy: nothing overtakes a decision        *)
(* between its last look at the versions it depends on and its updates,    *)
(* and coordinated execution implements AtomicDecisions.                   *)
(*                                                                         *)
(* The two objects it is composed of keep their specifications inside it,  *)
(* so what is proved of ActionAdmission and SharedStateStore by themselves *)
(* (SharedObjectsProofs) holds in the composition.                         *)
(***************************************************************************)
EXTENDS CoordinatedCommit, SequenceTheorems, FiniteSetTheorems, NaturalsInduction,
        WellFoundedInduction, TLAPS

-----------------------------------------------------------------------------
(* Arbitration.                                                            *)

(* A set of numbers has a least member.                                    *)
LEMMA LeastNumber ==
    ASSUME NEW T \in SUBSET Nat, T # {}
    PROVE  \E n \in T : \A m \in T : n <= m
<1> DEFINE Less == {p \in Nat \X Nat : p[1] < p[2]}
<1>1. IsWellFoundedOn(Less, Nat)
  BY NatLessThanWellFounded DEF OpToRel
<1> HIDE DEF Less
<1>2. PICK n \in T : \A m \in T : <<m, n>> \notin Less
  BY <1>1, WFMin
<1>3. ASSUME NEW m \in T PROVE n <= m
  <2>1. m \in Nat /\ n \in Nat /\ <<m, n>> \in Nat \X Nat
    OBVIOUS
  <2>2. ~(m < n)
    BY <1>2, <2>1 DEF Less
  <2> QED BY <2>1, <2>2
<1> QED BY <1>3

(* Arbitration always finds the positions to keep: if there were none for  *)
(* the positions up to n, with n the least such number, those for the      *)
(* positions before n would extend to n.                                   *)
LEMMA KeptExists ==
    ASSUME NEW actions, NEW N \in Nat, DOMAIN actions \subseteq 1 .. N
    PROVE  \E s \in SUBSET DOMAIN actions : Keeps(Policy, actions, s)
<1> DEFINE Kept(s, n) == n \in s <=> \/ Policy # "reject"
                                     \/ \A m \in s : m < n => ~Conflicts(actions[m], actions[n])
           upTo(p) == {n \in DOMAIN actions : n <= p}
           Good(p) == \E s \in SUBSET upTo(p) : \A n \in upTo(p) : Kept(s, n)
           bad == {p \in Nat : ~Good(p)}
<1>1. bad = {}
  <2> SUFFICES ASSUME bad # {} PROVE FALSE
    OBVIOUS
  <2>1. bad \in SUBSET Nat
    OBVIOUS
  <2>2. PICK p \in bad : \A q \in bad : p <= q
    <3> HIDE DEF bad
    <3> QED BY <2>1, LeastNumber
  <2>3. p \in Nat /\ ~Good(p)
    OBVIOUS
  <2>4. p # 0
    <3>1. upTo(0) = {}
      OBVIOUS
    <3>2. Good(0)
      BY <3>1
    <3> QED BY <2>3, <3>2
  <2>5. p - 1 \in Nat /\ p - 1 \notin bad
    BY <2>2, <2>3, <2>4
  <2>6. PICK s \in SUBSET upTo(p - 1) : \A n \in upTo(p - 1) : Kept(s, n)
    BY <2>5
  <2> DEFINE keep == \/ Policy # "reject"
                     \/ \A m \in s : m < p => ~Conflicts(actions[m], actions[p])
             t == IF p \in DOMAIN actions /\ keep THEN s \cup {p} ELSE s
  <2>7. t \in SUBSET upTo(p)
    BY <2>3
  <2>8. ASSUME NEW n \in upTo(p) PROVE Kept(t, n)
    <3>1. n \in Nat /\ \A m \in s : m \in Nat /\ m < p
      BY <2>3
    <3>2. CASE n = p
      <4>1. \A m \in t : m < p <=> m \in s
        BY <2>3, <3>1
      <4>2. p \in t <=> keep
        BY <3>1, <3>2, <2>3
      <4> QED BY <3>2, <4>1, <4>2, <3>1
    <3>3. CASE n # p
      <4>1. n \in upTo(p - 1) /\ n < p
        BY <2>3, <3>1, <3>3
      <4>2. Kept(s, n)
        BY <2>6, <4>1
      <4>3. n \in t <=> n \in s
        BY <3>3
      <4>4. \A m \in t : m < n => m \in s
        BY <2>3, <3>1, <4>1
      <4>5. s \subseteq t
        OBVIOUS
      <4> QED BY <4>2, <4>3, <4>4, <4>5
    <3> QED BY <3>2, <3>3
  <2> HIDE DEF t
  <2>9. Good(p)
    BY Zenon, <2>7, <2>8
  <2> QED BY <2>3, <2>9
<1>2. PICK s \in SUBSET upTo(N) : \A n \in upTo(N) : Kept(s, n)
  BY <1>1
<1>3. upTo(N) = DOMAIN actions
  OBVIOUS
<1> QED BY <1>2, <1>3 DEF Keeps

(* The members of a set of positions can be listed in order.               *)
LEMMA IncreasingExists ==
    ASSUME NEW N \in Nat, NEW S \in SUBSET (1 .. N)
    PROVE  \E t \in [1 .. Cardinality(S) -> S] :
               \A m, n \in DOMAIN t : m < n => t[m] < t[n]
<1> DEFINE Listed(X) == \E t \in [1 .. Cardinality(X) -> X] :
                            \A m, n \in DOMAIN t : m < n => t[m] < t[n]
           bad == {p \in Nat : \E X \in SUBSET (1 .. p) : ~Listed(X)}
<1>1. bad = {}
  <2> SUFFICES ASSUME bad # {} PROVE FALSE
    OBVIOUS
  <2>1. bad \in SUBSET Nat
    OBVIOUS
  <2>2. PICK p \in bad : \A q \in bad : p <= q
    <3> HIDE DEF bad
    <3> QED BY <2>1, LeastNumber
  <2>3. PICK X \in SUBSET (1 .. p) : ~Listed(X)
    OBVIOUS
  <2>4. p \in Nat
    OBVIOUS
  <2>5. X # {}
    <3>1. SUFFICES ASSUME X = {} PROVE FALSE
      OBVIOUS
    <3>2. Cardinality(X) = 0
      BY <3>1, FS_EmptySet
    <3>3. <<>> \in [1 .. 0 -> {}] /\ DOMAIN <<>> = 1 .. 0
      OBVIOUS
    <3>4. Listed({})
      BY <3>1, <3>2, <3>3
    <3> QED BY <2>3, <3>1, <3>4
  <2>6. p # 0
    <3>1. 1 .. 0 = {}
      OBVIOUS
    <3>2. X \in SUBSET (1 .. p)
      BY <2>3
    <3> HIDE DEF bad, Listed
    <3> QED BY <2>5, <3>1, <3>2
  <2>7. p - 1 \in Nat /\ p - 1 \notin bad
    <3> HIDE DEF bad
    <3> QED BY <2>2, <2>4, <2>6
  <2>8. \A Y \in SUBSET (1 .. p - 1) : Listed(Y)
    BY <2>7
  <2>9. p \in X
    <3>1. p \notin X => X \in SUBSET (1 .. p - 1)
      BY <2>4
    <3> QED BY <2>3, <2>8, <3>1
  <2> DEFINE Y == X \ {p}
             c == Cardinality(Y)
  <2>10. Y \in SUBSET (1 .. p - 1)
    BY <2>3, <2>4
  <2>11. IsFiniteSet(X)
    <3>1. X \in SUBSET (1 .. p)
      BY <2>3
    <3> HIDE DEF bad, Listed
    <3>2. IsFiniteSet(1 .. p)
      BY <2>4, FS_Interval
    <3> QED BY <3>1, <3>2, FS_Subset
  <2>12. c \in Nat /\ Cardinality(X) = c + 1
    <3>1. Cardinality(Y) = Cardinality(X) - 1 /\ IsFiniteSet(Y)
      BY <2>9, <2>11, FS_RemoveElement
    <3>2. Cardinality(X) \in Nat /\ Cardinality(Y) \in Nat
      BY <2>11, <3>1, FS_CardinalityType
    <3> QED BY <3>1, <3>2
  <2> HIDE DEF c
  <2>13. PICK t \in [1 .. c -> Y] : \A m, n \in DOMAIN t : m < n => t[m] < t[n]
    BY <2>8, <2>10 DEF c
  <2> DEFINE u == [n \in 1 .. c + 1 |-> IF n = c + 1 THEN p ELSE t[n]]
  <2>14. u \in [1 .. c + 1 -> X]
    BY <2>9, <2>12, <2>13
  <2>15. ASSUME NEW m \in 1 .. c + 1, NEW n \in 1 .. c + 1, m < n PROVE u[m] < u[n]
    <3>1. m \in 1 .. c /\ u[m] = t[m] /\ t[m] \in Y
      BY <2>12, <2>13, <2>15
    <3>2. t[m] \in 1 .. p - 1
      BY <2>10, <3>1
    <3>3. CASE n = c + 1
      BY <3>1, <3>2, <3>3, <2>4
    <3>4. CASE n # c + 1
      <4>1. n \in 1 .. c /\ u[n] = t[n]
        BY <3>4, <2>12
      <4> QED BY <2>13, <2>15, <3>1, <4>1
    <3> QED BY <3>3, <3>4
  <2>16. Listed(X)
    <3>1. DOMAIN u = 1 .. c + 1
      OBVIOUS
    <3> HIDE DEF u
    <3> QED BY <2>12, <2>14, <2>15, <3>1
  <2> QED BY <2>3, <2>16
<1>2. Listed(S)
  BY <1>1
<1> QED BY <1>2

LEMMA ArbitratedProperties ==
    ASSUME NEW r \in Response, NEW valid \in SUBSET DOMAIN r.proposals
    PROVE  /\ Arbitrated(r, valid) \in Seq(Nat)
           /\ IsInjective(Arbitrated(r, valid))
           /\ \A n \in DOMAIN Arbitrated(r, valid) : Arbitrated(r, valid)[n] \in valid
           /\ LET a == ActionsAt(r, Arbitrated(r, valid))
              IN  a \in Seq(Admission!Action) /\ Keeps(Policy, a, DOMAIN a)
<1> DEFINE a == Arbitrated(r, valid)
           all == Restrict(r.proposals, valid)
           kept == CHOOSE s \in SUBSET valid : Keeps(Policy, all, s)
           N == Len(r.proposals)
           Increasing(t) == \A m, n \in DOMAIN t : m < n => t[m] < t[n]
<1>1. r.proposals \in Seq(Admission!Action) /\ N \in Nat /\ DOMAIN r.proposals = 1 .. N
  BY CommitAssumption, LenProperties
<1>2. DOMAIN all = valid /\ \A n \in valid : all[n] = r.proposals[n]
  BY DEF Restrict
<1>3. kept \in SUBSET valid /\ Keeps(Policy, all, kept)
  <2> HIDE DEF all, N
  <2>1. \E s \in SUBSET valid : Keeps(Policy, all, s)
    BY <1>1, <1>2, KeptExists
  <2> QED BY <2>1
<1>4. a = CHOOSE t \in [1 .. Cardinality(kept) -> kept] : Increasing(t)
  BY DEF Arbitrated
<1> HIDE DEF kept, all
<1>5. a \in [1 .. Cardinality(kept) -> kept] /\ Increasing(a)
  <2>1. kept \in SUBSET (1 .. N)
    BY <1>1, <1>3
  <2>2. \E t \in [1 .. Cardinality(kept) -> kept] : Increasing(t)
    BY <1>1, <2>1, IncreasingExists
  <2> HIDE DEF a, Increasing
  <2> QED BY <1>4, <2>2
<1> HIDE DEF a
<1>6. Cardinality(kept) \in Nat
  <2>1. kept \in SUBSET (1 .. N)
    BY <1>1, <1>3
  <2>2. IsFiniteSet(1 .. N)
    BY <1>1, FS_Interval
  <2> QED BY <2>1, <2>2, FS_Subset, FS_CardinalityType
<1>7. /\ DOMAIN a = 1 .. Cardinality(kept)
      /\ \A n \in DOMAIN a : a[n] \in kept /\ a[n] \in valid /\ a[n] \in 1 .. N
  BY <1>1, <1>3, <1>5
<1>8. a \in Seq(Nat)
  BY <1>1, <1>6, <1>7, <1>5, SeqDef
<1>9. IsInjective(a)
  BY <1>5, <1>6, <1>7, <1>1 DEF IsInjective
<1> DEFINE acts == ActionsAt(r, a)
<1>10. DOMAIN acts = 1 .. Cardinality(kept) /\ \A n \in DOMAIN acts : acts[n] = r.proposals[a[n]]
  BY <1>7 DEF ActionsAt
<1> HIDE DEF acts
<1>11. acts \in Seq(Admission!Action)
  <2>1. \A n \in DOMAIN acts : acts[n] \in Admission!Action
    BY <1>1, <1>7, <1>10, ElementOfSeq
  <2>2. acts = [n \in 1 .. Cardinality(kept) |-> acts[n]]
    BY <1>7, <1>10 DEF acts, ActionsAt
  <2> QED BY <1>6, <1>10, <2>1, <2>2, SeqDef
<1>12. Keeps(Policy, acts, DOMAIN acts)
  <2> SUFFICES ASSUME Policy = "reject",
                      NEW m \in DOMAIN acts, NEW n \in DOMAIN acts, m < n
               PROVE  ~Conflicts(acts[m], acts[n])
    BY DEF Keeps
  <2>1. a[m] \in kept /\ a[n] \in kept /\ a[n] \in valid /\ a[m] \in valid /\ a[m] < a[n]
    BY <1>5, <1>7, <1>10
  <2>2. ~Conflicts(all[a[m]], all[a[n]])
    BY <1>2, <1>3, <2>1 DEF Keeps
  <2> QED BY <1>2, <1>10, <2>1, <2>2
<1> QED BY <1>7, <1>8, <1>9, <1>11, <1>12 DEF a, acts

(* Hence what an invocation hands to the admission object is a decision.   *)
LEMMA DecisionForProperties ==
    ASSUME NEW r \in Response, NEW valid \in SUBSET DOMAIN r.proposals
    PROVE  DecisionFor(r, valid) \in Decisions /\ Admission!DecisionOK(DecisionFor(r, valid))
<1>1. DecisionFor(r, valid) \in Decisions
  <2> DEFINE D(q) == {DecisionFor(q, v) : v \in SUBSET DOMAIN q.proposals}
  <2>1. DecisionFor(r, valid) \in D(r)
    OBVIOUS
  <2>2. Decisions = UNION {D(q) : q \in Response}
    BY DEF Decisions
  <2> HIDE DEF D
  <2> QED BY <2>1, <2>2
<1>2. Writes(r) \subseteq StateKey
  <2>1. \A n \in DOMAIN r.updates : r.updates[n] \in Store!Update
    BY CommitAssumption, ElementOfSeq, LenProperties
  <2> QED BY <2>1 DEF Writes, Store!Update
<1> DEFINE a == ActionsAt(r, Arbitrated(r, valid))
<1>3. a \in Seq(Admission!Action) /\ Keeps(Policy, a, DOMAIN a)
  BY ArbitratedProperties
<1> HIDE DEF a
<1>4. /\ DecisionFor(r, valid).reads = r.reads
      /\ DecisionFor(r, valid).writes = Writes(r)
      /\ DecisionFor(r, valid).actions = a
      /\ DecisionFor(r, valid).proposed \in BOOLEAN
  BY DEF DecisionFor, a
<1>5. r.reads \subseteq StateKey
  BY CommitAssumption
<1>6. Admission!Keeps(Policy, a, DOMAIN a)
  BY <1>3 DEF Keeps, Admission!Keeps, Conflicts, Admission!Conflicts, ConflictKeys,
              Admission!ConflictKeys, AnyEffect, Admission!AnyEffect
<1> QED BY <1>1, <1>2, <1>3, <1>4, <1>5, <1>6 DEF Admission!DecisionOK

-----------------------------------------------------------------------------
(* The two objects, with what is proved of them.                           *)

Objects == INSTANCE SharedObjectsProofs WITH
              Decision <- Decisions, Key <- StateKey, Client <- Invocation,
              Batch <- {r.updates : r \in Response}

(* The batches of responses are as the store demands.                      *)
LEMMA BatchesFit == Objects!StoreAssumption
<1>1. ASSUME NEW b \in {r.updates : r \in Response}
      PROVE  /\ b \in Seq(Store!Update)
             /\ \A m, n \in DOMAIN b : m # n => b[m].key # b[n].key
  BY CommitAssumption
<1>2. Store!Update = Objects!Update
  BY DEF Store!Update, Objects!Update
<1>3. IsFiniteSet(StateKey) <=> Objects!IsFiniteSet(StateKey)
  BY Zenon DEF IsFiniteSet, Objects!IsFiniteSet
<1> QED BY <1>1, <1>2, <1>3, CommitAssumption DEF Objects!StoreAssumption

LEMMA AdmissionAgain ==
    /\ Objects!AdmissionAssumption
    /\ Admission!Init <=> Objects!Init
    /\ Admission!vars = Objects!vars
    /\ Admission!Next => Objects!Next
<1>1. Objects!AdmissionAssumption
  <2>1. ASSUME NEW d \in Decisions PROVE Objects!DecisionOK(d)
    <3> DEFINE D(q) == {DecisionFor(q, v) : v \in SUBSET DOMAIN q.proposals}
    <3>1. PICK r \in Response : d \in D(r)
      <4>1. Decisions = UNION {D(q) : q \in Response}
        BY DEF Decisions
      <4> HIDE DEF D
      <4> QED BY <2>1, <4>1
    <3>2. PICK v \in SUBSET DOMAIN r.proposals : d = DecisionFor(r, v)
      BY <3>1
    <3>3. Admission!DecisionOK(d)
      BY <3>2, DecisionForProperties
    <3> QED BY <3>3
         DEF Admission!DecisionOK, Objects!DecisionOK, Admission!Action,
             Objects!Action, Admission!Keeps, Objects!Keeps,
             Admission!Conflicts, Objects!Conflicts, Admission!ConflictKeys,
             Objects!ConflictKeys, Admission!AnyEffect, Objects!AnyEffect
  <2> QED BY <2>1, CommitAssumption
       DEF Objects!AdmissionAssumption, Objects!ArbitrationPolicy,
           ArbitrationPolicy
<1>2. Admission!Init <=> Objects!Init
  BY DEF Admission!Init, Objects!Init, Admission!NoReservation,
         Objects!NoReservation
<1>3. Admission!vars = Objects!vars
  BY DEF Admission!vars, Objects!vars
<1>4. ASSUME Admission!Next PROVE Objects!Next
  <2>1. \A a, b : Admission!Conflicts(a, b) <=> Objects!Conflicts(a, b)
    BY DEF Admission!Conflicts, Objects!Conflicts, Admission!ConflictKeys,
           Objects!ConflictKeys, Admission!AnyEffect, Objects!AnyEffect
  <2>2. \A a, b : Admission!DecisionConflict(a, b) <=> Objects!DecisionConflict(a, b)
    BY Zenon, <2>1
    DEF Admission!DecisionConflict, Objects!DecisionConflict,
        Admission!StateConflict, Objects!StateConflict,
        Admission!NetworkConflict, Objects!NetworkConflict
  <2>3. \A a, m, b, n : Admission!Precedes(a, m, b, n) <=> Objects!Precedes(a, m, b, n)
    BY Zenon DEF Admission!Precedes, Objects!Precedes
  <2>4. /\ \A a, q : Admission!PositionOf(a, q) = Objects!PositionOf(a, q)
        /\ \A a, q : Admission!Without(q, a) = Objects!Without(q, a)
    BY Zenon DEF Admission!PositionOf, Objects!PositionOf, Admission!Without,
         Objects!Without, Admission!RemoveAt, Objects!RemoveAt
  <2>5. /\ \A i, mine, n :
             Admission!DecisionReady(i, mine, n) <=> Objects!DecisionReady(i, mine, n)
        /\ \A c, n : Admission!AdmissionReady(c, n) <=> Objects!AdmissionReady(c, n)
    BY Zenon, <2>1, <2>2, <2>3
    DEF Admission!DecisionReady, Objects!DecisionReady,
        Admission!AdmissionReady, Objects!AdmissionReady
  <2>6. /\ \A i : Admission!Admitted(i) = Objects!Admitted(i)
        /\ \A i, c : Admission!LosesLate(i, c) <=> Objects!LosesLate(i, c)
    BY Zenon, <2>1
    DEF Admission!LosesLate, Objects!LosesLate,
        Admission!Admitted, Objects!Admitted
  <2>7. \A i, d : Admission!CandidatesOf(i, d) = Objects!CandidatesOf(i, d)
    BY Zenon DEF Admission!CandidatesOf, Objects!CandidatesOf
  <2>8. \A i, d : Admission!ReservationFor(i, d) = Objects!ReservationFor(i, d)
    <3>1. \A i : Admission!AdmittedFor(i) = Objects!AdmittedFor(i)
      BY Zenon, <2>6 DEF Admission!AdmittedFor, Objects!AdmittedFor,
                         Admission!ToSet, Objects!ToSet
    <3>2. \A i, C : Admission!Rejections(i, C) = Objects!Rejections(i, C)
      BY <3>1, <2>1 DEF Admission!Rejections, Objects!Rejections
    <3> QED BY Zenon, <3>2, <2>7
         DEF Admission!ReservationFor, Objects!ReservationFor, Admission!ToSet,
             Objects!ToSet, Admission!NoReservation, Objects!NoReservation
  <2>9. PICK i \in Invocation : Admission!Step(i)
    BY <1>4 DEF Admission!Next
  <2>10. ASSUME NEW d \in Decisions, Admission!Decide(i, d) PROVE Objects!Decide(i, d)
    BY Zenon, <2>10, <2>5, <2>7, <2>8 DEF Admission!Decide, Objects!Decide
  <2>11. Admission!Wake(i) => Objects!Wake(i)
    BY Zenon, <2>4, <2>5 DEF Admission!Wake, Objects!Wake
  <2>12. Admission!Skip(i) => Objects!Skip(i)
    BY Zenon DEF Admission!Skip, Objects!Skip
  <2>13. Admission!Admit(i) => Objects!Admit(i)
    BY Zenon, <2>5, <2>6 DEF Admission!Admit, Objects!Admit
  <2>14. /\ Admission!Finish(i) => Objects!Finish(i)
         /\ Admission!Leave(i) => Objects!Leave(i)
    BY Zenon DEF Admission!Finish, Objects!Finish, Admission!NotifyAll,
                 Objects!NotifyAll, Admission!Leave, Objects!Leave
  <2> QED BY <2>9, <2>10, <2>11, <2>12, <2>13, <2>14
       DEF Admission!Step, Objects!Step, Objects!Next
<1> QED BY <1>1, <1>2, <1>3, <1>4

LEMMA AdmissionInvAgain ==
    /\ Admission!IInv <=> Objects!IInv
    /\ Admission!IInv' <=> Objects!IInv'
<1>1. \A a, b : Admission!Conflicts(a, b) <=> Objects!Conflicts(a, b)
  BY DEF Admission!Conflicts, Objects!Conflicts, Admission!ConflictKeys,
         Objects!ConflictKeys, Admission!AnyEffect, Objects!AnyEffect
<1>2. \A a, b : /\ Admission!NetworkConflict(a, b) <=> Objects!NetworkConflict(a, b)
                /\ Admission!DecisionConflict(a, b) <=> Objects!DecisionConflict(a, b)
  BY Zenon, <1>1
  DEF Admission!DecisionConflict, Objects!DecisionConflict,
      Admission!StateConflict, Objects!StateConflict,
      Admission!NetworkConflict, Objects!NetworkConflict
<1>3. Admission!Candidate = Objects!Candidate
  BY DEF Admission!Candidate, Objects!Candidate
<1>4. Admission!Reservation = Objects!Reservation
  BY Zenon, <1>3 DEF Admission!Reservation, Objects!Reservation
<1>5. Admission!Inside = Objects!Inside
  BY DEF Admission!Inside, Objects!Inside
<1>6. /\ Admission!TypeOK <=> Objects!TypeOK
      /\ Admission!TypeOK' <=> Objects!TypeOK'
  BY Zenon, <1>3, <1>4 DEF Admission!TypeOK, Objects!TypeOK
<1>7. /\ Admission!Bookkeeping <=> Objects!Bookkeeping
      /\ Admission!Bookkeeping' <=> Objects!Bookkeeping'
  BY Zenon, <1>5 DEF Admission!Bookkeeping, Objects!Bookkeeping
<1>8. /\ Admission!NoHoldAndWait <=> Objects!NoHoldAndWait
      /\ Admission!NoHoldAndWait' <=> Objects!NoHoldAndWait'
  BY Zenon DEF Admission!NoHoldAndWait, Objects!NoHoldAndWait
<1>9. /\ Admission!ReservationsIsolated <=> Objects!ReservationsIsolated
      /\ Admission!ReservationsIsolated' <=> Objects!ReservationsIsolated'
  BY Zenon, <1>2 DEF Admission!ReservationsIsolated, Objects!ReservationsIsolated
<1>10. /\ Admission!WaitersApart <=> Objects!WaitersApart
       /\ Admission!WaitersApart' <=> Objects!WaitersApart'
  BY Zenon, <1>2, <1>5 DEF Admission!WaitersApart, Objects!WaitersApart
<1> QED BY <1>6, <1>7, <1>8, <1>9, <1>10 DEF Admission!IInv, Objects!IInv

(* Each step of a thread in the composition is a step of the admission     *)
(* object or leaves it alone, so the object keeps its invariant.           *)
LEMMA AdmissionKept ==
    /\ Admission!Init => Admission!IInv
    /\ Admission!IInv /\ (Admission!Next \/ UNCHANGED admissionVars) => Admission!IInv'
<1>1. Admission!Init => Admission!IInv
  BY BatchesFit, AdmissionAgain, AdmissionInvAgain, Objects!InitIInv
<1>2. Admission!Next \/ UNCHANGED admissionVars => [Objects!Next]_Objects!vars
  BY AdmissionAgain DEF admissionVars, Objects!vars
<1> QED BY <1>1, <1>2, BatchesFit, AdmissionAgain, AdmissionInvAgain, Objects!StepIInv

-----------------------------------------------------------------------------
(* The shared store.                                                       *)

LEMMA StoreAgain ==
    /\ Store!StoreInit <=> Objects!StoreInit
    /\ Store!storeVars = Objects!storeVars
    /\ Store!StoreNext => Objects!StoreNext
    /\ \A i, b : Store!Apply(i, b) => Objects!Apply(i, b)
<1>1. Store!Absent = Objects!Absent
  BY DEF Store!Absent, Objects!Absent
<1>2. Store!StoreInit <=> Objects!StoreInit
  BY Zenon, <1>1 DEF Store!StoreInit, Objects!StoreInit
<1>3. Store!storeVars = Objects!storeVars
  BY DEF Store!storeVars, Objects!storeVars
<1>4. \A i : Store!Snapshot(i) => Objects!Snapshot(i)
  <2>1. \A e : Store!VisibleEntry(e) = Objects!VisibleEntry(e)
    BY Zenon, <1>1 DEF Store!VisibleEntry, Objects!VisibleEntry
  <2> QED BY Zenon, <2>1 DEF Store!Snapshot, Objects!Snapshot
<1>5. \A i, b : Store!Apply(i, b) => Objects!Apply(i, b)
  <2>1. \A v, k : Store!Expected(v, k) <=> Objects!Expected(v, k)
    BY Zenon DEF Store!Expected, Objects!Expected, Store!VisibleVersion, Objects!VisibleVersion
  <2>2. \A u : Store!Creates(u) <=> Objects!Creates(u)
    BY Zenon DEF Store!Creates, Objects!Creates
  <2>3. \A b, n, ns : Store!VisibleBefore(b, n, ns) = Objects!VisibleBefore(b, n, ns)
    <3>1. \A S : Store!Cardinality(S) = Objects!Cardinality(S)
      BY Zenon DEF Store!Cardinality, Objects!Cardinality
    <3>2. \A ns : Store!VisibleKeys(ns) = Objects!VisibleKeys(ns)
      BY Zenon DEF Store!VisibleKeys, Objects!VisibleKeys
    <3> QED BY Zenon, <2>2, <3>1, <3>2 DEF Store!VisibleBefore, Objects!VisibleBefore
  <2>4. \A b, e, n : Store!Accepted(b, e, n) <=> Objects!Accepted(b, e, n)
    BY Zenon, <2>1, <2>2, <2>3 DEF Store!Accepted, Objects!Accepted
  <2>5. \A b, e : Store!BatchAccepted(b, e) <=> Objects!BatchAccepted(b, e)
    BY Zenon, <2>4 DEF Store!BatchAccepted, Objects!BatchAccepted
  <2>6. \A b : Store!Updated(b) = Objects!Updated(b)
    BY DEF Store!Updated, Objects!Updated
  <2> QED BY Zenon, <2>5, <2>6 DEF Store!Apply, Objects!Apply
<1> QED BY Zenon, <1>2, <1>3, <1>4, <1>5 DEF Store!StoreNext, Objects!StoreNext

LEMMA StoreInvAgain ==
    /\ Store!StoreInv <=> Objects!StoreInv
    /\ Store!StoreInv' <=> Objects!StoreInv'
<1>1. Store!Entry = Objects!Entry /\ Store!Absent = Objects!Absent
  BY DEF Store!Entry, Objects!Entry, Store!Absent, Objects!Absent
<1>2. /\ Store!StoreTypeOK <=> Objects!StoreTypeOK
      /\ Store!StoreTypeOK' <=> Objects!StoreTypeOK'
  BY Zenon, <1>1 DEF Store!StoreTypeOK, Objects!StoreTypeOK
<1>3. /\ Store!RowsWritten <=> Objects!RowsWritten
      /\ Store!RowsWritten' <=> Objects!RowsWritten'
  BY Zenon, <1>1 DEF Store!RowsWritten, Objects!RowsWritten
<1>4. /\ Store!VersionIdentifiesWrite <=> Objects!VersionIdentifiesWrite
      /\ Store!VersionIdentifiesWrite' <=> Objects!VersionIdentifiesWrite'
  BY Zenon DEF Store!VersionIdentifiesWrite, Objects!VersionIdentifiesWrite
<1> QED BY <1>2, <1>3, <1>4 DEF Store!StoreInv, Objects!StoreInv

LEMMA StoreKept ==
    /\ Store!StoreInit => Store!StoreInv
    /\ Store!StoreInv /\ (Store!StoreNext \/ UNCHANGED storeVars) => Store!StoreInv'
<1>1. Store!StoreInit => Store!StoreInv
  BY AdmissionAgain, BatchesFit, StoreAgain, StoreInvAgain, Objects!InitStore
<1>2. Store!StoreNext \/ UNCHANGED storeVars => [Objects!StoreNext]_Objects!storeVars
  BY StoreAgain DEF storeVars, Objects!storeVars
<1> QED BY <1>1, <1>2, AdmissionAgain, BatchesFit, StoreInvAgain, Objects!StepStore

-----------------------------------------------------------------------------
(* The inductive invariant.                                                *)

LEMMA InitCommit == Init => CommitInv
<1> SUFFICES ASSUME Init PROVE CommitInv
  OBVIOUS
<1>1. Store!StoreInv /\ Admission!IInv
  BY StoreKept, AdmissionKept DEF Init
<1>2. OwnTypeOK
  <2>1. <<>> \in Seq(Result) /\ <<>> \in Seq(Nat)
    BY EmptySeq
  <2> QED BY <2>1 DEF Init, OwnTypeOK
<1>3. ASSUME NEW i \in Invocation PROVE InvocationInv(i)
  <2>1. /\ pc[i] = "reasoning" /\ outcome[i] = "open" /\ checked[i] = FALSE
        /\ results[i] = <<>> /\ DOMAIN results[i] = {} /\ response[i] = NoResponse
    BY DEF Init, Admission!Init
  <2> QED BY <2>1 DEF InvocationInv, ResultsInPlace, PhaseInPlace, QueueInPlace,
                      KeysReserved, CheckHolds
<1> QED BY <1>1, <1>2, <1>3 DEF CommitInv

(* What the invariant says of the variables of the two objects.            *)
LEMMA ObjectTypes ==
    ASSUME CommitInv
    PROVE  /\ pc \in [Invocation ->
                 {"reasoning", "waiting", "committing", "pending", "executing", "done"}]
           /\ todo \in [Invocation -> Seq(Admission!Candidate)]
           /\ reservation \in [Invocation -> Admission!Reservation]
           /\ entries \in [StateKey -> Store!Entry]
           /\ snapshots \in [Invocation -> [StateKey -> Store!Entry]]
BY DEF CommitInv, Admission!IInv, Admission!TypeOK, Store!StoreInv, Store!StoreTypeOK

(* A step of one invocation touches nothing that belongs to another one.   *)
Untouched(j) ==
    /\ pc'[j] = pc[j] /\ todo'[j] = todo[j] /\ reservation'[j] = reservation[j]
    /\ response'[j] = response[j] /\ results'[j] = results[j] /\ order'[j] = order[j]
    /\ checked'[j] = checked[j] /\ outcome'[j] = outcome[j] /\ snapshots'[j] = snapshots[j]

LEMMA OthersUntouched ==
    ASSUME CommitInv, NEW i \in Invocation, Step(i), NEW j \in Invocation, j # i
    PROVE  Untouched(j)
<1> USE ObjectTypes DEF Untouched
<1> DEFINE Mine == /\ pc'[j] = pc[j] /\ todo'[j] = todo[j] /\ reservation'[j] = reservation[j]
           Seen == snapshots'[j] = snapshots[j]
<1>1. UNCHANGED admissionVars => Mine
  BY DEF admissionVars
<1>2. UNCHANGED storeVars => Seen
  BY DEF storeVars
<1>3. OwnTypeOK
  BY DEF CommitInv
<1>4. ASSUME NEW r \in Response, Prepare(i, r) PROVE Untouched(j)
  BY <1>1, <1>3, <1>4 DEF Prepare, OwnTypeOK, Store!Snapshot
<1>5. ASSUME NEW n \in DOMAIN results[i], NEW fit \in BOOLEAN, Validate(i, n, fit)
      PROVE  Untouched(j)
  BY <1>1, <1>2, <1>3, <1>5 DEF Validate, OwnTypeOK, SetResult
<1>6. ASSUME Decide(i) PROVE Untouched(j)
  <2>1. Mine
    BY <1>6 DEF Decide, Admission!Decide
  <2> QED BY <1>2, <1>3, <1>6, <2>1 DEF Decide, OwnTypeOK
<1>7. ASSUME Wake(i) PROVE Untouched(j)
  <2>1. Mine
    BY <1>7 DEF Wake, Admission!Wake
  <2> QED BY <1>2, <1>7, <2>1 DEF Wake, ownVars
<1>8. Admission!Skip(i) => Mine
  BY DEF Admission!Skip
<1>9. ASSUME Refuse(i) PROVE Untouched(j)
  BY <1>2, <1>3, <1>8, <1>9 DEF Refuse, OwnTypeOK, SetResult
<1>10. ASSUME NEW fit \in BOOLEAN, Revalidate(i, fit) PROVE Untouched(j)
  BY <1>1, <1>2, <1>3, <1>8, <1>10 DEF Revalidate, OwnTypeOK, SetResult
<1>11. ASSUME Admit(i) PROVE Untouched(j)
  <2>1. Mine
    BY <1>11 DEF Admit, Admission!Admit
  <2> QED BY <1>2, <1>3, <1>11, <2>1 DEF Admit, OwnTypeOK, SetResult
<1>12. ASSUME NEW result \in {"succeeded", "failed"}, Execute(i, result) PROVE Untouched(j)
  <2>1. Mine
    BY <1>12 DEF Execute, Admission!Finish
  <2> QED BY <1>2, <1>3, <1>12, <2>1 DEF Execute, OwnTypeOK, SetResult
<1>13. ASSUME Complete(i) PROVE Untouched(j)
  BY <1>1, <1>2, <1>3, <1>13 DEF Complete, OwnTypeOK
<1>14. ASSUME Publish(i) PROVE Untouched(j)
  <2>1. Seen
    BY <1>2, <1>14 DEF Publish, Store!Apply
  <2> QED BY <1>1, <1>3, <1>14, <2>1 DEF Publish, OwnTypeOK
<1>15. ASSUME Raise(i) PROVE Untouched(j)
  BY <1>1, <1>2, <1>3, <1>15 DEF Raise, OwnTypeOK
<1>16. ASSUME Leave(i) PROVE Untouched(j)
  <2>1. Mine
    BY <1>16 DEF Leave, Admission!Leave
  <2> QED BY <1>2, <1>16, <2>1 DEF Leave, ownVars
<1> QED BY <1>4, <1>5, <1>6, <1>7, <1>9, <1>10, <1>11, <1>12, <1>13, <1>14, <1>15, <1>16
        DEF Step

LEMMA UntouchedInv ==
    ASSUME NEW j, InvocationInv(j), Untouched(j), entries' = entries
    PROVE  InvocationInv(j)'
<1> USE DEF Untouched
<1>1. ResultsInPlace(j)' /\ PhaseInPlace(j)'
  BY DEF InvocationInv, ResultsInPlace, PhaseInPlace
<1>2. QueueInPlace(j)'
  BY DEF InvocationInv, QueueInPlace
<1>3. KeysReserved(j)'
  BY DEF InvocationInv, KeysReserved, Writes
<1>4. Fresh(j) => Fresh(j)'
  BY DEF Fresh, Writes
<1>5. CheckHolds(j)'
  BY <1>4 DEF InvocationInv, CheckHolds
<1> QED BY <1>1, <1>2, <1>3, <1>5 DEF InvocationInv

(* Each step is one step of either object, or leaves it alone.             *)
LEMMA ObjectSteps ==
    ASSUME CommitInv, NEW i \in Invocation, Step(i)
    PROVE  /\ Admission!Next \/ UNCHANGED admissionVars
           /\ Store!StoreNext \/ UNCHANGED storeVars
<1>1. ASSUME NEW r \in Response, Prepare(i, r) PROVE Store!StoreNext /\ UNCHANGED admissionVars
  BY <1>1 DEF Prepare, Store!StoreNext
<1>2. ASSUME NEW n \in DOMAIN results[i], NEW fit \in BOOLEAN, Validate(i, n, fit)
      PROVE  UNCHANGED <<storeVars, admissionVars>>
  BY <1>2 DEF Validate
<1>3. ASSUME Decide(i) PROVE Admission!Next /\ UNCHANGED storeVars
  <2> DEFINE valid == {n \in DOMAIN results[i] : results[i][n] = "valid"}
  <2>1. response[i] \in Response /\ DOMAIN results[i] = DOMAIN response[i].proposals
    BY <1>3 DEF Decide, Preparing, CommitInv, OwnTypeOK, InvocationInv, ResultsInPlace
  <2>2. DecisionFor(response[i], valid) \in Decisions
    BY <2>1, DecisionForProperties
  <2>3. Admission!Decide(i, DecisionFor(response[i], valid)) /\ UNCHANGED storeVars
    BY <1>3 DEF Decide
  <2> QED BY <2>2, <2>3 DEF Admission!Next, Admission!Step
<1>4. ASSUME Wake(i) \/ Leave(i) PROVE Admission!Next /\ UNCHANGED storeVars
  BY <1>4 DEF Wake, Leave, Admission!Next, Admission!Step
<1>5. ASSUME Refuse(i) PROVE Admission!Next /\ UNCHANGED storeVars
  BY <1>5 DEF Refuse, Admission!Next, Admission!Step
<1>6. ASSUME NEW fit \in BOOLEAN, Revalidate(i, fit)
      PROVE  (Admission!Next \/ UNCHANGED admissionVars) /\ UNCHANGED storeVars
  BY <1>6 DEF Revalidate, Admission!Next, Admission!Step
<1>7. ASSUME Admit(i) PROVE Admission!Next /\ UNCHANGED storeVars
  BY <1>7 DEF Admit, Admission!Next, Admission!Step
<1>8. ASSUME NEW result \in {"succeeded", "failed"}, Execute(i, result)
      PROVE  Admission!Next /\ UNCHANGED storeVars
  BY <1>8 DEF Execute, Admission!Next, Admission!Step
<1>9. ASSUME Complete(i) \/ Raise(i) PROVE UNCHANGED <<storeVars, admissionVars>>
  BY <1>9 DEF Complete, Raise
<1>10. ASSUME Publish(i)
       PROVE  (Store!StoreNext \/ UNCHANGED storeVars) /\ UNCHANGED admissionVars
  <2>1. response[i] \in Response
    <3>1. response[i] # NoResponse
      BY <1>10 DEF Publish, CommitInv, InvocationInv, ResultsInPlace
    <3> QED BY <3>1 DEF CommitInv, OwnTypeOK
  <2>2. response[i].updates \in {r.updates : r \in Response}
    BY <2>1
  <2> QED BY <1>10, <2>2 DEF Publish, Store!StoreNext
<1> QED
  <2>1. UNCHANGED <<storeVars, admissionVars>> => UNCHANGED storeVars /\ UNCHANGED admissionVars
    OBVIOUS
  <2> QED BY <1>1, <1>2, <1>3, <1>4, <1>5, <1>6, <1>7, <1>8, <1>9, <1>10, <2>1 DEF Step

(* The versions of a response that the store checks decide about the rows: *)
(* a dependency that has the version the agent saw is the row it saw.      *)
LEMMA FreshRows ==
    ASSUME CommitInv, NEW i \in Invocation, response[i] \in Response, Fresh(i),
           NEW k \in response[i].reads \cup Writes(response[i])
    PROVE  k \in StateKey /\ Store!VisibleEntry(entries[k]) = snapshots[i][k]
<1>1. k \in StateKey
  <2>1. \A n \in DOMAIN response[i].updates : response[i].updates[n] \in Store!Update
    BY CommitAssumption, ElementOfSeq, LenProperties
  <2>2. response[i].reads \subseteq StateKey
    BY CommitAssumption
  <2> QED BY <2>1, <2>2 DEF Writes, Store!Update
<1>2. Store!VisibleVersion(entries[k]) = snapshots[i][k].version
  BY DEF Fresh
<1>3. /\ entries[k] \in Store!Entry
      /\ entries[k].deleted \/ entries[k].version > 0
      /\ \/ snapshots[i][k] = Store!Absent
         \/ ~snapshots[i][k].deleted /\ snapshots[i][k].version > 0
      /\ ~snapshots[i][k].deleted /\ snapshots[i][k].version = entries[k].version
           => snapshots[i][k] = entries[k]
  BY <1>1 DEF CommitInv, Store!StoreInv, Store!StoreTypeOK, Store!RowsWritten,
              Store!VersionIdentifiesWrite
<1> QED BY <1>1, <1>2, <1>3
        DEF Store!Entry, Store!Absent, Store!VisibleEntry, Store!VisibleVersion

(* A candidate that is dealt with leaves the others standing for valid     *)
(* proposals: arbitration lists no position twice.                         *)
LEMMA HeadDealtWith ==
    ASSUME CommitInv, NEW i \in Invocation, pc[i] # "reasoning", todo[i] # <<>>,
           NEW v \in Result, SetResult(i, Proposal(i), v)
    PROVE  /\ Proposal(i) \in DOMAIN results[i] /\ results[i][Proposal(i)] = "valid"
           /\ results' \in [Invocation -> Seq(Result)]
           /\ DOMAIN results'[i] = DOMAIN results[i]
           /\ \A n \in DOMAIN results[i] :
                 results'[i][n] = IF n = Proposal(i) THEN v ELSE results[i][n]
           /\ todo'[i] = Tail(todo[i]) /\ order'[i] = order[i] => QueueInPlace(i)'
<1> DEFINE q == todo[i]
           t == Tail(q)
           p == Proposal(i)
<1>1. q \in Seq(Admission!Candidate) /\ Len(q) \in Nat /\ DOMAIN q = 1 .. Len(q) /\ Len(q) > 0
  BY ObjectTypes, LenProperties, EmptySeq
<1>2. 1 \in DOMAIN q /\ Head(q) = q[1]
  BY <1>1
<1>3. QueueInPlace(i)
  BY DEF CommitInv, InvocationInv
<1>4. /\ q[1].index \in DOMAIN order[i]
      /\ p = order[i][q[1].index]
      /\ p \in DOMAIN results[i] /\ results[i][p] = "valid"
  BY <1>2, <1>3 DEF QueueInPlace, Proposal
<1> HIDE DEF p
<1>5. results \in [Invocation -> Seq(Result)]
  BY DEF CommitInv, OwnTypeOK
<1>6. results' = [results EXCEPT ![i] = [results[i] EXCEPT ![p] = v]]
  BY DEF SetResult, p
<1>7. results'[i] = [results[i] EXCEPT ![p] = v]
  BY <1>5, <1>6
<1>8. [results[i] EXCEPT ![p] = v] \in Seq(Result)
  BY <1>4, <1>5, ExceptSeq, LenProperties
<1>9. results' \in [Invocation -> Seq(Result)]
  BY <1>5, <1>6, <1>8
<1>10. /\ DOMAIN results'[i] = DOMAIN results[i]
       /\ \A n \in DOMAIN results[i] : results'[i][n] = IF n = p THEN v ELSE results[i][n]
  BY <1>7
<1>11. ASSUME todo'[i] = t, order'[i] = order[i] PROVE QueueInPlace(i)'
  <2>1. DOMAIN t = 1 .. Len(q) - 1 /\ \A m \in 1 .. Len(q) - 1 : t[m] = q[m + 1]
    BY <1>1
  <2> HIDE DEF t
  <2>2. \A n \in DOMAIN order'[i] : order'[i][n] \in DOMAIN results'[i]
    BY <1>3, <1>10, <1>11 DEF QueueInPlace
  <2>3. IsInjective(order'[i])
    BY <1>3, <1>11 DEF QueueInPlace
  <2>4. ASSUME NEW m \in DOMAIN t
        PROVE  /\ t[m].index \in DOMAIN order[i]
               /\ results'[i][order[i][t[m].index]] = "valid"
               /\ \A n \in DOMAIN t : t[m].index = t[n].index => m = n
    <3>1. /\ m \in Nat /\ m + 1 \in DOMAIN q /\ t[m] = q[m + 1] /\ m + 1 # 1
          /\ \A n \in DOMAIN t : n \in Nat /\ n + 1 \in DOMAIN q /\ t[n] = q[n + 1]
      BY <1>1, <2>1
    <3>2. /\ q[m + 1].index \in DOMAIN order[i]
          /\ results[i][order[i][q[m + 1].index]] = "valid"
          /\ \A n \in DOMAIN q : q[m + 1].index = q[n].index => m + 1 = n
      BY <1>3, <3>1 DEF QueueInPlace
    <3>3. order[i][q[m + 1].index] # p
      BY <1>2, <1>3, <1>4, <3>1, <3>2 DEF QueueInPlace, IsInjective
    <3>4. order[i][q[m + 1].index] \in DOMAIN results[i]
      BY <1>3, <3>2 DEF QueueInPlace
    <3>5. \A n \in DOMAIN t : t[m].index = t[n].index => m = n
      BY <3>1, <3>2
    <3> QED BY <1>10, <3>1, <3>2, <3>3, <3>4, <3>5
  <2> QED BY <1>11, <2>2, <2>3, <2>4 DEF QueueInPlace
<1> QED BY <1>4, <1>9, <1>10, <1>11 DEF p

-----------------------------------------------------------------------------
(* What each step does to the invocation that takes it.                    *)

LEMMA OwnFacts ==
    ASSUME CommitInv, NEW i \in Invocation
    PROVE  /\ response \in [Invocation -> Response \cup {NoResponse}]
           /\ results \in [Invocation -> Seq(Result)]
           /\ order \in [Invocation -> Seq(Nat)]
           /\ checked \in [Invocation -> BOOLEAN]
           /\ outcome \in [Invocation -> {"open", "publishing", "succeeded", "unsuccessful",
                                          "stale", "refused", "raised"}]
           /\ InvocationInv(i)
           /\ response[i] # NoResponse =>
                 response[i] \in Response /\ DOMAIN results[i] = DOMAIN response[i].proposals
BY DEF CommitInv, OwnTypeOK, InvocationInv, ResultsInPlace

LEMMA PrepareCommit ==
    ASSUME CommitInv, NEW i \in Invocation, NEW r \in Response, Prepare(i, r)
    PROVE  OwnTypeOK' /\ InvocationInv(i)'
<1> USE OwnFacts, ObjectTypes
<1> DEFINE fresh == [n \in DOMAIN r.proposals |-> "unseen"]
<1>1. r.proposals \in Seq(Admission!Action) /\ r # NoResponse
  BY CommitAssumption
<1>2. fresh \in Seq(Result)
  <2>1. DOMAIN r.proposals = 1 .. Len(r.proposals) /\ Len(r.proposals) \in Nat
    BY <1>1, LenProperties
  <2> QED BY <2>1, SeqDef DEF Result
<1>3. /\ results' = [results EXCEPT ![i] = fresh]
      /\ response' = [response EXCEPT ![i] = r]
      /\ UNCHANGED <<order, checked, outcome, pc>>
  BY DEF Prepare, admissionVars
<1>4. results'[i] = fresh /\ response'[i] = r
  BY <1>3
<1>5. pc[i] = "reasoning" /\ outcome[i] = "open" /\ ~checked[i]
  BY DEF Prepare, InvocationInv, ResultsInPlace, PhaseInPlace
<1>6. OwnTypeOK'
  BY <1>2, <1>3 DEF OwnTypeOK
<1> QED BY <1>1, <1>3, <1>4, <1>5, <1>6
        DEF InvocationInv, ResultsInPlace, PhaseInPlace, QueueInPlace, KeysReserved, CheckHolds

LEMMA ValidateCommit ==
    ASSUME CommitInv, NEW i \in Invocation, NEW n \in DOMAIN results[i], NEW fit \in BOOLEAN,
           Validate(i, n, fit)
    PROVE  OwnTypeOK' /\ InvocationInv(i)'
<1> USE OwnFacts, ObjectTypes
<1>1. PICK v \in {"valid", "rejected"} : SetResult(i, n, v)
  BY DEF Validate
<1>2. /\ UNCHANGED <<response, order, checked, outcome, pc>>
      /\ pc[i] = "reasoning" /\ response[i] # NoResponse
  BY DEF Validate, admissionVars, Preparing
<1>3. [results[i] EXCEPT ![n] = v] \in Seq(Result)
  BY ExceptSeq, LenProperties DEF Result
<1>4. results' = [results EXCEPT ![i] = [results[i] EXCEPT ![n] = v]]
  BY <1>1 DEF SetResult
<1>5. /\ DOMAIN results'[i] = DOMAIN results[i]
      /\ \A m \in DOMAIN results[i] : results'[i][m] = IF m = n THEN v ELSE results[i][m]
  BY <1>4
<1>6. OwnTypeOK'
  BY <1>2, <1>3, <1>4 DEF OwnTypeOK
<1> QED BY <1>2, <1>5, <1>6
        DEF InvocationInv, ResultsInPlace, PhaseInPlace, QueueInPlace, KeysReserved, CheckHolds

LEMMA DecideCommit ==
    ASSUME CommitInv, NEW i \in Invocation, Decide(i)
    PROVE  OwnTypeOK' /\ InvocationInv(i)'
<1> USE OwnFacts, ObjectTypes
<1> DEFINE r == response[i]
           valid == {n \in DOMAIN results[i] : results[i][n] = "valid"}
           d == DecisionFor(r, valid)
           a == Arbitrated(r, valid)
<1>1. r \in Response /\ valid \in SUBSET DOMAIN r.proposals
  BY DEF Decide, Preparing
<1>2. /\ a \in Seq(Nat) /\ IsInjective(a)
      /\ \A n \in DOMAIN a : a[n] \in valid
  BY <1>1, ArbitratedProperties
<1>3. /\ pc[i] = "reasoning" /\ r # NoResponse /\ outcome[i] = "open"
      /\ order' = [order EXCEPT ![i] = a]
      /\ UNCHANGED <<response, results, checked, outcome>>
      /\ Admission!Decide(i, d)
  BY DEF Decide, Preparing
<1> HIDE DEF a, d
<1>4. /\ pc'[i] \in {"committing", "waiting"}
      /\ todo'[i] = Admission!CandidatesOf(i, d)
      /\ reservation'[i] = Admission!ReservationFor(i, d)
  BY <1>3 DEF Admission!Decide
<1>5. /\ d.reads = r.reads /\ d.writes = Writes(r) /\ d.actions = ActionsAt(r, a)
      /\ d.proposed = (r.proposals # <<>>)
  BY DEF d, a, DecisionFor
<1>6. /\ ~checked[i]
      /\ \A n \in DOMAIN results[i] : results[i][n] \in {"unseen", "valid", "rejected"}
  BY <1>3 DEF InvocationInv, PhaseInPlace
<1>7. OwnTypeOK'
  BY <1>2, <1>3 DEF OwnTypeOK
<1>8. ResultsInPlace(i)' /\ PhaseInPlace(i)' /\ CheckHolds(i)'
  BY <1>3, <1>4, <1>6 DEF ResultsInPlace, PhaseInPlace, CheckHolds
<1>9. QueueInPlace(i)'
  <2>1. order'[i] = a /\ results'[i] = results[i]
    BY <1>3
  <2>2. /\ DOMAIN todo'[i] = DOMAIN a
        /\ \A m \in DOMAIN a : todo'[i][m].index = m
    BY <1>4, <1>5 DEF Admission!CandidatesOf, ActionsAt
  <2> QED BY <1>2, <2>1, <2>2 DEF QueueInPlace
<1>10. KeysReserved(i)'
  <2>1. \/ /\ reservation'[i].reads = r.reads
           /\ reservation'[i].writes = Writes(r)
        \/ reservation'[i].candidates = {} /\ r.proposals # <<>>
    <3> DEFINE res == Admission!ReservationFor(i, d)
    <3>1. \/ d.proposed /\ res.candidates = {}
          \/ res.reads = d.reads /\ res.writes = d.writes
      BY Zenon DEF Admission!ReservationFor, Admission!NoReservation
    <3> HIDE DEF res
    <3>2. reservation'[i] = res
      BY <1>4 DEF res
    <3> QED BY <1>5, <3>1, <3>2
  <2>2. Writes(r)' = Writes(r)
    BY <1>3 DEF Writes
  <2> QED BY <1>3, <1>6, <2>1, <2>2 DEF KeysReserved
<1> QED BY <1>7, <1>8, <1>9, <1>10 DEF InvocationInv

LEMMA WakeCommit ==
    ASSUME CommitInv, NEW i \in Invocation, Wake(i)
    PROVE  OwnTypeOK' /\ InvocationInv(i)'
<1> USE OwnFacts, ObjectTypes
<1>1. /\ UNCHANGED <<ownVars, storeVars, todo, reservation>>
      /\ \/ pc'[i] = pc[i]
         \/ pc[i] = "waiting" /\ pc'[i] = "committing"
  <2>1. pc[i] # "pending"
    BY DEF CommitInv, Admission!IInv, Admission!NoHoldAndWait
  <2> QED BY <2>1 DEF Wake, Admission!Wake
<1>2. OwnTypeOK'
  BY <1>1 DEF OwnTypeOK, ownVars
<1>3. CASE pc'[i] = pc[i]
  <2>1. Untouched(i) /\ entries' = entries
    BY <1>1, <1>3 DEF Untouched, ownVars, storeVars
  <2> QED BY <1>2, <2>1, UntouchedInv
<1>4. CASE pc[i] = "waiting" /\ pc'[i] = "committing"
  <2>1. ResultsInPlace(i)' /\ PhaseInPlace(i)'
    BY <1>1, <1>4 DEF InvocationInv, ResultsInPlace, PhaseInPlace, ownVars
  <2>2. QueueInPlace(i)'
    BY <1>1, <1>4 DEF InvocationInv, QueueInPlace, ownVars
  <2>3. KeysReserved(i)'
    BY <1>1, <1>4 DEF InvocationInv, KeysReserved, Writes, ownVars
  <2>4. CheckHolds(i)'
    BY <1>1, <1>4 DEF InvocationInv, CheckHolds, PhaseInPlace, ownVars
  <2> QED BY <1>2, <2>1, <2>2, <2>3, <2>4 DEF InvocationInv
<1> QED BY <1>1, <1>3, <1>4

(* The reservation goes on to cover an invocation that keeps it, unless an *)
(* action it does not hold is reported as executed.                        *)
LEMMA ReservedKept ==
    ASSUME CommitInv, NEW i \in Invocation, pc[i] # "reasoning",
           response'[i] = response[i], reservation'[i] = reservation[i],
           DOMAIN results'[i] = DOMAIN results[i],
           \A n \in DOMAIN results[i] :
               results'[i][n] \in {"failed", "succeeded"} =>
                   \/ results[i][n] \in {"failed", "succeeded"}
                   \/ reservation[i].candidates # {}
    PROVE  KeysReserved(i)'
<1>1. KeysReserved(i)
  BY DEF CommitInv, InvocationInv
<1>2. Writes(response[i])' = Writes(response[i])
  BY DEF Writes
<1> QED BY <1>1, <1>2 DEF KeysReserved

LEMMA FreshKept ==
    ASSUME NEW i, response'[i] = response[i], snapshots'[i] = snapshots[i], entries' = entries
    PROVE  Fresh(i)' <=> Fresh(i)
BY DEF Fresh, Writes

(* A candidate that is rejected without being admitted.                    *)
LEMMA DropCommit ==
    ASSUME CommitInv, NEW i \in Invocation, Inside(i), ~checked'[i], todo[i] # <<>>,
           SetResult(i, Proposal(i), "rejected"), Admission!Skip(i),
           UNCHANGED <<response, order, outcome, entries, snapshots>>,
           checked' \in [Invocation -> BOOLEAN]
    PROVE  OwnTypeOK' /\ InvocationInv(i)'
<1> USE OwnFacts, ObjectTypes
<1>1. pc[i] = "committing" /\ outcome[i] = "open"
  BY DEF Inside
<1>2. pc'[i] = pc[i] /\ todo'[i] = Tail(todo[i]) /\ reservation'[i] = reservation[i]
  BY DEF Admission!Skip
<1>3. /\ results' \in [Invocation -> Seq(Result)]
      /\ DOMAIN results'[i] = DOMAIN results[i]
      /\ \A n \in DOMAIN results[i] :
            results'[i][n] = IF n = Proposal(i) THEN "rejected" ELSE results[i][n]
      /\ QueueInPlace(i)'
  BY <1>1, <1>2, HeadDealtWith DEF Result
<1>4. OwnTypeOK'
  BY <1>3 DEF OwnTypeOK
<1>5. ResultsInPlace(i)' /\ PhaseInPlace(i)' /\ CheckHolds(i)'
  BY <1>1, <1>2, <1>3 DEF InvocationInv, ResultsInPlace, PhaseInPlace, CheckHolds
<1>6. KeysReserved(i)'
  BY <1>1, <1>2, <1>3, ReservedKept
<1> QED BY <1>3, <1>4, <1>5, <1>6 DEF InvocationInv

LEMMA RefuseCommit ==
    ASSUME CommitInv, NEW i \in Invocation, Refuse(i)
    PROVE  OwnTypeOK' /\ InvocationInv(i)'
BY OwnFacts, DropCommit DEF Refuse, storeVars

LEMMA RevalidateCommit ==
    ASSUME CommitInv, NEW i \in Invocation, NEW fit \in BOOLEAN, Revalidate(i, fit)
    PROVE  OwnTypeOK' /\ InvocationInv(i)'
<1> USE OwnFacts, ObjectTypes
<1>1. CASE Fresh(i) /\ fit
  <2>1. /\ checked' = [checked EXCEPT ![i] = TRUE]
        /\ UNCHANGED <<response, order, outcome, results, pc, todo, reservation, entries,
                       snapshots>>
        /\ pc[i] = "committing" /\ outcome[i] = "open"
        /\ todo[i] # <<>> /\ Head(todo[i]) \in reservation[i].candidates
    BY <1>1 DEF Revalidate, storeVars, admissionVars, Inside
  <2>2. OwnTypeOK'
    BY <2>1 DEF OwnTypeOK
  <2>3. ResultsInPlace(i)' /\ PhaseInPlace(i)' /\ QueueInPlace(i)'
    BY <2>1 DEF InvocationInv, ResultsInPlace, PhaseInPlace, QueueInPlace
  <2>4. KeysReserved(i)'
    BY <2>1, ReservedKept
  <2>5. Fresh(i)'
    BY <1>1, <2>1, FreshKept
  <2>6. CheckHolds(i)'
    BY <2>1, <2>5 DEF CheckHolds
  <2> QED BY <2>2, <2>3, <2>4, <2>6 DEF InvocationInv
<1>2. CASE ~(Fresh(i) /\ fit)
  BY <1>2, DropCommit DEF Revalidate, storeVars
<1> QED BY <1>1, <1>2

LEMMA AdmitCommit ==
    ASSUME CommitInv, NEW i \in Invocation, Admit(i)
    PROVE  OwnTypeOK' /\ InvocationInv(i)'
<1> USE OwnFacts, ObjectTypes
<1> DEFINE c == Head(todo[i])
<1>1. /\ pc[i] = "committing" /\ outcome[i] = "open"
      /\ checked' = [checked EXCEPT ![i] = FALSE]
      /\ UNCHANGED <<response, order, outcome, entries, snapshots>>
      /\ Admission!Admit(i) /\ reservation' = reservation
      /\ todo[i] # <<>>
  BY DEF Admit, storeVars, Inside, Admission!Admit
<1>2. ~checked'[i]
  BY <1>1
<1>3. CASE Admission!LosesLate(i, c)
  <2>1. SetResult(i, Proposal(i), "rejected") /\ pc' = pc /\ todo' = [todo EXCEPT ![i] = Tail(@)]
    BY <1>1, <1>3 DEF Admit, Admission!Admit
  <2>2. Admission!Skip(i)
    BY <1>1, <1>3, <2>1 DEF Admission!Admit, Admission!Skip
  <2> QED BY <1>1, <1>2, <2>1, <2>2, DropCommit DEF Inside
<1>4. CASE ~Admission!LosesLate(i, c)
  <2>1. results' = results /\ todo' = todo /\ pc'[i] \in {"executing", "pending"}
    BY <1>1, <1>4 DEF Admit, Admission!Admit
  <2>2. OwnTypeOK'
    BY <1>1, <2>1 DEF OwnTypeOK
  <2>3. ResultsInPlace(i)' /\ PhaseInPlace(i)' /\ QueueInPlace(i)' /\ CheckHolds(i)'
    BY <1>1, <1>2, <2>1
    DEF InvocationInv, ResultsInPlace, PhaseInPlace, QueueInPlace, CheckHolds
  <2>4. KeysReserved(i)'
    BY <1>1, <2>1, ReservedKept
  <2> QED BY <2>2, <2>3, <2>4 DEF InvocationInv
<1> QED BY <1>3, <1>4

LEMMA ExecuteCommit ==
    ASSUME CommitInv, NEW i \in Invocation, NEW result \in {"succeeded", "failed"},
           Execute(i, result)
    PROVE  OwnTypeOK' /\ InvocationInv(i)'
<1> USE OwnFacts, ObjectTypes
<1>1. /\ pc[i] = "executing" /\ SetResult(i, Proposal(i), result)
      /\ UNCHANGED <<response, order, outcome, checked, entries, snapshots>>
      /\ pc'[i] = "committing" /\ todo'[i] = Tail(todo[i]) /\ reservation'[i] = reservation[i]
  BY DEF Execute, storeVars, Admission!Finish
<1>2. todo[i] # <<>> /\ reservation[i].candidates # {} /\ outcome[i] = "open" /\ ~checked[i]
  BY <1>1 DEF CommitInv, Admission!IInv, Admission!Bookkeeping, InvocationInv, PhaseInPlace
<1>3. /\ results' \in [Invocation -> Seq(Result)]
      /\ DOMAIN results'[i] = DOMAIN results[i]
      /\ QueueInPlace(i)'
  BY <1>1, <1>2, HeadDealtWith DEF Result
<1>4. OwnTypeOK'
  BY <1>1, <1>3 DEF OwnTypeOK
<1>5. ResultsInPlace(i)' /\ PhaseInPlace(i)' /\ CheckHolds(i)'
  BY <1>1, <1>2, <1>3 DEF InvocationInv, ResultsInPlace, PhaseInPlace, CheckHolds
<1>6. KeysReserved(i)'
  BY <1>1, <1>2, <1>3, ReservedKept
<1> QED BY <1>3, <1>4, <1>5, <1>6 DEF InvocationInv

(* A decision ends well only if every action of it succeeded and what it   *)
(* depends on is as it was.                                                *)
LEMMA CompleteProperties ==
    ASSUME CommitInv, NEW i \in Invocation, Complete(i)
    PROVE  /\ response[i] \in Response /\ todo[i] = <<>>
           /\ results' \in [Invocation -> Seq(Result)]
           /\ DOMAIN results'[i] = DOMAIN results[i]
           /\ \A n \in DOMAIN results[i] :
                 results'[i][n] = IF results[i][n] = "valid" THEN "rejected" ELSE results[i][n]
           /\ outcome' \in [Invocation -> {"open", "publishing", "succeeded", "unsuccessful",
                                           "stale", "refused", "raised"}]
           /\ outcome'[i] \in {"publishing", "succeeded", "unsuccessful", "stale"}
           /\ outcome'[i] \in {"publishing", "succeeded"} =>
                 /\ \A n \in DOMAIN results[i] : results[i][n] = "succeeded"
                 /\ Fresh(i)
           /\ outcome'[i] = "succeeded" => response[i].updates = <<>>
<1> USE OwnFacts, ObjectTypes
<1> DEFINE final == [n \in DOMAIN results[i] |->
                        IF results[i][n] = "valid" THEN "rejected" ELSE results[i][n]]
           ended == IF \E n \in DOMAIN final : final[n] # "succeeded" THEN "unsuccessful"
                    ELSE IF response[i].reads \cup Writes(response[i]) # {} /\ ~Fresh(i)
                    THEN "stale"
                    ELSE IF response[i].updates = <<>> THEN "succeeded"
                    ELSE "publishing"
<1>1. /\ results' = [results EXCEPT ![i] = final]
      /\ outcome' = [outcome EXCEPT ![i] = ended]
      /\ todo[i] = <<>> /\ pc[i] = "committing"
  BY DEF Complete, Inside
<1>2. response[i] \in Response
  BY <1>1 DEF InvocationInv, ResultsInPlace
<1>3. final \in Seq(Result)
  <2>1. results[i] \in Seq(Result) /\ DOMAIN results[i] = 1 .. Len(results[i])
        /\ Len(results[i]) \in Nat
    BY LenProperties
  <2>2. \A n \in DOMAIN results[i] : final[n] \in Result
    BY <2>1, ElementOfSeq DEF Result
  <2>3. DOMAIN final = 1 .. Len(results[i])
    BY <2>1
  <2> HIDE DEF final
  <2> QED
    <3>1. final \in [1 .. Len(results[i]) -> Result]
      <4>1. final = [n \in DOMAIN final |-> final[n]]
        BY DEF final
      <4> QED BY <2>1, <2>2, <2>3, <4>1
    <3>2. \A N \in Nat : [1 .. N -> Result] \subseteq Seq(Result)
      BY SeqDef
    <3> QED BY <2>1, <3>1, <3>2
<1>4. results'[i] = final /\ outcome'[i] = ended
  BY <1>1
<1>5. ended \in {"publishing", "succeeded", "unsuccessful", "stale"}
  OBVIOUS
<1>6. ended \in {"publishing", "succeeded"} =>
         /\ \A n \in DOMAIN results[i] : results[i][n] = "succeeded"
         /\ Fresh(i)
  <2>1. response[i].reads \cup Writes(response[i]) = {} => Fresh(i)
    BY DEF Fresh
  <2> HIDE DEF ended
  <2>2. ended \in {"publishing", "succeeded"} =>
           /\ \A n \in DOMAIN final : final[n] = "succeeded"
           /\ response[i].reads \cup Writes(response[i]) = {} \/ Fresh(i)
    BY Zenon DEF ended
  <2>3. (\A n \in DOMAIN final : final[n] = "succeeded") =>
           \A n \in DOMAIN results[i] : results[i][n] = "succeeded"
    OBVIOUS
  <2> QED BY <2>1, <2>2, <2>3
<1>7. ended = "succeeded" => response[i].updates = <<>>
  OBVIOUS
<1> HIDE DEF ended
<1>8. /\ results' \in [Invocation -> Seq(Result)]
      /\ outcome' \in [Invocation -> {"open", "publishing", "succeeded", "unsuccessful",
                                      "stale", "refused", "raised"}]
  BY <1>1, <1>3, <1>5
<1> QED BY <1>1, <1>2, <1>4, <1>5, <1>6, <1>7, <1>8

LEMMA CompleteCommit ==
    ASSUME CommitInv, NEW i \in Invocation, Complete(i)
    PROVE  OwnTypeOK' /\ InvocationInv(i)'
<1>1. /\ UNCHANGED <<response, order, checked, entries, snapshots, pc, todo, reservation>>
      /\ pc[i] = "committing"
  BY DEF Complete, Inside, storeVars, admissionVars
<1>2. /\ DOMAIN results'[i] = DOMAIN results[i]
      /\ \A n \in DOMAIN results[i] :
            results'[i][n] = IF results[i][n] = "valid" THEN "rejected" ELSE results[i][n]
  BY CompleteProperties
<1>3. \A n \in DOMAIN results[i] :
         /\ results'[i][n] \in {"failed", "succeeded"} => results[i][n] \in {"failed", "succeeded"}
         /\ results[i][n] = "succeeded" => results'[i][n] = "succeeded"
  BY <1>2
<1>4. OwnTypeOK'
  BY <1>1, OwnFacts, CompleteProperties DEF OwnTypeOK
<1>5. ResultsInPlace(i)' /\ PhaseInPlace(i)'
  BY <1>1, <1>2, CompleteProperties, OwnFacts, CommitAssumption
  DEF InvocationInv, ResultsInPlace, PhaseInPlace
<1>6. QueueInPlace(i)'
  BY <1>1, <1>2, OwnFacts, CompleteProperties DEF InvocationInv, QueueInPlace
<1>7. KeysReserved(i)'
  BY <1>1, <1>2, <1>3, ReservedKept
<1>8. CheckHolds(i)'
  <2>1. Fresh(i)' <=> Fresh(i)
    BY <1>1, FreshKept
  <2>2. /\ outcome'[i] # "open"
        /\ outcome'[i] = "publishing" =>
              Fresh(i) /\ \A n \in DOMAIN results[i] : results[i][n] = "succeeded"
    BY CompleteProperties
  <2>3. outcome'[i] = "publishing" =>
           \A n \in DOMAIN results'[i] : results'[i][n] = "succeeded"
    BY <1>2, <1>3, <2>2
  <2> QED BY <2>1, <2>2, <2>3 DEF CheckHolds
<1> QED BY <1>4, <1>5, <1>6, <1>7, <1>8 DEF InvocationInv

LEMMA EndCommit ==
    ASSUME CommitInv, NEW i \in Invocation, Raise(i) \/ Leave(i)
    PROVE  OwnTypeOK' /\ InvocationInv(i)'
<1> USE OwnFacts, ObjectTypes
<1>1. CASE Raise(i)
  <2>1. /\ UNCHANGED <<response, results, order, checked, entries, snapshots, pc, todo,
                       reservation>>
        /\ outcome' = [outcome EXCEPT ![i] = "raised"]
        /\ response[i] # NoResponse /\ pc[i] \in {"reasoning", "committing"}
    BY <1>1 DEF Raise, Preparing, Inside, storeVars, admissionVars, InvocationInv, ResultsInPlace
  <2>2. OwnTypeOK'
    BY <2>1 DEF OwnTypeOK
  <2>3. ResultsInPlace(i)' /\ PhaseInPlace(i)' /\ QueueInPlace(i)' /\ CheckHolds(i)'
    BY <2>1 DEF InvocationInv, ResultsInPlace, PhaseInPlace, QueueInPlace, CheckHolds
  <2>4. KeysReserved(i)'
    <3>1. CASE pc[i] = "reasoning"
      BY <2>1, <3>1 DEF KeysReserved
    <3>2. CASE pc[i] # "reasoning"
      BY <2>1, <3>2, ReservedKept
    <3> QED BY <3>1, <3>2
  <2> QED BY <2>2, <2>3, <2>4 DEF InvocationInv
<1>2. CASE Leave(i)
  <2>1. /\ UNCHANGED <<response, results, order, checked, outcome, entries, snapshots, todo,
                       reservation>>
        /\ pc[i] = "committing" /\ pc'[i] = "done"
        /\ outcome[i] \notin {"open", "publishing"}
    BY <1>2 DEF Leave, storeVars, ownVars, Admission!Leave
  <2>2. OwnTypeOK'
    BY <2>1 DEF OwnTypeOK
  <2>3. ResultsInPlace(i)' /\ PhaseInPlace(i)' /\ QueueInPlace(i)' /\ CheckHolds(i)'
    BY <2>1 DEF InvocationInv, ResultsInPlace, PhaseInPlace, QueueInPlace, CheckHolds
  <2>4. KeysReserved(i)'
    BY <2>1, ReservedKept
  <2> QED BY <2>2, <2>3, <2>4 DEF InvocationInv
<1> QED BY <1>1, <1>2

(* While a check of an invocation stands, it is inside its decision with a *)
(* reservation that covers all it depends on.                              *)
LEMMA CheckedIsReserved ==
    ASSUME CommitInv, NEW i \in Invocation,
           (checked[i] /\ outcome[i] = "open") \/ outcome[i] = "publishing"
    PROVE  /\ i \in committing /\ response[i] \in Response
           /\ reservation[i].reads = response[i].reads
           /\ reservation[i].writes = Writes(response[i])
<1> USE OwnFacts, ObjectTypes
<1>1. pc[i] = "committing"
  BY DEF InvocationInv, PhaseInPlace
<1>2. i \in committing
  BY <1>1 DEF CommitInv, Admission!IInv, Admission!Bookkeeping, Admission!Inside
<1>3. response[i] \in Response
  BY <1>1 DEF InvocationInv, ResultsInPlace
<1>4. reservation[i].candidates # {} \/ response[i].proposals = <<>>
  <2>1. CASE checked[i] /\ outcome[i] = "open"
    BY <2>1 DEF InvocationInv, CheckHolds
  <2>2. CASE outcome[i] = "publishing" /\ response[i].proposals # <<>>
    <3>1. response[i].proposals \in Seq(Admission!Action)
      BY <1>3, CommitAssumption
    <3>2. 1 \in DOMAIN response[i].proposals
      <4>1. Len(response[i].proposals) # 0 /\ Len(response[i].proposals) \in Nat
        BY <2>2, <3>1, EmptySeq, LenProperties
      <4> QED BY <3>1, <4>1, LenProperties
    <3>3. results[i][1] = "succeeded" /\ 1 \in DOMAIN results[i]
      BY <1>3, <2>2, <3>2, CommitAssumption DEF InvocationInv, CheckHolds
    <3> QED BY <1>1, <3>3 DEF InvocationInv, KeysReserved
  <2> QED BY <2>1, <2>2
<1> QED BY <1>1, <1>2, <1>3, <1>4 DEF InvocationInv, KeysReserved

(* Updates are published over keys that no standing check depends on: both *)
(* decisions are inside, and their reservations are isolated.              *)
LEMMA PublishKeepsFresh ==
    ASSUME CommitInv, NEW i \in Invocation, Publish(i), NEW j \in Invocation, j # i,
           (checked[j] /\ outcome[j] = "open") \/ outcome[j] = "publishing",
           Fresh(j), Untouched(j)
    PROVE  Fresh(j)'
<1> DEFINE needed == response[j].reads \cup Writes(response[j])
<1>1. /\ i \in committing /\ response[i] \in Response
      /\ reservation[i].writes = Writes(response[i])
  BY CheckedIsReserved DEF Publish
<1>2. /\ j \in committing /\ response[j] \in Response
      /\ reservation[j].reads = response[j].reads
      /\ reservation[j].writes = Writes(response[j])
  BY CheckedIsReserved
<1>3. ~Admission!StateConflict(reservation[i], reservation[j])
  BY <1>1, <1>2 DEF CommitInv, Admission!IInv, Admission!ReservationsIsolated,
                    Admission!DecisionConflict
<1>4. Writes(response[i]) \cap needed = {}
  BY <1>1, <1>2, <1>3 DEF Admission!StateConflict
<1>5. ASSUME NEW k \in needed PROVE entries'[k] = entries[k]
  <2>1. k \in StateKey
    BY <1>2, FreshRows
  <2>2. CASE UNCHANGED storeVars
    BY <2>2 DEF storeVars
  <2>3. CASE entries' = Store!Updated(response[i].updates)
    <3>1. ~\E n \in DOMAIN response[i].updates : response[i].updates[n].key = k
      BY <1>4 DEF Writes
    <3> QED BY <2>1, <2>3, <3>1 DEF Store!Updated
  <2> QED BY <2>2, <2>3 DEF Publish, Store!Apply
<1>6. response'[j] = response[j] /\ snapshots'[j] = snapshots[j]
  BY DEF Untouched
<1>7. \A k \in needed : Store!VisibleVersion(entries'[k]) = snapshots'[j][k].version
  BY <1>5, <1>6 DEF Fresh
<1>8. Writes(response[j])' = Writes(response[j])
  BY <1>6 DEF Writes
<1> QED BY <1>6, <1>7, <1>8 DEF Fresh, Store!VisibleVersion

LEMMA PublishCommit ==
    ASSUME CommitInv, NEW i \in Invocation, Publish(i)
    PROVE  OwnTypeOK' /\ \A j \in Invocation : InvocationInv(j)'
<1> USE OwnFacts, ObjectTypes
<1>1. /\ UNCHANGED <<response, results, order, checked, snapshots, pc, todo, reservation>>
      /\ outcome[i] = "publishing"
      /\ \E end \in {"succeeded", "refused"} : outcome' = [outcome EXCEPT ![i] = end]
  BY DEF Publish, storeVars, admissionVars, Store!Apply
<1>2. OwnTypeOK'
  BY <1>1 DEF OwnTypeOK
<1>3. InvocationInv(i)'
  <2>1. outcome'[i] \in {"succeeded", "refused"}
    BY <1>1
  <2>2. response[i] # NoResponse /\ pc[i] \notin {"reasoning", "waiting", "pending", "executing"}
    BY <1>1 DEF InvocationInv, ResultsInPlace, PhaseInPlace
  <2>3. ResultsInPlace(i)' /\ PhaseInPlace(i)' /\ QueueInPlace(i)' /\ CheckHolds(i)'
    BY <1>1, <2>1, <2>2 DEF InvocationInv, ResultsInPlace, PhaseInPlace, QueueInPlace, CheckHolds
  <2>4. KeysReserved(i)'
    BY <1>1, <2>2, ReservedKept
  <2> QED BY <2>3, <2>4 DEF InvocationInv
<1>4. ASSUME NEW j \in Invocation, j # i PROVE InvocationInv(j)'
  <2>1. Untouched(j) /\ outcome'[j] = outcome[j] /\ checked'[j] = checked[j]
    BY <1>4, OthersUntouched DEF Step, Untouched
  <2>2. ResultsInPlace(j)' /\ PhaseInPlace(j)' /\ QueueInPlace(j)'
    BY <1>1, <2>1 DEF InvocationInv, ResultsInPlace, PhaseInPlace, QueueInPlace
  <2>3. KeysReserved(j)'
    <3>1. CASE pc[j] = "reasoning"
      BY <1>1, <3>1 DEF KeysReserved
    <3>2. CASE pc[j] # "reasoning"
      BY <1>1, <3>2, ReservedKept
    <3> QED BY <3>1, <3>2
  <2>4. (checked[j] /\ outcome[j] = "open") \/ outcome[j] = "publishing" => Fresh(j)'
    <3> SUFFICES ASSUME (checked[j] /\ outcome[j] = "open") \/ outcome[j] = "publishing"
                 PROVE  Fresh(j)'
      OBVIOUS
    <3>1. Fresh(j)
      BY DEF InvocationInv, CheckHolds
    <3> QED BY <1>4, <2>1, <3>1, PublishKeepsFresh
  <2>5. CheckHolds(j)'
    BY <1>1, <2>1, <2>4 DEF InvocationInv, CheckHolds
  <2> QED BY <2>2, <2>3, <2>5 DEF InvocationInv
<1> QED BY <1>2, <1>3, <1>4

(* Only the publication of updates changes rows.                           *)
LEMMA RowsKept ==
    ASSUME NEW i \in Invocation, Step(i), ~Publish(i)
    PROVE  entries' = entries
BY DEF Step, Prepare, Validate, Decide, Wake, Refuse, Revalidate, Admit, Execute, Complete,
       Raise, Leave, storeVars, Store!Snapshot

LEMMA StepCommit == CommitInv /\ [Next]_vars => CommitInv'
<1> SUFFICES ASSUME CommitInv, [Next]_vars PROVE CommitInv'
  OBVIOUS
<1>1. CASE Next
  <2>1. PICK i \in Invocation : Step(i)
    BY <1>1 DEF Next
  <2>2. Store!StoreInv' /\ Admission!IInv'
    BY <2>1, ObjectSteps, StoreKept, AdmissionKept DEF CommitInv
  <2>3. CASE Publish(i)
    BY <2>2, <2>3, PublishCommit DEF CommitInv
  <2>4. CASE ~Publish(i)
    <3>1. OwnTypeOK' /\ InvocationInv(i)'
      BY <2>1, <2>4, PrepareCommit, ValidateCommit, DecideCommit, WakeCommit, RefuseCommit,
         RevalidateCommit, AdmitCommit, ExecuteCommit, CompleteCommit, EndCommit DEF Step
    <3>2. ASSUME NEW j \in Invocation, j # i PROVE InvocationInv(j)'
      BY <2>1, <2>4, <3>2, OwnFacts, RowsKept, OthersUntouched, UntouchedInv
    <3> QED BY <2>2, <3>1, <3>2 DEF CommitInv
  <2> QED BY <2>3, <2>4
<1>2. CASE UNCHANGED vars
  <2>1. UNCHANGED <<storeVars, admissionVars, ownVars>>
    BY <1>2 DEF vars
  <2>2. Store!StoreInv' /\ Admission!IInv'
    BY <2>1, StoreKept, AdmissionKept DEF CommitInv
  <2>3. OwnTypeOK'
    BY <2>1 DEF CommitInv, OwnTypeOK, ownVars
  <2>4. ASSUME NEW j \in Invocation PROVE InvocationInv(j)'
    <3>1. Untouched(j) /\ entries' = entries
      BY <2>1 DEF Untouched, storeVars, admissionVars, ownVars
    <3> QED BY <3>1, OwnFacts, UntouchedInv
  <2> QED BY <2>2, <2>3, <2>4 DEF CommitInv
<1> QED BY <1>1, <1>2

-----------------------------------------------------------------------------
(* The commit protocol keeps its invariant, for every policy and any       *)
(* number of invocations: results, queues and reservations of each fit its *)
(* response, and a check of versions stands until it has been used.        *)
THEOREM CommitInvariant == Spec => []CommitInv
BY InitCommit, StepCommit, PTL DEF Spec

(* Every variable keeps its type.                                          *)
THEOREM CommitTypes == Spec => []TypeOK
<1>1. CommitInv => TypeOK
  BY DEF CommitInv, TypeOK, Store!StoreInv, Admission!IInv
<1> QED BY <1>1, CommitInvariant, PTL

(* No other decision publishes over one that complete() has found fresh:   *)
(* the comparison the store makes in apply() never fails on a version.     *)
THEOREM VersionsHold == Spec => []VersionsHoldAtPublish
<1>1. CommitInv => VersionsHoldAtPublish
  <2> SUFFICES ASSUME CommitInv, NEW i \in Invocation, outcome[i] = "publishing",
                      NEW k \in Writes(response[i])
               PROVE  Store!Expected(snapshots[i][k].version, k)
    BY DEF VersionsHoldAtPublish
  <2>1. Fresh(i)
    BY OwnFacts DEF InvocationInv, CheckHolds
  <2> QED BY <2>1 DEF Fresh, Store!Expected
<1> QED BY <1>1, CommitInvariant, PTL

(* In the composition each object is used only as its own specification    *)
(* says, so its theorems hold there: the admission object, ...             *)
THEOREM UsesAdmission == Spec => Admission!Spec
<1>1. Init => Admission!Init
  BY DEF Init
<1>2. CommitInv /\ [Next]_vars => [Admission!Next]_Admission!vars
  BY ObjectSteps DEF Next, vars, admissionVars, Admission!vars
<1> QED BY <1>1, <1>2, CommitInvariant, PTL DEF Spec, Admission!Spec

(* ... and the store.                                                      *)
THEOREM UsesStore == Spec => Store!StoreSpec
<1>1. Init => Store!StoreInit
  BY DEF Init
<1>2. CommitInv /\ [Next]_vars => [Store!StoreNext]_Store!storeVars
  BY ObjectSteps DEF Next, vars, storeVars, Store!storeVars
<1> QED BY <1>1, <1>2, CommitInvariant, PTL DEF Spec, Store!StoreSpec

-----------------------------------------------------------------------------
(* The refinement of AtomicDecisions.                                      *)

Done(i) == {n \in DOMAIN results[i] : results[i][n] = "succeeded"}

(* What the abstraction sees of a step: what it does to the invocation     *)
(* that takes it, and to the rows.                                         *)
LEMMA AbstractionOfStep ==
    ASSUME CommitInv, NEW i \in Invocation, Step(i)
    PROVE  /\ [j \in Invocation |-> Started(j)]' =
                 [[j \in Invocation |-> Started(j)] EXCEPT ![i] = Started(i)']
           /\ [j \in Invocation |-> Done(j)]' =
                 [[j \in Invocation |-> Done(j)] EXCEPT ![i] = Done(i)']
           /\ Started(i)' = Started(i) =>
                 [j \in Invocation |-> Started(j)]' = [j \in Invocation |-> Started(j)]
           /\ Done(i)' = Done(i) =>
                 [j \in Invocation |-> Done(j)]' = [j \in Invocation |-> Done(j)]
           /\ \A j \in Invocation :
                 j # i => (outcome'[j] = "succeeded" <=> outcome[j] = "succeeded")
<1>1. ASSUME NEW j \in Invocation, j # i
      PROVE  /\ Started(j)' = Started(j) /\ Done(j)' = Done(j)
             /\ outcome'[j] = "succeeded" <=> outcome[j] = "succeeded"
  <2>1. Untouched(j)
    BY <1>1, OthersUntouched
  <2>2. Proposal(j)' = Proposal(j)
    BY <2>1 DEF Untouched, Proposal
  <2> QED BY <2>1, <2>2 DEF Untouched, Started, Done
<1>2. Started(i)' = Started(i) =>
         [j \in Invocation |-> Started(j)]' = [j \in Invocation |-> Started(j)]
  BY <1>1
<1>3. Done(i)' = Done(i) =>
         [j \in Invocation |-> Done(j)]' = [j \in Invocation |-> Done(j)]
  BY <1>1
<1>4. [j \in Invocation |-> Started(j)]' =
         [[j \in Invocation |-> Started(j)] EXCEPT ![i] = Started(i)']
  BY <1>1
<1>5. [j \in Invocation |-> Done(j)]' = [[j \in Invocation |-> Done(j)] EXCEPT ![i] = Done(i)']
  BY <1>1
<1> QED BY <1>1, <1>2, <1>3, <1>4, <1>5

(* A step that starts, ends and publishes nothing is none of the           *)
(* abstraction.                                                            *)
LEMMA QuietStep ==
    ASSUME CommitInv, NEW i \in Invocation, Step(i), entries' = entries,
           snapshots' = snapshots, response' = response,
           Started(i)' = Started(i), Done(i)' = Done(i),
           outcome'[i] = "succeeded" <=> outcome[i] = "succeeded"
    PROVE  UNCHANGED Promise!vars
<1>1. [j \in Invocation |-> Started(j)]' = [j \in Invocation |-> Started(j)]
  BY AbstractionOfStep
<1>2. [j \in Invocation |-> Done(j)]' = [j \in Invocation |-> Done(j)]
  BY AbstractionOfStep
<1>3. {j \in Invocation : outcome[j] = "succeeded"}' =
         {j \in Invocation : outcome[j] = "succeeded"}
  BY AbstractionOfStep
<1>4. [k \in StateKey |-> Store!VisibleEntry(entries[k])]' =
         [k \in StateKey |-> Store!VisibleEntry(entries[k])]
  BY DEF Store!VisibleEntry, Store!Absent
<1> QED BY Zenon, <1>1, <1>2, <1>3, <1>4 DEF Promise!vars, Done

(* What the store compares is what the abstraction compares.               *)
LEMMA FreshIsFresh ==
    ASSUME CommitInv, NEW i \in Invocation, response[i] \in Response, Fresh(i)
    PROVE  Promise!Fresh(i)
<1>1. Promise!DependsOn(response[i]) = response[i].reads \cup Writes(response[i])
  BY DEF Promise!DependsOn, Promise!Updated, Writes
<1> QED BY <1>1, FreshRows DEF Promise!Fresh

LEMMA PrepareAnswers ==
    ASSUME CommitInv, NEW i \in Invocation, NEW r \in Response, Prepare(i, r)
    PROVE  Promise!Answer(i, r)
<1> USE OwnFacts, ObjectTypes
<1>1. /\ response[i] = NoResponse /\ response' = [response EXCEPT ![i] = r]
      /\ results'[i] = [n \in DOMAIN r.proposals |-> "unseen"]
      /\ UNCHANGED <<pc, outcome, entries>>
      /\ snapshots' =
            [snapshots EXCEPT ![i] = [k \in StateKey |-> Store!VisibleEntry(entries[k])]]
  BY DEF Prepare, admissionVars, Store!Snapshot
<1>2. pc[i] = "reasoning" /\ results[i] = <<>> /\ outcome[i] = "open"
  BY <1>1 DEF InvocationInv, ResultsInPlace
<1>3. Started(i) = {} /\ Started(i)' = {} /\ Done(i) = {} /\ Done(i)' = {}
  BY <1>1, <1>2 DEF Started, Done
<1>4. Step(i)
  BY DEF Step
<1>5. [j \in Invocation |-> Started(j)]' = [j \in Invocation |-> Started(j)]
  BY <1>3, <1>4, AbstractionOfStep
<1>6. [j \in Invocation |-> Done(j)]' = [j \in Invocation |-> Done(j)]
  BY <1>3, <1>4, AbstractionOfStep
<1>7. {j \in Invocation : outcome[j] = "succeeded"}' =
         {j \in Invocation : outcome[j] = "succeeded"}
  BY <1>1
<1>8. [k \in StateKey |-> Store!VisibleEntry(entries[k])]' =
         [k \in StateKey |-> Store!VisibleEntry(entries[k])]
  BY <1>1 DEF Store!VisibleEntry, Store!Absent
<1> QED BY Zenon, <1>1, <1>5, <1>6, <1>7, <1>8 DEF Promise!Answer, Done

(* Before the decision nothing starts, and nothing has.                    *)
LEMMA ReasoningIsQuiet ==
    ASSUME CommitInv, NEW i \in Invocation,
           (\E n \in DOMAIN results[i], fit \in BOOLEAN : Validate(i, n, fit)) \/ Decide(i)
    PROVE  UNCHANGED Promise!vars
<1> USE OwnFacts, ObjectTypes
<1>1. pc[i] = "reasoning"
  BY DEF Validate, Decide, Preparing
<1>2. \A n \in DOMAIN results[i] : results[i][n] \in {"unseen", "valid", "rejected"}
  BY <1>1 DEF InvocationInv, PhaseInPlace
<1>3. Started(i) = {} /\ Done(i) = {}
  BY <1>1, <1>2 DEF Started, Done
<1>4. /\ UNCHANGED <<entries, snapshots, response, outcome>>
      /\ pc'[i] # "executing"
      /\ DOMAIN results'[i] = DOMAIN results[i]
      /\ \A n \in DOMAIN results[i] : results'[i][n] \in {"unseen", "valid", "rejected"}
  <2>1. CASE Decide(i)
    BY <1>2, <2>1 DEF Decide, storeVars, Admission!Decide
  <2>2. CASE \E n \in DOMAIN results[i], fit \in BOOLEAN : Validate(i, n, fit)
    <3>1. PICK n \in DOMAIN results[i], fit \in BOOLEAN : Validate(i, n, fit)
      BY <2>2
    <3>2. PICK v \in {"valid", "rejected"} : SetResult(i, n, v)
      BY <3>1 DEF Validate
    <3>3. results'[i] = [results[i] EXCEPT ![n] = v]
      BY <3>2 DEF SetResult
    <3>4. UNCHANGED <<entries, snapshots, response, outcome, pc>>
      BY <3>1 DEF Validate, storeVars, admissionVars
    <3> QED BY <1>1, <1>2, <3>3, <3>4
  <2> QED BY <2>1, <2>2
<1>5. Started(i)' = {} /\ Done(i)' = {}
  BY <1>4 DEF Started, Done
<1>6. Step(i)
  BY DEF Step
<1> QED BY <1>3, <1>4, <1>5, <1>6, QuietStep

(* Waking up, giving a candidate up and ending change no action's fate.    *)
LEMMA RejectingIsQuiet ==
    ASSUME CommitInv, NEW i \in Invocation, Step(i), pc[i] = "committing", todo[i] # <<>>,
           SetResult(i, Proposal(i), "rejected"), pc'[i] = "committing",
           UNCHANGED <<entries, snapshots, response, outcome>>
    PROVE  UNCHANGED Promise!vars
<1>1. /\ DOMAIN results'[i] = DOMAIN results[i]
      /\ results[i][Proposal(i)] = "valid"
      /\ \A n \in DOMAIN results[i] :
            results'[i][n] = IF n = Proposal(i) THEN "rejected" ELSE results[i][n]
  BY HeadDealtWith DEF Result
<1>2. Started(i)' = Started(i) /\ Done(i)' = Done(i)
  BY <1>1 DEF Started, Done
<1> QED BY <1>2, QuietStep

LEMMA WaitingIsQuiet ==
    ASSUME CommitInv, NEW i \in Invocation,
           \/ Wake(i) \/ Refuse(i) \/ Raise(i) \/ Leave(i)
           \/ \E fit \in BOOLEAN : Revalidate(i, fit)
    PROVE  UNCHANGED Promise!vars
<1> USE OwnFacts, ObjectTypes
<1>1. Step(i)
  BY DEF Step
<1>2. CASE Wake(i)
  <2>1. UNCHANGED <<entries, snapshots, response, results, order, outcome, todo>>
    BY <1>2 DEF Wake, storeVars, ownVars, Admission!Wake
  <2>2. pc'[i] = "executing" <=> pc[i] = "executing"
    <3>1. pc[i] # "pending"
      BY DEF CommitInv, Admission!IInv, Admission!NoHoldAndWait
    <3> QED BY <1>2, <3>1 DEF Wake, Admission!Wake
  <2>3. Started(i)' = Started(i) /\ Done(i)' = Done(i)
    BY <2>1, <2>2 DEF Started, Done, Proposal
  <2> QED BY <1>1, <2>1, <2>3, QuietStep
<1>3. CASE Refuse(i)
  BY <1>1, <1>3, RejectingIsQuiet DEF Refuse, Inside, storeVars, Admission!Skip
<1>4. CASE Raise(i)
  <2>1. /\ UNCHANGED <<entries, snapshots, response, results, order, todo, pc>>
        /\ outcome[i] = "open" /\ outcome'[i] = "raised"
    BY <1>4 DEF Raise, Preparing, Inside, storeVars, admissionVars
  <2>2. Started(i)' = Started(i) /\ Done(i)' = Done(i)
    BY <2>1 DEF Started, Done, Proposal
  <2> QED BY <1>1, <2>1, <2>2, QuietStep
<1>5. CASE Leave(i)
  <2>1. /\ UNCHANGED <<entries, snapshots, response, results, outcome>>
        /\ pc[i] = "committing" /\ pc'[i] = "done"
    BY <1>5 DEF Leave, storeVars, ownVars, Admission!Leave
  <2>2. Started(i)' = Started(i) /\ Done(i)' = Done(i)
    BY <2>1 DEF Started, Done
  <2> QED BY <1>1, <2>1, <2>2, QuietStep
<1>6. ASSUME NEW fit \in BOOLEAN, Revalidate(i, fit) PROVE UNCHANGED Promise!vars
  <2>1. CASE Fresh(i) /\ fit
    <3>1. UNCHANGED <<entries, snapshots, response, results, order, outcome, todo, pc>>
      BY <1>6, <2>1 DEF Revalidate, storeVars, admissionVars
    <3>2. Started(i)' = Started(i) /\ Done(i)' = Done(i)
      BY <3>1 DEF Started, Done, Proposal
    <3> QED BY <1>1, <3>1, <3>2, QuietStep
  <2>2. CASE ~(Fresh(i) /\ fit)
    BY <1>1, <1>6, <2>2, RejectingIsQuiet DEF Revalidate, Inside, storeVars, Admission!Skip
  <2> QED BY <2>1, <2>2
<1> QED BY <1>2, <1>3, <1>4, <1>5, <1>6

(* admit() starts the action that has been checked, over the rows the      *)
(* agent saw.                                                              *)
LEMMA AdmitStarts ==
    ASSUME CommitInv, CommitInv', NEW i \in Invocation, Admit(i)
    PROVE  Promise!Next \/ UNCHANGED Promise!vars
<1> USE OwnFacts, ObjectTypes
<1>1. /\ pc[i] = "committing" /\ outcome[i] = "open" /\ checked[i] /\ todo[i] # <<>>
      /\ UNCHANGED <<response, order, outcome, entries, snapshots>>
      /\ Admission!Admit(i)
  BY DEF Admit, Inside, storeVars, Admission!Admit
<1>2. Step(i)
  BY DEF Step
<1>3. CASE Admission!LosesLate(i, Head(todo[i]))
  <2>1. SetResult(i, Proposal(i), "rejected") /\ pc'[i] = "committing"
    BY <1>1, <1>3 DEF Admit, Admission!Admit
  <2> QED BY <1>1, <1>2, <2>1, RejectingIsQuiet
<1>4. CASE ~Admission!LosesLate(i, Head(todo[i]))
  <2> DEFINE n == Proposal(i)
  <2>1. results' = results /\ todo' = todo /\ pc'[i] = "executing"
    <3>1. pc'[i] # "pending"
      BY DEF CommitInv, Admission!IInv, Admission!NoHoldAndWait
    <3> QED BY <1>1, <1>4, <3>1 DEF Admit, Admission!Admit
  <2>2. n \in DOMAIN results[i] /\ results[i][n] = "valid"
    <3>1. 1 \in DOMAIN todo[i] /\ Head(todo[i]) = todo[i][1]
      <4> DEFINE q == todo[i]
      <4>1. q \in Seq(Admission!Candidate) /\ q # <<>>
        BY <1>1
      <4> HIDE DEF q
      <4>2. Len(q) \in Nat /\ DOMAIN q = 1 .. Len(q) /\ Len(q) > 0
        BY <4>1, EmptySeq, LenProperties
      <4>3. 1 \in DOMAIN q /\ Head(q) = q[1]
        BY <4>1, <4>2
      <4> QED BY <4>3 DEF q
    <3>2. QueueInPlace(i)
      BY DEF InvocationInv
    <3>3. /\ todo[i][1].index \in DOMAIN order[i]
          /\ order[i][todo[i][1].index] \in DOMAIN results[i]
          /\ results[i][order[i][todo[i][1].index]] = "valid"
      BY <1>1, <3>1, <3>2 DEF QueueInPlace
    <3>4. n = order[i][todo[i][1].index]
      BY <3>1 DEF Proposal
    <3> QED BY <3>3, <3>4
  <2>3. Proposal(i)' = n
    BY <1>1, <2>1 DEF Proposal
  <2> HIDE DEF n
  <2>4. n \notin Started(i) /\ Started(i)' = Started(i) \cup {n} /\ Done(i)' = Done(i)
    BY <1>1, <2>1, <2>2, <2>3 DEF Started, Done
  <2>5. response[i] \in Response /\ n \in DOMAIN response[i].proposals
    BY <1>1, <2>2, CheckedIsReserved, CommitAssumption
  <2>6. Promise!Fresh(i)
    BY <1>1, <2>5, FreshIsFresh DEF InvocationInv, CheckHolds
  <2>7. [j \in Invocation |-> Started(j)]' =
           [[j \in Invocation |-> Started(j)] EXCEPT ![i] = @ \cup {n}]
    BY <1>2, <2>4, AbstractionOfStep
  <2>8. [j \in Invocation |-> Done(j)]' = [j \in Invocation |-> Done(j)]
    BY <1>2, <2>4, AbstractionOfStep
  <2>9. [k \in StateKey |-> Store!VisibleEntry(entries[k])]' =
           [k \in StateKey |-> Store!VisibleEntry(entries[k])]
    BY <1>1 DEF Store!VisibleEntry, Store!Absent
  <2>10. {j \in Invocation : outcome[j] = "succeeded"}' =
            {j \in Invocation : outcome[j] = "succeeded"}
    BY <1>1
  <2>11. n \notin [j \in Invocation |-> Started(j)][i]
    BY <2>4
  <2>12. Promise!Start(i, n)
    BY Zenon, <1>1, <2>6, <2>7, <2>8, <2>9, <2>10, <2>11 DEF Promise!Start, Done
  <2>13. response[i] # NoResponse
    BY <2>5, CommitAssumption
  <2> QED BY <2>5, <2>12, <2>13 DEF Promise!Next
<1> QED BY <1>3, <1>4

LEMMA ExecuteSucceeds ==
    ASSUME CommitInv, NEW i \in Invocation, NEW result \in {"succeeded", "failed"},
           Execute(i, result)
    PROVE  Promise!Next \/ UNCHANGED Promise!vars
<1> USE OwnFacts, ObjectTypes
<1> DEFINE n == Proposal(i)
<1>1. /\ pc[i] = "executing" /\ SetResult(i, n, result)
      /\ UNCHANGED <<response, order, outcome, entries, snapshots>>
      /\ pc'[i] = "committing"
  BY DEF Execute, storeVars, Admission!Finish
<1>2. todo[i] # <<>>
  BY <1>1 DEF CommitInv, Admission!IInv, Admission!Bookkeeping
<1>3. /\ n \in DOMAIN results[i] /\ results[i][n] = "valid"
      /\ DOMAIN results'[i] = DOMAIN results[i]
      /\ \A m \in DOMAIN results[i] :
            results'[i][m] = IF m = n THEN result ELSE results[i][m]
  BY <1>1, <1>2, HeadDealtWith DEF Result
<1>4. Step(i)
  BY DEF Step
<1>5. Started(i)' = Started(i) /\ n \in Started(i) \ Done(i)
  BY <1>1, <1>3 DEF Started, Done
<1> HIDE DEF n
<1>6. CASE result = "failed"
  <2>1. Done(i)' = Done(i)
    BY <1>3, <1>6 DEF Done
  <2> QED BY <1>1, <1>4, <1>5, <2>1, QuietStep
<1>7. CASE result = "succeeded"
  <2>0. PICK m \in DOMAIN results[i] : m = n
    BY <1>3
  <2>1. Done(i)' = Done(i) \cup {m}
    BY <1>3, <1>7, <2>0 DEF Done
  <2>2. [j \in Invocation |-> Started(j)]' = [j \in Invocation |-> Started(j)]
    BY Zenon, <1>4, <1>5, AbstractionOfStep
  <2>3. [j \in Invocation |-> Done(j)]' =
           [[j \in Invocation |-> Done(j)] EXCEPT ![i] = @ \cup {m}]
    BY <1>4, <2>1, AbstractionOfStep
  <2>4. [k \in StateKey |-> Store!VisibleEntry(entries[k])]' =
           [k \in StateKey |-> Store!VisibleEntry(entries[k])]
    BY <1>1 DEF Store!VisibleEntry, Store!Absent
  <2>5. {j \in Invocation : outcome[j] = "succeeded"}' =
           {j \in Invocation : outcome[j] = "succeeded"}
    BY <1>1
  <2>6. m \in [j \in Invocation |-> Started(j)][i] \ [j \in Invocation |-> Done(j)][i]
    BY <1>5, <2>0
  <2>7. Promise!Succeed(i, m)
    BY Zenon, <1>1, <2>2, <2>3, <2>4, <2>5, <2>6 DEF Promise!Succeed, Done
  <2>8. response[i] # NoResponse /\ m \in DOMAIN response[i].proposals
    <3>1. response[i] # NoResponse
      BY <1>1 DEF InvocationInv, ResultsInPlace
    <3> QED BY <3>1
  <2> QED BY <2>7, <2>8 DEF Promise!Next
<1> QED BY <1>6, <1>7

(* Success is reported of fresh decisions all of whose actions succeeded,  *)
(* by complete() when there is nothing to publish ...                      *)
LEMMA SuccessPublishes ==
    ASSUME CommitInv, NEW i \in Invocation, Step(i), UNCHANGED <<snapshots, response>>,
           response[i] \in Response, Fresh(i),
           \A n \in DOMAIN results[i] : results[i][n] = "succeeded",
           Started(i)' = Started(i), Done(i)' = Done(i),
           outcome[i] # "succeeded", outcome'[i] = "succeeded",
           \A k \in StateKey : entries'[k] # entries[k] => k \in Writes(response[i])
    PROVE  Promise!Next
<1> USE OwnFacts, ObjectTypes
<1> DEFINE rows == [k \in StateKey |-> Store!VisibleEntry(entries[k])]
           ended == {j \in Invocation : outcome[j] = "succeeded"}
<1>1. [j \in Invocation |-> Started(j)]' = [j \in Invocation |-> Started(j)]
  BY AbstractionOfStep
<1>2. [j \in Invocation |-> Done(j)]' = [j \in Invocation |-> Done(j)]
  BY AbstractionOfStep
<1>3. i \notin ended /\ ended' = ended \cup {i}
  BY AbstractionOfStep
<1>4. Promise!Fresh(i)
  BY FreshIsFresh
<1>5. [j \in Invocation |-> Done(j)][i] = DOMAIN response[i].proposals
  BY CommitAssumption DEF Done
<1>6. \A k \in StateKey : rows'[k] # rows[k] => k \in Promise!Updated(response[i])
  <2> SUFFICES ASSUME NEW k \in StateKey, k \notin Promise!Updated(response[i])
               PROVE  rows'[k] = rows[k]
    OBVIOUS
  <2>1. k \notin Writes(response[i])
    BY DEF Promise!Updated, Writes
  <2>2. entries'[k] = entries[k]
    BY <2>1
  <2> QED BY <2>2 DEF Store!VisibleEntry, Store!Absent
<1>7. Promise!Publish(i)
  <2> HIDE DEF rows, ended
  <2>1. /\ i \notin ended /\ Promise!Fresh(i)
        /\ [j \in Invocation |-> Done(j)][i] = DOMAIN response[i].proposals
        /\ ended' = ended \cup {i}
        /\ \A k \in StateKey : rows'[k] # rows[k] => k \in Promise!Updated(response[i])
    BY <1>3, <1>4, <1>5, <1>6
  <2> QED BY Zenon, <1>1, <1>2, <2>1 DEF Promise!Publish, Done, rows, ended
<1>8. response[i] # NoResponse
  BY CommitAssumption
<1> QED BY <1>7, <1>8 DEF Promise!Next

LEMMA CompletePublishes ==
    ASSUME CommitInv, NEW i \in Invocation, Complete(i)
    PROVE  Promise!Next \/ UNCHANGED Promise!vars
<1> USE OwnFacts, ObjectTypes
<1>1. /\ UNCHANGED <<response, entries, snapshots, pc>>
      /\ pc[i] = "committing" /\ outcome[i] = "open"
  BY DEF Complete, Inside, storeVars, admissionVars
<1>2. /\ response[i] \in Response
      /\ DOMAIN results'[i] = DOMAIN results[i]
      /\ \A n \in DOMAIN results[i] :
            results'[i][n] = IF results[i][n] = "valid" THEN "rejected" ELSE results[i][n]
      /\ outcome'[i] = "succeeded" =>
            Fresh(i) /\ \A n \in DOMAIN results[i] : results[i][n] = "succeeded"
  BY CompleteProperties
<1>3. Started(i)' = Started(i) /\ Done(i)' = Done(i)
  BY <1>1, <1>2 DEF Started, Done
<1>4. Step(i)
  BY DEF Step
<1>5. CASE outcome'[i] = "succeeded"
  BY <1>1, <1>2, <1>3, <1>4, <1>5, SuccessPublishes
<1>6. CASE outcome'[i] # "succeeded"
  BY <1>1, <1>3, <1>4, <1>6, QuietStep
<1> QED BY <1>5, <1>6

(* ... and by the store's acceptance of the updates.                       *)
LEMMA PublishPublishes ==
    ASSUME CommitInv, NEW i \in Invocation, Publish(i)
    PROVE  Promise!Next \/ UNCHANGED Promise!vars
<1> USE OwnFacts, ObjectTypes
<1>1. UNCHANGED <<response, results, snapshots, pc, todo, order>> /\ outcome[i] = "publishing"
  BY DEF Publish, storeVars, admissionVars, Store!Apply
<1>2. Started(i)' = Started(i) /\ Done(i)' = Done(i)
  BY <1>1 DEF Started, Done, Proposal
<1>3. /\ response[i] \in Response /\ Fresh(i)
      /\ \A n \in DOMAIN results[i] : results[i][n] = "succeeded"
  BY <1>1, CheckedIsReserved DEF InvocationInv, CheckHolds
<1>4. Step(i)
  BY DEF Step
<1>5. CASE outcome'[i] = "succeeded"
  <2>1. entries' = Store!Updated(response[i].updates)
    BY <1>5 DEF Publish, Store!Apply
  <2>2. ASSUME NEW k \in StateKey, k \notin Writes(response[i]) PROVE entries'[k] = entries[k]
    BY <2>1, <2>2 DEF Store!Updated, Writes
  <2> QED BY <1>1, <1>2, <1>3, <1>4, <1>5, <2>2, SuccessPublishes
<1>6. CASE outcome'[i] # "succeeded"
  <2>1. UNCHANGED <<entries, snapshots>>
    BY <1>6 DEF Publish, storeVars
  <2> QED BY <1>1, <1>2, <1>4, <1>6, <2>1, QuietStep
<1> QED BY <1>5, <1>6

LEMMA InitPromise == Init => Promise!Init
<1> SUFFICES ASSUME Init PROVE Promise!Init
  OBVIOUS
<1> DEFINE rows == [k \in StateKey |-> Store!VisibleEntry(entries[k])]
<1>1. \A k \in StateKey : Store!VisibleEntry(entries[k]) = Store!Absent
  BY DEF Init, Store!StoreInit, Store!VisibleEntry, Store!Absent
<1>2. rows = [k \in StateKey |-> Store!Absent]
  BY <1>1
<1>3. rows \in [StateKey -> Store!Entry]
  <2>1. Store!Absent \in Store!Entry
    BY DEF Store!Entry, Store!Absent
  <2> HIDE DEF rows
  <2> QED BY <1>2, <2>1
<1>4. snapshots = [i \in Invocation |-> rows]
  BY <1>2 DEF Init, Store!StoreInit
<1>5. \A i \in Invocation : Started(i) = {} /\ Done(i) = {} /\ outcome[i] # "succeeded"
  BY DEF Init, Admission!Init, Started, Done
<1>6. response = [i \in Invocation |-> NoResponse]
  BY DEF Init
<1>7. /\ [i \in Invocation |-> Started(i)] = [i \in Invocation |-> {}]
      /\ [i \in Invocation |-> Done(i)] = [i \in Invocation |-> {}]
      /\ {i \in Invocation : outcome[i] = "succeeded"} = {}
  BY <1>5
<1> QED BY Zenon, <1>3, <1>4, <1>6, <1>7 DEF Promise!Init, Done, rows

(* Coordinated execution implements AtomicDecisions: however decisions     *)
(* overlap, each of its actions starts, and its updates are published at   *)
(* once, only over the shared state the agent saw, and nothing is          *)
(* published unless every action of the decision succeeded.                *)
THEOREM PromiseKept == Spec => KeepsPromise
<1>1. CommitInv /\ CommitInv' /\ [Next]_vars => [Promise!Next]_Promise!vars
  <2> SUFFICES ASSUME CommitInv, CommitInv', [Next]_vars
               PROVE  Promise!Next \/ UNCHANGED Promise!vars
    BY DEF Promise!vars
  <2>1. CASE Next
    <3>1. PICK i \in Invocation : Step(i)
      BY <2>1 DEF Next
    <3>2. ASSUME NEW r \in Response, Prepare(i, r) PROVE Promise!Next
      BY <3>2, PrepareAnswers DEF Promise!Next
    <3> QED BY <3>1, <3>2, ReasoningIsQuiet, WaitingIsQuiet, AdmitStarts, ExecuteSucceeds,
               CompletePublishes, PublishPublishes DEF Step
  <2>2. CASE UNCHANGED vars
    <3>1. UNCHANGED <<entries, snapshots, response, results, order, outcome, todo, pc>>
      BY <2>2 DEF vars, storeVars, admissionVars, ownVars
    <3>2. /\ \A i \in Invocation : Started(i)' = Started(i) /\ Done(i)' = Done(i)
          /\ \A k \in StateKey :
                Store!VisibleEntry(entries[k])' = Store!VisibleEntry(entries[k])
      BY <3>1 DEF Started, Done, Proposal, Store!VisibleEntry, Store!Absent
    <3>3. /\ [j \in Invocation |-> Started(j)]' = [j \in Invocation |-> Started(j)]
          /\ [j \in Invocation |-> Done(j)]' = [j \in Invocation |-> Done(j)]
          /\ [k \in StateKey |-> Store!VisibleEntry(entries[k])]' =
                [k \in StateKey |-> Store!VisibleEntry(entries[k])]
          /\ {j \in Invocation : outcome[j] = "succeeded"}' =
                {j \in Invocation : outcome[j] = "succeeded"}
      BY <3>1, <3>2
    <3> QED BY Zenon, <3>1, <3>3 DEF Promise!vars, Done
  <2> QED BY <2>1, <2>2
<1> QED BY <1>1, InitPromise, CommitInvariant, PTL DEF Spec, KeepsPromise, Promise!Spec

-----------------------------------------------------------------------------
(* What is proved of the admission object alone, in the composition: the   *)
(* verdict over a granted decision stands, no wake-up is lost and effects  *)
(* that conflict are never produced together.                              *)
THEOREM AdmissionHolds ==
    Spec => [](Admission!VerdictStands /\ Admission!NoLostWakeup /\ Admission!ActiveConflictFree)
<1>1. Admission!Spec => Objects!Spec
  <2>1. [Admission!Next]_Admission!vars => [Objects!Next]_Objects!vars
    BY AdmissionAgain DEF Admission!vars, Objects!vars
  <2> QED BY <2>1, AdmissionAgain, PTL DEF Admission!Spec, Objects!Spec
<1>2. Objects!Spec => []Objects!VerdictStands
  BY BatchesFit, AdmissionAgain, Objects!VerdictsStand
<1>3. Objects!Spec => []Objects!NoLostWakeup
  BY BatchesFit, AdmissionAgain, Objects!WakeupsKept
<1>4. Objects!Spec => []Objects!ActiveConflictFree
  BY BatchesFit, AdmissionAgain, Objects!EffectsProtected
<1>5. \A a, b : Admission!Conflicts(a, b) <=> Objects!Conflicts(a, b)
  BY DEF Admission!Conflicts, Objects!Conflicts, Admission!ConflictKeys,
         Objects!ConflictKeys, Admission!AnyEffect, Objects!AnyEffect
<1>6. Objects!VerdictStands => Admission!VerdictStands
  <2>1. \A i, c : Admission!LosesLate(i, c) <=> Objects!LosesLate(i, c)
    BY Zenon, <1>5
    DEF Admission!LosesLate, Objects!LosesLate, Admission!Admitted,
        Objects!Admitted
  <2> QED BY Zenon, <2>1
       DEF Admission!VerdictStands, Objects!VerdictStands, Admission!ToSet,
           Objects!ToSet
<1>7. Objects!NoLostWakeup => Admission!NoLostWakeup
  <2>1. \A a, b : Admission!DecisionConflict(a, b) <=> Objects!DecisionConflict(a, b)
    BY Zenon, <1>5
    DEF Admission!DecisionConflict, Objects!DecisionConflict,
        Admission!StateConflict, Objects!StateConflict,
        Admission!NetworkConflict, Objects!NetworkConflict
  <2>2. \A i, mine, n :
           Admission!DecisionReady(i, mine, n) <=> Objects!DecisionReady(i, mine, n)
    BY Zenon, <2>1
    DEF Admission!DecisionReady, Objects!DecisionReady, Admission!Precedes,
        Objects!Precedes
  <2> QED BY Zenon, <2>2 DEF Admission!NoLostWakeup, Objects!NoLostWakeup
<1>8. Objects!ActiveConflictFree => Admission!ActiveConflictFree
  BY Zenon, <1>5 DEF Admission!ActiveConflictFree, Objects!ActiveConflictFree
<1> QED BY <1>1, <1>2, <1>3, <1>4, <1>6, <1>7, <1>8, UsesAdmission, PTL

(* What is proved of the store alone, in the composition: a version that   *)
(* an invocation saw and that is current names one write, and what it      *)
(* publishes replaces just the writes its agent saw.                       *)
THEOREM StoreHolds == Spec => []Store!VersionIdentifiesWrite /\ Store!NoLostUpdate
<1> DEFINE Seen(c, b) == \A n \in DOMAIN b :
                Objects!VisibleEntry(entries[b[n].key]) = snapshots[c][b[n].key]
           Given(c, b) == \A n \in DOMAIN b :
                Store!VisibleEntry(entries[b[n].key]) = snapshots[c][b[n].key]
           B == {r.updates : r \in Response}
<1>1. Store!StoreSpec => Objects!StoreSpec
  <2>1. [Store!StoreNext]_Store!storeVars => [Objects!StoreNext]_Objects!storeVars
    BY StoreAgain DEF Store!storeVars, Objects!storeVars
  <2> QED BY <2>1, StoreAgain, PTL DEF Store!StoreSpec, Objects!StoreSpec
<1>2. Objects!StoreSpec => []Objects!VersionIdentifiesWrite
  BY BatchesFit, AdmissionAgain, Objects!VersionsIdentifyWrites
<1>3. Objects!StoreSpec => Objects!NoLostUpdate
  BY BatchesFit, AdmissionAgain, Objects!NoUpdateLost
<1>4. Objects!VersionIdentifiesWrite => Store!VersionIdentifiesWrite
  BY Zenon DEF Store!VersionIdentifiesWrite, Objects!VersionIdentifiesWrite
<1>5. [\A c \in Invocation, b \in B : Objects!Apply(c, b) => Seen(c, b)]_Objects!storeVars
      => [\A c \in Invocation, b \in B : Store!Apply(c, b) => Given(c, b)]_Store!storeVars
  <2>1. \A e : Store!VisibleEntry(e) = Objects!VisibleEntry(e)
    BY DEF Store!VisibleEntry, Objects!VisibleEntry, Store!Absent, Objects!Absent
  <2>2. \A c, b : Seen(c, b) => Given(c, b)
    BY Zenon, <2>1
  <2>3. UNCHANGED Objects!storeVars => UNCHANGED Store!storeVars
    BY DEF Store!storeVars, Objects!storeVars
  <2> HIDE DEF Seen, Given, B
  <2> QED BY Zenon, <2>2, <2>3, StoreAgain
<1>6. Objects!NoLostUpdate => Store!NoLostUpdate
  BY <1>5, PTL DEF Objects!NoLostUpdate, Store!NoLostUpdate
<1> QED BY <1>1, <1>2, <1>3, <1>4, <1>6, UsesStore, PTL
=============================================================================

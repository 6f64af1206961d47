----------------------- MODULE ContinuousRuntimeProofs -----------------------
(***************************************************************************)
(* Theorems about ContinuousRuntime for any agents, events, triggers,      *)
(* limits and restart budgets.                                             *)
(***************************************************************************)
EXTENDS ContinuousRuntime, FiniteSetTheorems, SequenceTheorems, NaturalsInduction, TLAPS

-----------------------------------------------------------------------------
(* Items and queues                                                        *)

LEMMA ItemParts ==
    ASSUME NEW j \in Item
    PROVE  /\ j[1] \in Event /\ j[2] \in DOMAIN TargetsOf[j[1]] /\ j = <<j[1], j[2]>>
           /\ Executor(j) \in Agent
<1>1. PICK e \in Event : j \in {e} \X DOMAIN TargetsOf[e]
  BY DEF Item
<1>2. TargetsOf[e] \in Seq(Agent)
  BY ContinuousAssumption
<1> QED BY <1>1, <1>2 DEF Executor

LEMMA ItemsFinite == IsFiniteSet(Item)
<1> DEFINE S == {{e} \X DOMAIN TargetsOf[e] : e \in Event}
<1>1. IsFiniteSet(S)
  <2> DEFINE f == [e \in Event |-> {e} \X DOMAIN TargetsOf[e]]
  <2>1. f \in Surjection(Event, S)
    BY DEF Surjection
  <2> QED BY <2>1, ContinuousAssumption, FS_Surjection
<1>2. ASSUME NEW T \in S PROVE IsFiniteSet(T)
  <2>1. PICK e \in Event : T = {e} \X DOMAIN TargetsOf[e]
    OBVIOUS
  <2>2. DOMAIN TargetsOf[e] = 1 .. Len(TargetsOf[e]) /\ Len(TargetsOf[e]) \in Nat
    BY ContinuousAssumption
  <2>3. IsFiniteSet(DOMAIN TargetsOf[e])
    BY <2>2, FS_Interval
  <2> QED BY <2>1, <2>3, FS_Singleton, FS_Product
<1>3. IsFiniteSet(UNION S)
  BY <1>1, <1>2, FS_UNION
<1> QED BY <1>3 DEF Item

LEMMA AppendedQueue ==
    ASSUME NEW S, NEW q \in Seq(S), IsInjective(q), NEW x \in S, x \notin ToSet(q)
    PROVE  /\ Append(q, x) \in Seq(S) /\ IsInjective(Append(q, x))
           /\ ToSet(Append(q, x)) = ToSet(q) \cup {x} /\ Len(Append(q, x)) = Len(q) + 1
<1> DEFINE r == Append(q, x)
<1>1. r \in Seq(S) /\ Len(r) = Len(q) + 1 /\ DOMAIN r = 1 .. Len(q) + 1
  OBVIOUS
<1>2. DOMAIN q = 1 .. Len(q) /\ Len(q) \in Nat
  OBVIOUS
<1>3. \A n \in DOMAIN r : r[n] = IF n \in DOMAIN q THEN q[n] ELSE x
  BY <1>2
<1>4. \A n \in DOMAIN q : q[n] # x
  BY DEF ToSet
<1>5. DOMAIN r = DOMAIN q \cup {Len(q) + 1} /\ Len(q) + 1 \notin DOMAIN q
  BY <1>1, <1>2
<1> HIDE DEF r
<1>6. IsInjective(r)
  BY <1>3, <1>4, <1>5 DEF IsInjective
<1>7. ToSet(r) = ToSet(q) \cup {x}
  BY <1>3, <1>5 DEF ToSet
<1> QED BY <1>1, <1>6, <1>7 DEF r

LEMMA TailQueue ==
    ASSUME NEW S, NEW q \in Seq(S), IsInjective(q), q # <<>>
    PROVE  /\ Tail(q) \in Seq(S) /\ IsInjective(Tail(q)) /\ Head(q) \in ToSet(q)
           /\ ToSet(Tail(q)) = ToSet(q) \ {Head(q)} /\ Len(Tail(q)) = Len(q) - 1
<1> DEFINE r == Tail(q)
<1>1. r \in Seq(S) /\ Len(r) = Len(q) - 1 /\ DOMAIN r = 1 .. Len(q) - 1
  OBVIOUS
<1>2. DOMAIN q = 1 .. Len(q) /\ Len(q) \in Nat /\ 1 \in DOMAIN q /\ Head(q) = q[1]
  OBVIOUS
<1>3. \A n \in DOMAIN r : r[n] = q[n + 1]
  BY <1>1, <1>2
<1> HIDE DEF r
<1>4. IsInjective(r)
  BY <1>1, <1>2, <1>3 DEF IsInjective
<1>5. ToSet(r) \subseteq ToSet(q) \ {Head(q)}
  BY <1>1, <1>2, <1>3 DEF IsInjective, ToSet
<1>6. ASSUME NEW x \in ToSet(q), x # Head(q) PROVE x \in ToSet(r)
  <2>1. PICK n \in DOMAIN q : x = q[n]
    BY DEF ToSet
  <2>2. n - 1 \in DOMAIN r /\ r[n - 1] = x
    BY <1>1, <1>2, <1>3, <1>6, <2>1
  <2> QED BY <2>2 DEF ToSet
<1>7. Head(q) \in ToSet(q)
  BY <1>2 DEF ToSet
<1> QED BY <1>1, <1>4, <1>5, <1>6, <1>7 DEF r

LEMMA ReplacedQueue ==
    ASSUME NEW S, NEW q \in Seq(S), IsInjective(q), NEW x \in S, x \notin ToSet(q),
           NEW n \in DOMAIN q
    PROVE  LET r == [q EXCEPT ![n] = x] IN
           /\ r \in Seq(S) /\ IsInjective(r) /\ q[n] \in ToSet(q)
           /\ ToSet(r) = (ToSet(q) \ {q[n]}) \cup {x} /\ Len(r) = Len(q)
<1> DEFINE r == [q EXCEPT ![n] = x]
<1>1. r \in Seq(S) /\ Len(r) = Len(q) /\ DOMAIN r = DOMAIN q
  BY ExceptSeq
<1>2. \A m \in DOMAIN q : r[m] = IF m = n THEN x ELSE q[m]
  OBVIOUS
<1>3. \A m \in DOMAIN q : q[m] # x
  BY DEF ToSet
<1>4. IsInjective(r)
  BY <1>1, <1>2, <1>3 DEF IsInjective
<1>5. ToSet(r) = (ToSet(q) \ {q[n]}) \cup {x}
  BY <1>1, <1>2 DEF IsInjective, ToSet
<1> QED BY <1>1, <1>4, <1>5 DEF ToSet

LEMMA EmptyQueue == \A S : <<>> \in Seq(S) /\ IsInjective(<<>>) /\ ToSet(<<>>) = {}
  BY DEF IsInjective, ToSet

(* A set of numbers has a least one.                                       *)
LEMMA LeastNumber ==
    ASSUME NEW T \in SUBSET Nat, T # {}
    PROVE  \E n \in T : \A m \in T : n <= m
<1> DEFINE Less == {p \in Nat \X Nat : p[1] < p[2]}
<1>1. IsWellFoundedOn(Less, Nat)
  BY NatLessThanWellFounded DEF OpToRel
<1> HIDE DEF Less
<1>2. PICK n \in T : \A m \in T : <<m, n>> \notin Less
  BY <1>1, WFMin
<1>3. ASSUME NEW m \in T PROVE n <= m
  <2>1. m \in Nat /\ n \in Nat /\ <<m, n>> \in Nat \X Nat
    OBVIOUS
  <2>2. ~(m < n)
    BY <1>2, <2>1 DEF Less
  <2> QED BY <2>1, <2>2
<1> QED BY <1>3

LEMMA SameKeyProperties ==
    ASSUME NEW q \in Seq(Item), NEW j \in Item, SameKey(q, j) # 0
    PROVE  SameKey(q, j) \in DOMAIN q
<1> DEFINE I == {n \in 1 .. Len(q) : KeyOf[q[n]] = KeyOf[j]}
<1>1. SameKey(q, j) = IF I # {} THEN Min(I) ELSE 0
  BY DEF SameKey, SelectInSeq
<1>2. I # {} /\ I \in SUBSET Nat
  BY <1>1
<1>3. \E n \in I : \A m \in I : n <= m
  BY <1>2, LeastNumber
<1>4. Min(I) \in I
  BY <1>3 DEF Min
<1> QED BY <1>1, <1>2, <1>4

LEMMA MatchesProperties ==
    ASSUME NEW e \in Event, NEW m \in Matches(e)
    PROVE  /\ m \in Seq(Item) /\ IsInjective(m)
           /\ \A j \in ToSet(m) : j[1] = e
<1> DEFINE all == DOMAIN TargetsOf[e]
<1>1. all = 1 .. Len(TargetsOf[e]) /\ Len(TargetsOf[e]) \in Nat
  BY ContinuousAssumption
<1>2. PICK k \in SUBSET all : \E t \in [1 .. Cardinality(k) -> k] :
         /\ \A i, n \in DOMAIN t : i < n => t[i] < t[n]
         /\ m = [n \in DOMAIN t |-> <<e, t[n]>>]
  <2> DEFINE kept == IF e \in Filtered THEN SUBSET all ELSE {all}
             lists(k) == {t \in [1 .. Cardinality(k) -> k] :
                             \A i, n \in DOMAIN t : i < n => t[i] < t[n]}
             items(k) == {[n \in DOMAIN t |-> <<e, t[n]>>] : t \in lists(k)}
  <2>1. m \in UNION {items(k) : k \in kept}
    BY DEF Matches
  <2> HIDE DEF items
  <2>2. PICK k \in kept : m \in items(k)
    BY <2>1
  <2>3. k \in SUBSET all
    OBVIOUS
  <2> HIDE DEF lists
  <2>4. PICK t \in lists(k) : m = [n \in DOMAIN t |-> <<e, t[n]>>]
    BY <2>2 DEF items
  <2> QED BY <2>3, <2>4 DEF lists
<1>3. Cardinality(k) \in Nat
  <2>1. IsFiniteSet(all)
    BY <1>1, FS_Interval
  <2> HIDE DEF all
  <2> QED BY <2>1, FS_Subset, FS_CardinalityType
<1>4. PICK t \in [1 .. Cardinality(k) -> k] :
         /\ \A i, n \in DOMAIN t : i < n => t[i] < t[n]
         /\ m = [n \in DOMAIN t |-> <<e, t[n]>>]
  BY <1>2
<1>5. \A n \in all : <<e, n>> \in Item
  BY DEF Item
<1>6. m \in [1 .. Cardinality(k) -> Item]
  BY <1>4, <1>5
<1>7. \A i, n \in DOMAIN t : i # n => t[i] # t[n]
  <2> SUFFICES ASSUME NEW i \in DOMAIN t, NEW n \in DOMAIN t, i # n PROVE t[i] # t[n]
    OBVIOUS
  <2>1. t[i] \in Nat /\ t[n] \in Nat
    BY <1>1, <1>4
  <2>2. i < n \/ n < i
    BY <1>3, <1>4
  <2> QED BY <1>4, <2>1, <2>2
<1>8. IsInjective(m)
  BY <1>4, <1>7 DEF IsInjective
<1>9. m \in Seq(Item)
  BY <1>3, <1>6
<1>10. \A j \in ToSet(m) : j[1] = e
  BY <1>4 DEF ToSet
<1> QED BY <1>8, <1>9, <1>10

(* The items on the queues are counted position by position.               *)
LEMMA QueuedFinite ==
    ASSUME WorkTypeOK
    PROVE  /\ IsFiniteSet(UNION {{a} \X DOMAIN queues[a] : a \in Agent})
           /\ Queued \in Nat
<1> DEFINE S == {{a} \X DOMAIN queues[a] : a \in Agent}
<1>1. \A a \in Agent : DOMAIN queues[a] = 1 .. Len(queues[a]) /\ Len(queues[a]) \in Nat
  BY DEF WorkTypeOK
<1>2. IsFiniteSet(S)
  <2> DEFINE f == [a \in Agent |-> {a} \X DOMAIN queues[a]]
  <2>1. f \in Surjection(Agent, S)
    BY DEF Surjection
  <2> QED BY <2>1, ContinuousAssumption, FS_Surjection
<1>3. ASSUME NEW T \in S PROVE IsFiniteSet(T)
  <2>1. PICK a \in Agent : T = {a} \X DOMAIN queues[a]
    OBVIOUS
  <2>2. IsFiniteSet(DOMAIN queues[a])
    BY <1>1, FS_Interval
  <2> QED BY <2>1, <2>2, FS_Singleton, FS_Product
<1>4. IsFiniteSet(UNION S)
  BY <1>2, <1>3, FS_UNION
<1>5. Queued = Cardinality(UNION S) /\ Queued \in Nat
  BY <1>4, FS_CardinalityType DEF Queued
<1> QED BY <1>4, <1>5

LEMMA QueuedCounts ==
    ASSUME WorkTypeOK, NEW a \in Agent, NEW q \in Seq(Item), queues' = [queues EXCEPT ![a] = q]
    PROVE  /\ Len(q) <= Len(queues[a]) => Queued' \in Nat /\ Queued' <= Queued
           /\ Len(q) = Len(queues[a]) + 1 => Queued' \in Nat /\ Queued' = Queued + 1
<1> DEFINE U == UNION {{b} \X DOMAIN queues[b] : b \in Agent}
<1> DEFINE V == UNION {{b} \X DOMAIN queues'[b] : b \in Agent}
<1>1. /\ Queued' = Cardinality(V) /\ Queued = Cardinality(U)
      /\ IsFiniteSet(U) /\ Queued \in Nat
  BY QueuedFinite DEF Queued
<1>2. /\ DOMAIN q = 1 .. Len(q) /\ Len(q) \in Nat
      /\ DOMAIN queues[a] = 1 .. Len(queues[a]) /\ Len(queues[a]) \in Nat
  BY DEF WorkTypeOK
<1>3. \A b \in Agent : queues'[b] = IF b = a THEN q ELSE queues[b]
  BY DEF WorkTypeOK
<1>4. ASSUME Len(q) <= Len(queues[a]) PROVE Queued' \in Nat /\ Queued' <= Queued
  <2>1. DOMAIN q \subseteq DOMAIN queues[a]
    BY <1>2, <1>4
  <2>2. V \subseteq U
    BY <1>3, <2>1
  <2> HIDE DEF U, V
  <2> QED BY <1>1, <2>2, FS_Subset, FS_CardinalityType
<1>5. ASSUME Len(q) = Len(queues[a]) + 1 PROVE Queued' \in Nat /\ Queued' = Queued + 1
  <2> DEFINE x == <<a, Len(q)>>
  <2>1. DOMAIN q = DOMAIN queues[a] \cup {Len(q)} /\ Len(q) \notin DOMAIN queues[a]
    BY <1>2, <1>5
  <2> HIDE DEF U, V
  <2>2. V = U \cup {x}
    <3>1. ASSUME NEW p \in V PROVE p \in U \cup {x}
      <4>1. PICK b \in Agent : \E n \in DOMAIN queues'[b] : p = <<b, n>>
        BY <3>1 DEF V
      <4>2. PICK n \in DOMAIN queues'[b] : p = <<b, n>>
        BY <4>1
      <4>3. CASE b = a /\ n = Len(q)
        BY <4>2, <4>3
      <4>4. CASE b # a \/ n # Len(q)
        <5>1. n \in DOMAIN queues[b]
          <6>1. CASE b # a
            BY <1>3, <4>2, <6>1
          <6>2. CASE b = a
            <7>1. n \in DOMAIN q /\ n # Len(q)
              BY <1>3, <4>2, <4>4, <6>2
            <7> QED BY <2>1, <6>2, <7>1
          <6> QED BY <6>1, <6>2
        <5> QED BY <4>2, <5>1 DEF U
      <4> QED BY <4>3, <4>4
    <3>2. ASSUME NEW p \in U PROVE p \in V
      <4>1. PICK b \in Agent : \E n \in DOMAIN queues[b] : p = <<b, n>>
        BY <3>2 DEF U
      <4>2. PICK n \in DOMAIN queues[b] : p = <<b, n>>
        BY <4>1
      <4>3. n \in DOMAIN queues'[b]
        BY <1>3, <2>1, <4>2
      <4> QED BY <4>2, <4>3 DEF V
    <3>3. x \in V
      BY <1>3, <2>1 DEF V
    <3> QED BY <3>1, <3>2, <3>3
  <2>3. x \notin U
    BY <2>1 DEF U
  <2>4. Cardinality(U \cup {x}) = Cardinality(U) + 1
    BY <1>1, <2>3, FS_AddElement
  <2> QED BY <1>1, <2>2, <2>4
<1> QED BY <1>4, <1>5

-----------------------------------------------------------------------------
(* What an action leaves alone                                             *)

(* A part of the invariant is kept by every step that leaves the variables *)
(* it is about alone.                                                      *)
LEMMA Frames ==
    /\ Supervisor!TypeOK /\ UNCHANGED supervisorVars => Supervisor!TypeOK'
    /\ IntakeTypeOK /\ UNCHANGED intakeVars => IntakeTypeOK'
    /\ WorkTypeOK /\ UNCHANGED workVars => WorkTypeOK'
    /\ StopTypeOK /\ UNCHANGED stopVars => StopTypeOK'
    /\ EventsInPlace /\ UNCHANGED <<bus, published, matched, fate>> => EventsInPlace'
    /\ ItemsInPlace /\ UNCHANGED <<queues, fate, requests, jobs>> => ItemsInPlace'
    /\ InlineAlone /\ UNCHANGED <<requests, workers>> => InlineAlone'
    /\ LeasesHeld /\ UNCHANGED <<trees, jobs, leases, workers, requests>> => LeasesHeld'
    /\ LeasesWithinBudget /\ UNCHANGED leases => LeasesWithinBudget'
    /\ QueuesWithinBudget /\ UNCHANGED <<bus, queues>> => QueuesWithinBudget'
    /\ SlotsAddUp /\ UNCHANGED <<freeSlots, workers, requests>> => SlotsAddUp'
    /\ TicksInPlace /\ UNCHANGED <<boundedActive, requests, fate>> => TicksInPlace'
    /\ DrainDropsNothing /\ UNCHANGED <<drain, published, fate>> => DrainDropsNothing'
    /\ StopInOrder /\ UNCHANGED <<life, stopper, drain, busClosed, workersClosed, bus,
                                  matched, queues, workers, requests, states>>
          => StopInOrder'
<1>1. Supervisor!TypeOK /\ UNCHANGED supervisorVars => Supervisor!TypeOK'
  BY DEF supervisorVars, Supervisor!TypeOK
<1>2. IntakeTypeOK /\ UNCHANGED intakeVars => IntakeTypeOK'
  BY DEF intakeVars, IntakeTypeOK
<1>3. WorkTypeOK /\ UNCHANGED workVars => WorkTypeOK'
  BY DEF workVars, WorkTypeOK
<1>4. StopTypeOK /\ UNCHANGED stopVars => StopTypeOK'
  BY DEF stopVars, StopTypeOK
<1>5. EventsInPlace /\ UNCHANGED <<bus, published, matched, fate>> => EventsInPlace'
  BY DEF EventsInPlace
<1>6. ItemsInPlace /\ UNCHANGED <<queues, fate, requests, jobs>> => ItemsInPlace'
  BY DEF ItemsInPlace
<1>7. InlineAlone /\ UNCHANGED <<requests, workers>> => InlineAlone'
  BY DEF InlineAlone
<1>8. LeasesHeld /\ UNCHANGED <<trees, jobs, leases, workers, requests>> => LeasesHeld'
  BY DEF LeasesHeld
<1>9. LeasesWithinBudget /\ UNCHANGED leases => LeasesWithinBudget'
  BY DEF LeasesWithinBudget
<1>10. QueuesWithinBudget /\ UNCHANGED <<bus, queues>> => QueuesWithinBudget'
  BY DEF QueuesWithinBudget, Queued
<1>11. SlotsAddUp /\ UNCHANGED <<freeSlots, workers, requests>> => SlotsAddUp'
  BY DEF SlotsAddUp
<1>12. TicksInPlace /\ UNCHANGED <<boundedActive, requests, fate>> => TicksInPlace'
  BY DEF TicksInPlace, Processing
<1>13. DrainDropsNothing /\ UNCHANGED <<drain, published, fate>> => DrainDropsNothing'
  BY DEF DrainDropsNothing
<1>14. StopInOrder /\ UNCHANGED <<life, stopper, drain, busClosed, workersClosed, bus,
                                  matched, queues, workers, requests, states>>
          => StopInOrder'
  BY DEF StopInOrder
<1> QED BY <1>1, <1>2, <1>3, <1>4, <1>5, <1>6, <1>7, <1>8, <1>9, <1>10, <1>11, <1>12,
           <1>13, <1>14

-----------------------------------------------------------------------------
(* Publishing and dispatching                                              *)

LEMMA CheckedInPreserves ==
    ASSUME ContinuousInv, NEW e \in Event, CheckedIn(e)
    PROVE  ContinuousInv'
<1> USE DEF ContinuousInv, TypeOK, CheckedIn
<1>1. published[e] = "new" /\ published'[e] \in {"checked", "refused"}
      /\ \A f \in Event : f # e => published'[f] = published[f]
  BY DEF IntakeTypeOK
<1>2. IntakeTypeOK'
  BY DEF IntakeTypeOK
<1>3. EventsInPlace'
  <2>1. {f \in Event : published'[f] = "accepted"} = {f \in Event : published[f] = "accepted"}
    BY <1>1
  <2>2. \A j \in Item : j[1] \in Event
    BY ItemParts
  <2>3. \A j \in Item : published[j[1]] = "dispatched" => published'[j[1]] = "dispatched"
    BY <1>1, <2>2
  <2> QED BY <2>1, <2>3 DEF EventsInPlace, workVars
<1>4. DrainDropsNothing'
  BY <1>1 DEF DrainDropsNothing, workVars, stopVars
<1> QED BY <1>2, <1>3, <1>4, Frames DEF supervisorVars, workVars, stopVars

LEMMA PutPreserves ==
    ASSUME ContinuousInv, NEW e \in Event, Put(e)
    PROVE  ContinuousInv'
<1> USE DEF ContinuousInv, TypeOK
<1>1. published[e] = "checked"
      /\ UNCHANGED <<supervisorVars, busClosed, lastSequence, matched, workVars, stopVars>>
  BY DEF Put
<1>2. \A j \in Item : published[j[1]] = "dispatched" => j[1] \in Event /\ j[1] # e
  BY <1>1, ItemParts
<1>3. CASE /\ published' = [published EXCEPT ![e] = "refused"]
           /\ UNCHANGED bus
  <2>1. \A f \in Event : published'[f] = IF f = e THEN "refused" ELSE published[f]
    BY <1>3 DEF IntakeTypeOK
  <2>2. IntakeTypeOK'
    BY <1>1, <1>3 DEF IntakeTypeOK
  <2>3. EventsInPlace'
    BY <1>1, <1>2, <1>3, <2>1 DEF EventsInPlace, workVars
  <2>4. DrainDropsNothing'
    BY <1>1, <2>1 DEF DrainDropsNothing, workVars, stopVars
  <2> QED BY <1>1, <1>3, <2>2, <2>3, <2>4, Frames DEF supervisorVars, workVars, stopVars
<1>4. CASE /\ ~busClosed /\ ~(Len(bus) >= MaxQueued)
           /\ published' = [published EXCEPT ![e] = "accepted"]
           /\ bus' = Append(bus, e)
  <2>1. \A f \in Event : published'[f] = IF f = e THEN "accepted" ELSE published[f]
    BY <1>4 DEF IntakeTypeOK
  <2>2. /\ bus' \in Seq(Event) /\ IsInjective(bus')
        /\ ToSet(bus') = ToSet(bus) \cup {e} /\ Len(bus') = Len(bus) + 1
    <3>1. bus \in Seq(Event) /\ IsInjective(bus) /\ e \notin ToSet(bus)
      BY <1>1 DEF EventsInPlace, IntakeTypeOK
    <3> QED BY <1>4, <3>1, AppendedQueue
  <2>3. IntakeTypeOK'
    BY <1>1, <1>4, <2>2 DEF IntakeTypeOK
  <2>4. EventsInPlace'
    <3>1. ToSet(bus') = {f \in Event : published'[f] = "accepted"}
      BY <2>1, <2>2 DEF EventsInPlace
    <3> QED BY <1>1, <1>2, <2>1, <2>2, <3>1 DEF EventsInPlace, workVars
  <2>5. DrainDropsNothing'
    BY <1>1, <2>1 DEF DrainDropsNothing, workVars, stopVars
  <2>6. QueuesWithinBudget'
    <3>1. Len(bus') <= MaxQueued
      BY <1>4, <2>2, ContinuousAssumption DEF IntakeTypeOK
    <3> QED BY <1>1, <3>1 DEF QueuesWithinBudget, Queued, workVars
  <2>7. StopInOrder'
    BY <1>1, <1>4 DEF StopInOrder, supervisorVars, workVars, stopVars
  <2> QED BY <1>1, <2>3, <2>4, <2>5, <2>6, <2>7, Frames
          DEF supervisorVars, workVars, stopVars
<1> QED BY <1>3, <1>4 DEF Put

LEMMA ReceivePreserves ==
    ASSUME ContinuousInv, Receive
    PROVE  ContinuousInv'
<1> USE DEF ContinuousInv, TypeOK
<1> DEFINE e == Head(bus)
<1>1. /\ ~workersClosed /\ matched = <<>> /\ bus # <<>> /\ bus' = Tail(bus)
      /\ UNCHANGED <<supervisorVars, busClosed, workVars, stopVars>>
  BY DEF Receive
<1>2. /\ bus' \in Seq(Event) /\ IsInjective(bus') /\ e \in ToSet(bus)
      /\ ToSet(bus') = ToSet(bus) \ {e} /\ Len(bus') = Len(bus) - 1
  BY <1>1, TailQueue DEF IntakeTypeOK, EventsInPlace
<1>3. e \in Event /\ published[e] = "accepted"
  BY <1>2 DEF EventsInPlace
<1>4. PICK r \in {"dropped", "out-of-order", "dispatched"} :
         /\ published' = [published EXCEPT ![e] = r]
         /\ r = "dropped" => ~drain
         /\ \/ r # "dispatched" /\ UNCHANGED <<lastSequence, matched>>
            \/ /\ r = "dispatched"
               /\ lastSequence' = [lastSequence EXCEPT ![SourceOf[e]] = SequenceOf[e]]
               /\ matched' \in Matches(e)
  BY DEF Receive, Dropping
<1> HIDE DEF e
<1>5. \A f \in Event : published'[f] = IF f = e THEN r ELSE published[f]
  BY <1>4 DEF IntakeTypeOK
<1>6. \A j \in Item : published[j[1]] = "dispatched" => j[1] \in Event /\ j[1] # e
  BY <1>3, ItemParts
<1>7. /\ matched' \in Seq(Item) /\ IsInjective(matched')
      /\ \A j \in ToSet(matched') : j \in Item /\ j[1] = e /\ fate[j] = "none"
                                    /\ r = "dispatched"
  <2>1. CASE r # "dispatched"
    BY <1>1, <1>4, <2>1, EmptyQueue
  <2>2. CASE r = "dispatched"
    <3>1. /\ matched' \in Seq(Item) /\ IsInjective(matched')
          /\ \A j \in ToSet(matched') : j[1] = e
      BY <1>3, <1>4, <2>2, MatchesProperties
    <3>2. \A j \in ToSet(matched') : j \in Item
      BY <3>1 DEF ToSet
    <3> QED BY <1>3, <2>2, <3>1, <3>2 DEF EventsInPlace
  <2> QED BY <2>1, <2>2
<1>8. IntakeTypeOK'
  <2>1. lastSequence' \in [Source -> Int]
    BY <1>3, <1>4, ContinuousAssumption DEF IntakeTypeOK
  <2>2. published' \in [Event -> {"new", "checked", "refused", "accepted", "dropped",
                                  "out-of-order", "dispatched"}]
    BY <1>4 DEF IntakeTypeOK
  <2> QED BY <1>1, <1>2, <1>7, <2>1, <2>2 DEF IntakeTypeOK
<1>9. EventsInPlace'
  <2>1. ToSet(bus') = {f \in Event : published'[f] = "accepted"}
    BY <1>2, <1>5 DEF EventsInPlace
  <2>2. ASSUME NEW j \in Item, fate[j] # "none" \/ j \in ToSet(matched')
        PROVE  published'[j[1]] = "dispatched"
    BY <1>3, <1>5, <1>6, <1>7, <2>2 DEF EventsInPlace
  <2> QED BY <1>1, <1>2, <1>7, <2>1, <2>2 DEF EventsInPlace, workVars
<1>10. DrainDropsNothing'
  BY <1>1, <1>4, <1>5 DEF DrainDropsNothing, workVars, stopVars
<1>11. QueuesWithinBudget'
  <2>1. Len(bus') <= MaxQueued
    BY <1>2, ContinuousAssumption DEF IntakeTypeOK, QueuesWithinBudget
  <2> QED BY <1>1, <2>1 DEF QueuesWithinBudget, Queued, workVars
<1>12. StopInOrder'
  BY <1>1 DEF StopInOrder, supervisorVars, workVars, stopVars
<1> QED BY <1>1, <1>8, <1>9, <1>10, <1>11, <1>12, Frames
        DEF supervisorVars, workVars, stopVars

(* Fewer items, or the same ones and another, are on a queue; j is the new *)
(* one, those of K gave way to it with fate r.                             *)
Replaces(j, q, K, r) ==
    LET a == Executor(j)
    IN  /\ q \in Seq(Item) /\ IsInjective(q)
        /\ K \subseteq ToSet(queues[a]) /\ ToSet(q) = (ToSet(queues[a]) \ K) \cup {j}
        /\ queues' = [queues EXCEPT ![a] = q]
        /\ fate' = [i \in Item |-> IF i = j THEN "queued" ELSE IF i \in K THEN r ELSE fate[i]]
        /\ r \in {"coalesced", "dropped"} /\ (r = "dropped" => Overflow[a] = "drop-oldest")
        /\ Len(q) <= QueueCapacity[a] /\ Queued' <= MaxQueued
        /\ BoundedTick(j) => ToSet(queues[a]) = {} /\ a \notin boundedActive

LEMMA EnqueueCases ==
    ASSUME ContinuousInv, Enqueue
    PROVE  LET j == Head(matched) IN
           /\ j \in Item /\ j \in ToSet(matched) /\ fate[j] = "none"
           /\ j \notin ToSet(queues[Executor(j)])
           /\ \/ /\ UNCHANGED queues
                 /\ \E r \in {"coalesced", "rejected"} : fate' = [fate EXCEPT ![j] = r]
              \/ \E q, K, r : Replaces(j, q, K, r)
<1> USE DEF ContinuousInv, TypeOK
<1> DEFINE j == Head(matched)
           a == Executor(j)
           queue == queues[a]
<1>1. matched # <<>> /\ matched \in Seq(Item) /\ j \in ToSet(matched) /\ j \in Item
  BY TailQueue DEF Enqueue, IntakeTypeOK, EventsInPlace
<1>2. fate[j] = "none" /\ a \in Agent /\ queue \in Seq(Item) /\ IsInjective(queue)
  BY <1>1, ItemParts DEF EventsInPlace, ItemsInPlace, WorkTypeOK
<1>3. \A i \in ToSet(queue) : i \in Item /\ i # j
  BY <1>2 DEF ItemsInPlace
<1>4. fate \in [Item -> {"none", "queued", "running", "completed", "failed", "coalesced",
                         "dropped", "rejected"}]
  BY DEF WorkTypeOK
<1>5. /\ Len(queue) \in Nat /\ Queued \in Nat /\ MaxQueued \in Nat /\ QueueCapacity[a] \in Nat
      /\ Len(queue) <= QueueCapacity[a] /\ Queued <= MaxQueued
  BY <1>2, QueuedFinite, ContinuousAssumption DEF QueuesWithinBudget
<1> HIDE DEF j
<1>6. CASE Superfluous(j)
  <2>1. fate' = [fate EXCEPT ![j] = "coalesced"] /\ UNCHANGED queues
    BY <1>6 DEF Enqueue, j
  <2> QED BY <1>1, <1>2, <1>3, <2>1 DEF j
<1>7. CASE ~Superfluous(j) /\ Overflow[a] = "coalesce" /\ SameKey(queue, j) # 0
  <2> DEFINE n == SameKey(queue, j)
             q == [queue EXCEPT ![n] = j]
             K == {queue[n]}
  <2>1. /\ queues' = [queues EXCEPT ![a] = q]
        /\ fate' = [fate EXCEPT ![j] = "queued", ![queue[n]] = "coalesced"]
    BY <1>7 DEF Enqueue, j
  <2>2. n \in DOMAIN queue
    BY <1>1, <1>2, <1>7, SameKeyProperties
  <2> HIDE DEF n
  <2>3. /\ q \in Seq(Item) /\ IsInjective(q) /\ queue[n] \in ToSet(queue)
        /\ ToSet(q) = (ToSet(queue) \ {queue[n]}) \cup {j} /\ Len(q) = Len(queue)
    BY <1>1, <1>2, <1>3, <2>2, ReplacedQueue
  <2>4. fate' = [i \in Item |-> IF i = j THEN "queued" ELSE IF i \in K THEN "coalesced"
                                ELSE fate[i]]
    BY <1>1, <1>3, <1>4, <2>1, <2>3
  <2>5. Len(q) <= QueueCapacity[a]
    BY <1>5, <2>3
  <2>6. Queued' <= MaxQueued
    <3>1. Queued' \in Nat /\ Queued' <= Queued
      <4>1. Len(q) <= Len(queues[a])
        BY <1>5, <2>3
      <4> QED BY <1>2, <2>1, <2>3, <4>1, QueuedCounts
    <3> QED BY <1>5, <3>1
  <2>7. BoundedTick(j) => ToSet(queue) = {} /\ a \notin boundedActive
    BY <1>7, EmptyQueue DEF Superfluous
  <2> HIDE DEF q
  <2>8. Replaces(j, q, K, "coalesced")
    BY <2>1, <2>3, <2>4, <2>5, <2>6, <2>7 DEF Replaces
  <2> QED BY <1>1, <1>2, <1>3, <2>8 DEF j
<1>8. CASE ~Superfluous(j) /\ ~(Overflow[a] = "coalesce" /\ SameKey(queue, j) # 0) /\ ~Full(a)
  <2> DEFINE q == Append(queue, j)
  <2>1. queues' = [queues EXCEPT ![a] = q] /\ fate' = [fate EXCEPT ![j] = "queued"]
    BY <1>8 DEF Enqueue, j
  <2>2. /\ q \in Seq(Item) /\ IsInjective(q) /\ ToSet(q) = ToSet(queue) \cup {j}
        /\ Len(q) = Len(queue) + 1
    BY <1>1, <1>2, <1>3, AppendedQueue
  <2>3. fate' = [i \in Item |-> IF i = j THEN "queued" ELSE IF i \in {} THEN "coalesced"
                                ELSE fate[i]]
    BY <1>1, <1>4, <2>1
  <2>4. Len(q) <= QueueCapacity[a]
    BY <1>5, <1>8, <2>2 DEF Full
  <2>5. Queued' <= MaxQueued
    <3>1. Queued' \in Nat /\ Queued' = Queued + 1
      BY <1>2, <2>1, <2>2, QueuedCounts
    <3> QED BY <1>5, <1>8, <3>1 DEF Full
  <2>6. BoundedTick(j) => ToSet(queue) = {} /\ a \notin boundedActive
    BY <1>8, EmptyQueue DEF Superfluous
  <2> HIDE DEF q
  <2>7. Replaces(j, q, {}, "coalesced")
    BY <2>1, <2>2, <2>3, <2>4, <2>5, <2>6 DEF Replaces
  <2> QED BY <1>1, <1>2, <1>3, <2>7 DEF j
<1>9. CASE /\ ~Superfluous(j) /\ ~(Overflow[a] = "coalesce" /\ SameKey(queue, j) # 0)
           /\ Full(a) /\ Overflow[a] = "drop-oldest" /\ queue # <<>>
  <2> DEFINE q == Append(Tail(queue), j)
             K == {Head(queue)}
  <2>1. /\ queues' = [queues EXCEPT ![a] = q]
        /\ fate' = [fate EXCEPT ![j] = "queued", ![Head(queue)] = "dropped"]
    BY <1>9 DEF Enqueue, j
  <2>2. /\ Tail(queue) \in Seq(Item) /\ IsInjective(Tail(queue)) /\ Head(queue) \in ToSet(queue)
        /\ ToSet(Tail(queue)) = ToSet(queue) \ K /\ Len(Tail(queue)) = Len(queue) - 1
    BY <1>2, <1>9, TailQueue
  <2>3. /\ q \in Seq(Item) /\ IsInjective(q) /\ ToSet(q) = (ToSet(queue) \ K) \cup {j}
        /\ Len(q) = Len(Tail(queue)) + 1
    <3>1. j \notin ToSet(Tail(queue))
      BY <1>3, <2>2
    <3>2. /\ q \in Seq(Item) /\ IsInjective(q) /\ Len(q) = Len(Tail(queue)) + 1
          /\ ToSet(q) = ToSet(Tail(queue)) \cup {j}
      <4> DEFINE t == Tail(queue)
      <4>1. t \in Seq(Item) /\ IsInjective(t) /\ j \notin ToSet(t)
        BY <2>2, <3>1
      <4> HIDE DEF t
      <4>2. /\ Append(t, j) \in Seq(Item) /\ IsInjective(Append(t, j))
            /\ Len(Append(t, j)) = Len(t) + 1 /\ ToSet(Append(t, j)) = ToSet(t) \cup {j}
        BY <1>1, <4>1, AppendedQueue
      <4> QED BY <4>2 DEF t
    <3> HIDE DEF q, K
    <3> QED BY <2>2, <3>2
  <2>4. fate' = [i \in Item |-> IF i = j THEN "queued" ELSE IF i \in K THEN "dropped"
                                ELSE fate[i]]
    BY <1>1, <1>3, <1>4, <2>1, <2>2
  <2>5. Len(q) <= QueueCapacity[a] /\ Len(q) <= Len(queue)
    BY <1>5, <2>2, <2>3
  <2>6. Queued' <= MaxQueued
    <3>1. Queued' \in Nat /\ Queued' <= Queued
      BY <1>2, <2>1, <2>3, <2>5, QueuedCounts
    <3> QED BY <1>5, <3>1
  <2>7. BoundedTick(j) => ToSet(queue) = {} /\ a \notin boundedActive
    BY <1>9, EmptyQueue DEF Superfluous
  <2> HIDE DEF q
  <2>8. Replaces(j, q, K, "dropped")
    BY <1>9, <2>1, <2>2, <2>3, <2>4, <2>5, <2>6, <2>7 DEF Replaces
  <2> QED BY <1>1, <1>2, <1>3, <2>8 DEF j
<1>10. CASE /\ ~Superfluous(j) /\ ~(Overflow[a] = "coalesce" /\ SameKey(queue, j) # 0)
            /\ Full(a) /\ ~(Overflow[a] = "drop-oldest" /\ queue # <<>>)
  <2>1. fate' = [fate EXCEPT ![j] = "rejected"] /\ UNCHANGED queues
    BY <1>10 DEF Enqueue, j
  <2> QED BY <1>1, <1>2, <1>3, <2>1 DEF j
<1> QED BY <1>6, <1>7, <1>8, <1>9, <1>10

LEMMA EnqueuePreserves ==
    ASSUME ContinuousInv, Enqueue
    PROVE  ContinuousInv'
<1> USE DEF ContinuousInv, TypeOK
<1> DEFINE j == Head(matched)
           a == Executor(j)
<1>1. /\ matched # <<>> /\ matched' = Tail(matched)
      /\ UNCHANGED <<supervisorVars, published, bus, busClosed, lastSequence, workersClosed,
                     workers, requests, freeSlots, leases, boundedActive, trees, stopVars>>
  BY DEF Enqueue
<1>2. /\ j \in Item /\ fate[j] = "none" /\ j \notin ToSet(queues[a]) /\ a \in Agent
      /\ published[j[1]] = "dispatched" /\ requests[j] = "none" /\ jobs[j] = "idle"
  BY EnqueueCases, ItemParts DEF ItemsInPlace, EventsInPlace
<1>3. /\ matched' \in Seq(Item) /\ IsInjective(matched')
      /\ ToSet(matched') = ToSet(matched) \ {j}
  BY <1>1, TailQueue DEF IntakeTypeOK, EventsInPlace
<1>4. IntakeTypeOK'
  BY <1>1, <1>3 DEF IntakeTypeOK
<1>9. \A i \in ToSet(matched') : i \in Item /\ i # j /\ fate[i] = "none"
  <2> SUFFICES ASSUME NEW i \in ToSet(matched')
               PROVE  i \in Item /\ i # j /\ fate[i] = "none"
    OBVIOUS
  <2>1. i \in ToSet(matched) /\ i # j
    BY <1>3
  <2>2. i \in Item
    BY <2>1 DEF IntakeTypeOK, ToSet
  <2> QED BY <2>1, <2>2 DEF EventsInPlace
<1>5. fate \in [Item -> {"none", "queued", "running", "completed", "failed", "coalesced",
                         "dropped", "rejected"}]
  BY DEF WorkTypeOK
<1>6. ~workersClosed
  BY <1>1 DEF StopInOrder
<1>7. CASE /\ UNCHANGED queues
           /\ \E r \in {"coalesced", "rejected"} : fate' = [fate EXCEPT ![j] = r]
  <2>1. PICK r \in {"coalesced", "rejected"} : fate' = [fate EXCEPT ![j] = r]
    BY <1>7
  <2> HIDE DEF j
  <2>2. \A i \in Item : fate'[i] = IF i = j THEN r ELSE fate[i]
    BY <1>5, <2>1
  <2>3. WorkTypeOK'
    BY <1>1, <1>7, <2>1 DEF WorkTypeOK
  <2>4. EventsInPlace'
    <3>1. \A i \in ToSet(matched') : fate'[i] = "none"
      BY <1>9, <2>2
    <3> QED BY <1>1, <1>2, <1>3, <2>2, <3>1 DEF EventsInPlace
  <2>5. ItemsInPlace'
    <3>1. \A i \in Item : fate'[i] = "queued" <=> fate[i] = "queued"
      BY <1>2, <2>2
    <3>2. /\ UNCHANGED <<requests, jobs>>
          /\ \A i \in Item : i # j => fate'[i] = fate[i]
          /\ fate'[j] \notin {"running", "completed", "failed"}
      BY <1>1, <1>2, <2>2 DEF supervisorVars
    <3> QED BY <1>2, <1>7, <3>1, <3>2 DEF ItemsInPlace
  <2>6. TicksInPlace'
    BY <1>1, <1>2, <2>2 DEF TicksInPlace, Processing
  <2>7. DrainDropsNothing'
    BY <1>1, <1>2, <2>2 DEF DrainDropsNothing, stopVars
  <2>8. StopInOrder'
    BY <1>1, <1>6, <1>7 DEF StopInOrder, supervisorVars, stopVars
  <2> QED BY <1>1, <1>4, <1>7, <2>3, <2>4, <2>5, <2>6, <2>7, <2>8, Frames
          DEF supervisorVars, stopVars
<1>8. CASE \E q, K, r : Replaces(j, q, K, r)
  <2>1. PICK q, K, r : Replaces(j, q, K, r)
    BY <1>8
  <2> DEFINE old == ToSet(queues[a])
  <2>2. old = {i \in Item : Executor(i) = a /\ fate[i] = "queued"}
    BY <1>2 DEF ItemsInPlace
  <2> HIDE DEF j
  <2>3. \A i \in Item : fate'[i] = IF i = j THEN "queued" ELSE IF i \in K THEN r ELSE fate[i]
    BY <2>1 DEF Replaces
  <2>4. \A i \in K : i \in Item /\ i # j /\ Executor(i) = a /\ fate[i] = "queued"
    BY <1>2, <2>1, <2>2 DEF Replaces
  <2>5. \A b \in Agent : queues'[b] = IF b = a THEN q ELSE queues[b]
    BY <2>1 DEF Replaces, WorkTypeOK
  <2>6. r \in {"coalesced", "dropped"}
    BY <2>1 DEF Replaces
  <2>7. WorkTypeOK'
    <3>1. queues' \in [Agent -> Seq(Item)]
      BY <2>1 DEF WorkTypeOK, Replaces
    <3>2. fate' \in [Item -> {"none", "queued", "running", "completed", "failed", "coalesced",
                              "dropped", "rejected"}]
      BY <1>5, <2>1, <2>6 DEF Replaces
    <3> QED BY <1>1, <3>1, <3>2 DEF WorkTypeOK
  <2>8. EventsInPlace'
    <3>1. \A i \in ToSet(matched') : fate'[i] = "none"
      <4> SUFFICES ASSUME NEW i \in ToSet(matched') PROVE fate'[i] = "none"
        OBVIOUS
      <4>1. i \in Item /\ i # j /\ fate[i] = "none"
        BY <1>9
      <4> QED BY <2>3, <2>4, <4>1
    <3>2. \A i \in Item : fate'[i] # "none" => fate[i] # "none" \/ i = j
      BY <2>3, <2>4
    <3> QED BY <1>1, <1>2, <1>3, <3>1, <3>2 DEF EventsInPlace
  <2>9. ItemsInPlace'
    <3>1. \A b \in Agent :
            /\ IsInjective(queues'[b])
            /\ ToSet(queues'[b]) = {i \in Item : Executor(i) = b /\ fate'[i] = "queued"}
      <4> SUFFICES ASSUME NEW b \in Agent
                   PROVE  /\ IsInjective(queues'[b])
                          /\ ToSet(queues'[b])
                                = {i \in Item : Executor(i) = b /\ fate'[i] = "queued"}
        OBVIOUS
      <4>1. CASE b # a
        <5>1. \A i \in Item : Executor(i) = b => fate'[i] = fate[i]
          BY <2>3, <2>4, <4>1
        <5> QED BY <2>5, <4>1, <5>1 DEF ItemsInPlace
      <4>2. CASE b = a
        <5>1. IsInjective(q) /\ ToSet(q) = (old \ K) \cup {j} /\ queues'[b] = q
          BY <2>1, <2>5, <4>2 DEF Replaces
        <5>2. \A i \in Item : Executor(i) = a
                => (fate'[i] = "queued" <=> i = j \/ (i \notin K /\ fate[i] = "queued"))
          BY <2>3, <2>6
        <5> HIDE DEF old
        <5> QED BY <1>2, <2>2, <4>2, <5>1, <5>2
      <4> QED BY <4>1, <4>2
    <3>2. \A i \in Item : \/ fate'[i] = fate[i]
                          \/ /\ requests[i] = "none" /\ jobs[i] = "idle"
                             /\ fate'[i] \notin {"running", "completed", "failed"}
      <4> SUFFICES ASSUME NEW i \in Item, fate'[i] # fate[i]
                   PROVE  /\ requests[i] = "none" /\ jobs[i] = "idle"
                          /\ fate'[i] \notin {"running", "completed", "failed"}
        OBVIOUS
      <4>1. i = j \/ i \in K
        BY <2>3
      <4>2. fate[i] \in {"none", "queued"}
        BY <1>2, <2>4, <4>1
      <4>3. fate'[i] \in {"queued", "coalesced", "dropped"}
        BY <2>3, <2>6, <4>1
      <4> QED BY <4>2, <4>3 DEF ItemsInPlace
    <3>3. UNCHANGED <<requests, jobs>>
      BY <1>1 DEF supervisorVars
    <3> QED BY <3>1, <3>2, <3>3 DEF ItemsInPlace
  <2>10. QueuesWithinBudget'
    <3>1. Len(q) <= QueueCapacity[a] /\ Queued' <= MaxQueued
      BY <2>1 DEF Replaces
    <3>2. \A b \in Agent : Len(queues'[b]) <= QueueCapacity[b]
      BY <2>5, <3>1 DEF QueuesWithinBudget
    <3> QED BY <1>1, <3>1, <3>2 DEF QueuesWithinBudget
  <2>11. TicksInPlace'
    <3>1. UNCHANGED <<boundedActive, requests>>
      BY <1>1
    <3>2. \A i \in Item : Processing(i)' <=> Processing(i)
      BY <3>1 DEF Processing
    <3>3. \A i \in Item : fate'[i] = "queued" => i = j \/ fate[i] = "queued"
      BY <2>3, <2>6
    <3>4. ASSUME BoundedTick(j), NEW i \in Item, BoundedTick(i), Executor(i) = a,
                 Processing(i) \/ fate[i] = "queued"
          PROVE  FALSE
      <4>1. old = {} /\ a \notin boundedActive
        BY <2>1, <3>4 DEF Replaces
      <4> QED BY <1>2, <2>2, <3>4, <4>1 DEF TicksInPlace
    <3>5. ~Processing(j)
      BY <1>2 DEF Processing
    <3> HIDE DEF a
    <3>6. ASSUME NEW i \in Item, NEW k \in Item, BoundedTick(i), BoundedTick(k),
                 Executor(i) = Executor(k), Processing(i) \/ fate'[i] = "queued",
                 Processing(k) \/ fate'[k] = "queued"
          PROVE  i = k
      <4>1. CASE i # j /\ k # j
        BY <3>3, <3>6, <4>1 DEF TicksInPlace
      <4>2. CASE i = j /\ k # j
        BY <3>3, <3>4, <3>6, <4>2 DEF a
      <4>3. CASE i # j /\ k = j
        BY <3>3, <3>4, <3>6, <4>3 DEF a
      <4> QED BY <4>1, <4>2, <4>3
    <3> QED BY <3>1, <3>2, <3>6 DEF TicksInPlace
  <2>12. DrainDropsNothing'
    <3>1. \A i \in Item : fate'[i] = "dropped"
            => fate[i] = "dropped" \/ (Executor(i) = a /\ Overflow[a] = "drop-oldest")
      BY <2>1, <2>3, <2>4 DEF Replaces
    <3> QED BY <1>1, <3>1 DEF DrainDropsNothing, stopVars
  <2>13. StopInOrder'
    <3>1. \A b \in Agent : workers[b] # "exited"
      BY <1>6 DEF StopInOrder
    <3> QED BY <1>1, <1>6, <3>1 DEF StopInOrder, supervisorVars, stopVars
  <2> QED BY <1>1, <1>4, <2>7, <2>8, <2>9, <2>10, <2>11, <2>12, <2>13, Frames
          DEF supervisorVars, stopVars
<1> QED BY <1>7, <1>8, EnqueueCases

LEMMA EndDispatchPreserves ==
    ASSUME ContinuousInv, EndDispatch
    PROVE  ContinuousInv'
<1> USE DEF ContinuousInv, TypeOK
<1>1. /\ ~workersClosed /\ matched = <<>> /\ bus = <<>> /\ busClosed /\ workersClosed'
      /\ UNCHANGED <<supervisorVars, intakeVars, workers, requests, freeSlots, leases,
                     boundedActive, trees, stopVars>>
  BY DEF EndDispatch
<1>2. \A b \in Agent : workers[b] # "exited"
  BY <1>1 DEF StopInOrder
<1>3. CASE drain
  <2>1. UNCHANGED <<queues, fate>> /\ workersClosed' = TRUE
    BY <1>3 DEF EndDispatch
  <2>2. WorkTypeOK'
    BY <1>1, <2>1 DEF WorkTypeOK
  <2>3. StopInOrder'
    BY <1>1, <1>2, <1>3, <2>1 DEF StopInOrder, supervisorVars, intakeVars, stopVars
  <2> QED BY <1>1, <2>1, <2>2, <2>3, Frames DEF supervisorVars, intakeVars, stopVars
<1>4. CASE ~drain
  <2>1. /\ queues' = [a \in Agent |-> <<>>]
        /\ fate' = [j \in Item |->
                      IF j \in ToSet(queues[Executor(j)]) THEN "dropped" ELSE fate[j]]
        /\ workersClosed' = TRUE
    BY <1>4 DEF EndDispatch
  <2>2. \A j \in Item : fate'[j] = IF fate[j] = "queued" THEN "dropped" ELSE fate[j]
    <3> SUFFICES ASSUME NEW j \in Item
                 PROVE  fate'[j] = IF fate[j] = "queued" THEN "dropped" ELSE fate[j]
      OBVIOUS
    <3>1. j \in ToSet(queues[Executor(j)]) <=> fate[j] = "queued"
      BY ItemParts DEF ItemsInPlace
    <3> QED BY <2>1, <3>1
  <2>3. WorkTypeOK'
    <3>1. fate' \in [Item -> {"none", "queued", "running", "completed", "failed", "coalesced",
                              "dropped", "rejected"}]
      BY <2>1 DEF WorkTypeOK
    <3> QED BY <1>1, <2>1, <3>1, EmptyQueue DEF WorkTypeOK
  <2>4. EventsInPlace'
    BY <1>1, <2>2, EmptyQueue DEF EventsInPlace, intakeVars
  <2>5. ItemsInPlace'
    <3>1. UNCHANGED <<requests, jobs>>
      BY <1>1 DEF supervisorVars
    <3>2. \A a \in Agent : IsInjective(queues'[a]) /\ ToSet(queues'[a]) = {}
      BY <2>1, EmptyQueue
    <3>3. \A j \in Item : fate'[j] # "queued"
      BY <2>2
    <3> QED BY <2>2, <3>1, <3>2, <3>3 DEF ItemsInPlace
  <2>6. QueuesWithinBudget'
    <3>1. UNION {{a} \X DOMAIN queues'[a] : a \in Agent} = {}
      BY <2>1
    <3>2. Queued' = 0
      BY <3>1, FS_EmptySet DEF Queued
    <3> QED BY <1>1, <2>1, <3>2, ContinuousAssumption DEF QueuesWithinBudget, intakeVars
  <2>7. TicksInPlace'
    BY <1>1, <2>2 DEF TicksInPlace, Processing
  <2>8. DrainDropsNothing'
    BY <1>1, <1>4 DEF DrainDropsNothing, stopVars
  <2>9. StopInOrder'
    BY <1>1, <1>2, <2>1 DEF StopInOrder, supervisorVars, intakeVars, stopVars
  <2> QED BY <1>1, <2>3, <2>4, <2>5, <2>6, <2>7, <2>8, <2>9, Frames
          DEF supervisorVars, intakeVars, stopVars
<1> QED BY <1>3, <1>4

-----------------------------------------------------------------------------
(* Workers                                                                 *)

LEMMA WorkerMoved ==
    ASSUME WorkTypeOK, NEW a \in Agent, NEW place, WorkerMoves(a, place)
    PROVE  \A b \in Agent : workers'[b] = IF b = a THEN place ELSE workers[b]
BY DEF WorkTypeOK, WorkerMoves

Slotted == {a \in Agent : workers[a] \in {"slotted", "leased"}}
Submitted == {j \in Item : requests[j] = "submitted"}

LEMMA SlotCounts ==
    /\ IsFiniteSet(Slotted) /\ Cardinality(Slotted) \in Nat
    /\ IsFiniteSet(Submitted) /\ Cardinality(Submitted) \in Nat
    /\ RequestCapacity \in Nat
<1>1. IsFiniteSet(Slotted) /\ IsFiniteSet(Submitted)
  BY ContinuousAssumption, ItemsFinite, FS_Subset DEF Slotted, Submitted
<1> QED BY <1>1, FS_CardinalityType, ContinuousAssumption DEF RequestCapacity

(* A worker moves between places where it holds neither a slot nor a lease *)
(* nor an item.                                                            *)
LEMMA WorkerMovePreserves ==
    ASSUME ContinuousInv, NEW a \in Agent,
           NEW place \in {"idle", "found", "admitted", "refused", "parked", "exited"},
           workers[a] \in {"idle", "found", "refused", "parked"},
           WorkerMoves(a, place),
           place = "parked" => ~drain,
           place = "exited" => workersClosed /\ queues[a] = <<>>,
           UNCHANGED <<supervisorVars, intakeVars, queues, workersClosed, requests, freeSlots,
                       leases, boundedActive, trees, fate, stopVars>>
    PROVE  ContinuousInv'
<1> USE DEF ContinuousInv, TypeOK
<1>1. \A b \in Agent : workers'[b] = IF b = a THEN place ELSE workers[b]
  BY WorkerMoved
<1>2. WorkTypeOK'
  BY DEF WorkTypeOK, WorkerMoves
<1>3. InlineAlone'
  BY <1>1, ItemParts DEF InlineAlone
<1>4. LeasesHeld'
  BY <1>1 DEF LeasesHeld, supervisorVars
<1>5. SlotsAddUp'
  <2>1. \A b \in Agent : workers'[b] \in {"slotted", "leased"}
                            <=> workers[b] \in {"slotted", "leased"}
    BY <1>1
  <2> QED BY <2>1 DEF SlotsAddUp
<1>6. StopInOrder'
  <2>1. workers[a] # "exited"
    OBVIOUS
  <2> QED BY <1>1, <2>1 DEF StopInOrder, supervisorVars, intakeVars, stopVars
<1> QED BY <1>2, <1>3, <1>4, <1>5, <1>6, Frames DEF supervisorVars, intakeVars, stopVars

LEMMA LookPreserves ==
    ASSUME ContinuousInv, NEW a \in Agent, Look(a)
    PROVE  ContinuousInv'
<1> DEFINE place == IF ~drain /\ life # "running" THEN "parked"
                    ELSE IF queues[a] = <<>> THEN "exited" ELSE "found"
<1>1. /\ workers[a] = "idle" /\ WorkerMoves(a, place)
      /\ queues[a] # <<>> \/ workersClosed
      /\ UNCHANGED <<supervisorVars, intakeVars, queues, workersClosed, requests, freeSlots,
                     leases, boundedActive, trees, fate, stopVars>>
  BY DEF Look
<1>2. /\ place \in {"idle", "found", "admitted", "refused", "parked", "exited"}
      /\ place = "parked" => ~drain
      /\ place = "exited" => workersClosed /\ queues[a] = <<>>
  BY <1>1
<1> HIDE DEF place
<1> QED BY <1>1, <1>2, WorkerMovePreserves

LEMMA UnparkPreserves ==
    ASSUME ContinuousInv, NEW a \in Agent, Unpark(a)
    PROVE  ContinuousInv'
<1>1. workersClosed /\ queues[a] = <<>>
  BY DEF Unpark, ContinuousInv, StopInOrder
<1> QED BY <1>1, WorkerMovePreserves DEF Unpark

LEMMA AwaitAgentPreserves ==
    ASSUME ContinuousInv, NEW a \in Agent, AwaitAgent(a)
    PROVE  ContinuousInv'
<1>1. PICK place \in {"admitted", "refused"} : WorkerMoves(a, place)
  BY DEF AwaitAgent
<1> QED BY <1>1, WorkerMovePreserves DEF AwaitAgent

LEMMA TakeSlotPreserves ==
    ASSUME ContinuousInv, NEW a \in Agent, TakeSlot(a)
    PROVE  ContinuousInv'
<1> USE DEF ContinuousInv, TypeOK, TakeSlot
<1>1. \A b \in Agent : workers'[b] = IF b = a THEN "slotted" ELSE workers[b]
  BY WorkerMoved
<1>2. WorkTypeOK'
  BY DEF WorkTypeOK, WorkerMoves
<1>3. InlineAlone'
  BY <1>1, ItemParts DEF InlineAlone
<1>4. LeasesHeld'
  BY <1>1 DEF LeasesHeld, supervisorVars
<1>5. SlotsAddUp'
  <2>1. Slotted' = Slotted \cup {a} /\ a \notin Slotted
    BY <1>1 DEF Slotted
  <2>2. Cardinality(Slotted') = Cardinality(Slotted) + 1
    BY <2>1, SlotCounts, FS_AddElement
  <2>3. Submitted' = Submitted
    BY DEF Submitted
  <2>4. freeSlots + Cardinality(Slotted) + Cardinality(Submitted) = RequestCapacity
    BY DEF SlotsAddUp, Slotted, Submitted
  <2>5. freeSlots' + Cardinality(Slotted') + Cardinality(Submitted') = RequestCapacity
    BY <2>2, <2>3, <2>4, SlotCounts DEF WorkTypeOK
  <2> QED BY <2>5 DEF SlotsAddUp, Slotted, Submitted
<1>6. StopInOrder'
  BY <1>1 DEF StopInOrder, supervisorVars, intakeVars, stopVars
<1> QED BY <1>2, <1>3, <1>4, <1>5, <1>6, Frames DEF supervisorVars, intakeVars, stopVars

(* The coordinator counts one more lease when it finds room for it, or     *)
(* fewer leases.                                                           *)
LEMMA LeaseAdded ==
    ASSUME LeasesWithinBudget, NEW holder, NEW a \in Agent, Available(a)
    PROVE  leases' = leases \cup {Lease(holder, a)} => LeasesWithinBudget'
<1> SUFFICES ASSUME leases' = leases \cup {Lease(holder, a)} PROVE LeasesWithinBudget'
  OBVIOUS
<1> DEFINE l == Lease(holder, a)
           Of(b) == {m \in leases : m.agent = b}
<1>1. IsFiniteSet(leases) /\ Cardinality(leases) \in Nat /\ l.agent = a
  BY FS_CardinalityType DEF LeasesWithinBudget, Lease
<1>2. \A b \in Agent : IsFiniteSet(Of(b)) /\ Cardinality(Of(b)) \in Nat
  BY <1>1, FS_Subset, FS_CardinalityType
<1>3. /\ IsFiniteSet(leases')
      /\ Cardinality(leases') = Cardinality(leases)
         \/ Cardinality(leases') = Cardinality(leases) + 1
  BY <1>1, FS_AddElement
<1>4. Cardinality(leases') <= MaxConcurrent
  BY <1>1, <1>3, ContinuousAssumption DEF Available
<1>5. ASSUME NEW b \in Agent
      PROVE  Cardinality({m \in leases' : m.agent = b}) <= Concurrency[b]
  <2>1. CASE b # a
    <3>1. {m \in leases' : m.agent = b} = Of(b)
      BY <1>1, <2>1
    <3> QED BY <3>1 DEF LeasesWithinBudget
  <2>2. CASE b = a
    <3>1. {m \in leases' : m.agent = b} = Of(a) \cup {l}
      BY <1>1, <2>2
    <3>2. Cardinality(Of(a) \cup {l}) = Cardinality(Of(a))
          \/ Cardinality(Of(a) \cup {l}) = Cardinality(Of(a)) + 1
      BY <1>2, FS_AddElement
    <3>3. Cardinality(Of(a)) < Concurrency[a] /\ Concurrency[a] \in Nat
      BY ContinuousAssumption DEF Available
    <3> DEFINE T == {m \in leases' : m.agent = b}
    <3>4. T = Of(a) \cup {l}
      BY <3>1
    <3> HIDE DEF Of, T
    <3>5. Cardinality(T) <= Concurrency[a]
      BY <1>2, <3>2, <3>3, <3>4
    <3> QED BY <2>2, <3>5 DEF T
  <2> QED BY <2>1, <2>2
<1> QED BY <1>3, <1>4, <1>5 DEF LeasesWithinBudget

LEMMA LeasesFewer ==
    ASSUME LeasesWithinBudget, leases' \subseteq leases
    PROVE  LeasesWithinBudget'
<1> DEFINE Of(b) == {m \in leases : m.agent = b}
<1>1. IsFiniteSet(leases) /\ Cardinality(leases) \in Nat
  BY FS_CardinalityType DEF LeasesWithinBudget
<1>2. \A b \in Agent : IsFiniteSet(Of(b)) /\ Cardinality(Of(b)) \in Nat
  BY <1>1, FS_Subset, FS_CardinalityType
<1>3. IsFiniteSet(leases') /\ Cardinality(leases') \in Nat
      /\ Cardinality(leases') <= Cardinality(leases)
  BY <1>1, FS_Subset, FS_CardinalityType
<1>4. ASSUME NEW b \in Agent
      PROVE  Cardinality({m \in leases' : m.agent = b}) <= Concurrency[b]
  <2> DEFINE T == {m \in leases' : m.agent = b}
  <2>1. T \subseteq Of(b)
    OBVIOUS
  <2>2. Cardinality(Of(b)) <= Concurrency[b] /\ Concurrency[b] \in Nat
    BY ContinuousAssumption DEF LeasesWithinBudget
  <2> HIDE DEF T, Of
  <2>3. Cardinality(T) \in Nat /\ Cardinality(T) <= Cardinality(Of(b))
    BY <1>2, <2>1, FS_Subset, FS_CardinalityType
  <2>4. Cardinality(T) <= Concurrency[b]
    BY <1>2, <2>2, <2>3
  <2> QED BY <2>4 DEF T
<1>5. Cardinality(leases') <= MaxConcurrent
  BY <1>1, <1>3, ContinuousAssumption DEF LeasesWithinBudget
<1> QED BY <1>3, <1>4, <1>5 DEF LeasesWithinBudget

(* The lease of a worker becomes the lease of the request it submits.      *)
LEMMA LeaseHandedOver ==
    ASSUME LeasesWithinBudget, NEW a \in Agent, NEW holder, Lease(a, a) \in leases,
           leases' = (leases \ {Lease(a, a)}) \cup {Lease(holder, a)}
    PROVE  LeasesWithinBudget'
<1> DEFINE l == Lease(a, a)
           k == Lease(holder, a)
           Of(b) == {m \in leases : m.agent = b}
<1>1. IsFiniteSet(leases) /\ Cardinality(leases) \in Nat /\ l.agent = a /\ k.agent = a
  BY FS_CardinalityType DEF LeasesWithinBudget, Lease
<1> HIDE DEF l, k
<1>2. ASSUME NEW S, IsFiniteSet(S), l \in S
      PROVE  /\ IsFiniteSet((S \ {l}) \cup {k})
             /\ Cardinality((S \ {l}) \cup {k}) \in Nat
             /\ Cardinality((S \ {l}) \cup {k}) <= Cardinality(S)
  <2>1. /\ IsFiniteSet(S \ {l}) /\ Cardinality(S) \in Nat
        /\ Cardinality(S \ {l}) = Cardinality(S) - 1
    BY <1>2, FS_RemoveElement, FS_CardinalityType
  <2>2. /\ IsFiniteSet((S \ {l}) \cup {k})
        /\ Cardinality((S \ {l}) \cup {k}) = Cardinality(S \ {l})
           \/ Cardinality((S \ {l}) \cup {k}) = Cardinality(S \ {l}) + 1
    BY <2>1, FS_AddElement
  <2> QED BY <2>1, <2>2, FS_CardinalityType
<1>3. leases' = (leases \ {l}) \cup {k} /\ l \in leases
  BY DEF l, k
<1>4. IsFiniteSet(leases') /\ Cardinality(leases') <= MaxConcurrent
  <2>1. IsFiniteSet(leases') /\ Cardinality(leases') \in Nat
        /\ Cardinality(leases') <= Cardinality(leases)
    BY <1>1, <1>2, <1>3
  <2> QED BY <1>1, <2>1, ContinuousAssumption DEF LeasesWithinBudget
<1>5. ASSUME NEW b \in Agent
      PROVE  Cardinality({m \in leases' : m.agent = b}) <= Concurrency[b]
  <2>1. CASE b # a
    <3>1. {m \in leases' : m.agent = b} = Of(b)
      BY <1>1, <1>3, <2>1
    <3> QED BY <3>1 DEF LeasesWithinBudget
  <2>2. CASE b = a
    <3>1. {m \in leases' : m.agent = b} = (Of(a) \ {l}) \cup {k} /\ l \in Of(a)
      BY <1>1, <1>3, <2>2
    <3>2. IsFiniteSet(Of(a)) /\ Cardinality(Of(a)) \in Nat
      BY <1>1, FS_Subset, FS_CardinalityType
    <3>3. Cardinality(Of(a)) <= Concurrency[a] /\ Concurrency[a] \in Nat
      BY ContinuousAssumption DEF LeasesWithinBudget
    <3> DEFINE T == {m \in leases' : m.agent = b}
    <3>5. T = (Of(a) \ {l}) \cup {k}
      BY <3>1
    <3> HIDE DEF Of, T
    <3>4. /\ Cardinality((Of(a) \ {l}) \cup {k}) \in Nat
          /\ Cardinality((Of(a) \ {l}) \cup {k}) <= Cardinality(Of(a))
      BY <1>2, <3>1, <3>2
    <3>6. Cardinality(T) <= Concurrency[a]
      BY <3>2, <3>3, <3>4, <3>5
    <3> QED BY <2>2, <3>6 DEF T
  <2> QED BY <2>1, <2>2
<1> QED BY <1>4, <1>5 DEF LeasesWithinBudget

LEMMA ReservePreserves ==
    ASSUME ContinuousInv, NEW a \in Agent, Reserve(a)
    PROVE  ContinuousInv'
<1> USE DEF ContinuousInv, TypeOK, Reserve
<1>1. \A b \in Agent : workers'[b] = IF b = a THEN "leased" ELSE workers[b]
  BY WorkerMoved
<1>2. WorkTypeOK'
  BY DEF WorkTypeOK, WorkerMoves, Lease
<1>3. InlineAlone'
  BY <1>1, ItemParts DEF InlineAlone
<1>4. LeasesHeld'
  <2>1. Lease(a, a).holder = a /\ Lease(a, a).agent = a
    BY DEF Lease
  <2> HIDE DEF Reserve
  <2>2. leases' = leases \cup {Lease(a, a)} /\ UNCHANGED <<jobs, trees, requests>>
    BY DEF Reserve, supervisorVars
  <2> QED BY <1>1, <2>1, <2>2 DEF LeasesHeld
<1>5. LeasesWithinBudget'
  BY LeaseAdded
<1>6. SlotsAddUp'
  <2>1. \A b \in Agent : workers'[b] \in {"slotted", "leased"}
                            <=> workers[b] \in {"slotted", "leased"}
    BY <1>1
  <2> QED BY <2>1 DEF SlotsAddUp
<1>7. StopInOrder'
  BY <1>1 DEF StopInOrder, supervisorVars, intakeVars, stopVars
<1> QED BY <1>2, <1>3, <1>4, <1>5, <1>6, <1>7, Frames
        DEF supervisorVars, intakeVars, stopVars

(* A worker takes the first item of its queue and has it executed.         *)
Takes(a, place) ==
    LET j == Head(queues[a])
    IN  /\ queues[a] # <<>>
        /\ queues' = [queues EXCEPT ![a] = Tail(@)]
        /\ requests' = [requests EXCEPT ![j] = place]
        /\ fate' = [fate EXCEPT ![j] = "running"]
        /\ Supervisor!Execute(j)
        /\ UNCHANGED <<intakeVars, stopVars>>

LEMMA TakenItem ==
    ASSUME ContinuousInv, NEW a \in Agent, NEW place \in {"submitted", "inline"},
           Takes(a, place)
    PROVE  LET j == Head(queues[a]) IN
           /\ j \in Item /\ Executor(j) = a /\ fate[j] = "queued" /\ requests[j] = "none"
           /\ jobs[j] = "idle" /\ trees[j] = "none"
           /\ \A i \in Item : /\ requests'[i] = IF i = j THEN place ELSE requests[i]
                              /\ fate'[i] = IF i = j THEN "running" ELSE fate[i]
                              /\ jobs'[i] = IF i = j THEN "entering" ELSE jobs[i]
           /\ UNCHANGED states
           /\ queues' \in [Agent -> Seq(Item)]
           /\ \A b \in Agent : b # a => queues'[b] = queues[b]
           /\ Supervisor!TypeOK' /\ EventsInPlace' /\ ItemsInPlace' /\ QueuesWithinBudget'
           /\ DrainDropsNothing'
<1> USE DEF ContinuousInv, TypeOK
<1> DEFINE j == Head(queues[a])
           queue == queues[a]
<1>1. /\ queue \in Seq(Item) /\ IsInjective(queue) /\ queue # <<>>
      /\ ToSet(queue) = {i \in Item : Executor(i) = a /\ fate[i] = "queued"}
  BY DEF Takes, WorkTypeOK, ItemsInPlace
<1>2. /\ Tail(queue) \in Seq(Item) /\ IsInjective(Tail(queue)) /\ j \in ToSet(queue)
      /\ ToSet(Tail(queue)) = ToSet(queue) \ {j} /\ Len(Tail(queue)) = Len(queue) - 1
  BY <1>1, TailQueue
<1>3. /\ j \in Item /\ Executor(j) = a /\ fate[j] = "queued" /\ requests[j] = "none"
      /\ jobs[j] = "idle" /\ trees[j] = "none"
  BY <1>1, <1>2 DEF ItemsInPlace, LeasesHeld
<1>4. /\ queues' = [queues EXCEPT ![a] = Tail(queue)]
      /\ requests' = [requests EXCEPT ![j] = place]
      /\ fate' = [fate EXCEPT ![j] = "running"]
      /\ jobs' = [jobs EXCEPT ![j] = "entering"]
      /\ UNCHANGED <<states, attempts, resuming, intakeVars, stopVars>>
  BY DEF Takes, Supervisor!Execute, Supervisor!Moves
<1> HIDE DEF j
<1>5. \A i \in Item : /\ requests'[i] = IF i = j THEN place ELSE requests[i]
                      /\ fate'[i] = IF i = j THEN "running" ELSE fate[i]
                      /\ jobs'[i] = IF i = j THEN "entering" ELSE jobs[i]
  BY <1>4 DEF WorkTypeOK, Supervisor!TypeOK
<1>6. queues' \in [Agent -> Seq(Item)]
      /\ \A b \in Agent : queues'[b] = IF b = a THEN Tail(queue) ELSE queues[b]
  BY <1>2, <1>4 DEF WorkTypeOK
<1>7. Supervisor!TypeOK'
  BY <1>3, <1>4 DEF Supervisor!TypeOK
<1>8. EventsInPlace'
  BY <1>3, <1>4, <1>5 DEF EventsInPlace, intakeVars
<1>9. ItemsInPlace'
  <2>1. ASSUME NEW b \in Agent
        PROVE  /\ IsInjective(queues'[b])
               /\ ToSet(queues'[b]) = {i \in Item : Executor(i) = b /\ fate'[i] = "queued"}
    <3>1. CASE b # a
      <4>1. \A i \in Item : Executor(i) = b => fate'[i] = fate[i]
        BY <1>3, <1>5, <3>1
      <4> QED BY <1>6, <3>1, <4>1 DEF ItemsInPlace
    <3>2. CASE b = a
      <4>1. queues'[b] = Tail(queue)
        BY <1>6, <3>2
      <4>2. \A i \in Item : fate'[i] = "queued" <=> i # j /\ fate[i] = "queued"
        BY <1>5
      <4> HIDE DEF queue
      <4> QED BY <1>1, <1>2, <3>2, <4>1, <4>2
    <3> QED BY <3>1, <3>2
  <2> QED BY <1>3, <1>5, <2>1 DEF ItemsInPlace
<1>10. QueuesWithinBudget'
  <2>1. Len(Tail(queue)) <= Len(queues[a])
    BY <1>1, <1>2
  <2>2. Queued' \in Nat /\ Queued' <= Queued
    BY <1>2, <1>4, <2>1, QueuedCounts
  <2>3. Queued \in Nat /\ MaxQueued \in Nat /\ QueueCapacity[a] \in Nat
    BY QueuedFinite, ContinuousAssumption
  <2>4. Queued' <= MaxQueued
    BY <2>2, <2>3 DEF QueuesWithinBudget
  <2>5. Len(queues'[a]) <= QueueCapacity[a]
    <3>1. queues'[a] = Tail(queue)
      BY <1>6
    <3>2. Len(queue) \in Nat /\ Len(queue) <= QueueCapacity[a]
      BY <1>1 DEF QueuesWithinBudget
    <3> QED BY <1>2, <2>3, <3>1, <3>2
  <2> QED BY <1>4, <1>6, <2>4, <2>5 DEF QueuesWithinBudget, intakeVars
<1>11. DrainDropsNothing'
  BY <1>4, <1>5 DEF DrainDropsNothing, intakeVars, stopVars
<1> QED BY <1>3, <1>4, <1>5, <1>6, <1>7, <1>8, <1>9, <1>10, <1>11 DEF j

LEMMA SubmitPreserves ==
    ASSUME ContinuousInv, NEW a \in Agent, Submit(a)
    PROVE  ContinuousInv'
<1> USE DEF ContinuousInv, TypeOK
<1>1. /\ workers[a] = "leased" /\ WorkerMoves(a, "idle")
      /\ UNCHANGED <<intakeVars, workersClosed, trees, stopVars>>
  BY DEF Submit
<1>2. \A b \in Agent : workers'[b] = IF b = a THEN "idle" ELSE workers[b]
  BY <1>1, WorkerMoved
<1>3. workers' \in [Agent -> {"idle", "found", "admitted", "slotted", "leased", "refused",
                              "handling", "parked", "exited"}]
  BY <1>1 DEF WorkTypeOK, WorkerMoves
<1>4. /\ Slotted' = Slotted \ {a} /\ a \in Slotted
      /\ Cardinality(Slotted') = Cardinality(Slotted) - 1
  <2>1. Slotted' = Slotted \ {a} /\ a \in Slotted
    BY <1>1, <1>2 DEF Slotted
  <2> QED BY <2>1, SlotCounts, FS_RemoveElement
<1>5. freeSlots + Cardinality(Slotted) + Cardinality(Submitted) = RequestCapacity
  BY DEF SlotsAddUp, Slotted, Submitted
<1>6. Lease(a, a) \in leases /\ Agent \cap Item = {}
  BY <1>1, ContinuousAssumption DEF LeasesHeld
<1>7. CASE queues[a] = <<>>
  <2>1. /\ leases' = leases \ {Lease(a, a)} /\ freeSlots' = freeSlots + 1
        /\ UNCHANGED <<supervisorVars, queues, requests, boundedActive, fate>>
    BY <1>7 DEF Submit
  <2>2. WorkTypeOK'
    BY <1>1, <1>3, <2>1 DEF WorkTypeOK
  <2>3. InlineAlone'
    BY <1>1, <1>2, <2>1, ItemParts DEF InlineAlone
  <2>4. LeasesHeld'
    <3>1. \A l \in leases' : l \in leases /\ ~(l.holder = a /\ l.agent = a)
      BY <2>1 DEF WorkTypeOK, Lease
    <3>2. \A i \in Item, b \in Agent : Lease(i, b) # Lease(a, a)
      BY <1>6 DEF Lease
    <3>3. \A b \in Agent : b # a => Lease(b, b) # Lease(a, a)
      BY DEF Lease
    <3>4. \A i \in Item : trees[i] = "delegate" => DelegateOf[i] \in Agent
      BY ContinuousAssumption DEF LeasesHeld
    <3>5. UNCHANGED <<jobs, trees, requests>>
      BY <1>1, <2>1 DEF supervisorVars
    <3> HIDE DEF Lease
    <3> QED BY <1>2, <2>1, <3>1, <3>2, <3>3, <3>4, <3>5, ItemParts DEF LeasesHeld
  <2>5. LeasesWithinBudget'
    BY <2>1, LeasesFewer
  <2>6. SlotsAddUp'
    <3>1. Submitted' = Submitted
      BY <2>1 DEF Submitted
    <3>2. freeSlots' + Cardinality(Slotted') + Cardinality(Submitted') = RequestCapacity
      BY <1>4, <1>5, <2>1, <3>1, SlotCounts DEF WorkTypeOK
    <3> QED BY <3>2 DEF SlotsAddUp, Slotted, Submitted
  <2>7. StopInOrder'
    BY <1>1, <1>2, <2>1 DEF StopInOrder, supervisorVars, intakeVars, stopVars
  <2> QED BY <1>1, <2>1, <2>2, <2>3, <2>4, <2>5, <2>6, <2>7, Frames
          DEF supervisorVars, intakeVars, stopVars
<1>8. CASE queues[a] # <<>>
  <2> DEFINE j == Head(queues[a])
  <2>1. /\ leases' = (leases \ {Lease(a, a)}) \cup {Lease(j, a)}
        /\ boundedActive' = IF BoundedTick(j) THEN boundedActive \cup {a} ELSE boundedActive
        /\ requests' = [requests EXCEPT ![j] = "submitted"]
        /\ fate' = [fate EXCEPT ![j] = "running"]
        /\ UNCHANGED freeSlots
    BY <1>8 DEF Submit
  <2>2. Takes(a, "submitted")
    BY <1>8 DEF Submit, Takes
  <2>3. /\ j \in Item /\ Executor(j) = a /\ fate[j] = "queued" /\ requests[j] = "none"
        /\ jobs[j] = "idle" /\ trees[j] = "none"
        /\ \A i \in Item : /\ requests'[i] = IF i = j THEN "submitted" ELSE requests[i]
                           /\ fate'[i] = IF i = j THEN "running" ELSE fate[i]
                           /\ jobs'[i] = IF i = j THEN "entering" ELSE jobs[i]
        /\ UNCHANGED states
        /\ queues' \in [Agent -> Seq(Item)]
        /\ \A b \in Agent : b # a => queues'[b] = queues[b]
        /\ Supervisor!TypeOK' /\ EventsInPlace' /\ ItemsInPlace' /\ QueuesWithinBudget'
        /\ DrainDropsNothing'
    BY <2>2, TakenItem
  <2> HIDE DEF j
  <2>4. WorkTypeOK'
    <3>1. leases' \subseteq [holder : Agent \cup Item, agent : Agent]
      BY <2>1, <2>3 DEF WorkTypeOK, Lease
    <3>2. boundedActive' \subseteq Agent
      BY <2>1 DEF WorkTypeOK
    <3>3. requests' \in [Item -> {"none", "submitted", "inline", "settled", "ended"}]
      BY <2>1 DEF WorkTypeOK
    <3>4. fate' \in [Item -> {"none", "queued", "running", "completed", "failed", "coalesced",
                              "dropped", "rejected"}]
      BY <2>1 DEF WorkTypeOK
    <3> QED BY <1>1, <1>3, <2>1, <2>3, <3>1, <3>2, <3>3, <3>4 DEF WorkTypeOK
  <2>5. InlineAlone'
    BY <1>1, <1>2, <2>3, ItemParts DEF InlineAlone
  <2>6. LeasesHeld'
    <3>1. \A i \in Item : i # a /\ (trees[i] # "none" => i # j /\ jobs'[i] = jobs[i])
      BY <1>6, <2>3
    <3>2. ASSUME NEW i \in Item
          PROVE  /\ trees'[i] # "none" => jobs'[i] = "invoking"
                 /\ trees'[i] \in {"delegated", "delegate"} => DelegateOf[i] # NoAgent
                 /\ trees'[i] = "root" => Lease(i, Executor(i)) \in leases'
                 /\ trees'[i] = "delegate" => Lease(i, DelegateOf[i]) \in leases'
      BY <1>1, <2>1, <3>1 DEF LeasesHeld, Lease
    <3>3. ASSUME NEW b \in Agent, workers'[b] = "leased" PROVE Lease(b, b) \in leases'
      BY <1>2, <2>1, <3>3 DEF LeasesHeld, Lease
    <3>4. ASSUME NEW l \in leases'
          PROVE \/ l.holder \in Agent /\ l.agent = l.holder /\ workers'[l.holder] = "leased"
                \/ /\ l.holder \in Item
                   /\ \/ requests'[l.holder] = "submitted"
                      \/ trees'[l.holder] = "root" /\ l.agent = Executor(l.holder)
                      \/ trees'[l.holder] = "delegate" /\ l.agent = DelegateOf[l.holder]
      <4>1. CASE l = Lease(j, a)
        BY <2>3, <4>1 DEF Lease
      <4>2. CASE l # Lease(j, a)
        <5>1. l \in leases /\ l # Lease(a, a)
          BY <2>1, <4>2
        <5>2. l = Lease(l.holder, l.agent)
          BY <5>1 DEF WorkTypeOK, Lease
        <5>3. CASE l.holder \in Agent /\ l.agent = l.holder /\ workers[l.holder] = "leased"
          BY <1>2, <5>1, <5>2, <5>3
        <5>4. CASE /\ l.holder \in Item
                   /\ \/ requests[l.holder] = "submitted"
                      \/ trees[l.holder] = "root" /\ l.agent = Executor(l.holder)
                      \/ trees[l.holder] = "delegate" /\ l.agent = DelegateOf[l.holder]
          BY <1>1, <2>3, <5>4
        <5> QED BY <5>1, <5>3, <5>4 DEF LeasesHeld
      <4> QED BY <4>1, <4>2
    <3> QED BY <3>2, <3>3, <3>4 DEF LeasesHeld
  <2>7. LeasesWithinBudget'
    BY <1>6, <2>1, LeaseHandedOver
  <2>8. SlotsAddUp'
    <3>1. Submitted' = Submitted \cup {j} /\ j \notin Submitted
      BY <2>3 DEF Submitted
    <3>2. Cardinality(Submitted') = Cardinality(Submitted) + 1
      BY <3>1, SlotCounts, FS_AddElement
    <3>3. freeSlots' + Cardinality(Slotted') + Cardinality(Submitted') = RequestCapacity
      BY <1>4, <1>5, <2>1, <3>2, SlotCounts DEF WorkTypeOK
    <3> QED BY <3>3 DEF SlotsAddUp, Slotted, Submitted
  <2>9. TicksInPlace'
    <3>1. \A i \in Item : Processing(i)' <=> (Processing(i) \/ (i = j /\ BoundedTick(j)))
      BY <2>3 DEF Processing
    <3>2. boundedActive' = {b \in Agent : \E i \in Item : Processing(i)' /\ Executor(i) = b}
      BY <2>1, <2>3, <3>1 DEF TicksInPlace
    <3>3. \A i \in Item : BoundedTick(i) /\ (Processing(i)' \/ fate'[i] = "queued")
                             => Processing(i) \/ fate[i] = "queued"
      BY <2>3, <3>1
    <3> QED BY <3>2, <3>3 DEF TicksInPlace
  <2>10. StopInOrder'
    <3>1. \A b \in Agent : workers'[b] \in {"exited", "parked"}
                              => b # a /\ workers[b] = workers'[b]
      BY <1>2
    <3>2. stopper \notin {"requests", "supervisor", "done"}
      BY <1>1 DEF StopInOrder
    <3>3. ~(workersClosed /\ ~drain)
      BY <1>8 DEF StopInOrder
    <3> QED BY <1>1, <2>3, <3>1, <3>2, <3>3 DEF StopInOrder, intakeVars, stopVars
  <2> QED BY <1>1, <2>3, <2>4, <2>5, <2>6, <2>7, <2>8, <2>9, <2>10, Frames
          DEF intakeVars, stopVars
<1> QED BY <1>7, <1>8

LEMMA HandlePreserves ==
    ASSUME ContinuousInv, NEW a \in Agent, Handle(a)
    PROVE  ContinuousInv'
<1> USE DEF ContinuousInv, TypeOK
<1>1. workers[a] = "refused"
      /\ UNCHANGED <<intakeVars, workersClosed, freeSlots, leases, boundedActive, trees,
                     stopVars>>
  BY DEF Handle
<1>2. CASE queues[a] = <<>>
  BY <1>1, <1>2, WorkerMovePreserves DEF Handle
<1>3. CASE queues[a] # <<>>
  <2> DEFINE j == Head(queues[a])
  <2>1. /\ WorkerMoves(a, "handling")
        /\ requests' = [requests EXCEPT ![j] = "inline"]
        /\ fate' = [fate EXCEPT ![j] = "running"]
    BY <1>3 DEF Handle
  <2>2. Takes(a, "inline")
    BY <1>3 DEF Handle, Takes
  <2>3. /\ j \in Item /\ Executor(j) = a /\ fate[j] = "queued" /\ requests[j] = "none"
        /\ jobs[j] = "idle" /\ trees[j] = "none"
        /\ \A i \in Item : /\ requests'[i] = IF i = j THEN "inline" ELSE requests[i]
                           /\ fate'[i] = IF i = j THEN "running" ELSE fate[i]
                           /\ jobs'[i] = IF i = j THEN "entering" ELSE jobs[i]
        /\ UNCHANGED states
        /\ queues' \in [Agent -> Seq(Item)]
        /\ \A b \in Agent : b # a => queues'[b] = queues[b]
        /\ Supervisor!TypeOK' /\ EventsInPlace' /\ ItemsInPlace' /\ QueuesWithinBudget'
        /\ DrainDropsNothing'
    BY <2>2, TakenItem
  <2> HIDE DEF j
  <2>4. \A b \in Agent : workers'[b] = IF b = a THEN "handling" ELSE workers[b]
    BY <2>1, WorkerMoved
  <2>5. WorkTypeOK'
    <3>1. requests' \in [Item -> {"none", "submitted", "inline", "settled", "ended"}]
      BY <2>1 DEF WorkTypeOK
    <3>2. fate' \in [Item -> {"none", "queued", "running", "completed", "failed", "coalesced",
                              "dropped", "rejected"}]
      BY <2>1 DEF WorkTypeOK
    <3>3. workers' \in [Agent -> {"idle", "found", "admitted", "slotted", "leased", "refused",
                                  "handling", "parked", "exited"}]
      BY <2>1 DEF WorkTypeOK, WorkerMoves
    <3> QED BY <1>1, <2>3, <3>1, <3>2, <3>3 DEF WorkTypeOK
  <2>6. InlineAlone'
    <3>1. \A i \in Item : requests[i] = "inline" => Executor(i) # a
      BY <1>1 DEF InlineAlone
    <3> QED BY <2>3, <2>4, <3>1, ItemParts DEF InlineAlone
  <2>7. LeasesHeld'
    <3>1. \A i \in Item : trees[i] # "none" => jobs'[i] = jobs[i]
      BY <2>3
    <3>2. \A i \in Item : requests[i] = "submitted" => requests'[i] = "submitted"
      BY <2>3
    <3>3. \A b \in Agent : workers'[b] = "leased" <=> workers[b] = "leased"
      BY <1>1, <2>4
    <3>4. UNCHANGED <<leases, trees>>
      BY <1>1
    <3> QED BY <3>1, <3>2, <3>3, <3>4 DEF LeasesHeld
  <2>8. SlotsAddUp'
    <3>1. Submitted' = Submitted /\ Slotted' = Slotted
      BY <1>1, <2>3, <2>4 DEF Submitted, Slotted
    <3> QED BY <1>1, <3>1 DEF SlotsAddUp, Slotted, Submitted
  <2>9. TicksInPlace'
    <3>1. \A i \in Item : Processing(i)' <=> Processing(i)
      BY <2>3 DEF Processing
    <3> QED BY <1>1, <2>3, <3>1 DEF TicksInPlace
  <2>10. StopInOrder'
    <3>1. \A b \in Agent : workers'[b] \in {"exited", "parked"}
                              => b # a /\ workers[b] = workers'[b]
      BY <2>4
    <3>2. stopper \notin {"requests", "supervisor", "done"}
      BY <1>1 DEF StopInOrder
    <3>3. ~(workersClosed /\ ~drain)
      BY <1>3 DEF StopInOrder
    <3> QED BY <1>1, <2>3, <3>1, <3>2, <3>3 DEF StopInOrder, intakeVars, stopVars
  <2> QED BY <1>1, <2>3, <2>5, <2>6, <2>7, <2>8, <2>9, <2>10, Frames
          DEF intakeVars, stopVars
<1> QED BY <1>2, <1>3

-----------------------------------------------------------------------------
(* Requests                                                                *)

(* An invocation that is under way belongs to a running item, and no stop  *)
(* has come to the supervisor.                                             *)
LEMMA LiveJob ==
    ASSUME ContinuousInv, NEW j \in Item, jobs[j] \notin {"idle", "returned", "raised"}
    PROVE  /\ fate[j] = "running" /\ requests[j] \in {"submitted", "inline"}
           /\ stopper \notin {"supervisor", "done"}
<1> USE DEF ContinuousInv, TypeOK
<1>1. fate[j] = "running" /\ requests[j] \in {"submitted", "inline"}
  BY DEF ItemsInPlace, WorkTypeOK
<1>2. ASSUME requests[j] = "inline" PROVE stopper \notin {"supervisor", "done"}
  <2>1. workers[Executor(j)] = "handling" /\ Executor(j) \in Agent
    BY <1>2, ItemParts DEF InlineAlone
  <2> QED BY <2>1 DEF StopInOrder
<1>3. ASSUME requests[j] = "submitted" PROVE stopper \notin {"supervisor", "done"}
  BY <1>3 DEF StopInOrder
<1> QED BY <1>1, <1>2, <1>3

(* The job of an item goes on, or ends.                                    *)
JobMoves(j, place) ==
    /\ jobs[j] \notin {"idle", "returned", "raised"}
    /\ place \in {"entering", "blocked", "passed", "invoking", "failing", "raising",
                  "backoff", "returned", "raised"}
    /\ jobs' = [jobs EXCEPT ![j] = place]

LEMMA SupervisorStep ==
    ASSUME ContinuousInv, NEW j \in Item,
           \/ Supervisor!Block(j) \/ Supervisor!Pass(j) \/ Supervisor!NotRunning(j)
           \/ Supervisor!Invoke(j) \/ Supervisor!Succeed(j)
           \/ \E place \in {"failing", "raising"} : Supervisor!Fail(j, place)
           \/ Supervisor!Recover(j) \/ Supervisor!Restart(j)
    PROVE  /\ Supervisor!TypeOK'
           /\ \E place : JobMoves(j, place)
<1> USE DEF ContinuousInv, TypeOK
<1> DEFINE a == Executor(j)
<1>1. a \in Agent /\ [i \in Item |-> Executor(i)][j] = a /\ MaxAttempts[a] \in Nat
  BY ItemParts, ContinuousAssumption
<1>2. /\ states \in [Agent -> Supervisor!AgentState] /\ attempts \in [Agent -> Nat]
      /\ jobs \in [Item -> {"idle", "entering", "blocked", "passed", "invoking", "failing",
                            "raising", "backoff", "returned", "raised"}]
      /\ resuming \subseteq Agent
  BY DEF Supervisor!TypeOK
<1> USE DEF Supervisor!Moves
<1> HIDE DEF a
<1>3. ASSUME NEW place, JobMoves(j, place),
             \/ UNCHANGED states
             \/ \E state \in {"running", "restarting", "failed"} :
                   states' = [states EXCEPT ![a] = state],
             \/ UNCHANGED attempts
             \/ attempts' = [attempts EXCEPT ![a] = 0]
             \/ attempts' = [attempts EXCEPT ![a] = @ + 1],
             UNCHANGED resuming
      PROVE  Supervisor!TypeOK'
  <2>1. states' \in [Agent -> Supervisor!AgentState]
    BY <1>2, <1>3 DEF Supervisor!AgentState
  <2>2. attempts' \in [Agent -> Nat]
    BY <1>1, <1>2, <1>3
  <2>3. jobs' \in [Item -> {"idle", "entering", "blocked", "passed", "invoking", "failing",
                            "raising", "backoff", "returned", "raised"}]
    BY <1>2, <1>3 DEF JobMoves
  <2> QED BY <1>2, <1>3, <2>1, <2>2, <2>3 DEF Supervisor!TypeOK
<1>4. CASE Supervisor!Block(j)
  <2>1. JobMoves(j, "blocked") /\ UNCHANGED <<states, attempts, resuming>>
    BY <1>4 DEF Supervisor!Block, JobMoves
  <2> QED BY <1>3, <2>1
<1>5. CASE Supervisor!Pass(j)
  <2>1. JobMoves(j, "passed") /\ UNCHANGED <<states, attempts, resuming>>
    BY <1>5 DEF Supervisor!Pass, JobMoves
  <2> QED BY <1>3, <2>1
<1>6. CASE Supervisor!NotRunning(j)
  <2>1. JobMoves(j, "raised") /\ UNCHANGED <<states, attempts, resuming>>
    BY <1>6 DEF Supervisor!NotRunning, JobMoves
  <2> QED BY <1>3, <2>1
<1>7. CASE Supervisor!Invoke(j)
  <2>1. JobMoves(j, "invoking") /\ UNCHANGED <<states, attempts, resuming>>
    BY <1>7 DEF Supervisor!Invoke, JobMoves
  <2> QED BY <1>3, <2>1
<1>8. CASE Supervisor!Succeed(j)
  <2>1. /\ JobMoves(j, "returned") /\ UNCHANGED <<states, resuming>>
        /\ UNCHANGED attempts \/ attempts' = [attempts EXCEPT ![a] = 0]
    BY <1>1, <1>8 DEF Supervisor!Succeed, Supervisor!State, JobMoves
  <2> QED BY <1>3, <2>1
<1>9. ASSUME NEW result \in {"failing", "raising"}, Supervisor!Fail(j, result)
      PROVE  Supervisor!TypeOK' /\ \E place : JobMoves(j, place)
  <2>1. PICK place \in {"returned", "failing", "raising"} :
           JobMoves(j, place) /\ UNCHANGED <<states, attempts, resuming>>
    BY <1>9 DEF Supervisor!Fail, JobMoves
  <2> QED BY <1>3, <2>1
<1>10. CASE Supervisor!Recover(j)
  <2>1. PICK place \in {"returned", "raised", "backoff"} :
           /\ JobMoves(j, place) /\ UNCHANGED resuming
           /\ \/ UNCHANGED <<states, attempts>>
              \/ /\ attempts' = [attempts EXCEPT ![a] = @ + 1]
                 /\ \E state \in {"restarting", "failed"} : states' = [states EXCEPT ![a] = state]
    BY <1>1, <1>10 DEF Supervisor!Recover, Supervisor!GiveUp, Supervisor!SetState, JobMoves
  <2> QED BY <1>3, <2>1
<1>11. CASE Supervisor!Restart(j)
  <2>1. /\ JobMoves(j, "entering") /\ UNCHANGED <<attempts, resuming>>
        /\ states' = [states EXCEPT ![a] = "running"]
    BY <1>1, <1>11 DEF Supervisor!Restart, Supervisor!SetState, JobMoves
  <2> QED BY <1>3, <2>1
<1> QED BY <1>4, <1>5, <1>6, <1>7, <1>8, <1>9, <1>10, <1>11

LEMMA JobMoved ==
    ASSUME ContinuousInv, NEW j \in Item, NEW place, JobMoves(j, place),
           UNCHANGED <<queues, fate, requests, life, stopper, drain, busClosed, workersClosed,
                       bus, matched, workers>>
    PROVE  /\ ItemsInPlace' /\ StopInOrder'
           /\ \A i \in Item : jobs'[i] = IF i = j THEN place ELSE jobs[i]
           /\ fate[j] = "running" /\ requests[j] \in {"submitted", "inline"}
<1> USE DEF ContinuousInv, TypeOK
<1>1. /\ fate[j] = "running" /\ requests[j] \in {"submitted", "inline"}
      /\ stopper \notin {"supervisor", "done"}
  BY LiveJob DEF JobMoves
<1>2. \A i \in Item : jobs'[i] = IF i = j THEN place ELSE jobs[i]
  BY DEF JobMoves, Supervisor!TypeOK
<1>3. place # "idle"
  BY DEF JobMoves
<1>4. ItemsInPlace'
  BY <1>1, <1>2, <1>3 DEF ItemsInPlace
<1>5. StopInOrder'
  BY <1>1 DEF StopInOrder
<1> QED BY <1>1, <1>2, <1>4, <1>5

LEMMA BlockPreserves ==
    ASSUME ContinuousInv, NEW j \in Item, Block(j)
    PROVE  ContinuousInv'
<1> USE DEF ContinuousInv, TypeOK
<1>1. /\ leases' = {l \in leases : l.holder # j} /\ jobs[j] = "entering"
      /\ UNCHANGED <<intakeVars, queues, workersClosed, workers, requests, freeSlots,
                     boundedActive, trees, fate, stopVars>>
  BY DEF Block, Supervisor!Block
<1>2. Supervisor!TypeOK' /\ \E place : JobMoves(j, place)
  BY SupervisorStep DEF Block
<1>3. PICK place : JobMoves(j, place)
  BY <1>2
<1>4. /\ ItemsInPlace' /\ StopInOrder'
      /\ \A i \in Item : jobs'[i] = IF i = j THEN place ELSE jobs[i]
  BY <1>1, <1>3, JobMoved DEF intakeVars, stopVars
<1>5. WorkTypeOK'
  BY <1>1 DEF WorkTypeOK
<1>6. LeasesHeld'
  <2>1. j \notin Agent /\ trees[j] = "none"
    BY <1>1, ContinuousAssumption DEF LeasesHeld
  <2>2. \A i \in Item, b \in Agent : i # j /\ Lease(i, b) \in leases => Lease(i, b) \in leases'
    BY <1>1 DEF Lease
  <2>3. \A b \in Agent : Lease(b, b) \in leases => Lease(b, b) \in leases'
    BY <1>1, <2>1 DEF Lease
  <2>4. \A i \in Item : trees[i] = "delegate" => DelegateOf[i] \in Agent
    BY ContinuousAssumption DEF LeasesHeld
  <2>5. \A l \in leases' : l \in leases
    BY <1>1
  <2> HIDE DEF Lease
  <2> QED BY <1>1, <1>4, <2>1, <2>2, <2>3, <2>4, <2>5, ItemParts DEF LeasesHeld
<1>7. LeasesWithinBudget'
  BY <1>1, LeasesFewer
<1> QED BY <1>1, <1>2, <1>4, <1>5, <1>6, <1>7, Frames DEF intakeVars, stopVars

LEMMA SupervisedPreserves ==
    ASSUME ContinuousInv, NEW j \in Item, Supervised(j)
    PROVE  ContinuousInv'
<1> USE DEF ContinuousInv, TypeOK
<1>1. UNCHANGED <<intakeVars, workVars, stopVars>> /\ jobs[j] # "invoking"
  BY DEF Supervised, Supervisor!Pass, Supervisor!NotRunning, Supervisor!Recover,
         Supervisor!Restart
<1>2. Supervisor!TypeOK' /\ \E place : JobMoves(j, place)
  BY SupervisorStep DEF Supervised
<1>3. PICK place : JobMoves(j, place)
  BY <1>2
<1>4. /\ ItemsInPlace' /\ StopInOrder'
      /\ \A i \in Item : jobs'[i] = IF i = j THEN place ELSE jobs[i]
  BY <1>1, <1>3, JobMoved DEF intakeVars, workVars, stopVars
<1>5. LeasesHeld'
  BY <1>1, <1>4 DEF LeasesHeld, workVars
<1> QED BY <1>1, <1>2, <1>4, <1>5, Frames DEF intakeVars, workVars, stopVars

LEMMA TreeGrown ==
    ASSUME WorkTypeOK, NEW j \in Item, NEW tree, Grows(j, tree)
    PROVE  \A i \in Item : trees'[i] = IF i = j THEN tree ELSE trees[i]
BY DEF WorkTypeOK, Grows

LEMMA StartRootPreserves ==
    ASSUME ContinuousInv, NEW j \in Item, StartRoot(j)
    PROVE  ContinuousInv'
<1> USE DEF ContinuousInv, TypeOK
<1> DEFINE a == Executor(j)
<1>1. /\ Lease(j, a) \in leases \/ Available(a)
      /\ leases' = leases \cup {Lease(j, a)} /\ Grows(j, "root")
      /\ UNCHANGED <<intakeVars, queues, workersClosed, workers, requests, freeSlots,
                     boundedActive, fate, stopVars>>
      /\ jobs[j] = "passed" /\ jobs' = [jobs EXCEPT ![j] = "invoking"]
  BY DEF StartRoot, Supervisor!Invoke, Supervisor!Moves
<1>2. Supervisor!TypeOK' /\ JobMoves(j, "invoking") /\ a \in Agent
  BY <1>1, SupervisorStep, ItemParts DEF StartRoot, JobMoves
<1>3. /\ ItemsInPlace' /\ StopInOrder'
      /\ \A i \in Item : jobs'[i] = IF i = j THEN "invoking" ELSE jobs[i]
  BY <1>1, <1>2, JobMoved DEF intakeVars, stopVars
<1>4. \A i \in Item : trees'[i] = IF i = j THEN "root" ELSE trees[i]
  BY <1>1, TreeGrown
<1> HIDE DEF a
<1>5. WorkTypeOK'
  <2>1. trees' \in [Item -> {"none", "root", "delegated", "delegate", "succeeded", "failing",
                             "raising"}]
    BY <1>1 DEF WorkTypeOK, Grows
  <2>2. leases' \subseteq [holder : Agent \cup Item, agent : Agent]
    BY <1>1, <1>2 DEF WorkTypeOK, Lease
  <2> QED BY <1>1, <2>1, <2>2 DEF WorkTypeOK
<1>6. LeasesHeld'
  <2>1. Lease(j, a).holder = j /\ Lease(j, a).agent = a /\ trees[j] = "none"
    BY <1>1 DEF Lease, LeasesHeld
  <2> HIDE DEF Lease
  <2> QED BY <1>1, <1>3, <1>4, <2>1 DEF LeasesHeld, a
<1>7. LeasesWithinBudget'
  <2>1. CASE Lease(j, a) \in leases
    BY <1>1, <2>1, LeasesFewer
  <2>2. CASE Available(a)
    BY <1>1, <1>2, <2>2, LeaseAdded
  <2> QED BY <1>1, <2>1, <2>2
<1> QED BY <1>1, <1>2, <1>3, <1>5, <1>6, <1>7, Frames DEF intakeVars, stopVars

LEMMA EndRootPreserves ==
    ASSUME ContinuousInv, NEW j \in Item, NEW result \in {"succeeded", "failing", "raising"},
           EndRoot(j, result)
    PROVE  ContinuousInv'
<1> USE DEF ContinuousInv, TypeOK
<1> DEFINE a == Executor(j)
           tree == IF result = "succeeded" /\ DelegateOf[j] # NoAgent THEN "delegated"
                   ELSE result
<1>1. /\ trees[j] = "root" /\ leases' = leases \ {Lease(j, a)} /\ Grows(j, tree)
      /\ UNCHANGED <<supervisorVars, intakeVars, queues, workersClosed, workers, requests,
                     freeSlots, boundedActive, fate, stopVars>>
  BY DEF EndRoot
<1>2. /\ tree \in {"delegated", "succeeded", "failing", "raising"}
      /\ tree = "delegated" => DelegateOf[j] # NoAgent
  OBVIOUS
<1> HIDE DEF a, tree
<1>3. \A i \in Item : trees'[i] = IF i = j THEN tree ELSE trees[i]
  BY <1>1, TreeGrown
<1>4. WorkTypeOK'
  <2>1. trees' \in [Item -> {"none", "root", "delegated", "delegate", "succeeded", "failing",
                             "raising"}]
    BY <1>1, <1>2 DEF WorkTypeOK, Grows
  <2> QED BY <1>1, <2>1 DEF WorkTypeOK
<1>5. LeasesHeld'
  <2>1. j \notin Agent /\ a \in Agent
    BY ContinuousAssumption, ItemParts DEF a
  <2>2. \A h, b : h # j /\ Lease(h, b) \in leases => Lease(h, b) \in leases'
    BY <1>1 DEF Lease
  <2>3. \A l \in leases' : l \in leases /\ ~(l.holder = j /\ l.agent = a)
    BY <1>1 DEF WorkTypeOK, Lease
  <2>4. UNCHANGED <<jobs, workers, requests>>
    BY <1>1 DEF supervisorVars
  <2>5. ASSUME NEW i \in Item
        PROVE  /\ trees'[i] # "none" => jobs'[i] = "invoking"
               /\ trees'[i] \in {"delegated", "delegate"} => DelegateOf[i] # NoAgent
               /\ trees'[i] = "root" => Lease(i, Executor(i)) \in leases'
               /\ trees'[i] = "delegate" => Lease(i, DelegateOf[i]) \in leases'
    BY <1>1, <1>2, <1>3, <2>2, <2>4 DEF LeasesHeld
  <2>6. ASSUME NEW b \in Agent, workers'[b] = "leased" PROVE Lease(b, b) \in leases'
    BY <2>1, <2>2, <2>4, <2>6 DEF LeasesHeld
  <2>7. ASSUME NEW l \in leases'
        PROVE \/ l.holder \in Agent /\ l.agent = l.holder /\ workers'[l.holder] = "leased"
              \/ /\ l.holder \in Item
                 /\ \/ requests'[l.holder] = "submitted"
                    \/ trees'[l.holder] = "root" /\ l.agent = Executor(l.holder)
                    \/ trees'[l.holder] = "delegate" /\ l.agent = DelegateOf[l.holder]
    BY <1>1, <1>3, <2>1, <2>3, <2>4 DEF LeasesHeld, a
  <2> QED BY <2>5, <2>6, <2>7 DEF LeasesHeld
<1>6. LeasesWithinBudget'
  BY <1>1, LeasesFewer
<1> QED BY <1>1, <1>4, <1>5, <1>6, Frames DEF supervisorVars, intakeVars, stopVars

LEMMA StartDelegatePreserves ==
    ASSUME ContinuousInv, NEW j \in Item, StartDelegate(j)
    PROVE  ContinuousInv'
<1> USE DEF ContinuousInv, TypeOK
<1> DEFINE a == DelegateOf[j]
<1>1. /\ trees[j] = "delegated" /\ Available(a) /\ leases' = leases \cup {Lease(j, a)}
      /\ Grows(j, "delegate")
      /\ UNCHANGED <<supervisorVars, intakeVars, queues, workersClosed, workers, requests,
                     freeSlots, boundedActive, fate, stopVars>>
  BY DEF StartDelegate
<1>2. a \in Agent /\ a # NoAgent
  BY <1>1, ContinuousAssumption DEF LeasesHeld
<1> HIDE DEF a
<1>3. \A i \in Item : trees'[i] = IF i = j THEN "delegate" ELSE trees[i]
  BY <1>1, TreeGrown
<1>4. WorkTypeOK'
  <2>1. trees' \in [Item -> {"none", "root", "delegated", "delegate", "succeeded", "failing",
                             "raising"}]
    BY <1>1 DEF WorkTypeOK, Grows
  <2>2. leases' \subseteq [holder : Agent \cup Item, agent : Agent]
    BY <1>1, <1>2 DEF WorkTypeOK, Lease
  <2> QED BY <1>1, <2>1, <2>2 DEF WorkTypeOK
<1>5. LeasesHeld'
  <2>1. Lease(j, a).holder = j /\ Lease(j, a).agent = a
    BY DEF Lease
  <2>2. UNCHANGED <<jobs, workers, requests>>
    BY <1>1 DEF supervisorVars
  <2> HIDE DEF Lease
  <2> QED BY <1>1, <1>2, <1>3, <2>1, <2>2 DEF LeasesHeld, a
<1>6. LeasesWithinBudget'
  BY <1>1, <1>2, LeaseAdded
<1> QED BY <1>1, <1>4, <1>5, <1>6, Frames DEF supervisorVars, intakeVars, stopVars

LEMMA EndDelegatePreserves ==
    ASSUME ContinuousInv, NEW j \in Item, EndDelegate(j)
    PROVE  ContinuousInv'
<1> USE DEF ContinuousInv, TypeOK
<1> DEFINE a == DelegateOf[j]
<1>1. /\ trees[j] = "delegate" /\ leases' = leases \ {Lease(j, a)} /\ Grows(j, "succeeded")
      /\ UNCHANGED <<supervisorVars, intakeVars, queues, workersClosed, workers, requests,
                     freeSlots, boundedActive, fate, stopVars>>
  BY DEF EndDelegate
<1> HIDE DEF a
<1>2. \A i \in Item : trees'[i] = IF i = j THEN "succeeded" ELSE trees[i]
  BY <1>1, TreeGrown
<1>3. WorkTypeOK'
  <2>1. trees' \in [Item -> {"none", "root", "delegated", "delegate", "succeeded", "failing",
                             "raising"}]
    BY <1>1 DEF WorkTypeOK, Grows
  <2> QED BY <1>1, <2>1 DEF WorkTypeOK
<1>4. LeasesHeld'
  <2>1. j \notin Agent
    BY ContinuousAssumption
  <2>2. \A h, b : h # j /\ Lease(h, b) \in leases => Lease(h, b) \in leases'
    BY <1>1 DEF Lease
  <2>3. \A l \in leases' : l \in leases /\ ~(l.holder = j /\ l.agent = a)
    BY <1>1 DEF WorkTypeOK, Lease
  <2>4. UNCHANGED <<jobs, workers, requests>>
    BY <1>1 DEF supervisorVars
  <2>5. ASSUME NEW i \in Item
        PROVE  /\ trees'[i] # "none" => jobs'[i] = "invoking"
               /\ trees'[i] \in {"delegated", "delegate"} => DelegateOf[i] # NoAgent
               /\ trees'[i] = "root" => Lease(i, Executor(i)) \in leases'
               /\ trees'[i] = "delegate" => Lease(i, DelegateOf[i]) \in leases'
    BY <1>1, <1>2, <2>2, <2>4 DEF LeasesHeld
  <2>6. ASSUME NEW b \in Agent, workers'[b] = "leased" PROVE Lease(b, b) \in leases'
    BY <2>1, <2>2, <2>4, <2>6 DEF LeasesHeld
  <2>7. ASSUME NEW l \in leases'
        PROVE \/ l.holder \in Agent /\ l.agent = l.holder /\ workers'[l.holder] = "leased"
              \/ /\ l.holder \in Item
                 /\ \/ requests'[l.holder] = "submitted"
                    \/ trees'[l.holder] = "root" /\ l.agent = Executor(l.holder)
                    \/ trees'[l.holder] = "delegate" /\ l.agent = DelegateOf[l.holder]
    BY <1>1, <1>2, <2>1, <2>3, <2>4 DEF LeasesHeld, a
  <2> QED BY <2>5, <2>6, <2>7 DEF LeasesHeld
<1>5. LeasesWithinBudget'
  BY <1>1, LeasesFewer
<1> QED BY <1>1, <1>3, <1>4, <1>5, Frames DEF supervisorVars, intakeVars, stopVars

LEMMA ReturnPreserves ==
    ASSUME ContinuousInv, NEW j \in Item, Return(j)
    PROVE  ContinuousInv'
<1> USE DEF ContinuousInv, TypeOK
<1>1. /\ trees[j] \in {"succeeded", "failing", "raising"} /\ Grows(j, "none")
      /\ UNCHANGED <<intakeVars, queues, workersClosed, workers, requests, freeSlots, leases,
                     boundedActive, fate, stopVars>>
      /\ Supervisor!Succeed(j)
         \/ \E place \in {"failing", "raising"} : Supervisor!Fail(j, place)
  BY DEF Return
<1>2. Supervisor!TypeOK' /\ \E place : JobMoves(j, place)
  BY <1>1, SupervisorStep
<1>3. PICK place : JobMoves(j, place)
  BY <1>2
<1>4. /\ ItemsInPlace' /\ StopInOrder'
      /\ \A i \in Item : jobs'[i] = IF i = j THEN place ELSE jobs[i]
  BY <1>1, <1>3, JobMoved DEF intakeVars, stopVars
<1>5. \A i \in Item : trees'[i] = IF i = j THEN "none" ELSE trees[i]
  BY <1>1, TreeGrown
<1>6. WorkTypeOK'
  <2>1. trees' \in [Item -> {"none", "root", "delegated", "delegate", "succeeded", "failing",
                             "raising"}]
    BY <1>1 DEF WorkTypeOK, Grows
  <2> QED BY <1>1, <2>1 DEF WorkTypeOK
<1>7. LeasesHeld'
  BY <1>1, <1>4, <1>5 DEF LeasesHeld
<1> QED BY <1>1, <1>2, <1>4, <1>6, <1>7, Frames DEF intakeVars, stopVars

LEMMA SettlePreserves ==
    ASSUME ContinuousInv, NEW j \in Item, Settle(j)
    PROVE  ContinuousInv'
<1> USE DEF ContinuousInv, TypeOK
<1> DEFINE result == IF jobs[j] = "returned" THEN "completed" ELSE "failed"
<1>1. /\ requests[j] \in {"submitted", "inline"} /\ jobs[j] \in {"returned", "raised"}
      /\ fate' = [fate EXCEPT ![j] = result]
      /\ UNCHANGED <<supervisorVars, intakeVars, queues, workersClosed, boundedActive, trees,
                     stopVars>>
  BY DEF Settle
<1>2. fate[j] = "running" /\ trees[j] = "none" /\ result \in {"completed", "failed"}
  BY <1>1 DEF ItemsInPlace, LeasesHeld, WorkTypeOK
<1> HIDE DEF result
<1>3. \A i \in Item : fate'[i] = IF i = j THEN result ELSE fate[i]
  BY <1>1 DEF WorkTypeOK
<1>4. fate' \in [Item -> {"none", "queued", "running", "completed", "failed", "coalesced",
                          "dropped", "rejected"}]
  BY <1>1, <1>2 DEF WorkTypeOK
<1>5. EventsInPlace'
  BY <1>1, <1>2, <1>3 DEF EventsInPlace, intakeVars
<1>6. DrainDropsNothing'
  BY <1>1, <1>2, <1>3 DEF DrainDropsNothing, intakeVars, stopVars
<1>7. ASSUME NEW place \in {"settled", "ended"}, requests' = [requests EXCEPT ![j] = place]
      PROVE  /\ ItemsInPlace'
             /\ requests' \in [Item -> {"none", "submitted", "inline", "settled", "ended"}]
             /\ \A i \in Item : requests'[i] = IF i = j THEN place ELSE requests[i]
  <2>1. \A i \in Item : requests'[i] = IF i = j THEN place ELSE requests[i]
    BY <1>7 DEF WorkTypeOK
  <2>2. requests' \in [Item -> {"none", "submitted", "inline", "settled", "ended"}]
    BY <1>7 DEF WorkTypeOK
  <2>3. UNCHANGED <<queues, jobs>>
    BY <1>1 DEF supervisorVars
  <2>4. \A i \in Item : fate'[i] = "queued" <=> fate[i] = "queued"
    BY <1>2, <1>3
  <2> QED BY <1>1, <1>2, <1>3, <2>1, <2>2, <2>3, <2>4 DEF ItemsInPlace
<1>8. CASE requests[j] = "inline"
  <2> DEFINE a == Executor(j)
  <2>1. /\ requests' = [requests EXCEPT ![j] = "ended"] /\ WorkerMoves(a, "idle")
        /\ UNCHANGED <<leases, freeSlots>>
    BY <1>8 DEF Settle
  <2>2. /\ ItemsInPlace'
        /\ requests' \in [Item -> {"none", "submitted", "inline", "settled", "ended"}]
        /\ \A i \in Item : requests'[i] = IF i = j THEN "ended" ELSE requests[i]
    BY <1>7, <2>1
  <2>3. a \in Agent /\ workers[a] = "handling"
    BY <1>8, ItemParts DEF InlineAlone
  <2>4. \A b \in Agent : workers'[b] = IF b = a THEN "idle" ELSE workers[b]
    BY <2>1, <2>3, WorkerMoved
  <2>5. WorkTypeOK'
    <3>1. workers' \in [Agent -> {"idle", "found", "admitted", "slotted", "leased", "refused",
                                  "handling", "parked", "exited"}]
      BY <2>1 DEF WorkTypeOK, WorkerMoves
    <3> QED BY <1>1, <1>4, <2>1, <2>2, <3>1 DEF WorkTypeOK
  <2>6. InlineAlone'
    <3>1. \A i \in Item : requests'[i] = "inline" => i # j /\ requests[i] = "inline"
      BY <2>2
    <3>2. \A i \in Item : requests'[i] = "inline" => Executor(i) # a
      BY <1>8, <3>1 DEF InlineAlone
    <3> QED BY <2>4, <3>1, <3>2, ItemParts DEF InlineAlone
  <2>7. LeasesHeld'
    <3>1. \A i \in Item : requests'[i] = "submitted" <=> requests[i] = "submitted"
      BY <1>8, <2>2
    <3>2. \A b \in Agent : workers'[b] = "leased" <=> workers[b] = "leased"
      BY <2>3, <2>4
    <3>3. UNCHANGED <<leases, trees, jobs>>
      BY <1>1, <2>1 DEF supervisorVars
    <3> QED BY <3>1, <3>2, <3>3 DEF LeasesHeld
  <2>8. SlotsAddUp'
    <3>1. Submitted' = Submitted /\ Slotted' = Slotted
      BY <1>8, <2>2, <2>3, <2>4 DEF Submitted, Slotted
    <3> QED BY <2>1, <3>1 DEF SlotsAddUp, Slotted, Submitted
  <2>9. TicksInPlace'
    <3>1. \A i \in Item : Processing(i)' <=> Processing(i)
      BY <1>8, <2>2 DEF Processing
    <3>2. \A i \in Item : fate'[i] = "queued" <=> fate[i] = "queued"
      BY <1>2, <1>3
    <3> QED BY <1>1, <3>1, <3>2 DEF TicksInPlace
  <2>10. StopInOrder'
    <3>1. stopper \notin {"requests", "supervisor", "done"}
      BY <2>3 DEF StopInOrder
    <3> QED BY <1>1, <2>3, <2>4, <3>1 DEF StopInOrder, supervisorVars, intakeVars, stopVars
  <2> QED BY <1>1, <1>5, <1>6, <2>1, <2>2, <2>5, <2>6, <2>7, <2>8, <2>9, <2>10, Frames
          DEF supervisorVars, intakeVars, stopVars
<1>9. CASE requests[j] = "submitted"
  <2>1. /\ requests' = [requests EXCEPT ![j] = "settled"]
        /\ leases' = {l \in leases : l.holder # j}
        /\ freeSlots' = freeSlots + 1
        /\ UNCHANGED workers
    BY <1>9 DEF Settle
  <2>2. /\ ItemsInPlace'
        /\ requests' \in [Item -> {"none", "submitted", "inline", "settled", "ended"}]
        /\ \A i \in Item : requests'[i] = IF i = j THEN "settled" ELSE requests[i]
    BY <1>7, <2>1
  <2>3. WorkTypeOK'
    BY <1>1, <1>4, <2>1, <2>2 DEF WorkTypeOK
  <2>4. InlineAlone'
    BY <2>1, <2>2 DEF InlineAlone
  <2>5. LeasesHeld'
    <3>1. j \notin Agent
      BY ContinuousAssumption
    <3>2. \A h, b : h # j /\ Lease(h, b) \in leases => Lease(h, b) \in leases'
      BY <2>1 DEF Lease
    <3>3. \A l \in leases' : l \in leases /\ l.holder # j
      BY <2>1
    <3>4. UNCHANGED <<jobs, trees, workers>>
      BY <1>1, <2>1 DEF supervisorVars
    <3> HIDE DEF Lease
    <3>5. ASSUME NEW i \in Item
          PROVE  /\ trees'[i] # "none" => jobs'[i] = "invoking"
                 /\ trees'[i] \in {"delegated", "delegate"} => DelegateOf[i] # NoAgent
                 /\ trees'[i] = "root" => Lease(i, Executor(i)) \in leases'
                 /\ trees'[i] = "delegate" => Lease(i, DelegateOf[i]) \in leases'
      BY <1>2, <3>2, <3>4 DEF LeasesHeld
    <3>6. ASSUME NEW b \in Agent, workers'[b] = "leased" PROVE Lease(b, b) \in leases'
      BY <3>1, <3>2, <3>4, <3>6 DEF LeasesHeld
    <3>7. ASSUME NEW l \in leases'
          PROVE \/ l.holder \in Agent /\ l.agent = l.holder /\ workers'[l.holder] = "leased"
                \/ /\ l.holder \in Item
                   /\ \/ requests'[l.holder] = "submitted"
                      \/ trees'[l.holder] = "root" /\ l.agent = Executor(l.holder)
                      \/ trees'[l.holder] = "delegate" /\ l.agent = DelegateOf[l.holder]
      BY <2>2, <3>3, <3>4 DEF LeasesHeld
    <3> QED BY <3>5, <3>6, <3>7 DEF LeasesHeld
  <2>6. LeasesWithinBudget'
    BY <2>1, LeasesFewer
  <2>7. SlotsAddUp'
    <3>1. Submitted' = Submitted \ {j} /\ j \in Submitted /\ Slotted' = Slotted
      BY <1>9, <2>1, <2>2 DEF Submitted, Slotted
    <3>2. Cardinality(Submitted') = Cardinality(Submitted) - 1
      BY <3>1, SlotCounts, FS_RemoveElement
    <3>3. freeSlots + Cardinality(Slotted) + Cardinality(Submitted) = RequestCapacity
      BY DEF SlotsAddUp, Slotted, Submitted
    <3>4. freeSlots' + Cardinality(Slotted') + Cardinality(Submitted') = RequestCapacity
      BY <2>1, <3>1, <3>2, <3>3, SlotCounts DEF WorkTypeOK
    <3> QED BY <3>4 DEF SlotsAddUp, Slotted, Submitted
  <2>8. TicksInPlace'
    <3>1. \A i \in Item : Processing(i)' <=> Processing(i)
      BY <1>9, <2>2 DEF Processing
    <3>2. \A i \in Item : fate'[i] = "queued" <=> fate[i] = "queued"
      BY <1>2, <1>3
    <3> QED BY <1>1, <3>1, <3>2 DEF TicksInPlace
  <2>9. StopInOrder'
    <3>1. stopper \notin {"supervisor", "done"}
      BY <1>9 DEF StopInOrder
    <3> QED BY <1>1, <2>1, <3>1 DEF StopInOrder, supervisorVars, intakeVars, stopVars
  <2> QED BY <1>1, <1>5, <1>6, <2>2, <2>3, <2>4, <2>5, <2>6, <2>7, <2>8, <2>9, Frames
          DEF supervisorVars, intakeVars, stopVars
<1> QED BY <1>1, <1>8, <1>9

LEMMA EndRequestPreserves ==
    ASSUME ContinuousInv, NEW j \in Item, EndRequest(j)
    PROVE  ContinuousInv'
<1> USE DEF ContinuousInv, TypeOK
<1>1. /\ requests[j] = "settled" /\ requests' = [requests EXCEPT ![j] = "ended"]
      /\ boundedActive' = IF BoundedTick(j) THEN boundedActive \ {Executor(j)} ELSE boundedActive
      /\ UNCHANGED <<supervisorVars, intakeVars, queues, workersClosed, workers, freeSlots,
                     leases, trees, fate, stopVars>>
  BY DEF EndRequest
<1>2. \A i \in Item : requests'[i] = IF i = j THEN "ended" ELSE requests[i]
  BY <1>1 DEF WorkTypeOK
<1>3. WorkTypeOK'
  <2>1. requests' \in [Item -> {"none", "submitted", "inline", "settled", "ended"}]
    BY <1>1 DEF WorkTypeOK
  <2> QED BY <1>1, <2>1 DEF WorkTypeOK
<1>4. ItemsInPlace'
  <2>1. UNCHANGED <<queues, jobs, fate>>
    BY <1>1 DEF supervisorVars
  <2>2. fate[j] \in {"completed", "failed"}
    BY <1>1 DEF ItemsInPlace
  <2> QED BY <1>1, <1>2, <2>1, <2>2 DEF ItemsInPlace
<1>5. InlineAlone'
  BY <1>1, <1>2 DEF InlineAlone
<1>6. LeasesHeld'
  <2>1. UNCHANGED <<jobs, trees, workers, leases>>
    BY <1>1 DEF supervisorVars
  <2>2. \A i \in Item : requests'[i] = "submitted" <=> requests[i] = "submitted"
    BY <1>1, <1>2
  <2> QED BY <2>1, <2>2 DEF LeasesHeld
<1>7. SlotsAddUp'
  <2>1. Submitted' = Submitted /\ Slotted' = Slotted
    BY <1>1, <1>2 DEF Submitted, Slotted
  <2> QED BY <1>1, <2>1 DEF SlotsAddUp, Slotted, Submitted
<1>8. TicksInPlace'
  <2>1. \A i \in Item : Processing(i)' <=> Processing(i) /\ i # j
    BY <1>1, <1>2 DEF Processing
  <2>2. UNCHANGED fate
    BY <1>1
  <2>3. boundedActive' = {a \in Agent : \E i \in Item : Processing(i)' /\ Executor(i) = a}
    <3>1. CASE ~BoundedTick(j)
      <4>1. ~Processing(j)
        BY <3>1 DEF Processing
      <4> QED BY <1>1, <2>1, <3>1, <4>1 DEF TicksInPlace
    <3>2. CASE BoundedTick(j)
      <4>1. Processing(j)
        BY <1>1, <3>2 DEF Processing
      <4>2. \A i \in Item : Processing(i) /\ Executor(i) = Executor(j) => i = j
        BY <3>2, <4>1 DEF TicksInPlace, Processing
      <4> QED BY <1>1, <2>1, <3>2, <4>2 DEF TicksInPlace
    <3> QED BY <3>1, <3>2
  <2> QED BY <2>1, <2>2, <2>3 DEF TicksInPlace
<1>9. StopInOrder'
  <2>1. stopper \notin {"supervisor", "done"}
    BY <1>1 DEF StopInOrder
  <2> QED BY <1>1, <2>1 DEF StopInOrder, supervisorVars, intakeVars, stopVars
<1> QED BY <1>1, <1>3, <1>4, <1>5, <1>6, <1>7, <1>8, <1>9, Frames
        DEF supervisorVars, intakeVars, stopVars

-----------------------------------------------------------------------------
(* Callers                                                                 *)

LEMMA CheckControlPreserves ==
    ASSUME ContinuousInv, NEW operation \in {"pause", "resume"}, NEW a \in Pausable,
           CheckControl(operation, a)
    PROVE  ContinuousInv'
<1> USE DEF ContinuousInv, TypeOK, CheckControl
<1>1. a \in Agent
  BY ContinuousAssumption
<1>2. StopTypeOK'
  BY <1>1 DEF StopTypeOK
<1> QED BY <1>2, Frames DEF supervisorVars, intakeVars, workVars

(* An agent goes from one state to another, while no stop is done.         *)
LEMMA AgentMovePreserves ==
    ASSUME ContinuousInv, NEW a \in Agent, NEW state \in Supervisor!AgentState,
           states' = [states EXCEPT ![a] = state], resuming' \subseteq Agent,
           stopper # "done", stopper' = stopper, control' \subseteq control,
           UNCHANGED <<attempts, jobs, intakeVars, workVars, life, drain>>
    PROVE  ContinuousInv'
<1> USE DEF ContinuousInv, TypeOK
<1>1. Supervisor!TypeOK'
  BY DEF Supervisor!TypeOK
<1>2. StopTypeOK'
  BY DEF StopTypeOK
<1>3. StopInOrder'
  BY DEF StopInOrder, intakeVars, workVars
<1> QED BY <1>1, <1>2, <1>3, Frames DEF intakeVars, workVars

LEMMA ControlPreserves ==
    ASSUME ContinuousInv, NEW operation \in {"pause", "resume"}, NEW a \in Pausable,
           Control(operation, a)
    PROVE  ContinuousInv'
<1> USE DEF ContinuousInv, TypeOK
<1>1. /\ a \in Agent /\ control' \subseteq control
      /\ UNCHANGED <<intakeVars, workVars, life, drain, stopper>>
  BY ContinuousAssumption DEF Control
<1>2. CASE UNCHANGED supervisorVars
  <2>1. StopTypeOK'
    BY <1>1 DEF StopTypeOK
  <2> QED BY <1>1, <1>2, <2>1, Frames DEF supervisorVars, intakeVars, workVars
<1>3. ASSUME NEW old \in {"running", "paused"}, NEW new \in {"running", "paused"},
             states[a] = old, Supervisor!SetState(a, new), UNCHANGED <<attempts, jobs, resuming>>
      PROVE  ContinuousInv'
  <2>1. stopper # "done"
    BY <1>1, <1>3 DEF StopInOrder
  <2>2. /\ states' = [states EXCEPT ![a] = new] /\ resuming' \subseteq Agent
        /\ new \in Supervisor!AgentState
    BY <1>3 DEF Supervisor!SetState, Supervisor!TypeOK, Supervisor!AgentState
  <2> QED BY <1>1, <1>3, <2>1, <2>2, AgentMovePreserves
<1>4. CASE Supervisor!Pause(a)
  BY <1>3, <1>4 DEF Supervisor!Pause
<1>5. CASE Supervisor!Resume(a)
  BY <1>3, <1>5 DEF Supervisor!Resume
<1>6. \/ Supervisor!Pause(a) \/ Supervisor!Resume(a) \/ UNCHANGED supervisorVars
  BY DEF Control
<1> QED BY <1>2, <1>4, <1>5, <1>6

(* The thread that stops goes on, fails, or begins again.                  *)
LEMMA StopperMovePreserves ==
    ASSUME ContinuousInv,
           NEW place \in {"resuming", "listed", "intervals", "failed"},
           stopper \in {"idle", "failed", "resuming", "listed"} \cup DOMAIN After,
           stopper' = place, drain' \in BOOLEAN,
           stopper = "idle" => life' = "stopping",
           stopper # "idle" => UNCHANGED <<life, drain>>,
           Supervisor!TypeOK', UNCHANGED jobs,
           UNCHANGED <<intakeVars, workVars, control>>
    PROVE  ContinuousInv'
<1> USE DEF ContinuousInv, TypeOK
<1>1. stopper # "done"
  BY DEF After
<1>2. StopTypeOK'
  BY DEF StopTypeOK, StopInOrder
<1>3. UNCHANGED drain \/ (stopper = "idle" /\ drain /\ ~busClosed)
  BY DEF StopInOrder
<1>4. DrainDropsNothing'
  <2>1. UNCHANGED <<published, fate>> /\ (drain' => drain)
    BY <1>3 DEF intakeVars, workVars
  <2> QED BY <2>1 DEF DrainDropsNothing
<1>5. StopInOrder'
  <2>1. ~busClosed => ~workersClosed
    BY DEF StopInOrder
  <2>2. UNCHANGED drain \/ (drain /\ ~workersClosed)
    BY <1>3, <2>1
  <2>3. life' # "running" /\ life' # "stopped"
    BY <1>1 DEF StopInOrder, StopTypeOK
  <2> QED BY <1>1, <2>2, <2>3 DEF StopInOrder, intakeVars, workVars
<1> QED BY <1>2, <1>4, <1>5, Frames DEF intakeVars, workVars

LEMMA BeginStopPreserves ==
    ASSUME ContinuousInv, NEW draining \in BOOLEAN, BeginStop(draining)
    PROVE  ContinuousInv'
<1>1. /\ stopper \in {"idle", "failed"} /\ stopper' = "resuming"
      /\ UNCHANGED <<intakeVars, workVars, control>>
  BY DEF BeginStop, StopperMoves
<1>2. life = "running" <=> stopper = "idle"
  BY DEF ContinuousInv, StopInOrder
<1>3. drain' \in BOOLEAN /\ (stopper = "idle" => life' = "stopping")
      /\ (stopper # "idle" => UNCHANGED <<life, drain>>)
  BY <1>2 DEF BeginStop, ContinuousInv, TypeOK, StopTypeOK
<1>4. Supervisor!TypeOK' /\ UNCHANGED jobs
  BY Frames DEF BeginStop, ContinuousInv, TypeOK, supervisorVars
<1> QED BY <1>1, <1>3, <1>4, StopperMovePreserves

LEMMA ListPausedPreserves ==
    ASSUME ContinuousInv, ListPaused
    PROVE  ContinuousInv'
<1>1. Supervisor!TypeOK' /\ UNCHANGED jobs
  BY DEF ListPaused, Supervisor!ListPaused, Supervisor!TypeOK, ContinuousInv, TypeOK
<1> QED BY <1>1, StopperMovePreserves
        DEF ListPaused, StopperMoves, ContinuousInv, TypeOK, StopTypeOK

LEMMA ResumeListedPreserves ==
    ASSUME ContinuousInv, ResumeListed
    PROVE  ContinuousInv'
<1>1. stopper = "listed" /\ UNCHANGED <<life, drain>> /\ drain \in BOOLEAN
  BY DEF ResumeListed, ContinuousInv, TypeOK, StopTypeOK
<1>2. ASSUME NEW a \in Agent, Supervisor!ResumeListed(a), StopperMoves("listed")
      PROVE  ContinuousInv'
  <2>1. Supervisor!TypeOK' /\ UNCHANGED jobs
    BY <1>2 DEF Supervisor!ResumeListed, Supervisor!SetState, Supervisor!TypeOK,
                Supervisor!AgentState, ContinuousInv, TypeOK
  <2> QED BY <1>1, <1>2, <2>1, StopperMovePreserves DEF StopperMoves
<1>3. CASE Supervisor!ResumeRaises /\ StopperMoves("failed")
  <2>1. Supervisor!TypeOK' /\ UNCHANGED jobs
    BY <1>3 DEF Supervisor!ResumeRaises, Supervisor!TypeOK, ContinuousInv, TypeOK
  <2> QED BY <1>1, <1>3, <2>1, StopperMovePreserves DEF StopperMoves
<1>4. CASE StopperMoves("intervals") /\ UNCHANGED supervisorVars
  <2>1. Supervisor!TypeOK' /\ UNCHANGED jobs
    BY <1>4, Frames DEF ContinuousInv, TypeOK, supervisorVars
  <2> QED BY <1>1, <1>4, <2>1, StopperMovePreserves DEF StopperMoves
<1> QED BY <1>2, <1>3, <1>4 DEF ResumeListed

LEMMA TimeoutPreserves ==
    ASSUME ContinuousInv, Timeout
    PROVE  ContinuousInv'
<1>1. /\ stopper \in DOMAIN After /\ stopper # "idle"
      /\ UNCHANGED <<supervisorVars, life, drain>> /\ drain \in BOOLEAN
  BY DEF Timeout, After, ContinuousInv, TypeOK, StopTypeOK
<1>2. Supervisor!TypeOK' /\ UNCHANGED jobs
  BY <1>1, Frames DEF ContinuousInv, TypeOK, supervisorVars
<1> QED BY <1>1, <1>2, StopperMovePreserves DEF Timeout, StopperMoves

LEMMA JoinPreserves ==
    ASSUME ContinuousInv, Join
    PROVE  ContinuousInv'
<1> USE DEF ContinuousInv, TypeOK
<1>1. /\ Joined(stopper) /\ stopper' = After[stopper]
      /\ busClosed' = (busClosed \/ stopper = "intervals")
      /\ UNCHANGED <<supervisorVars, published, bus, lastSequence, matched, workVars, life,
                     drain, control>>
  BY DEF Join
<1>2. stopper \in {"intervals", "dispatcher", "workers", "requests"}
  BY <1>1 DEF Joined
<1>3. stopper' = CASE stopper = "intervals" -> "dispatcher" [] stopper = "dispatcher" -> "workers"
                   [] stopper = "workers" -> "requests" [] OTHER -> "supervisor"
  BY <1>1, <1>2 DEF After
<1>4. StopTypeOK'
  BY <1>1, <1>2, <1>3 DEF StopTypeOK
<1>5. IntakeTypeOK'
  BY <1>1 DEF IntakeTypeOK
<1>6. life # "running"
  BY <1>2 DEF StopInOrder
<1>7. UNCHANGED <<workersClosed, queues, workers, requests, states, bus, matched, life, drain>>
  BY <1>1 DEF supervisorVars, workVars
<1>8. StopInOrder'
  <2>1. CASE stopper = "intervals"
    <3>1. stopper' = "dispatcher" /\ busClosed'
      BY <1>1, <1>3, <2>1
    <3> QED BY <1>6, <1>7, <2>1, <3>1 DEF StopInOrder
  <2>2. CASE stopper = "dispatcher"
    <3>1. workersClosed
      BY <1>1, <2>2 DEF Joined
    <3>2. stopper' = "workers" /\ busClosed' /\ busClosed
      BY <1>1, <1>3, <2>2 DEF StopInOrder
    <3> QED BY <1>6, <1>7, <2>2, <3>1, <3>2 DEF StopInOrder
  <2>3. CASE stopper = "workers"
    <3>1. \A a \in Agent : workers[a] = "exited"
      BY <1>1, <2>3 DEF Joined
    <3>2. stopper' = "requests" /\ busClosed' /\ busClosed /\ workersClosed
      BY <1>1, <1>3, <2>3 DEF StopInOrder
    <3> QED BY <1>6, <1>7, <2>3, <3>1, <3>2 DEF StopInOrder
  <2>4. CASE stopper = "requests"
    <3>1. \A j \in Item : requests[j] \notin {"submitted", "settled"}
      BY <1>1, <2>4 DEF Joined
    <3> QED BY <1>1, <1>3, <1>6, <1>7, <2>4, <3>1 DEF StopInOrder
  <2> QED BY <1>2, <2>1, <2>2, <2>3, <2>4
<1> QED BY <1>1, <1>4, <1>5, <1>8, Frames DEF supervisorVars, workVars

LEMMA StopSupervisorPreserves ==
    ASSUME ContinuousInv, StopSupervisor
    PROVE  ContinuousInv'
<1> USE DEF ContinuousInv, TypeOK
<1>1. /\ stopper = "supervisor" /\ UNCHANGED drain
      /\ UNCHANGED <<intakeVars, workVars, control>>
  BY DEF StopSupervisor, StopperMoves
<1>2. ASSUME NEW a \in Agent, Supervisor!Stop(a), stopper' = "supervisor", UNCHANGED life
      PROVE  ContinuousInv'
  <2>1. PICK state \in {"stopping", "stopped"} : states' = [states EXCEPT ![a] = state]
    BY <1>2 DEF Supervisor!Stop, Supervisor!SetState
  <2>2. UNCHANGED <<attempts, jobs, resuming>> /\ resuming \subseteq Agent
    BY <1>2 DEF Supervisor!Stop, Supervisor!TypeOK
  <2>3. state \in Supervisor!AgentState
    BY DEF Supervisor!AgentState
  <2> QED BY <1>1, <1>2, <2>1, <2>2, <2>3, AgentMovePreserves
<1>3. CASE /\ \A a \in Agent : states[a] = "stopped"
           /\ life' = "stopped" /\ stopper' = "done" /\ UNCHANGED supervisorVars
  <2>1. StopTypeOK'
    BY <1>1, <1>3 DEF StopTypeOK
  <2>2. StopInOrder'
    BY <1>1, <1>3 DEF StopInOrder, supervisorVars, intakeVars, workVars
  <2> QED BY <1>1, <1>3, <2>1, <2>2, Frames DEF supervisorVars, intakeVars, workVars
<1> QED BY <1>2, <1>3 DEF StopSupervisor, StopperMoves

-----------------------------------------------------------------------------
LEMMA InitInvariant == Init => ContinuousInv
<1> SUFFICES ASSUME Init PROVE ContinuousInv
  OBVIOUS
<1> USE DEF Init, Supervisor!Init
<1>1. Supervisor!TypeOK
  BY DEF Supervisor!TypeOK, Supervisor!AgentState
<1>2. IntakeTypeOK
  <2>1. <<>> \in Seq(Event) /\ <<>> \in Seq(Item)
    BY EmptyQueue
  <2>2. lastSequence \in [Source -> Int]
    OBVIOUS
  <2>3. published \in [Event -> {"new", "checked", "refused", "accepted", "dropped",
                                 "out-of-order", "dispatched"}]
    OBVIOUS
  <2> QED BY <2>1, <2>2, <2>3 DEF IntakeTypeOK
<1>3. WorkTypeOK
  BY EmptyQueue, SlotCounts DEF WorkTypeOK
<1>4. StopTypeOK
  BY DEF StopTypeOK
<1>5. EventsInPlace
  BY EmptyQueue DEF EventsInPlace
<1>6. ItemsInPlace /\ InlineAlone /\ LeasesHeld
  BY EmptyQueue, ItemParts DEF ItemsInPlace, InlineAlone, LeasesHeld
<1>7. LeasesWithinBudget
  <2>1. \A a \in Agent : {l \in {} : l.agent = a} = {}
    OBVIOUS
  <2> QED BY <2>1, FS_EmptySet, ContinuousAssumption DEF LeasesWithinBudget
<1>8. QueuesWithinBudget
  <2>1. UNION {{a} \X DOMAIN queues[a] : a \in Agent} = {}
    OBVIOUS
  <2>2. Queued = 0
    BY <2>1, FS_EmptySet DEF Queued
  <2> QED BY <2>2, ContinuousAssumption DEF QueuesWithinBudget
<1>9. SlotsAddUp
  <2>1. Slotted = {} /\ Submitted = {}
    BY ItemParts DEF Slotted, Submitted
  <2>2. freeSlots + Cardinality(Slotted) + Cardinality(Submitted) = RequestCapacity
    BY <2>1, FS_EmptySet, SlotCounts
  <2> QED BY <2>2 DEF SlotsAddUp, Slotted, Submitted
<1>10. TicksInPlace
  BY ItemParts DEF TicksInPlace, Processing
<1>11. DrainDropsNothing
  BY ItemParts DEF DrainDropsNothing
<1>12. StopInOrder
  BY ItemParts DEF StopInOrder
<1> QED BY <1>1, <1>2, <1>3, <1>4, <1>5, <1>6, <1>7, <1>8, <1>9, <1>10, <1>11, <1>12
        DEF ContinuousInv, TypeOK

LEMMA NextPreserves == ContinuousInv /\ [Next]_vars => ContinuousInv'
<1> SUFFICES ASSUME ContinuousInv, [Next]_vars PROVE ContinuousInv'
  OBVIOUS
<1>1. CASE UNCHANGED vars
  BY <1>1, Frames DEF vars, ContinuousInv, TypeOK, supervisorVars, intakeVars, workVars,
                      stopVars
<1>2. ASSUME NEW e \in Event, CheckedIn(e) \/ Put(e) PROVE ContinuousInv'
  BY <1>2, CheckedInPreserves, PutPreserves
<1>3. CASE Dispatcher
  BY <1>3, ReceivePreserves, EnqueuePreserves, EndDispatchPreserves DEF Dispatcher
<1>4. ASSUME NEW a \in Agent, Worker(a) PROVE ContinuousInv'
  BY <1>4, LookPreserves, UnparkPreserves, AwaitAgentPreserves, TakeSlotPreserves,
     ReservePreserves, SubmitPreserves, HandlePreserves DEF Worker
<1>5. ASSUME NEW j \in Item, Request(j) PROVE ContinuousInv'
  BY <1>5, BlockPreserves, SupervisedPreserves, StartRootPreserves, EndRootPreserves,
     StartDelegatePreserves, EndDelegatePreserves, ReturnPreserves, SettlePreserves,
     EndRequestPreserves DEF Request
<1>6. ASSUME NEW operation \in {"pause", "resume"}, NEW a \in Pausable,
             CheckControl(operation, a) \/ Control(operation, a)
      PROVE  ContinuousInv'
  BY <1>6, CheckControlPreserves, ControlPreserves
<1>7. ASSUME NEW draining \in BOOLEAN, BeginStop(draining) PROVE ContinuousInv'
  BY <1>7, BeginStopPreserves
<1>8. CASE ContinueStop
  BY <1>8, ListPausedPreserves, ResumeListedPreserves, JoinPreserves, TimeoutPreserves,
     StopSupervisorPreserves DEF ContinueStop
<1> QED BY <1>1, <1>2, <1>3, <1>4, <1>5, <1>6, <1>7, <1>8 DEF Next

-----------------------------------------------------------------------------
(* The inductive invariant of the continuous runtime.                      *)
THEOREM ContinuousInvariant == Spec => []ContinuousInv
BY InitInvariant, NextPreserves, PTL DEF Spec

(* Every variable keeps its type.                                          *)
THEOREM ContinuousTypes == Spec => []TypeOK
<1>1. ContinuousInv => TypeOK
  BY DEF ContinuousInv
<1> QED BY <1>1, ContinuousInvariant, PTL

(* A draining stop loses nothing that was accepted, however it overlaps    *)
(* with publications, the dispatcher and the workers.                      *)
THEOREM NothingLost == Spec => []DrainDropsNothing
<1>1. ContinuousInv => DrainDropsNothing
  BY DEF ContinuousInv
<1> QED BY <1>1, ContinuousInvariant, PTL

(* When stop() has returned nothing is queued, nothing executes, and every *)
(* lease and every request slot was given back: after timeouts, repeated   *)
(* calls, and publications and pauses that raced them.                     *)
THEOREM StopLeavesNothing == Spec => []StoppedIsQuiet
<1>1. ASSUME ContinuousInv, life = "stopped" PROVE StoppedIsQuiet
  <2> USE <1>1 DEF ContinuousInv, TypeOK
  <2>1. /\ bus = <<>> /\ matched = <<>> /\ stopper = "done"
        /\ \A a \in Agent : states[a] = "stopped" /\ workers[a] = "exited" /\ queues[a] = <<>>
        /\ \A j \in Item : requests[j] \notin {"submitted", "settled"}
    BY DEF StopInOrder
  <2>2. \A e \in Event : published[e] # "accepted"
    BY <2>1, EmptyQueue DEF EventsInPlace
  <2>3. ASSUME NEW j \in Item
        PROVE  fate[j] \notin {"queued", "running"} /\ Supervisor!Ended(j) /\ trees[j] = "none"
    <3>1. Executor(j) \in Agent
      BY ItemParts
    <3>2. requests[j] # "inline"
      BY <2>1, <3>1 DEF InlineAlone
    <3>3. fate[j] # "queued"
      BY <2>1, <3>1, EmptyQueue DEF ItemsInPlace
    <3>4. fate[j] # "running"
      BY <2>1, <3>2 DEF ItemsInPlace
    <3>5. jobs[j] \in {"idle", "returned", "raised"}
      BY <3>4 DEF ItemsInPlace, WorkTypeOK
    <3>6. trees[j] = "none"
      BY <3>5 DEF LeasesHeld
    <3> QED BY <3>3, <3>4, <3>5, <3>6 DEF Supervisor!Ended
  <2>4. leases = {}
    BY <2>1, <2>3 DEF LeasesHeld
  <2>5. boundedActive = {}
    BY <2>1 DEF TicksInPlace, Processing, WorkTypeOK
  <2>6. freeSlots = RequestCapacity
    <3>1. Slotted = {} /\ Submitted = {}
      BY <2>1 DEF Slotted, Submitted
    <3>2. freeSlots + Cardinality(Slotted) + Cardinality(Submitted) = RequestCapacity
      BY DEF SlotsAddUp, Slotted, Submitted
    <3> QED BY <3>1, <3>2, FS_EmptySet, SlotCounts DEF WorkTypeOK
  <2> QED BY <2>1, <2>2, <2>3, <2>4, <2>5, <2>6 DEF StoppedIsQuiet
<1>2. ContinuousInv => StoppedIsQuiet
  BY <1>1 DEF StoppedIsQuiet
<1> QED BY <1>2, ContinuousInvariant, PTL

(* While a tick of a bounded decision is queued or with a request thread,  *)
(* its agent has no second one.                                            *)
THEOREM TicksDoNotPile == Spec => []OneBoundedTick
<1>1. ASSUME ContinuousInv PROVE OneBoundedTick
  <2> SUFFICES ASSUME NEW a \in Agent
               PROVE  Cardinality({j \in Item : /\ BoundedTick(j) /\ Executor(j) = a
                                               /\ fate[j] \in {"queued", "running"}
                                               /\ requests[j] # "inline"}) <= 1
    BY DEF OneBoundedTick
  <2> DEFINE S == {j \in Item : /\ BoundedTick(j) /\ Executor(j) = a
                                /\ fate[j] \in {"queued", "running"} /\ requests[j] # "inline"}
  <2>1. \A j \in S : /\ j \in Item /\ BoundedTick(j) /\ Executor(j) = a
                     /\ Processing(j) \/ fate[j] = "queued"
    BY <1>1 DEF ContinuousInv, ItemsInPlace, Processing
  <2>2. \A i, j \in S : i = j
    BY <1>1, <2>1 DEF ContinuousInv, TicksInPlace
  <2> HIDE DEF S
  <2>3. CASE S = {}
    BY <2>3, FS_EmptySet DEF S
  <2>4. ASSUME NEW j \in S PROVE Cardinality(S) = 1
    <3>1. S = {j}
      BY <2>2
    <3> QED BY <3>1, FS_Singleton
  <2>5. Cardinality(S) <= 1
    BY <2>3, <2>4, FS_EmptySet
  <2> QED BY <2>5 DEF S
<1> QED BY <1>1, ContinuousInvariant, PTL

(* The invocations that execute, of one agent or of all, have a lease each.*)
LEMMA ExecutingLeased ==
    ASSUME ContinuousInv, NEW f, NEW S, S \subseteq Item, NEW L,
           f = [j \in S |-> Lease(j, IF trees[j] = "root" THEN Executor(j) ELSE DelegateOf[j])],
           \A j \in S : trees[j] \in {"root", "delegate"},
           L \subseteq leases, \A j \in S : f[j] \in L
    PROVE  Cardinality(S) \in Nat /\ Cardinality(S) <= Cardinality(L)
<1>1. IsFiniteSet(S) /\ IsFiniteSet(L)
  BY ItemsFinite, FS_Subset DEF ContinuousInv, LeasesWithinBudget
<1>2. \A j \in S : f[j].holder = j
  BY DEF Lease
<1>3. f \in Injection(S, L)
  BY <1>2 DEF Injection, IsInjective
<1> QED BY <1>1, <1>3, FS_Injection, FS_CardinalityType

(* The limits of the plan hold for queues, requests and invocations, for   *)
(* every mix of queued, submitted and delegated work.                      *)
THEOREM LimitsHold == Spec => []WithinBudget
<1>1. ASSUME ContinuousInv PROVE WithinBudget
  <2> USE <1>1 DEF ContinuousInv, TypeOK
  <2>1. \A j \in Item : /\ Executor(j) \in Agent
                        /\ trees[j] = "delegate" => DelegateOf[j] \in Agent
    BY ItemParts, ContinuousAssumption DEF LeasesHeld
  <2>2. ASSUME NEW a \in Agent PROVE Executing(a) <= Concurrency[a]
    <3> DEFINE R == {j \in Item : trees[j] = "root" /\ Executor(j) = a}
               D == {j \in Item : trees[j] = "delegate" /\ DelegateOf[j] = a}
               L == {l \in leases : l.agent = a}
               S == R \cup D
               f == [j \in S |-> Lease(j, IF trees[j] = "root" THEN Executor(j)
                                          ELSE DelegateOf[j])]
    <3>1. /\ S \subseteq Item /\ L \subseteq leases /\ R \cap D = {}
          /\ \A j \in S : trees[j] \in {"root", "delegate"} /\ f[j] \in L
      BY DEF LeasesHeld, Lease
    <3>2. IsFiniteSet(R) /\ IsFiniteSet(D)
      BY ItemsFinite, FS_Subset
    <3>3. Cardinality(L) <= Concurrency[a] /\ Concurrency[a] \in Nat
      BY ContinuousAssumption DEF LeasesWithinBudget
    <3>4. IsFiniteSet(L)
      BY FS_Subset DEF LeasesWithinBudget
    <3>5. Executing(a) = Cardinality(R) + Cardinality(D)
      BY DEF Executing
    <3> HIDE DEF R, D, L
    <3>6. Cardinality(S) = Cardinality(R) + Cardinality(D)
      <4>1. Cardinality(R \cap D) = 0
        BY <3>1, FS_EmptySet
      <4>2. Cardinality(R) \in Nat /\ Cardinality(D) \in Nat
        BY <3>2, FS_CardinalityType
      <4>3. Cardinality(R \cup D) = Cardinality(R) + Cardinality(D) - Cardinality(R \cap D)
        BY <3>2, FS_Union
      <4> QED BY <4>1, <4>2, <4>3
    <3>7. Cardinality(S) \in Nat /\ Cardinality(S) <= Cardinality(L)
      <4> HIDE DEF S
      <4> QED BY <3>1, ExecutingLeased
    <3> QED BY <3>3, <3>4, <3>5, <3>6, <3>7, FS_CardinalityType
  <2>3. Cardinality({j \in Item : trees[j] \in {"root", "delegate"}}) <= MaxConcurrent
    <3> DEFINE S == {j \in Item : trees[j] \in {"root", "delegate"}}
               f == [j \in S |-> Lease(j, IF trees[j] = "root" THEN Executor(j)
                                          ELSE DelegateOf[j])]
    <3>1. S \subseteq Item /\ \A j \in S : trees[j] \in {"root", "delegate"} /\ f[j] \in leases
      BY DEF LeasesHeld
    <3> HIDE DEF S
    <3>2. Cardinality(S) \in Nat /\ Cardinality(S) <= Cardinality(leases)
      BY <3>1, ExecutingLeased
    <3>3. Cardinality(leases) \in Nat /\ Cardinality(leases) <= MaxConcurrent
      BY FS_CardinalityType DEF LeasesWithinBudget
    <3> QED BY <3>2, <3>3, ContinuousAssumption DEF S
  <2> QED BY <2>2, <2>3 DEF WithinBudget, QueuesWithinBudget, SlotsAddUp
<1> QED BY <1>1, ContinuousInvariant, PTL

-----------------------------------------------------------------------------
(* The runtime as a user of the supervisor                                 *)

(* The runtime asks of the supervisor only what its specification allows:  *)
(* above all, it stops agents when no job executes.                        *)
THEOREM UsesSupervisor == Spec => Supervisor!Spec
<1>1. Init => Supervisor!Init
  BY DEF Init
<1>2. ContinuousInv /\ [Next]_vars => [Supervisor!Next]_Supervisor!vars
  <2> SUFFICES ASSUME ContinuousInv, [Next]_vars
               PROVE  [Supervisor!Next]_Supervisor!vars
    OBVIOUS
  <2> USE DEF Supervisor!vars, supervisorVars
  <2>1. CASE UNCHANGED vars
    BY <2>1 DEF vars
  <2>2. ASSUME NEW e \in Event, CheckedIn(e) \/ Put(e) PROVE UNCHANGED supervisorVars
    BY <2>2 DEF CheckedIn, Put
  <2>3. CASE Dispatcher
    BY <2>3 DEF Dispatcher, Receive, Enqueue, EndDispatch
  <2>4. ASSUME NEW a \in Agent, Worker(a) PROVE [Supervisor!Next]_Supervisor!vars
    <3>1. CASE Look(a) \/ Unpark(a) \/ AwaitAgent(a) \/ TakeSlot(a) \/ Reserve(a)
      BY <3>1 DEF Look, Unpark, AwaitAgent, TakeSlot, Reserve
    <3>2. CASE Submit(a) \/ Handle(a)
      <4>1. CASE queues[a] = <<>>
        BY <3>2, <4>1 DEF Submit, Handle
      <4>2. CASE queues[a] # <<>>
        <5> DEFINE j == Head(queues[a])
        <5>1. Supervisor!Execute(j)
          BY <3>2, <4>2 DEF Submit, Handle
        <5>2. j \in Item
          BY <4>2, TailQueue DEF ContinuousInv, ItemsInPlace, TypeOK, WorkTypeOK
        <5> QED BY <5>1, <5>2 DEF Supervisor!Next
      <4> QED BY <4>1, <4>2
    <3> QED BY <2>4, <3>1, <3>2 DEF Worker
  <2>5. ASSUME NEW j \in Item, Request(j) PROVE [Supervisor!Next]_Supervisor!vars
    <3>1. ASSUME Supervisor!JobStep(j) PROVE Supervisor!Next
      BY <3>1 DEF Supervisor!Next
    <3>2. CASE Block(j)
      BY <3>1, <3>2 DEF Block, Supervisor!JobStep
    <3>3. CASE Supervised(j)
      BY <3>1, <3>3 DEF Supervised, Supervisor!JobStep
    <3>4. CASE StartRoot(j)
      BY <3>1, <3>4 DEF StartRoot, Supervisor!JobStep
    <3>5. CASE Return(j)
      BY <3>1, <3>5 DEF Return, Supervisor!JobStep
    <3>6. ASSUME NEW result \in {"succeeded", "failing", "raising"}, EndRoot(j, result)
          PROVE  UNCHANGED supervisorVars
      BY <3>6 DEF EndRoot
    <3>7. CASE StartDelegate(j) \/ EndDelegate(j) \/ Settle(j) \/ EndRequest(j)
      BY <3>7 DEF StartDelegate, EndDelegate, Settle, EndRequest
    <3> QED BY <2>5, <3>2, <3>3, <3>4, <3>5, <3>6, <3>7 DEF Request
  <2>6. ASSUME NEW operation \in {"pause", "resume"}, NEW a \in Pausable,
               CheckControl(operation, a) \/ Control(operation, a)
        PROVE  [Supervisor!Next]_Supervisor!vars
    <3>1. a \in Agent
      BY ContinuousAssumption
    <3>2. \/ UNCHANGED supervisorVars \/ Supervisor!Pause(a) \/ Supervisor!Resume(a)
      BY <2>6 DEF CheckControl, Control
    <3> QED BY <3>1, <3>2 DEF Supervisor!Next
  <2>7. ASSUME NEW draining \in BOOLEAN, BeginStop(draining) PROVE UNCHANGED supervisorVars
    BY <2>7 DEF BeginStop
  <2>8. CASE ContinueStop
    <3>1. CASE ListPaused
      BY <3>1 DEF ListPaused, Supervisor!Next
    <3>2. CASE ResumeListed
      BY <3>2 DEF ResumeListed, Supervisor!Next
    <3>3. CASE Join \/ Timeout
      BY <3>3 DEF Join, Timeout
    <3>4. CASE StopSupervisor
      <4>1. ASSUME NEW j \in Item PROVE Supervisor!Ended(j)
        BY <3>4, LiveJob DEF StopSupervisor, Supervisor!Ended
      <4> QED BY <3>4, <4>1 DEF StopSupervisor, Supervisor!Next
    <3> QED BY <2>8, <3>1, <3>2, <3>3, <3>4 DEF ContinueStop
  <2> QED BY <2>1, <2>2, <2>3, <2>4, <2>5, <2>6, <2>7, <2>8 DEF Next
<1> QED BY <1>1, <1>2, ContinuousInvariant, PTL DEF Spec, Supervisor!Spec

SupervisorProofs == INSTANCE AgentSupervisorProofs WITH
    Job <- Item, AgentOf <- [j \in Item |-> Executor(j)],
    Tolerant <- {j \in Item : BoundedTick(j)}

(* So what is proved of the supervisor alone holds in the runtime, whatever*)
(* runs around it: the restart budget, ...                                 *)
LEMMA SupervisorSpecAgain ==
    /\ SupervisorProofs!SupervisorAssumption
    /\ Supervisor!Spec => SupervisorProofs!Spec
<1>1. SupervisorProofs!SupervisorAssumption
  BY ItemParts, ContinuousAssumption DEF SupervisorProofs!SupervisorAssumption
<1>2. Supervisor!Init => SupervisorProofs!Init
  BY DEF Supervisor!Init, SupervisorProofs!Init
<1>3. Supervisor!vars = SupervisorProofs!vars
  BY DEF Supervisor!vars, SupervisorProofs!vars
<1>4. \A j \in Item :
         /\ Supervisor!Execute(j) => SupervisorProofs!Execute(j)
         /\ Supervisor!Block(j) => SupervisorProofs!Block(j)
         /\ Supervisor!Pass(j) => SupervisorProofs!Pass(j)
         /\ Supervisor!NotRunning(j) => SupervisorProofs!NotRunning(j)
         /\ Supervisor!Invoke(j) => SupervisorProofs!Invoke(j)
         /\ Supervisor!Succeed(j) => SupervisorProofs!Succeed(j)
         /\ \A place : Supervisor!Fail(j, place) => SupervisorProofs!Fail(j, place)
         /\ Supervisor!Recover(j) => SupervisorProofs!Recover(j)
         /\ Supervisor!Restart(j) => SupervisorProofs!Restart(j)
         /\ Supervisor!Ended(j) => SupervisorProofs!Ended(j)
  BY Zenon DEF Supervisor!Execute, SupervisorProofs!Execute, Supervisor!Block,
         SupervisorProofs!Block, Supervisor!Pass, SupervisorProofs!Pass,
         Supervisor!NotRunning, SupervisorProofs!NotRunning, Supervisor!Invoke,
         SupervisorProofs!Invoke, Supervisor!Succeed, SupervisorProofs!Succeed,
         Supervisor!Fail, SupervisorProofs!Fail, Supervisor!Recover,
         SupervisorProofs!Recover, Supervisor!Restart, SupervisorProofs!Restart,
         Supervisor!Ended, SupervisorProofs!Ended, Supervisor!Moves, SupervisorProofs!Moves,
         Supervisor!State, SupervisorProofs!State, Supervisor!Waits, SupervisorProofs!Waits,
         Supervisor!GiveUp, SupervisorProofs!GiveUp, Supervisor!SetState,
         SupervisorProofs!SetState
<1>5. \A a \in Agent :
         /\ Supervisor!Pause(a) => SupervisorProofs!Pause(a)
         /\ Supervisor!Resume(a) => SupervisorProofs!Resume(a)
         /\ Supervisor!ResumeListed(a) => SupervisorProofs!ResumeListed(a)
         /\ Supervisor!Stop(a) => SupervisorProofs!Stop(a)
  BY Zenon DEF Supervisor!Pause, SupervisorProofs!Pause, Supervisor!Resume,
         SupervisorProofs!Resume, Supervisor!ResumeListed, SupervisorProofs!ResumeListed,
         Supervisor!Stop, SupervisorProofs!Stop, Supervisor!SetState, SupervisorProofs!SetState
<1>6. /\ Supervisor!ListPaused => SupervisorProofs!ListPaused
      /\ Supervisor!ResumeRaises => SupervisorProofs!ResumeRaises
  BY Zenon DEF Supervisor!ListPaused, SupervisorProofs!ListPaused, Supervisor!ResumeRaises,
         SupervisorProofs!ResumeRaises
<1>7. Supervisor!Next => SupervisorProofs!Next
  BY <1>4, <1>5, <1>6 DEF Supervisor!Next, SupervisorProofs!Next, Supervisor!JobStep,
     SupervisorProofs!JobStep
<1>8. [Supervisor!Next]_Supervisor!vars => [SupervisorProofs!Next]_SupervisorProofs!vars
  BY <1>7 DEF Supervisor!vars, SupervisorProofs!vars
<1> QED BY <1>1, <1>2, <1>8, PTL DEF Supervisor!Spec, SupervisorProofs!Spec

(* In the running system too nobody restarts an agent beyond its budget:   *)
(* the supervisor's theorem holds of the requests that drive it, ...       *)
THEOREM RuntimeKeepsBudget == Spec => []Supervisor!RestartBudget
<1>1. SupervisorProofs!Spec => []SupervisorProofs!RestartBudget
  BY SupervisorSpecAgain, SupervisorProofs!BudgetRespected
<1>2. SupervisorProofs!RestartBudget => Supervisor!RestartBudget
  BY DEF Supervisor!RestartBudget, SupervisorProofs!RestartBudget
<1> QED BY <1>1, <1>2, SupervisorSpecAgain, UsesSupervisor, PTL

(* ... and an agent that failed, or was stopped, never runs again.         *)
THEOREM RuntimeDoesNotResurrect == Spec => Supervisor!NoResurrection
<1>1. SupervisorProofs!Spec => SupervisorProofs!NoResurrection
  BY SupervisorSpecAgain, SupervisorProofs!FailedStaysFailed
<1>2. SupervisorProofs!NoResurrection => Supervisor!NoResurrection
  BY PTL DEF Supervisor!NoResurrection, SupervisorProofs!NoResurrection, Supervisor!vars,
             SupervisorProofs!vars
<1> QED BY <1>1, <1>2, SupervisorSpecAgain, UsesSupervisor, PTL
=============================================================================

------------------------- MODULE MessageRoutingProofs -------------------------
(***************************************************************************)
(* Theorems about PlanCompiler and MessageRouting for any documents,       *)
(* requests, delegations, budgets and capacities: a compiled plan is       *)
(* consistent, a subnet that is reported exhausted is full, a run refuses  *)
(* a compiled plan for a cycle in its hierarchy alone, and a request that  *)
(* returns has accounted for everything it sent.                           *)
(***************************************************************************)
EXTENDS MessageRouting, FiniteSetTheorems, SequenceTheorems, NaturalsInduction,
        WellFoundedInduction, TLAPS

-----------------------------------------------------------------------------
(* The least of some numbers.                                              *)
LEMMA LeastNumber ==
    ASSUME NEW T \in SUBSET Nat, T # {}
    PROVE  Min(T) \in T /\ \A m \in T : Min(T) <= m
<1> DEFINE Less == {p \in Nat \X Nat : p[1] < p[2]}
<1>1. IsWellFoundedOn(Less, Nat)
  BY NatLessThanWellFounded DEF OpToRel
<1> HIDE DEF Less
<1>2. PICK n \in T : \A m \in T : <<m, n>> \notin Less
  BY <1>1, WFMin
<1>3. ASSUME NEW m \in T PROVE n <= m
  <2>1. m \in Nat /\ n \in Nat /\ <<m, n>> \in Nat \X Nat
    OBVIOUS
  <2>2. ~(m < n)
    BY <1>2, <2>1 DEF Less
  <2> QED BY <2>1, <2>2
<1> QED BY <1>3 DEF Min

-----------------------------------------------------------------------------
(* The plan and its graph.                                                 *)

(* The values of a function on a finite set are finitely many.             *)
LEMMA ImageFinite ==
    ASSUME NEW S, IsFiniteSet(S), NEW f, DOMAIN f = S, NEW T, T = {f[x] : x \in S}
    PROVE  IsFiniteSet(T)
<1> DEFINE g == [x \in S |-> f[x]]
<1>1. g \in Surjection(S, T)
  BY DEF Surjection
<1> QED BY <1>1, FS_Surjection

(* What a function on a finite set covers is finite.                       *)
LEMMA CoveredFinite ==
    ASSUME NEW S, IsFiniteSet(S), NEW f, DOMAIN f = S, NEW T, \A y \in T : \E x \in S : y = f[x]
    PROVE  IsFiniteSet(T) /\ Cardinality(T) <= Cardinality(S) /\ Cardinality(T) \in Nat
<1> DEFINE I == {f[x] : x \in S}
           g == [x \in S |-> f[x]]
<1>1. g \in Surjection(S, I)
  BY DEF Surjection
<1>2. IsFiniteSet(I) /\ Cardinality(I) <= Cardinality(S)
  BY <1>1, FS_Surjection
<1>3. T \subseteq I
  OBVIOUS
<1>4. IsFiniteSet(T) /\ Cardinality(T) <= Cardinality(I)
  BY <1>2, <1>3, FS_Subset
<1> QED BY <1>2, <1>4, FS_CardinalityType

(* The entries of a list are finitely many.                                *)
LEMMA FiniteRange ==
    ASSUME NEW s, IsList(s)
    PROVE  IsFiniteSet(Range(s))
<1>1. s \in Seq(Range(s)) /\ DOMAIN s = 1 .. Len(s) /\ Len(s) \in Nat
  BY DEF IsList
<1>2. IsFiniteSet(DOMAIN s)
  BY <1>1, FS_Interval
<1>3. Range(s) = {s[x] : x \in DOMAIN s}
  BY DEF Range
<1> QED BY <1>2, <1>3, ImageFinite

(* A document places finitely many agents.                                 *)
LEMMA GroupsFinite ==
    ASSUME doc \in Documents, NEW d \in Deployments
    PROVE  IsFiniteSet(Groups(d))
<1>1. IsFiniteSet(Resources)
  BY FiniteRange, DocumentsAssumption DEF Resources
<1> DEFINE S == {r \in OfKind(d.kind) :
                    (d.names = {} \/ r.name \in d.names) /\ d.label \in {0, r.label}}
<1>2. IsFiniteSet(S)
  BY <1>1, FS_Subset DEF OfKind
<1>3. IsFiniteSet(Selected(d))
  <2>1. Selected(d) = {r.name : r \in S}
    BY DEF Selected
  <2> HIDE DEF S
  <2> DEFINE f == [r \in S |-> r.name]
  <2>2. Selected(d) = {f[r] : r \in S} /\ DOMAIN f = S
    BY <2>1
  <2> HIDE DEF f
  <2> QED BY <1>2, <2>2, ImageFinite
<1> DEFINE N == Selected(d)
           L == {Resource(n).label : n \in N}
           PerTarget == {<<d.name \o n, {n}>> : n \in N}
           PerGroup == {<<d.name \o <<Slug[l]>>, {n \in N : Resource(n).label = l}>> : l \in L}
<1>4. Groups(d) = CASE d.cardinality = "singleton" -> {<<d.name, N>>}
                    [] d.cardinality = "per-target" -> PerTarget
                    [] d.cardinality = "per-group" -> PerGroup
  BY DEF Groups
<1>5. IsFiniteSet(N)
  BY <1>3
<1> HIDE DEF N, S
<1>6. IsFiniteSet({<<d.name, N>>})
  BY FS_Singleton
<1>7. IsFiniteSet(PerTarget)
  <2> DEFINE f == [n \in N |-> <<d.name \o n, {n}>>]
  <2>1. PerTarget = {f[n] : n \in N} /\ DOMAIN f = N
    OBVIOUS
  <2> HIDE DEF f, PerTarget
  <2> QED BY <1>5, <2>1, ImageFinite
<1>8. IsFiniteSet(PerGroup)
  <2>1. IsFiniteSet(L)
    <3> DEFINE f == [n \in N |-> Resource(n).label]
    <3>1. L = {f[n] : n \in N} /\ DOMAIN f = N
      OBVIOUS
    <3> HIDE DEF f, L
    <3> QED BY <1>5, <3>1, ImageFinite
  <2> HIDE DEF L
  <2> DEFINE f == [l \in L |-> <<d.name \o <<Slug[l]>>, {n \in N : Resource(n).label = l}>>]
  <2>2. PerGroup = {f[l] : l \in L} /\ DOMAIN f = L
    OBVIOUS
  <2> HIDE DEF f, PerGroup
  <2> QED BY <2>1, <2>2, ImageFinite
<1> HIDE DEF PerTarget, PerGroup
<1>9. d.cardinality \in {"singleton", "per-target", "per-group"}
  BY DocumentsAssumption DEF Deployments, Range
<1> QED BY <1>4, <1>6, <1>7, <1>8, <1>9

LEMMA InstancesFinite ==
    ASSUME doc \in Documents
    PROVE  IsFiniteSet(Instances)
<1>1. IsFiniteSet(Deployments)
  BY FiniteRange, DocumentsAssumption DEF Deployments
<1> DEFINE f == [d \in Deployments |->
                    {[id |-> g[1], deployment |-> d.name, targets |-> g[2]] : g \in Groups(d)}]
<1>2. ASSUME NEW d \in Deployments PROVE IsFiniteSet(f[d])
  <2> DEFINE G == Groups(d)
  <2> DEFINE h == [g \in G |-> [id |-> g[1], deployment |-> d.name, targets |-> g[2]]]
  <2>1. f[d] = {h[g] : g \in G} /\ DOMAIN h = G
    OBVIOUS
  <2>2. IsFiniteSet(G)
    BY GroupsFinite
  <2> HIDE DEF G, h, f
  <2> QED BY <2>1, <2>2, ImageFinite
<1> DEFINE F == {f[d] : d \in Deployments}
<1>3. Instances = UNION F /\ DOMAIN f = Deployments
  BY DEF Instances
<1> HIDE DEF f
<1>4. \A T \in F : IsFiniteSet(T)
  BY <1>2
<1>5. IsFiniteSet(F)
  <2>1. F = {f[d] : d \in Deployments}
    OBVIOUS
  <2> HIDE DEF F
  <2> QED BY <1>1, <1>3, <2>1, ImageFinite
<1> QED BY <1>3, <1>4, <1>5, FS_UNION

LEMMA AgentsFinite ==
    ASSUME IsFiniteSet(instances)
    PROVE  IsFiniteSet(Agents)
<1> DEFINE f == [a \in instances |-> a.id]
<1>1. Agents = {f[a] : a \in instances} /\ DOMAIN f = instances
  BY DEF Agents
<1> HIDE DEF f
<1> QED BY <1>1, ImageFinite

(* Edges join agents of the plan.                                          *)
LEMMA EdgesJoinAgents ==
    ASSUME doc \in Documents, NEW e \in CoordinationEdges
    PROVE  e \in Agents \X Agents
<1>1. \A d : Of(d) \subseteq Agents
  BY DEF Of, Agents
<1>2. Coordination.mode \in {"independent", "centralized", "hierarchical", "distributed"}
  BY DocumentsAssumption DEF ModeConfigured, Coordination
<1>3. PeerEdges \subseteq Agents \X Agents
  BY DEF PeerEdges, Agents
<1>4. CASE Coordination.mode = "independent"
  BY <1>4 DEF CoordinationEdges
<1>5. CASE Coordination.mode = "centralized"
  BY <1>1, <1>5 DEF CoordinationEdges
<1>6. CASE Coordination.mode = "hierarchical"
  BY <1>1, <1>6 DEF CoordinationEdges
<1>7. CASE Coordination.mode = "distributed"
  BY <1>3, <1>7 DEF CoordinationEdges
<1> QED BY <1>2, <1>4, <1>5, <1>6, <1>7

(* A coordinator is one agent, which may delegate to all others.           *)
LEMMA OneCoordinator ==
    ASSUME PlanTypeOK, EdgesOfPlan, stage = "compiled", Coordination.mode = "centralized"
    PROVE  \E c \in Agents : edges = {c} \X (Agents \ {c})
<1> DEFINE C == Of(Coordination.coordinator)
<1>1. C \subseteq Agents /\ Cardinality(C) = 1
  BY DEF Of, Agents, EdgesOfPlan, CoordinationFits
<1>2. IsFiniteSet(C)
  BY <1>1, AgentsFinite, FS_Subset DEF PlanTypeOK
<1>3. PICK c : C = {c}
  BY <1>1, <1>2, FS_Singleton
<1>4. edges = C \X (Agents \ C)
  BY DEF EdgesOfPlan, CoordinationEdges
<1> QED BY <1>1, <1>3, <1>4

(* The graph refuses no plan for its shape, other than for an agent of a   *)
(* hierarchy that is its own superior.                                     *)
LEMMA ShapeOfPlan ==
    ASSUME PlanTypeOK, EdgesOfPlan, stage = "compiled"
    PROVE  /\ Coordination.mode # "hierarchical" => ShapeFits
           /\ ~ShapeFits => \E a \in Agents : <<a, a>> \in edges
<1>1. edges = CoordinationEdges /\ doc \in Documents
  BY DEF EdgesOfPlan, PlanTypeOK
<1>2. \A e \in edges : e \in Agents \X Agents
  BY <1>1, EdgesJoinAgents
<1>3. Coordination.mode \in {"independent", "centralized", "hierarchical", "distributed"}
  BY <1>1, DocumentsAssumption DEF ModeConfigured, Coordination
<1>4. CASE Coordination.mode = "independent"
  BY <1>1, <1>4 DEF CoordinationEdges, ShapeFits
<1>5. CASE Coordination.mode = "centralized"
  <2>1. PICK c \in Agents : edges = {c} \X (Agents \ {c})
    BY <1>5, OneCoordinator
  <2>2. \A e \in edges : e[1] # e[2] /\ {e[1], e[2]} \subseteq Agents
    BY <2>1
  <2> QED BY <1>5, <2>1, <2>2 DEF ShapeFits
<1>6. CASE Coordination.mode = "distributed"
  <2>1. edges = PeerEdges
    BY <1>1, <1>6 DEF CoordinationEdges
  <2>2. ASSUME NEW e \in edges PROVE e[1] # e[2] /\ <<e[2], e[1]>> \in edges
    <3>1. PICK p \in instances \X instances :
              /\ e = <<p[1].id, p[2].id>> /\ p[1].id # p[2].id
              /\ Coordination.peers = "all" \/ Adjacent(p[1], p[2])
      BY <2>1, <2>2 DEF PeerEdges
    <3> DEFINE q == <<p[2], p[1]>>
    <3>2. q \in instances \X instances /\ q[1] = p[2] /\ q[2] = p[1]
      OBVIOUS
    <3>3. Adjacent(p[1], p[2]) => Adjacent(p[2], p[1])
      <4> SUFFICES ASSUME NEW m \in p[1].targets, NEW n \in p[2].targets, {m, n} \in Neighbors
                   PROVE  Adjacent(p[2], p[1])
        BY DEF Adjacent
      <4>1. {n, m} = {m, n}
        OBVIOUS
      <4> QED BY <4>1 DEF Adjacent
    <3>4. <<q[1].id, q[2].id>> \in PeerEdges
      BY <3>1, <3>2, <3>3 DEF PeerEdges
    <3> QED BY <2>1, <3>1, <3>2, <3>4
  <2> QED BY <1>2, <1>6, <2>2 DEF ShapeFits
<1>7. CASE Coordination.mode = "hierarchical"
  BY <1>2, <1>7 DEF ShapeFits
<1> QED BY <1>3, <1>4, <1>5, <1>6, <1>7

LEMMA InitGraph == PlanInit => GraphInPlace
  BY FS_EmptySet
       DEF PlanInit, GraphInPlace, PlanTypeOK, EdgesOfPlan, VisitInOrder, PlanIsExecutable

(* As long as the plan is not complete no graph is made of it.             *)
LEMMA BeforeThePlan ==
    ASSUME GraphInPlace, stage # "compiled", UNCHANGED <<doc, graph, visited>>,
           stage' \in {"resources", "adapters", "links", "addresses", "allocate", "macs",
                       "reserve", "dpids", "instances", "coordination", "refused"},
           IsFiniteSet(instances')
    PROVE  GraphInPlace'
<1>1. graph' = "none" /\ visited' = {}
  BY DEF GraphInPlace, EdgesOfPlan, VisitInOrder, PlanTypeOK
<1> QED BY <1>1 DEF GraphInPlace, PlanTypeOK, EdgesOfPlan, VisitInOrder, PlanIsExecutable

LEMMA CompileGraph ==
    ASSUME GraphInPlace,
           \/ CheckResources \/ DeclareAdapter \/ EndResource \/ ResolveLink \/ LinksResolved
           \/ ReserveFixed \/ AllocateAddress \/ ReserveMacs \/ AllocateMac
           \/ ReserveDpids \/ AllocateDpid \/ CompileInstances
    PROVE  GraphInPlace'
<1>1. CASE CompileInstances
  <2>1. IsFiniteSet(instances')
    BY <1>1, InstancesFinite DEF CompileInstances, GraphInPlace, PlanTypeOK, Refuse
  <2> QED BY <1>1, <2>1, BeforeThePlan DEF CompileInstances, Refuse
<1>2. CASE CheckResources \/ DeclareAdapter \/ EndResource \/ LinksResolved \/ ReserveFixed
  BY <1>2, BeforeThePlan
       DEF CheckResources, DeclareAdapter, EndResource, LinksResolved, ReserveFixed,
     Refuse, GraphInPlace, PlanTypeOK
<1>3. CASE ResolveLink
  BY <1>3, BeforeThePlan DEF ResolveLink, Refuse, GraphInPlace, PlanTypeOK
<1>4. CASE AllocateAddress \/ ReserveMacs \/ AllocateMac
  BY <1>4, BeforeThePlan
       DEF AllocateAddress, ReserveMacs, AllocateMac, Refuse, GraphInPlace, PlanTypeOK
<1>5. CASE ReserveDpids \/ AllocateDpid
  BY <1>5, BeforeThePlan DEF ReserveDpids, AllocateDpid, Refuse, GraphInPlace, PlanTypeOK
<1> QED BY <1>1, <1>2, <1>3, <1>4, <1>5

LEMMA CoordinateGraph ==
    ASSUME GraphInPlace, Coordinate
    PROVE  GraphInPlace'
<1>1. CASE CoordinationFits
  <2>1. stage' = "compiled" /\ edges' = CoordinationEdges
    BY <1>1 DEF Coordinate
  <2>2. graph = "none" /\ visited = {}
    BY DEF Coordinate, GraphInPlace, EdgesOfPlan, VisitInOrder, PlanTypeOK
  <2>3. UNCHANGED <<doc, adapters, links, instances, graph, visited>>
    BY DEF Coordinate
  <2>4. CoordinationFits' /\ CoordinationEdges' = CoordinationEdges
    BY <1>1, <2>3 DEF CoordinationFits, CoordinationEdges, Coordination, Of, Deployments,
       Agents, PeerEdges, Adjacent, Neighbors, Owner
  <2> QED BY <2>1, <2>2, <2>3, <2>4 DEF GraphInPlace, PlanTypeOK, EdgesOfPlan, VisitInOrder,
          PlanIsExecutable
<1>2. CASE ~CoordinationFits
  BY <1>2, BeforeThePlan DEF Coordinate, Refuse, GraphInPlace, PlanTypeOK
<1> QED BY <1>1, <1>2

(* Once there is a plan, it stays.                                         *)
LEMMA PlanStays ==
    ASSUME GraphInPlace, stage = "compiled",
           UNCHANGED <<doc, stage, error, adapters, links, candidate, dpid, instances, edges>>
    PROVE  /\ Agents' = Agents /\ Coordination' = Coordination
           /\ EdgesOfPlan' /\ (ShapeFits' <=> ShapeFits)
           /\ \A S : Cyclic(S)' <=> Cyclic(S)
<1>1. Agents' = Agents /\ Coordination' = Coordination
  BY DEF Agents, Coordination
<1>2. (CoordinationFits' <=> CoordinationFits) /\ CoordinationEdges' = CoordinationEdges
  BY <1>1 DEF CoordinationFits, CoordinationEdges, Of, Deployments, PeerEdges, Adjacent,
     Neighbors, Owner
<1> QED BY <1>1, <1>2 DEF GraphInPlace, EdgesOfPlan, ShapeFits, Cyclic

LEMMA BuildPlan ==
    ASSUME GraphInPlace, BuildGraph
    PROVE  GraphInPlace'
<1>1. /\ stage = "compiled" /\ visited = {} /\ visited' = {}
      /\ UNCHANGED <<doc, stage, error, adapters, links, candidate, dpid, instances, edges>>
  BY DEF BuildGraph, GraphInPlace, VisitInOrder
<1>2. /\ Agents' = Agents /\ Coordination' = Coordination
      /\ EdgesOfPlan' /\ (ShapeFits' <=> ShapeFits)
  BY <1>1, PlanStays
<1>3. PlanTypeOK'
  BY <1>1 DEF BuildGraph, GraphInPlace, PlanTypeOK
<1>4. CASE ~ShapeFits
  <2>1. graph' = "refused"
    BY <1>4 DEF BuildGraph
  <2>2. /\ Coordination.mode = "hierarchical"
        /\ \E a \in Agents : <<a, a>> \in edges
    BY <1>1, <1>4, ShapeOfPlan DEF GraphInPlace
  <2>3. \E S \in (SUBSET Agents) \ {{}} : \A a \in S : \E b \in S : <<b, a>> \in edges
    <3>1. PICK a \in Agents : <<a, a>> \in edges
      BY <2>2
    <3>2. {a} \in (SUBSET Agents) \ {{}}
      OBVIOUS
    <3> QED BY <3>1, <3>2
  <2>4. PlanIsExecutable'
    BY <1>1, <1>2, <2>1, <2>2, <2>3 DEF PlanIsExecutable
  <2> QED BY <1>1, <1>2, <1>3, <2>1, <2>4 DEF GraphInPlace, VisitInOrder
<1>5. CASE ShapeFits /\ Coordination.mode = "hierarchical"
  <2>1. graph' = "visiting"
    BY <1>5 DEF BuildGraph
  <2> QED BY <1>1, <1>2, <1>3, <1>5, <2>1 DEF GraphInPlace, VisitInOrder, PlanIsExecutable
<1>6. CASE ShapeFits /\ Coordination.mode # "hierarchical"
  <2>1. graph' = "accepted"
    BY <1>6 DEF BuildGraph
  <2> QED BY <1>1, <1>2, <1>3, <1>6, <2>1 DEF GraphInPlace, VisitInOrder, PlanIsExecutable
<1> QED BY <1>4, <1>5, <1>6

LEMMA VisitPlan ==
    ASSUME GraphInPlace, NEW a \in Agents, Visit(a)
    PROVE  GraphInPlace'
<1>1. /\ graph = "visiting" /\ graph' = "visiting" /\ stage = "compiled"
      /\ visited' = visited \cup {a}
      /\ UNCHANGED <<doc, stage, error, adapters, links, candidate, dpid, instances, edges>>
  BY DEF Visit, GraphInPlace, EdgesOfPlan
<1>2. /\ Agents' = Agents /\ Coordination' = Coordination
      /\ EdgesOfPlan' /\ (ShapeFits' <=> ShapeFits)
      /\ \A S : Cyclic(S)' <=> Cyclic(S)
  BY <1>1, PlanStays
<1>3. ASSUME NEW S \in SUBSET Agents, Cyclic(S)
      PROVE  S \cap visited' = {}
  <2>1. S \cap visited = {}
    BY <1>1, <1>3 DEF GraphInPlace, VisitInOrder
  <2>2. a \notin S
    <3>1. SUFFICES ASSUME a \in S PROVE FALSE
      OBVIOUS
    <3>2. PICK b \in S : <<b, a>> \in edges
      BY <1>3, <3>1 DEF Cyclic
    <3>3. b \in visited
      BY <3>2 DEF Visit, Ready
    <3> QED BY <2>1, <3>3
  <2> QED BY <1>1, <2>1, <2>2
<1>4. VisitInOrder'
  BY <1>1, <1>2, <1>3 DEF GraphInPlace, VisitInOrder
<1> QED BY <1>1, <1>2, <1>4 DEF GraphInPlace, PlanTypeOK, PlanIsExecutable

LEMMA EndVisitPlan ==
    ASSUME GraphInPlace, EndVisit
    PROVE  GraphInPlace'
<1>1. /\ graph = "visiting" /\ stage = "compiled" /\ Ready = {}
      /\ graph' = IF visited = Agents THEN "accepted" ELSE "refused"
      /\ UNCHANGED <<doc, stage, error, adapters, links, candidate, dpid, instances, edges>>
      /\ visited' = visited
  BY DEF EndVisit, GraphInPlace, EdgesOfPlan
<1>2. Agents' = Agents /\ Coordination' = Coordination /\ EdgesOfPlan'
  BY <1>1, PlanStays
<1>3. /\ Coordination.mode = "hierarchical" /\ ShapeFits
      /\ visited \subseteq Agents
      /\ \A S \in SUBSET Agents : Cyclic(S) => S \cap visited = {}
  BY <1>1 DEF GraphInPlace, VisitInOrder
<1>4. CASE visited = Agents
  <2>1. \A S \in (SUBSET Agents) \ {{}} : ~Cyclic(S)
    BY <1>3, <1>4
  <2>2. PlanIsExecutable'
    BY <1>1, <1>2, <1>4, <2>1 DEF PlanIsExecutable, Cyclic
  <2> QED BY <1>1, <1>2, <1>4, <2>2 DEF GraphInPlace, PlanTypeOK, VisitInOrder
<1>5. CASE visited # Agents
  <2> DEFINE S == Agents \ visited
  <2>1. S \in (SUBSET Agents) \ {{}}
    BY <1>3, <1>5
  <2>2. ASSUME NEW a \in S PROVE \E b \in S : <<b, a>> \in edges
    <3>1. PICK e \in edges : e[2] = a /\ e[1] \notin visited
      BY <1>1, <2>2 DEF Ready
    <3>2. e[1] \in Agents
      BY <1>3, <3>1 DEF ShapeFits
    <3>3. e = <<e[1], e[2]>>
      <4>1. e \in Agents \X Agents
        BY <1>1, <3>1, EdgesJoinAgents DEF GraphInPlace, PlanTypeOK, EdgesOfPlan
      <4> QED BY <4>1
    <3> QED BY <3>1, <3>2, <3>3
  <2>3. PlanIsExecutable'
    BY <1>1, <1>2, <1>3, <1>5, <2>1, <2>2 DEF PlanIsExecutable
  <2> QED BY <1>1, <1>2, <1>5, <2>3 DEF GraphInPlace, PlanTypeOK, VisitInOrder
<1> QED BY <1>4, <1>5

LEMMA StepGraph == GraphInPlace /\ (CompileStep \/ UNCHANGED planVars) => GraphInPlace'
<1> SUFFICES ASSUME GraphInPlace, CompileStep \/ UNCHANGED planVars
             PROVE  GraphInPlace'
  OBVIOUS
<1>1. CASE UNCHANGED planVars
  <2>1. CoordinationEdges' = CoordinationEdges /\ (CoordinationFits' <=> CoordinationFits)
    BY <1>1 DEF planVars, CoordinationFits, CoordinationEdges, Coordination, Of, Deployments,
       Agents, PeerEdges, Adjacent, Neighbors, Owner
  <2> QED BY <1>1, <2>1 DEF planVars, GraphInPlace, PlanTypeOK, EdgesOfPlan, VisitInOrder,
          PlanIsExecutable, Coordination, Agents, ShapeFits, Cyclic
<1> QED BY <1>1, CompileGraph, CoordinateGraph, BuildPlan, VisitPlan, EndVisitPlan DEF CompileStep

-----------------------------------------------------------------------------
(* The network of a plan                                                   *)

(* Among one number more than are taken there is a free one.               *)
LEMMA FreeNumber ==
    ASSUME NEW first \in Nat, NEW taken \in SUBSET Nat, IsFiniteSet(taken)
    PROVE  FirstFree(first, taken) \in Nat \ taken /\ FirstFree(first, taken) >= first
<1> DEFINE n == Cardinality(taken)
           S == first .. (first + n)
<1>1. n \in Nat
  BY FS_CardinalityType
<1>2. IsFiniteSet(S) /\ Cardinality(S) = n + 1
  BY <1>1, FS_Interval
<1>3. S \ taken # {}
  <2>1. SUFFICES ASSUME S \subseteq taken PROVE FALSE
    OBVIOUS
  <2>2. Cardinality(S) <= n
    BY <2>1, FS_Subset
  <2> QED BY <1>1, <1>2, <2>2
<1>4. S \ taken \in SUBSET Nat
  BY <1>1
<1>5. Min(S \ taken) \in S \ taken
  BY <1>3, <1>4, LeastNumber
<1> QED BY <1>1, <1>5 DEF FirstFree

(* Nothing but the documents tells which resources there are.              *)
LEMMA SameResources ==
    ASSUME doc' = doc
    PROVE  /\ Resources' = Resources /\ Nodes' = Nodes /\ Links' = Links
           /\ Switches' = Switches /\ Pinned' = Pinned /\ Broadcast' = Broadcast
           /\ \A n : Resource(n)' = Resource(n)
           /\ (ResourcesFit' <=> ResourcesFit)
<1>1. Resources' = Resources
  BY DEF Resources
<1>2. \A n : Resource(n)' = Resource(n)
  BY <1>1 DEF Resource
<1>3. Nodes' = Nodes /\ Links' = Links /\ Broadcast' = Broadcast
  BY <1>1 DEF Nodes, Links, Broadcast
<1>4. Switches' = Switches
  BY <1>1 DEF Switches, OfKind
<1>5. Pinned' = Pinned
  BY <1>2, <1>4 DEF Pinned
<1>6. ResourcesFit' <=> ResourcesFit
  BY <1>1, <1>2, <1>3 DEF ResourcesFit, OfKind, Unique, NameOf
<1> QED BY <1>1, <1>2, <1>3, <1>4, <1>5, <1>6

(* Nor which adapters belong to hosts and which addresses they have.       *)
LEMMA SameAdapters ==
    ASSUME UNCHANGED <<doc, adapters>>
    PROVE  /\ (AdaptersFit(adapters)' <=> AdaptersFit(adapters))
           /\ HostAdapters' = HostAdapters /\ UsedIps' = UsedIps
           /\ \A n : Owned(adapters, n)' = Owned(adapters, n)
<1>1. /\ Nodes' = Nodes /\ Links' = Links
      /\ \A n : Resource(n)' = Resource(n)
  BY SameResources
<1>2. AdaptersFit(adapters)' <=> AdaptersFit(adapters)
  BY <1>1 DEF AdaptersFit
<1>3. HostAdapters' = HostAdapters
  BY <1>1 DEF HostAdapters, IsHostAdapter
<1>4. UsedIps' = UsedIps
  BY <1>3 DEF UsedIps
<1>5. \A n : Owned(adapters, n)' = Owned(adapters, n)
  BY DEF Owned
<1> QED BY <1>2, <1>3, <1>4, <1>5

(* A name leads to the resource it is the name of.                         *)
LEMMA ResourceNamed ==
    ASSUME doc \in Documents, ResourcesFit
    PROVE  /\ \A r \in Resources : r.name \in Nodes /\ Resource(r.name) = r /\ ResourceFits(r)
           /\ \A n \in Nodes : /\ Resource(n) \in Resources /\ Resource(n).name = n
                               /\ IsBareName(n)
<1>1. \A r \in Resources : \E k \in DOMAIN doc.resources : r = doc.resources[k]
  BY DEF Resources, Range
<1>2. \A r \in Resources : ResourceFits(r)
  BY <1>1, DocumentsAssumption
<1>3. \A r, t \in Resources : r.name = t.name => r = t
  BY <1>1 DEF ResourcesFit, Unique, NameOf
<1>4. \A r \in Resources : r.name \in Nodes
  BY DEF Nodes
<1>5. \A n \in Nodes : Resource(n) \in Resources /\ Resource(n).name = n
  BY DEF Nodes, Resource
<1>6. \A r \in Resources : Resource(r.name) = r
  BY <1>3, <1>4, <1>5
<1>7. \A n \in Nodes : IsBareName(n)
  BY <1>2, <1>5 DEF ResourceFits
<1> QED BY <1>2, <1>4, <1>5, <1>6, <1>7

-----------------------------------------------------------------------------
(* Stages that leave the network alone.                                    *)

(* An adapter keeps the links it has, whatever else it is given.           *)
LEMMA LinksStay ==
    ASSUME LinksInPlace, UNCHANGED <<doc, links>>,
           \A j \in DOMAIN adapters :
              /\ j \in DOMAIN adapters'
              /\ adapters'[j].name = adapters[j].name /\ adapters'[j].owner = adapters[j].owner,
           stage' \in Declares => stage \in Declares,
           stage' \in Allocates \cup Expands \cup {"addresses"} =>
              stage \in Allocates \cup Expands \cup {"addresses"} \/ Len(links) = Len(doc.links)
    PROVE  LinksInPlace'
  BY DEF LinksInPlace

(* A refusal leaves everything as it is.                                   *)
LEMMA NetworkRefused ==
    ASSUME NetworkInPlace, stage # "refused", NEW why,
           why \in {"resources", "adapters", "links", "addresses", "macs", "dpids", "placement",
                    "coordination"},
           stage # "resources" \/ why = "resources",
           stage' = "refused", error' = why,
           UNCHANGED <<doc, declared, adapters, links, candidate>>
    PROVE  NetworkInPlace'
<1>1. ResourcesChecked'
  BY SameResources DEF NetworkInPlace, ResourcesChecked
<1>2. AdaptersFit(adapters)'
  BY SameAdapters DEF NetworkInPlace
<1>3. LinksInPlace'
  BY LinksStay DEF NetworkInPlace, Declares, Allocates, Expands
<1>4. DeclaredInOrder' /\ AddressesInPlace' /\ DpidsInPlace' /\ ExhaustionIsReal'
  BY DEF NetworkInPlace, DeclaredInOrder, AddressesInPlace, DpidsInPlace, ExhaustionIsReal,
     Declares, Resolves, Allocates, Expands
<1> QED BY <1>1, <1>2, <1>3, <1>4 DEF NetworkInPlace

(* Nor do the stages that come later, and the graph, change it.            *)
LEMMA NetworkStays ==
    ASSUME NetworkInPlace, UNCHANGED <<doc, error, declared, adapters, links, candidate, dpid>>,
           \/ stage' = stage
           \/ stage = "links" /\ stage' = "addresses" /\ Len(links) = Len(doc.links)
           \/ stage \in Expands /\ stage' \in Expands
           \/ stage = "dpids" /\ stage' = "instances" /\ DOMAIN dpid = Switches
    PROVE  NetworkInPlace'
<1>1. /\ \A n : Resource(n)' = Resource(n)
      /\ (ResourcesFit' <=> ResourcesFit) /\ Switches' = Switches /\ Pinned' = Pinned
      /\ Broadcast' = Broadcast
      /\ (AdaptersFit(adapters)' <=> AdaptersFit(adapters))
      /\ HostAdapters' = HostAdapters /\ UsedIps' = UsedIps
      /\ \A n : Owned(adapters, n)' = Owned(adapters, n)
  BY SameResources, SameAdapters
<1>2. ResourcesChecked' /\ AdaptersFit(adapters)'
  BY <1>1 DEF NetworkInPlace, ResourcesChecked, Expands
<1>3. LinksInPlace'
  BY LinksStay DEF NetworkInPlace, Declares, Allocates, Expands
<1>4. DeclaredInOrder'
  BY <1>1 DEF NetworkInPlace, DeclaredInOrder, Declares, Expands, Declaring, NextPort
<1>5. AddressesInPlace'
  BY <1>1 DEF NetworkInPlace, AddressesInPlace, Declares, Resolves, Allocates, Expands
<1>6. DpidsInPlace'
  BY <1>1 DEF NetworkInPlace, DpidsInPlace, Expands
<1>7. ExhaustionIsReal'
  BY <1>1 DEF NetworkInPlace, ExhaustionIsReal, Fixed
<1> QED BY <1>2, <1>3, <1>4, <1>5, <1>6, <1>7 DEF NetworkInPlace

(* Nothing is declared to begin with.                                      *)
LEMMA InitNetwork == PlanInit => NetworkInPlace
<1> SUFFICES ASSUME PlanInit PROVE NetworkInPlace
  OBVIOUS
<1> USE DEF PlanInit
<1>1. doc.resources \in Seq(Range(doc.resources)) /\ doc.resources # <<>>
      /\ doc.links \in Seq(Range(doc.links))
  BY DocumentsAssumption DEF IsList
<1>2. ResourcesChecked /\ ExhaustionIsReal /\ DpidsInPlace
  BY DEF ResourcesChecked, ExhaustionIsReal, DpidsInPlace, Expands
<1>3. AdaptersFit(adapters)
  BY DEF AdaptersFit
<1>4. DeclaredInOrder
  BY <1>1 DEF DeclaredInOrder, Declares
<1>5. LinksInPlace
  BY <1>1 DEF LinksInPlace, Allocates, Expands
<1>6. AddressesInPlace
  BY DEF AddressesInPlace, Allocates, Expands
<1> QED BY <1>2, <1>3, <1>4, <1>5, <1>6 DEF NetworkInPlace

(* The documents a compilation reads.                                      *)
LEMMA DocumentFits ==
    ASSUME doc \in Documents
    PROVE  /\ doc.resources \in Seq(Resources) /\ Len(doc.resources) \in Nat
           /\ doc.links \in Seq(Range(doc.links)) /\ Len(doc.links) \in Nat
           /\ Broadcast \in Nat /\ MaxDpid \in Nat /\ Len(doc.resources) <= MaxDpid
           /\ \A k \in DOMAIN doc.resources :
                  doc.resources[k] \in Resources /\ ResourceFits(doc.resources[k])
<1>1. /\ doc.resources \in Seq(Resources)
      /\ doc.links \in Seq(Range(doc.links))
      /\ MaxDpid \in Nat /\ Len(doc.resources) <= MaxDpid
      /\ LimitsFit(doc)
      /\ \A k \in DOMAIN doc.resources : ResourceFits(doc.resources[k])
  BY DocumentsAssumption DEF IsList, Resources
<1>2. Broadcast \in Nat
  BY <1>1 DEF LimitsFit, Broadcast
<1>3. \A k \in DOMAIN doc.resources : doc.resources[k] \in Resources
  BY DEF Resources, Range
<1> QED BY <1>1, <1>2, <1>3

(* Resources that fit, and no adapter yet.                                 *)
LEMMA CheckNetwork ==
    ASSUME NetworkInPlace, CheckResources
    PROVE  NetworkInPlace'
<1> USE DEF CheckResources
<1>1. CASE ~ResourcesFit
  <2>1. stage' = "refused" /\ error' = "resources"
    BY <1>1 DEF Refuse
  <2> QED BY <2>1, NetworkRefused
<1>2. CASE ResourcesFit
  <2>1. stage' = "adapters" /\ adapters = <<>> /\ declared = 0 /\ links = <<>>
    BY <1>2 DEF NetworkInPlace, DeclaredInOrder, LinksInPlace, Declares
  <2>2. ResourcesChecked'
    BY <1>2, <2>1, SameResources DEF NetworkInPlace, ResourcesChecked
  <2>3. AdaptersFit(adapters)'
    BY SameAdapters DEF NetworkInPlace
  <2>4. DeclaredInOrder'
    BY <2>1 DEF NetworkInPlace, DeclaredInOrder, Declares, Owned
  <2>5. LinksInPlace'
    BY <2>1, LinksStay DEF NetworkInPlace, Declares, Allocates, Expands
  <2>6. AddressesInPlace'
    BY <2>1 DEF NetworkInPlace, AddressesInPlace, Declares, Resolves, Allocates, Expands
  <2>7. DpidsInPlace' /\ ExhaustionIsReal'
    <3>1. error' = "none"
      BY <1>2 DEF NetworkInPlace, ResourcesChecked
    <3> QED BY <2>1, <3>1 DEF DpidsInPlace, ExhaustionIsReal, Expands
  <2> QED BY <2>2, <2>3, <2>4, <2>5, <2>6, <2>7 DEF NetworkInPlace
<1> QED BY <1>1, <1>2

-----------------------------------------------------------------------------
(* Adapters *)

(* The fields of an adapter.                                               *)
LEMMA AdapterFields ==
    ASSUME NEW ads \in Seq(AdapterRecord), NEW i \in DOMAIN ads
    PROVE  /\ ads[i] \in AdapterRecord
           /\ ads[i].name \in Seq(Nat) /\ ads[i].owner \in Seq(Nat) /\ ads[i].number \in Nat
           /\ ads[i].setting \in {"auto", "fixed", "none"} /\ ads[i].ip \in Nat
           /\ ads[i].mac \in Nat
<1>1. ads[i] \in AdapterRecord
  BY LenProperties, ElementOfSeq
<1> QED BY <1>1 DEF AdapterRecord

(* The adapters a node has, and their numbers.                             *)
LEMMA NumbersGiven ==
    ASSUME NEW ads \in Seq(AdapterRecord), NEW n
    PROVE  /\ Owned(ads, n) \subseteq 1..Len(ads) /\ IsFiniteSet(Owned(ads, n))
           /\ Cardinality(Owned(ads, n)) \in Nat
           /\ Numbers(ads, n) \subseteq Nat /\ IsFiniteSet(Numbers(ads, n))
<1>1. Owned(ads, n) \subseteq 1..Len(ads)
  BY DEF Owned
<1>2. IsFiniteSet(Owned(ads, n))
  BY <1>1, FS_Interval, FS_Subset
<1>3. Cardinality(Owned(ads, n)) \in Nat
  BY <1>2, FS_CardinalityType
<1>4. IsFiniteSet(Numbers(ads, n))
  <2> DEFINE f == [i \in Owned(ads, n) |-> ads[i].number]
  <2>1. DOMAIN f = Owned(ads, n) /\ \A i \in Owned(ads, n) : f[i] = ads[i].number
    OBVIOUS
  <2> HIDE DEF f
  <2>2. \A y \in Numbers(ads, n) : \E i \in Owned(ads, n) : y = f[i]
    BY <2>1 DEF Numbers
  <2> QED BY <1>2, <2>1, <2>2, CoveredFinite
<1>5. Numbers(ads, n) \subseteq Nat
  BY AdapterFields DEF Numbers, Owned
<1> QED BY <1>1, <1>2, <1>3, <1>4, <1>5

(* The name of the adapter generated for a node, and its number.           *)
LEMMA NodeNumbered ==
    ASSUME NEW n, IsBareName(n), NEW k \in Nat
    PROVE  IsName(n \o <<k>>) /\ n \o <<k>> \in Seq(Nat)
<1> DEFINE b == <<k>>
<1>1. n \in Seq(Nat) /\ b \in Seq(Nat) /\ Len(n) + Len(b) = 2
  BY DEF IsBareName, IsName
<1> HIDE DEF b
<1>2. n \o b \in Seq(Nat) /\ Len(n \o b) = 2
  BY <1>1, ConcatProperties
<1> QED BY <1>2 DEF IsName, b

(* One more adapter, with a name and a number that are free.               *)
LEMMA AdapterAdded ==
    ASSUME NEW ads, AdaptersFit(ads), NEW new \in AdapterRecord,
           IsName(new.name), new.name \notin Reserved(ads), new.owner \in Nodes,
           Resource(new.owner).kind \in {"host", "switch"},
           Resource(new.owner).kind = "switch" =>
              new.setting = "none" /\ new.ip = 0 /\ new.mac = 0,
           new.number \notin Numbers(ads, new.owner)
    PROVE  AdaptersFit(Append(ads, new))
<1> DEFINE all == Append(ads, new)
<1>1. /\ ads \in Seq(AdapterRecord) /\ all \in Seq(AdapterRecord)
      /\ Len(ads) \in Nat /\ DOMAIN ads = 1..Len(ads) /\ DOMAIN all = 1..(Len(ads) + 1)
      /\ all[Len(ads) + 1] = new /\ \A i \in DOMAIN ads : all[i] = ads[i]
  BY DEF AdaptersFit
<1> HIDE DEF all
<1>2. \A i \in DOMAIN all : i \in DOMAIN ads \/ i = Len(ads) + 1
  BY <1>1
<1>3. \A i \in DOMAIN ads : /\ new.name # ads[i].name
                            /\ new.owner = ads[i].owner => new.number # ads[i].number
  BY DEF Reserved, Names, Numbers, Owned
<1>4. ASSUME NEW i \in DOMAIN all
      PROVE  /\ IsName(all[i].name) /\ all[i].name \notin Nodes \cup Links
             /\ all[i].owner \in Nodes /\ Resource(all[i].owner).kind \in {"host", "switch"}
             /\ Resource(all[i].owner).kind = "switch" =>
                   all[i].setting = "none" /\ all[i].ip = 0 /\ all[i].mac = 0
  <2>1. CASE i \in DOMAIN ads
    BY <1>1, <2>1 DEF AdaptersFit
  <2>2. CASE i = Len(ads) + 1
    BY <1>1, <2>2 DEF Reserved
  <2> QED BY <1>2, <2>1, <2>2
<1>5. ASSUME NEW i \in DOMAIN all, NEW j \in DOMAIN all, i # j
      PROVE  /\ all[i].name # all[j].name
             /\ all[i].owner = all[j].owner => all[i].number # all[j].number
  <2>1. CASE i \in DOMAIN ads /\ j \in DOMAIN ads
    BY <1>1, <1>5, <2>1 DEF AdaptersFit
  <2>2. CASE i = Len(ads) + 1 \/ j = Len(ads) + 1
    BY <1>1, <1>2, <1>3, <1>5, <2>2
  <2> QED BY <1>2, <2>1, <2>2
<1> QED BY <1>1, <1>4, <1>5 DEF AdaptersFit, all

(* A resource and the port it declares next: a free number, a name.        *)
LEMMA PortDeclared ==
    ASSUME PlanTypeOK, NetworkInPlace, stage = "adapters", PortsLeft, ExplicitFit(Declaring),
           NEW new, new = Adapter(Declaring, NextPort)
    PROVE  /\ Declaring \in Resources /\ ResourceFits(Declaring)
           /\ Declaring.name \in Nodes /\ Resource(Declaring.name) = Declaring
           /\ new.owner = Declaring.name
           /\ new \in AdapterRecord /\ IsName(new.name)
           /\ Declaring.kind = "switch" => new.setting = "none" /\ new.mac = 0
           /\ new.setting # "fixed" => new.ip = 0
           /\ new.number \notin Numbers(adapters, Declaring.name)
           /\ Declaring.kind = "host" => new.number = NextPort - 1
           /\ \A j \in DOMAIN Declaring.ports :
                  j > NextPort => \/ new.number # Declaring.ports[j].number
                                  \/ Declaring.ports[j].number = 0
<1> DEFINE r == Declaring
           i == NextPort
           p == r.ports[i]
           given == Numbers(adapters, r.name)
<1>1. declared \in Nat /\ declared < Len(doc.resources) /\ doc \in Documents /\ ResourcesFit
  BY DEF PlanTypeOK, NetworkInPlace, DeclaredInOrder, Declares, ResourcesChecked
<1>2. declared + 1 \in DOMAIN doc.resources
  BY <1>1, DocumentFits
<1>3. r \in Resources /\ ResourceFits(r)
  BY <1>1, <1>2, DocumentFits DEF Declaring
<1>4. r.name \in Nodes /\ Resource(r.name) = r
  BY <1>1, <1>3, ResourceNamed
<1>5. adapters \in Seq(AdapterRecord)
  BY DEF NetworkInPlace, AdaptersFit
<1>6. /\ i \in DOMAIN r.ports /\ PortFits(p, r.kind) /\ r.kind \in {"host", "switch"}
      /\ i \in Nat /\ i >= 1 /\ given \subseteq Nat /\ IsFiniteSet(given)
      /\ \A j \in DOMAIN r.ports : PortFits(r.ports[j], r.kind)
  BY <1>3, <1>5, NumbersGiven DEF PortsLeft, ResourceFits, NextPort
<1>7. r.ports \in Seq(Range(r.ports))
  BY <1>3 DEF ResourceFits, IsList
<1>8. Explicit(r) \subseteq Nat /\ IsFiniteSet(Explicit(r))
  <2>1. IsFiniteSet(DOMAIN r.ports)
    BY <1>7, FS_Interval
  <2>2. IsFiniteSet({r.ports[j].number : j \in DOMAIN r.ports})
    <3> DEFINE f == [j \in DOMAIN r.ports |-> r.ports[j].number]
    <3>1. DOMAIN f = DOMAIN r.ports /\ \A j \in DOMAIN r.ports : f[j] = r.ports[j].number
      OBVIOUS
    <3> HIDE DEF f
    <3>2. \A y \in {r.ports[j].number : j \in DOMAIN r.ports} :
              \E j \in DOMAIN r.ports : y = f[j]
      BY <3>1
    <3> QED BY <2>1, <3>1, <3>2, CoveredFinite
  <2> QED BY <1>6, <2>2, FS_Subset DEF Explicit, PortFits
<1>9. /\ \A k \in Owned(adapters, r.name) :
            /\ r.kind = "host" => adapters[k].number < i - 1
            /\ \A j \in DOMAIN r.ports :
                  j >= i => adapters[k].number # r.ports[j].number \/ r.ports[j].number = 0
      /\ \A k \in DOMAIN adapters : adapters[k].number \in Nat
  BY <1>5, AdapterFields DEF NetworkInPlace, DeclaredInOrder
<1> DEFINE number == NumberOf(r, i)
<1>10. /\ number \in Nat \ given
       /\ r.kind = "host" => number = i - 1
       /\ \A j \in DOMAIN r.ports : j > i => number # r.ports[j].number \/ r.ports[j].number = 0
  <2>1. CASE r.kind = "host"
    <3>1. number = i - 1 /\ number \in Nat
      BY <1>6, <2>1 DEF NumberOf
    <3>2. number \notin given
      BY <1>9, <2>1, <3>1 DEF Numbers, Owned
    <3>3. \A j \in DOMAIN r.ports : r.ports[j].number = 0
      BY <1>6, <2>1 DEF PortFits
    <3> QED BY <3>1, <3>2, <3>3
  <2>2. CASE r.kind # "host" /\ p.number # 0
    <3>1. number = p.number /\ number \in Nat
      BY <1>6, <2>2 DEF NumberOf, PortFits
    <3>2. number \notin given
      BY <1>6, <1>9, <2>2, <3>1 DEF Numbers
    <3>3. \A j \in DOMAIN r.ports : j > i => number # r.ports[j].number
      BY <1>6, <2>2, <3>1 DEF ExplicitFit
    <3> QED BY <2>2, <3>1, <3>2, <3>3
  <2>3. CASE r.kind # "host" /\ p.number = 0
    <3>1. number = FirstFree(1, Explicit(r) \cup given)
      BY <2>3 DEF NumberOf
    <3>2. IsFiniteSet(Explicit(r) \cup given) /\ Explicit(r) \cup given \in SUBSET Nat
      BY <1>6, <1>8, FS_Union
    <3>3. number \in Nat /\ number \notin Explicit(r) \cup given
      BY <3>1, <3>2, FreeNumber
    <3> HIDE DEF number
    <3>4. \A j \in DOMAIN r.ports : number # r.ports[j].number \/ r.ports[j].number = 0
      BY <3>3 DEF Explicit
    <3> QED BY <2>3, <3>3, <3>4
  <2> QED BY <2>1, <2>2, <2>3
<1> HIDE DEF number
<1>11. IsBareName(r.name)
  BY <1>3 DEF ResourceFits
<1>12. IsName(r.name \o <<number>>)
  BY <1>10, <1>11, NodeNumbered
<1>13. new = [name |-> IF p.name = None THEN r.name \o <<number>> ELSE p.name,
              owner |-> r.name, number |-> number,
              setting |-> p.setting, ip |-> p.ip, mac |-> p.mac]
  BY DEF Adapter, number
<1>14. IsName(new.name)
  BY <1>6, <1>12, <1>13 DEF PortFits
<1>15. new \in AdapterRecord
  BY <1>6, <1>10, <1>11, <1>13, <1>14 DEF AdapterRecord, PortFits, IsName, IsBareName
<1>16. (r.kind = "switch" => new.setting = "none" /\ new.mac = 0)
       /\ (new.setting # "fixed" => new.ip = 0)
  BY <1>6, <1>13 DEF PortFits
<1> QED BY <1>3, <1>4, <1>10, <1>13, <1>14, <1>15, <1>16

(* A port or an interface is declared with a name and a number of its own, *)
(* whatever the ones after it are given.                                   *)
LEMMA DeclareNetwork ==
    ASSUME PlanTypeOK, NetworkInPlace, DeclareAdapter
    PROVE  NetworkInPlace'
<1> DEFINE new == Adapter(Declaring, NextPort)
           r == Declaring
<1>0. /\ stage = "adapters" /\ PortsLeft
      /\ UNCHANGED <<doc, declared, links, candidate, dpid, instances, edges, graph, visited>>
  BY DEF DeclareAdapter
<1>3. IF ExplicitFit(Declaring) /\ new.name \notin Reserved(adapters)
      THEN adapters' = Append(adapters, new) /\ UNCHANGED <<stage, error>>
      ELSE Refuse("adapters") /\ UNCHANGED adapters
  BY DEF DeclareAdapter
<1>1. CASE ~(ExplicitFit(Declaring) /\ new.name \notin Reserved(adapters))
  <2>1. stage' = "refused" /\ error' = "adapters" /\ UNCHANGED adapters
    BY <1>1, <1>3 DEF Refuse
  <2> QED BY <1>0, <2>1, NetworkRefused
<1>2. CASE ExplicitFit(Declaring) /\ new.name \notin Reserved(adapters)
  <2>1. adapters' = Append(adapters, new) /\ UNCHANGED <<stage, error>>
    BY <1>2, <1>3
  <2>2. /\ r \in Resources /\ ResourceFits(r) /\ r.name \in Nodes /\ Resource(r.name) = r
        /\ new.owner = r.name /\ new \in AdapterRecord /\ IsName(new.name)
        /\ r.kind = "switch" => new.setting = "none" /\ new.mac = 0
        /\ new.setting # "fixed" => new.ip = 0
        /\ new.number \notin Numbers(adapters, r.name)
        /\ r.kind = "host" => new.number = NextPort - 1
        /\ \A j \in DOMAIN r.ports :
              j > NextPort => new.number # r.ports[j].number \/ r.ports[j].number = 0
    BY <1>0, <1>2, PortDeclared
  <2> HIDE DEF new
  <2>3. AdaptersFit(Append(adapters, new))
    BY <1>0, <1>2, <2>2, AdapterAdded DEF NetworkInPlace, PortsLeft
  <2>4. /\ \A n : Resource(n)' = Resource(n)
        /\ (ResourcesFit' <=> ResourcesFit) /\ Nodes' = Nodes /\ Links' = Links
        /\ Declaring' = Declaring
    BY <1>0, SameResources DEF Declaring
  <2>5. AdaptersFit(adapters)'
    BY <2>1, <2>3, <2>4 DEF AdaptersFit
  <2>6. /\ adapters \in Seq(AdapterRecord) /\ DOMAIN adapters = 1..Len(adapters)
        /\ Len(adapters) \in Nat /\ DOMAIN adapters' = 1..(Len(adapters) + 1)
        /\ adapters'[Len(adapters) + 1] = new
        /\ \A j \in DOMAIN adapters : adapters'[j] = adapters[j]
    BY <2>1, <2>2 DEF NetworkInPlace, AdaptersFit
  <2>7. Owned(adapters, r.name)' = Owned(adapters, r.name) \cup {Len(adapters) + 1}
    BY <2>2, <2>4, <2>6 DEF Owned
  <2>8. NextPort' = NextPort + 1 /\ NextPort \in Nat
    <3>1. /\ IsFiniteSet(Owned(adapters, r.name))
          /\ Len(adapters) + 1 \notin Owned(adapters, r.name)
          /\ Cardinality(Owned(adapters, r.name)) \in Nat
      BY <2>6, NumbersGiven
    <3>2. Cardinality(Owned(adapters, r.name)') = Cardinality(Owned(adapters, r.name)) + 1
      BY <2>7, <3>1, FS_AddElement
    <3> QED BY <2>4, <3>1, <3>2 DEF NextPort
  <2>9. DeclaredInOrder'
    <3>1. /\ declared \in Nat /\ declared < Len(doc.resources)
          /\ \A i \in DOMAIN adapters :
                \E k \in 1..(declared + 1) : adapters[i].owner = doc.resources[k].name
          /\ \A i \in Owned(adapters, r.name) :
              /\ r.kind = "host" => adapters[i].number < NextPort - 1
              /\ \A j \in DOMAIN r.ports :
                    j >= NextPort => adapters[i].number # r.ports[j].number
                                      \/ r.ports[j].number = 0
      BY <1>0 DEF NetworkInPlace, DeclaredInOrder, Declares
    <3>2. \A i \in DOMAIN adapters' :
              \E k \in 1..(declared + 1) : adapters'[i].owner = doc.resources[k].name
      <4>1. declared + 1 \in 1..(declared + 1) /\ new.owner = doc.resources[declared + 1].name
        BY <2>2, <3>1 DEF Declaring
      <4> QED BY <2>6, <3>1, <4>1
    <3>3. ASSUME NEW i \in Owned(adapters, r.name)'
          PROVE  /\ r.kind = "host" => adapters'[i].number < NextPort
                 /\ \A j \in DOMAIN r.ports :
                       j >= NextPort + 1 => adapters'[i].number # r.ports[j].number
                                             \/ r.ports[j].number = 0
      <4>0. r.ports \in Seq(Range(r.ports))
        BY <2>2 DEF ResourceFits, IsList
      <4>1. CASE i = Len(adapters) + 1
        BY <2>2, <2>6, <2>8, <4>0, <4>1
      <4>2. CASE i \in Owned(adapters, r.name)
        <5>1. adapters'[i] = adapters[i] /\ adapters[i].number \in Nat
          BY <2>6, <4>2, AdapterFields DEF Owned
        <5>2. r.kind = "host" => adapters[i].number < NextPort - 1
          BY <3>1, <4>2
        <5>3. \A j \in DOMAIN r.ports : j >= NextPort + 1 => j >= NextPort
          BY <2>8, <4>0
        <5> QED BY <2>8, <3>1, <4>2, <5>1, <5>2, <5>3
      <4> QED BY <2>7, <3>3, <4>1, <4>2
    <3>4. stage' = "adapters" /\ declared' = declared /\ doc' = doc
          /\ Owned(adapters, Declaring.name)' = Owned(adapters, r.name)'
      BY <1>0, <2>1, <2>4
    <3>5. ASSUME NEW i \in Owned(adapters', Declaring'.name)
          PROVE  /\ Declaring'.kind = "host" => adapters'[i].number < NextPort' - 1
                 /\ \A j \in DOMAIN Declaring'.ports :
                       j >= NextPort' => \/ adapters'[i].number # Declaring'.ports[j].number
                                         \/ Declaring'.ports[j].number = 0
      <4>1. i \in Owned(adapters, r.name)' /\ Declaring' = r
        BY <2>4
      <4>2. NextPort' - 1 = NextPort
        BY <2>8
      <4> QED BY <2>8, <3>3, <4>1, <4>2
    <3> QED BY <3>1, <3>2, <3>4, <3>5 DEF DeclaredInOrder, Declares
  <2>10. LinksInPlace'
    <3>1. \A j \in DOMAIN adapters : j \in DOMAIN adapters' /\ adapters'[j] = adapters[j]
      BY <2>6
    <3> QED BY <1>0, <2>1, <3>1, LinksStay DEF NetworkInPlace, Declares, Allocates, Expands
  <2>11. AddressesInPlace'
    <3>1. \A j \in DOMAIN adapters' : j \in DOMAIN adapters \/ j = Len(adapters) + 1
      BY <2>6
    <3>2. candidate = 1
          /\ \A j \in DOMAIN adapters : adapters[j].setting # "fixed" => adapters[j].ip = 0
      BY <1>0 DEF NetworkInPlace, AddressesInPlace, Resolves, Declares
    <3>3. candidate' = 1
          /\ \A j \in DOMAIN adapters' : adapters'[j].setting # "fixed" => adapters'[j].ip = 0
      BY <1>0, <2>2, <2>6, <3>1, <3>2
    <3>4. stage' = "adapters"
      BY <1>0, <2>1
    <3> QED BY <3>3, <3>4 DEF AddressesInPlace, Declares, Resolves, Allocates, Expands
  <2>12. ResourcesChecked' /\ DpidsInPlace' /\ ExhaustionIsReal'
    BY <1>0, <2>1, <2>4
         DEF NetworkInPlace, ResourcesChecked, DpidsInPlace, ExhaustionIsReal, Expands
  <2> QED BY <2>5, <2>9, <2>10, <2>11, <2>12 DEF NetworkInPlace
<1> QED BY <1>1, <1>2

(* The next resource has no adapters yet.                                  *)
LEMMA EndNetwork ==
    ASSUME PlanTypeOK, NetworkInPlace, EndResource
    PROVE  NetworkInPlace'
<1> USE DEF EndResource
<1>1. /\ declared \in Nat /\ declared < Len(doc.resources) /\ doc \in Documents /\ ResourcesFit
      /\ \A i \in DOMAIN adapters :
            \E k \in 1..(declared + 1) : adapters[i].owner = doc.resources[k].name
      /\ error = "none"
  BY DEF PlanTypeOK, NetworkInPlace, DeclaredInOrder, Declares, ResourcesChecked
<1>2. Len(doc.resources) \in Nat /\ DOMAIN doc.resources = 1..Len(doc.resources)
  BY <1>1, DocumentFits
<1>3. stage' \in {"adapters", "links"}
  OBVIOUS
<1>4. /\ AdaptersFit(adapters)' /\ (ResourcesFit' <=> ResourcesFit)
      /\ \A n : Owned(adapters, n)' = Owned(adapters, n)
  BY SameAdapters, SameResources DEF NetworkInPlace
<1>5. DeclaredInOrder'
  <2>1. declared' \in Nat /\ (stage' = "adapters" => declared' < Len(doc.resources))
    BY <1>1, <1>2
  <2>2. ASSUME stage' = "adapters" PROVE Owned(adapters, doc.resources[declared' + 1].name) = {}
    <3>1. declared' + 1 \in DOMAIN doc.resources
      BY <1>2, <2>1, <2>2
    <3>2. \A k \in 1..(declared + 1) : doc.resources[k].name # doc.resources[declared' + 1].name
      BY <1>1, <1>2, <3>1 DEF ResourcesFit, Unique, NameOf
    <3> QED BY <1>1, <3>2 DEF Owned
  <2>3. \A i \in DOMAIN adapters' :
            \E k \in 1..(declared' + 1) : adapters'[i].owner = doc'.resources[k].name
    BY <1>1
  <2>4. Declaring' = doc.resources[declared' + 1]
    BY DEF Declaring
  <2> QED BY <1>3, <1>4, <2>1, <2>2, <2>3, <2>4 DEF DeclaredInOrder, Declares
<1>6. LinksInPlace'
  BY <1>3, LinksStay DEF NetworkInPlace, Declares, Allocates, Expands
<1>7. AddressesInPlace'
  BY <1>3 DEF NetworkInPlace, AddressesInPlace, Declares, Resolves, Allocates, Expands
<1>8. ResourcesChecked' /\ DpidsInPlace' /\ ExhaustionIsReal'
  BY <1>1, <1>3, <1>4 DEF ResourcesChecked, DpidsInPlace, ExhaustionIsReal, Expands
<1> QED BY <1>4, <1>5, <1>6, <1>7, <1>8 DEF NetworkInPlace

-----------------------------------------------------------------------------
(* Links *)

(* A generated adapter has the first number of its node that is free.      *)
LEMMA AdapterGenerated ==
    ASSUME doc \in Documents, ResourcesFit, NEW ads, AdaptersFit(ads), NEW n \in Nodes,
           Resource(n).kind \in {"host", "switch"}, NEW new, new = Generated(ads, n),
           new.name \notin Reserved(ads)
    PROVE  /\ AdaptersFit(Append(ads, new)) /\ new \in AdapterRecord
           /\ new.owner = n /\ new.setting # "fixed" /\ new.ip = 0
<1> DEFINE number == FirstFree(FirstNumber(n), Numbers(ads, n))
<1>1. ads \in Seq(AdapterRecord) /\ IsBareName(n) /\ n \in Seq(Nat)
  BY ResourceNamed DEF AdaptersFit, IsBareName, IsName
<1>2. number \in Nat /\ number \notin Numbers(ads, n)
  BY <1>1, NumbersGiven, FreeNumber DEF FirstNumber
<1>3. new = [name |-> n \o <<number>>, owner |-> n, number |-> number,
             setting |-> IF Resource(n).kind = "host" THEN "auto" ELSE "none",
             ip |-> 0, mac |-> 0]
  BY DEF Generated
<1> HIDE DEF number
<1>4. IsName(n \o <<number>>) /\ n \o <<number>> \in Seq(Nat)
  BY <1>1, <1>2, NodeNumbered
<1>5. /\ new.owner = n /\ new.number = number /\ new.setting # "fixed" /\ new.ip = 0
      /\ new.mac = 0 /\ (Resource(n).kind = "switch" => new.setting = "none")
      /\ IsName(new.name)
  BY <1>3, <1>4
<1>6. new \in AdapterRecord
  BY <1>1, <1>2, <1>3, <1>4 DEF AdapterRecord
<1>7. AdaptersFit(Append(ads, new))
  BY <1>2, <1>5, <1>6, AdapterAdded
<1> QED BY <1>5, <1>6, <1>7

(* An endpoint gets an adapter of its node that no link uses, and the      *)
(* adapters there were stay.                                               *)
Given(e, ads, used, end) ==
    /\ AdaptersFit(end.all)
    /\ \A j \in DOMAIN ads : j \in DOMAIN end.all /\ end.all[j] = ads[j]
    /\ \A j \in DOMAIN end.all :
          j \in DOMAIN ads \/ (end.all[j].setting # "fixed" /\ end.all[j].ip = 0)
    /\ end.adapter \notin used /\ end.adapter \in Seq(Nat)
    /\ \E j \in DOMAIN end.all :
          end.all[j].name = end.adapter /\ end.all[j].owner = e.node

(* What it gets, whichever of the three ways it is found.                  *)
LEMMA EndpointKeeps ==
    ASSUME doc \in Documents, ResourcesFit, NEW ads, AdaptersFit(ads),
           NEW used, used \subseteq Names(ads), NEW e, EndpointFits(e, ads, used)
    PROVE  Given(e, ads, used, Endpoint(e, ads, used))
<1> DEFINE end == Endpoint(e, ads, used)
<1> HIDE DEF end
<1>0. end = Endpoint(e, ads, used)
  BY DEF end
<1> SUFFICES Given(e, ads, used, end)
  BY <1>0
<1> DEFINE free == {i \in Owned(ads, e.node) : ads[i].name \notin used}
           new == Generated(ads, e.node)
<1>1. ads \in Seq(AdapterRecord) /\ DOMAIN ads = 1..Len(ads) /\ Len(ads) \in Nat
  BY DEF AdaptersFit
<1>2. CASE e.adapter # None
  <2>1. end.adapter = e.adapter /\ end.all = ads
    BY <1>2, <1>0 DEF Endpoint
  <2>2. PICK i \in Owned(ads, e.node) : ads[i].name = e.adapter
    BY <1>2, <1>0 DEF EndpointFits
  <2>3. i \in DOMAIN ads /\ ads[i].owner = e.node /\ ads[i].name \in Seq(Nat)
    BY <1>1, AdapterFields DEF Owned
  <2> QED BY <1>2, <2>1, <2>2, <2>3 DEF EndpointFits, Given
<1>3. CASE e.adapter = None /\ free # {}
  <2>1. end.adapter = ads[Min(free)].name /\ end.all = ads
    BY <1>3, <1>0 DEF Endpoint
  <2>2. free \in SUBSET Nat
    BY <1>1 DEF Owned
  <2>3. Min(free) \in free
    BY <1>3, <2>2, LeastNumber
  <2> HIDE DEF free
  <2>4. Min(free) \in DOMAIN ads /\ ads[Min(free)].owner = e.node /\ ads[Min(free)].name \notin used
    BY <2>3 DEF free, Owned
  <2>5. ads[Min(free)].name \in Seq(Nat)
    BY <1>1, <2>4, AdapterFields
  <2> QED BY <2>1, <2>4, <2>5 DEF Given
<1>4. CASE e.adapter = None /\ free = {}
  <2>1. end.adapter = new.name /\ end.all = Append(ads, new)
    BY <1>4, <1>0 DEF Endpoint
  <2>2. e.node \in Nodes /\ Resource(e.node).kind \in {"host", "switch"}
        /\ new.name \notin Reserved(ads)
    BY <1>4 DEF EndpointFits
  <2>3. /\ AdaptersFit(Append(ads, new)) /\ new \in AdapterRecord
        /\ new.owner = e.node /\ new.setting # "fixed" /\ new.ip = 0
    BY <2>2, AdapterGenerated
  <2> HIDE DEF new
  <2>4. /\ DOMAIN end.all = 1..(Len(ads) + 1) /\ end.all[Len(ads) + 1] = new
        /\ \A j \in DOMAIN ads : end.all[j] = ads[j]
    BY <1>1, <2>1, <2>3
  <2>5. new.name \notin used /\ new.name \in Seq(Nat)
    BY <2>2, <2>3 DEF Reserved, AdapterRecord
  <2>6. Len(ads) + 1 \in DOMAIN end.all
    BY <1>1, <2>4
  <2>7. \A j \in DOMAIN end.all : j \in DOMAIN ads \/ j = Len(ads) + 1
    BY <1>1, <2>4
  <2>8. \A j \in DOMAIN ads : j \in DOMAIN end.all
    BY <1>1, <2>4
  <2> QED BY <2>1, <2>3, <2>4, <2>5, <2>6, <2>7, <2>8 DEF Given
<1> QED BY <1>2, <1>3, <1>4

(* A link gets two adapters that no link has, one of each of its nodes.    *)
LEMMA ResolveNetwork ==
    ASSUME PlanTypeOK, NetworkInPlace, ResolveLink
    PROVE  NetworkInPlace'
<1> DEFINE n == Len(links)
           l == doc.links[n + 1]
           first == Endpoint(l.ends[1], adapters, Used)
           second == Endpoint(l.ends[2], first.all, Used \cup {first.adapter})
           fit == /\ EndpointFits(l.ends[1], adapters, Used)
                  /\ EndpointFits(l.ends[2], first.all, Used \cup {first.adapter})
<1>1. /\ stage = "links" /\ n < Len(doc.links)
      /\ UNCHANGED <<doc, declared, candidate, dpid, instances, edges, graph, visited>>
  BY DEF ResolveLink
<1>2. IF fit THEN /\ links' = Append(links, <<first.adapter, second.adapter>>)
                  /\ adapters' = second.all
                  /\ UNCHANGED <<stage, error>>
             ELSE Refuse("links") /\ UNCHANGED <<links, adapters>>
  BY DEF ResolveLink
<1>3. CASE ~fit
  <2>1. stage' = "refused" /\ error' = "links" /\ UNCHANGED <<links, adapters>>
    BY <1>2, <1>3 DEF Refuse
  <2> QED BY <1>1, <2>1, NetworkRefused
<1>4. CASE fit
  <2>1. /\ links' = Append(links, <<first.adapter, second.adapter>>)
        /\ adapters' = second.all /\ UNCHANGED <<stage, error>>
    BY <1>2, <1>4
  <2>2. /\ doc \in Documents /\ ResourcesFit /\ AdaptersFit(adapters) /\ error = "none"
        /\ LinksInPlace
    BY <1>1 DEF PlanTypeOK, NetworkInPlace, ResourcesChecked
  <2>3. links \in Seq(Seq(Nat) \X Seq(Nat)) /\ n \in Nat /\ DOMAIN links = 1..n
    BY <2>2 DEF LinksInPlace
  <2>21. \A i \in DOMAIN links, k \in 1..2 :
            \E j \in DOMAIN adapters : /\ adapters[j].name = links[i][k]
                                       /\ adapters[j].owner = doc.links[i].ends[k].node
    BY <2>2 DEF LinksInPlace
  <2>22. \A i, j \in DOMAIN links, k, m \in 1..2 :
            i # j \/ k # m => links[i][k] # links[j][m]
    BY <2>2 DEF LinksInPlace
  <2>4. Used \subseteq Names(adapters)
    BY <2>21 DEF Used, Names
  <2>5. EndpointFits(l.ends[1], adapters, Used)
        /\ EndpointFits(l.ends[2], first.all, Used \cup {first.adapter})
    BY <1>4
  <2> HIDE DEF fit
  <2>19. first = Endpoint(l.ends[1], adapters, Used)
         /\ second = Endpoint(l.ends[2], first.all, Used \cup {first.adapter})
    OBVIOUS
  <2> HIDE DEF first, second
  <2>6. /\ AdaptersFit(first.all)
        /\ \A j \in DOMAIN adapters : j \in DOMAIN first.all /\ first.all[j] = adapters[j]
        /\ \A j \in DOMAIN first.all :
              j \in DOMAIN adapters \/ (first.all[j].setting # "fixed" /\ first.all[j].ip = 0)
        /\ first.adapter \notin Used /\ first.adapter \in Seq(Nat)
        /\ \E j \in DOMAIN first.all :
              first.all[j].name = first.adapter /\ first.all[j].owner = l.ends[1].node
    <3>1. Given(l.ends[1], adapters, Used, Endpoint(l.ends[1], adapters, Used))
      BY <2>2, <2>4, <2>5, EndpointKeeps
    <3> QED BY <2>19, <3>1 DEF Given
  <2>7. Used \cup {first.adapter} \subseteq Names(first.all)
    BY <2>4, <2>6 DEF Names
  <2>8. /\ AdaptersFit(second.all)
        /\ \A j \in DOMAIN first.all : j \in DOMAIN second.all /\ second.all[j] = first.all[j]
        /\ \A j \in DOMAIN second.all :
              j \in DOMAIN first.all \/ (second.all[j].setting # "fixed" /\ second.all[j].ip = 0)
        /\ second.adapter \notin Used \cup {first.adapter} /\ second.adapter \in Seq(Nat)
        /\ \E j \in DOMAIN second.all :
              second.all[j].name = second.adapter /\ second.all[j].owner = l.ends[2].node
    <3>1. Given(l.ends[2], first.all, Used \cup {first.adapter},
                Endpoint(l.ends[2], first.all, Used \cup {first.adapter}))
      BY <2>2, <2>5, <2>6, <2>7, EndpointKeeps
    <3> QED BY <2>19, <3>1 DEF Given
  <2> DEFINE link == <<first.adapter, second.adapter>>
  <2>9. /\ links' \in Seq(Seq(Nat) \X Seq(Nat)) /\ Len(links') = n + 1 /\ DOMAIN links' = 1..(n + 1)
        /\ links'[n + 1] = link /\ \A i \in DOMAIN links : links'[i] = links[i]
    BY <2>1, <2>3, <2>6, <2>8
  <2>10. link[1] = first.adapter /\ link[2] = second.adapter
    OBVIOUS
  <2> HIDE DEF link
  <2>11. \A i \in DOMAIN links' : i \in DOMAIN links \/ i = n + 1
    BY <2>3, <2>9
  <2>12. ASSUME NEW i \in DOMAIN links', NEW k \in 1..2
         PROVE  \E j \in DOMAIN adapters' : /\ adapters'[j].name = links'[i][k]
                                            /\ adapters'[j].owner = doc.links[i].ends[k].node
    <3>1. CASE i \in DOMAIN links
      <4>1. PICK j \in DOMAIN adapters : /\ adapters[j].name = links[i][k]
                                         /\ adapters[j].owner = doc.links[i].ends[k].node
        BY <2>21, <3>1
      <4>2. j \in DOMAIN adapters' /\ adapters'[j] = adapters[j]
        BY <2>1, <2>6, <2>8
      <4> QED BY <2>9, <3>1, <4>1, <4>2
    <3>2. CASE i = n + 1
      <4>1. k = 1 \/ k = 2
        OBVIOUS
      <4>2. CASE k = 1
        <5>1. links'[i][k] = first.adapter
          BY <2>9, <2>10, <3>2, <4>2
        <5>2. PICK j \in DOMAIN first.all :
                  first.all[j].name = first.adapter /\ first.all[j].owner = l.ends[1].node
          BY <2>6
        <5>3. j \in DOMAIN adapters' /\ adapters'[j] = first.all[j]
          BY <2>1, <2>8
        <5> QED BY <3>2, <4>2, <5>1, <5>2, <5>3
      <4>3. CASE k = 2
        <5>1. links'[i][k] = second.adapter
          BY <2>9, <2>10, <3>2, <4>3
        <5> QED BY <2>1, <2>8, <3>2, <4>3, <5>1
      <4> QED BY <4>1, <4>2, <4>3
    <3> QED BY <2>11, <3>1, <3>2
  <2>13. ASSUME NEW i \in DOMAIN links', NEW j \in DOMAIN links', NEW k \in 1..2, NEW m \in 1..2,
                i # j \/ k # m
         PROVE  links'[i][k] # links'[j][m]
    <3>1. \A p \in DOMAIN links, q \in 1..2 : links[p][q] \in Used
      BY DEF Used
    <3>2. \A q \in 1..2 : q = 1 \/ q = 2
      OBVIOUS
    <3>3. first.adapter # second.adapter /\ first.adapter \notin Used /\ second.adapter \notin Used
      BY <2>6, <2>8
    <3>4. CASE i \in DOMAIN links /\ j \in DOMAIN links
      BY <2>9, <2>13, <2>22, <3>4
    <3>5. CASE i = n + 1 /\ j \in DOMAIN links
      BY <2>9, <2>10, <3>1, <3>2, <3>3, <3>5
    <3>6. CASE i \in DOMAIN links /\ j = n + 1
      BY <2>9, <2>10, <3>1, <3>2, <3>3, <3>6
    <3>7. CASE i = n + 1 /\ j = n + 1
      BY <2>9, <2>10, <2>13, <3>2, <3>3, <3>7
    <3> QED BY <2>11, <3>4, <3>5, <3>6, <3>7
  <2>14. LinksInPlace'
    <3>1. stage' = "links" /\ Len(links') <= Len(doc'.links)
      <4>1. Len(doc.links) \in Nat
        BY <2>2, DocumentFits
      <4> QED BY <1>1, <2>1, <2>3, <2>9, <4>1
    <3>2. doc' = doc
      BY <1>1
    <3> QED BY <2>9, <2>12, <2>13, <3>1, <3>2 DEF LinksInPlace, Declares, Allocates, Expands
  <2>15. AdaptersFit(adapters)' /\ ResourcesChecked'
    <3>1. /\ \A q : Resource(q)' = Resource(q)
          /\ (ResourcesFit' <=> ResourcesFit) /\ Nodes' = Nodes /\ Links' = Links
      BY <1>1, SameResources
    <3>2. AdaptersFit(adapters)'
      BY <2>1, <2>8, <3>1 DEF AdaptersFit
    <3> QED BY <1>1, <2>1, <2>2, <3>1, <3>2 DEF ResourcesChecked
  <2>16. AddressesInPlace'
    <3>1. candidate = 1
          /\ \A j \in DOMAIN adapters : adapters[j].setting # "fixed" => adapters[j].ip = 0
      BY <1>1 DEF NetworkInPlace, AddressesInPlace, Resolves, Declares
    <3>2. candidate' = 1
          /\ \A j \in DOMAIN adapters' : adapters'[j].setting # "fixed" => adapters'[j].ip = 0
      BY <1>1, <2>1, <2>6, <2>8, <3>1
    <3>3. stage' = "links"
      BY <1>1, <2>1
    <3> QED BY <3>2, <3>3 DEF AddressesInPlace, Allocates, Expands
  <2>17. DeclaredInOrder'
    BY <1>1, <2>1 DEF NetworkInPlace, DeclaredInOrder, Declares
  <2>18. DpidsInPlace' /\ ExhaustionIsReal'
    BY <1>1, <2>1, <2>2 DEF DpidsInPlace, ExhaustionIsReal, Expands
  <2> QED BY <2>14, <2>15, <2>16, <2>17, <2>18 DEF NetworkInPlace
<1> QED BY <1>3, <1>4

-----------------------------------------------------------------------------
(* Addresses *)

(* The parts of a name, and what makes two names the same.                 *)
LEMMA NameParts ==
    /\ \A a : IsName(a) => a[1] \in Nat /\ Len(a) \in {1, 2} /\ (Len(a) = 2 => a[2] \in Nat)
    /\ \A a, b : IsName(a) /\ IsName(b) /\ a[1] = b[1] /\ Len(a) = Len(b)
                 /\ (Len(a) = 2 => a[2] = b[2]) => a = b
<1>1. ASSUME NEW a, IsName(a)
      PROVE  a[1] \in Nat /\ Len(a) \in {1, 2} /\ (Len(a) = 2 => a[2] \in Nat)
  <2>1. a \in Seq(Nat) /\ (Len(a) = 1 \/ Len(a) = 2)
    BY <1>1 DEF IsName
  <2>2. CASE Len(a) = 1
    <3>1. 1 \in 1..Len(a)
      BY <2>2
    <3> QED BY <2>1, <2>2, <3>1, ElementOfSeq
  <2>3. CASE Len(a) = 2
    <3>1. 1 \in 1..Len(a) /\ 2 \in 1..Len(a)
      BY <2>3
    <3> QED BY <2>1, <2>3, <3>1, ElementOfSeq
  <2> QED BY <2>1, <2>2, <2>3
<1>2. ASSUME NEW a, NEW b, IsName(a), IsName(b), a[1] = b[1], Len(a) = Len(b),
             Len(a) = 2 => a[2] = b[2]
      PROVE  a = b
  <2>1. a \in Seq(Nat) /\ b \in Seq(Nat) /\ (Len(a) = 1 \/ Len(a) = 2)
    BY <1>2 DEF IsName
  <2>2. \A k \in 1..Len(a) : a[k] = b[k]
    <3>1. CASE Len(a) = 1
      <4>1. \A k \in 1..Len(a) : k = 1
        BY <3>1
      <4> QED BY <1>2, <4>1
    <3>2. CASE Len(a) = 2
      <4>1. \A k \in 1..Len(a) : k = 1 \/ k = 2
        BY <3>2
      <4> QED BY <1>2, <3>2, <4>1
    <3> QED BY <2>1, <3>1, <3>2
  <2> QED BY <1>2, <2>1, <2>2, SeqEqual
<1> QED BY <1>1, <1>2

(* Of some adapters one is the first by name.                              *)
LEMMA FirstExists ==
    ASSUME AdaptersFit(adapters), NEW S, S \subseteq DOMAIN adapters, S # {}
    PROVE  FirstByName(S) \in S
<1> DEFINE name(i) == adapters[i].name
           Heads == {name(i)[1] : i \in S}
           head == Min(Heads)
           T == {i \in S : name(i)[1] = head}
           Tails == {name(i)[2] : i \in T}
           tail == Min(Tails)
<1>1. \A i \in S : IsName(name(i))
  BY DEF AdaptersFit
<1>2. \A i, j \in S : i # j => name(i) # name(j)
  BY DEF AdaptersFit
<1> HIDE DEF name
<1>3. \A i \in S : name(i)[1] \in Nat
  BY <1>1, NameParts
<1>4. head \in Heads /\ \A m \in Heads : head <= m
  <2>1. Heads \in SUBSET Nat /\ Heads # {}
    BY <1>3
  <2> HIDE DEF Heads
  <2> QED BY <2>1, LeastNumber
<1>5. /\ head \in Nat /\ \A i \in S : head <= name(i)[1]
      /\ \E i \in S : name(i)[1] = head
  BY <1>3, <1>4
<1> HIDE DEF head, Heads
<1>6. \A i \in S \ T : head < name(i)[1]
  BY <1>3, <1>5
<1>7. \E i \in S : \A j \in S \ {i} : Before(name(i), name(j))
  <2>1. CASE \E i \in T : Len(name(i)) = 1
    <3>1. PICK i \in T : Len(name(i)) = 1
      BY <2>1
    <3>2. ASSUME NEW j \in S \ {i} PROVE Before(name(i), name(j))
      <4>1. CASE j \in T
        <5>1. Len(name(j)) # 1
          BY <1>1, <1>2, <3>1, <3>2, <4>1, NameParts
        <5> QED BY <1>1, <3>1, <4>1, <5>1, NameParts DEF Before
      <4>2. CASE j \notin T
        BY <1>6, <3>1, <4>2 DEF Before
      <4> QED BY <4>1, <4>2
    <3> QED BY <3>1, <3>2
  <2>2. CASE \A i \in T : Len(name(i)) # 1
    <3>1. \A i \in T : Len(name(i)) = 2 /\ name(i)[2] \in Nat
      BY <1>1, <2>2, NameParts
    <3>2. tail \in Tails /\ \A m \in Tails : tail <= m
      <4>1. Tails \in SUBSET Nat /\ Tails # {}
        BY <1>5, <3>1
      <4> HIDE DEF Tails
      <4> QED BY <4>1, LeastNumber
    <3>3. PICK i \in T : name(i)[2] = tail
      BY <3>2
    <3>4. \A j \in T : tail <= name(j)[2]
      BY <3>2
    <3> HIDE DEF tail, Tails
    <3>5. ASSUME NEW j \in S \ {i} PROVE Before(name(i), name(j))
      <4>1. CASE j \in T
        <5>1. name(j)[2] # tail
          BY <1>1, <1>2, <3>1, <3>3, <3>5, <4>1, NameParts
        <5>2. tail < name(j)[2]
          BY <3>1, <3>3, <3>4, <4>1, <5>1
        <5> QED BY <3>1, <3>3, <4>1, <5>2 DEF Before
      <4>2. CASE j \notin T
        BY <1>6, <3>3, <4>2 DEF Before
      <4> QED BY <4>1, <4>2
    <3> QED BY <3>3, <3>5
  <2> QED BY <2>1, <2>2
<1> QED BY <1>7 DEF FirstByName, name

(* An adapter of a host that is given something else than a name.          *)
LEMMA AdapterChanged ==
    ASSUME AdaptersFit(adapters), doc' = doc, NEW i \in HostAdapters, NEW new \in AdapterRecord,
           new.name = adapters[i].name, new.owner = adapters[i].owner,
           new.number = adapters[i].number, adapters' = [adapters EXCEPT ![i] = new]
    PROVE  /\ AdaptersFit(adapters)' /\ HostAdapters' = HostAdapters
           /\ DOMAIN adapters' = DOMAIN adapters /\ adapters'[i] = new
           /\ \A j \in DOMAIN adapters : j # i => adapters'[j] = adapters[j]
           /\ \A j \in DOMAIN adapters :
                 adapters'[j].name = adapters[j].name /\ adapters'[j].owner = adapters[j].owner
<1>1. adapters \in Seq(AdapterRecord) /\ i \in DOMAIN adapters
      /\ Resource(adapters[i].owner).kind = "host"
  BY DEF AdaptersFit, HostAdapters, IsHostAdapter
<1>2. /\ adapters' \in Seq(AdapterRecord) /\ DOMAIN adapters' = DOMAIN adapters
      /\ adapters'[i] = new /\ \A j \in DOMAIN adapters : j # i => adapters'[j] = adapters[j]
  BY <1>1, ExceptSeq
<1>3. \A j \in DOMAIN adapters : /\ adapters'[j].name = adapters[j].name
                                 /\ adapters'[j].owner = adapters[j].owner
                                 /\ adapters'[j].number = adapters[j].number
  BY <1>2
<1>4. \A n : Resource(n)' = Resource(n)
  BY SameResources
<1>5. Nodes' = Nodes /\ Links' = Links
  BY SameResources
<1>6. HostAdapters' = HostAdapters
  BY <1>2, <1>3, <1>4 DEF HostAdapters, IsHostAdapter
<1>7. ASSUME NEW j \in DOMAIN adapters'
      PROVE  /\ IsName(adapters'[j].name) /\ adapters'[j].name \notin Nodes \cup Links
             /\ adapters'[j].owner \in Nodes
             /\ Resource(adapters'[j].owner).kind \in {"host", "switch"}
             /\ Resource(adapters'[j].owner).kind = "switch" =>
                   adapters'[j].setting = "none" /\ adapters'[j].ip = 0 /\ adapters'[j].mac = 0
  <2>1. /\ IsName(adapters[j].name) /\ adapters[j].name \notin Nodes \cup Links
        /\ adapters[j].owner \in Nodes /\ Resource(adapters[j].owner).kind \in {"host", "switch"}
        /\ Resource(adapters[j].owner).kind = "switch" =>
              adapters[j].setting = "none" /\ adapters[j].ip = 0 /\ adapters[j].mac = 0
    BY <1>2, <1>7 DEF AdaptersFit
  <2>2. CASE j = i
    BY <1>1, <1>2, <1>3, <2>1, <2>2
  <2>3. CASE j # i
    <3>1. adapters'[j] = adapters[j]
      BY <1>2, <1>7, <2>3
    <3> QED BY <2>1, <3>1
  <2> QED BY <2>2, <2>3
<1>8. \A j, k \in DOMAIN adapters' : j # k =>
          /\ adapters'[j].name # adapters'[k].name
          /\ adapters'[j].owner = adapters'[k].owner => adapters'[j].number # adapters'[k].number
  BY <1>2, <1>3 DEF AdaptersFit
<1>9. AdaptersFit(adapters)'
  BY <1>2, <1>4, <1>5, <1>7, <1>8 DEF AdaptersFit
<1> QED BY <1>2, <1>3, <1>6, <1>9

(* Fixed addresses are distinct before any are handed out.                 *)
LEMMA ReserveNetwork ==
    ASSUME PlanTypeOK, NetworkInPlace, ReserveFixed
    PROVE  NetworkInPlace'
<1>1. /\ stage = "addresses"
      /\ UNCHANGED <<doc, declared, adapters, links, candidate, dpid, instances,
                     edges, graph, visited>>
  BY DEF ReserveFixed
<1>2. \/ stage' = "refused" /\ error' = "addresses"
      \/ /\ stage' = "allocate" /\ UNCHANGED error
         /\ \A i \in Fixed : adapters[i].ip \in 1..(Broadcast - 1)
         /\ \A i, j \in Fixed : i # j => adapters[i].ip # adapters[j].ip
  BY DEF ReserveFixed, Refuse
<1>3. CASE stage' = "refused" /\ error' = "addresses"
  BY <1>1, <1>3, NetworkRefused
<1>4. CASE /\ stage' = "allocate" /\ UNCHANGED error
           /\ \A i \in Fixed : adapters[i].ip \in 1..(Broadcast - 1)
           /\ \A i, j \in Fixed : i # j => adapters[i].ip # adapters[j].ip
  <2>1. /\ AdaptersFit(adapters)' /\ HostAdapters' = HostAdapters /\ UsedIps' = UsedIps
        /\ Broadcast' = Broadcast /\ (ResourcesFit' <=> ResourcesFit)
    BY <1>1, SameAdapters, SameResources DEF NetworkInPlace
  <2>2. LinksInPlace'
    BY <1>1, <1>4, LinksStay DEF NetworkInPlace, Declares, Allocates, Expands
  <2>3. AddressesInPlace'
    <3>1. /\ candidate = 1
          /\ \A i \in HostAdapters : adapters[i].setting # "fixed" => adapters[i].ip = 0
      BY <1>1 DEF NetworkInPlace, AddressesInPlace, HostAdapters
    <3>2. \A i \in HostAdapters : adapters[i].setting = "fixed" => i \in Fixed
      BY DEF Fixed
    <3>3. Broadcast \in Nat
      BY DocumentFits DEF PlanTypeOK
    <3>4. \A i \in HostAdapters :
            /\ adapters[i].setting = "fixed" => adapters[i].ip # 0
            /\ adapters[i].setting = "none" => adapters[i].ip = 0
            /\ adapters[i].ip # 0 => adapters[i].ip \in 1..(Broadcast - 1)
      BY <1>4, <3>1, <3>2, <3>3
    <3>5. \A i, j \in HostAdapters :
            i # j /\ adapters[i].ip # 0 => adapters[i].ip # adapters[j].ip
      BY <1>4, <3>1, <3>2
    <3>6. \A n \in 1..(Broadcast - 1) : ~(n < 1)
      BY <3>3
    <3> QED BY <1>1, <1>4, <2>1, <3>1, <3>4, <3>5, <3>6
            DEF AddressesInPlace, Declares, Resolves, Allocates, Expands
  <2>4. ResourcesChecked' /\ DeclaredInOrder' /\ DpidsInPlace' /\ ExhaustionIsReal'
    BY <1>1, <1>4, <2>1 DEF NetworkInPlace, ResourcesChecked, DeclaredInOrder, DpidsInPlace,
       ExhaustionIsReal, Declares, Expands
  <2> QED BY <2>1, <2>2, <2>3, <2>4 DEF NetworkInPlace
<1> QED BY <1>2, <1>3, <1>4

(* When no address is left there are fewer of them than interfaces that    *)
(* want one: those below the candidate are all used, too.                  *)
LEMMA ExhaustedForReal ==
    ASSUME PlanTypeOK, NetworkInPlace, stage = "allocate", Unaddressed # {}, Pool = {}
    PROVE  Cardinality({i \in HostAdapters : adapters[i].setting = "auto"})
              > Cardinality((1..(Broadcast - 1)) \ {adapters[i].ip : i \in Fixed})
<1> DEFINE A == {i \in HostAdapters : adapters[i].setting = "auto"}
           G == A \ Unaddressed
           free == (1..(Broadcast - 1)) \ {adapters[i].ip : i \in Fixed}
           f == [i \in G |-> adapters[i].ip]
<1>1. adapters \in Seq(AdapterRecord) /\ Broadcast \in Nat /\ candidate \in Nat
  BY DocumentFits DEF PlanTypeOK, NetworkInPlace, AdaptersFit, AddressesInPlace
<1>2. IsFiniteSet(A) /\ Unaddressed \subseteq A
  <2>1. A \subseteq 1..Len(adapters) /\ Len(adapters) \in Nat
    BY <1>1 DEF HostAdapters
  <2>2. IsFiniteSet(A)
    <3>1. IsFiniteSet(1..Len(adapters))
      BY <2>1, FS_Interval
    <3> QED BY <2>1, <3>1, FS_Subset
  <2>3. Unaddressed \subseteq A
    BY DEF Unaddressed
  <2> QED BY <2>2, <2>3
<1>3. /\ \A i \in HostAdapters : adapters[i].setting = "none" => adapters[i].ip = 0
      /\ \A n \in 1..(Broadcast - 1) : n < candidate => n \in UsedIps
  BY DEF NetworkInPlace, AddressesInPlace, Allocates
<1>4. \A n \in 1..(Broadcast - 1) : n \in UsedIps
  <2>1. SUFFICES ASSUME NEW n \in 1..(Broadcast - 1), n \notin UsedIps PROVE FALSE
    OBVIOUS
  <2>2. n \in candidate..(Broadcast - 1)
    BY <1>1, <1>3, <2>1
  <2> QED BY <2>1, <2>2 DEF Pool
<1>5. \A n \in free : \E i \in G : n = adapters[i].ip
  <2>1. SUFFICES ASSUME NEW n \in free PROVE \E i \in G : n = adapters[i].ip
    OBVIOUS
  <2>2. PICK i \in HostAdapters : n = adapters[i].ip /\ n # 0
    BY <1>4 DEF UsedIps
  <2>3. i \in DOMAIN adapters /\ adapters[i].setting \in {"auto", "fixed", "none"}
    BY <1>1, AdapterFields DEF HostAdapters
  <2>4. adapters[i].setting = "auto"
    BY <1>3, <2>2, <2>3 DEF Fixed
  <2> QED BY <2>2, <2>4 DEF Unaddressed
<1>6. IsFiniteSet(G) /\ Cardinality(G) < Cardinality(A) /\ Cardinality(A) \in Nat
  <2>1. G \subseteq A /\ G # A
    BY <1>2
  <2> QED BY <1>2, <2>1, FS_Subset, FS_CardinalityType
<1>7. DOMAIN f = G /\ \A i \in G : f[i] = adapters[i].ip
  OBVIOUS
<1> HIDE DEF f, G, free, A
<1>8. Cardinality(free) <= Cardinality(G) /\ Cardinality(free) \in Nat
  BY <1>5, <1>6, <1>7, CoveredFinite
<1>9. Cardinality(G) \in Nat
  BY <1>6, FS_CardinalityType
<1>10. Cardinality(A) > Cardinality(free)
  BY <1>6, <1>8, <1>9
<1> QED BY <1>10 DEF A, free

(* An interface gets the first address that nobody uses.                   *)
LEMMA AddressNetwork ==
    ASSUME PlanTypeOK, NetworkInPlace, AllocateAddress
    PROVE  NetworkInPlace'
<1> DEFINE i == FirstByName(Unaddressed)
           m == Min(Pool)
<1>1. /\ stage = "allocate" /\ Unaddressed # {}
      /\ UNCHANGED <<doc, declared, links, dpid, instances, edges, graph, visited>>
  BY DEF AllocateAddress
<1>2. \/ Pool = {} /\ stage' = "refused" /\ error' = "exhausted"
         /\ UNCHANGED <<adapters, candidate>>
      \/ /\ Pool # {} /\ adapters' = [adapters EXCEPT ![i].ip = m] /\ candidate' = m + 1
         /\ UNCHANGED <<stage, error>>
  BY DEF AllocateAddress, Refuse
<1>3. /\ adapters \in Seq(AdapterRecord) /\ AdaptersFit(adapters)
      /\ Broadcast \in Nat /\ candidate \in Nat \ {0} /\ error = "none" /\ ResourcesFit
  BY <1>1, DocumentFits
       DEF PlanTypeOK, NetworkInPlace, AdaptersFit, AddressesInPlace, ResourcesChecked
<1>4. CASE Pool = {} /\ stage' = "refused" /\ error' = "exhausted"
           /\ UNCHANGED <<adapters, candidate>>
  <2>1. ExhaustionIsReal'
    <3>1. HostAdapters' = HostAdapters
      BY <1>1, <1>4, SameAdapters
    <3>2. Broadcast' = Broadcast
      BY <1>1, SameResources
    <3> QED BY <1>1, <1>4, <3>1, <3>2, ExhaustedForReal DEF ExhaustionIsReal, Fixed
  <2>2. ResourcesChecked' /\ AdaptersFit(adapters)'
    BY <1>1, <1>3, <1>4, SameResources, SameAdapters DEF ResourcesChecked
  <2>3. LinksInPlace'
    BY <1>1, <1>4, LinksStay DEF NetworkInPlace, Declares, Allocates, Expands
  <2>4. DeclaredInOrder' /\ AddressesInPlace' /\ DpidsInPlace'
    BY <1>1, <1>4 DEF NetworkInPlace, DeclaredInOrder, AddressesInPlace, DpidsInPlace,
       Declares, Resolves, Allocates, Expands
  <2> QED BY <2>1, <2>2, <2>3, <2>4 DEF NetworkInPlace
<1>5. CASE /\ Pool # {} /\ adapters' = [adapters EXCEPT ![i].ip = m] /\ candidate' = m + 1
           /\ UNCHANGED <<stage, error>>
  <2>1. i \in Unaddressed
    BY <1>1, <1>3, FirstExists DEF Unaddressed, HostAdapters
  <2>2. m \in Pool /\ \A n \in Pool : m <= n
    <3>1. Pool \in SUBSET Nat
      BY <1>3 DEF Pool
    <3> QED BY <1>5, <3>1, LeastNumber
  <2> DEFINE new == [adapters[i] EXCEPT !.ip = m]
  <2>3. adapters' = [adapters EXCEPT ![i] = new]
    BY <1>5
  <2> HIDE DEF i, m
  <2>4. /\ m \in Nat /\ m \in 1..(Broadcast - 1) /\ m >= candidate /\ m \notin UsedIps
        /\ \A n \in 1..(Broadcast - 1) : candidate <= n /\ n < m => n \in UsedIps
    BY <1>3, <2>2 DEF Pool
  <2>5. /\ i \in HostAdapters /\ i \in DOMAIN adapters
        /\ adapters[i].setting = "auto" /\ adapters[i].ip = 0
    BY <2>1 DEF Unaddressed, HostAdapters
  <2>6. /\ new \in AdapterRecord /\ new.name = adapters[i].name /\ new.owner = adapters[i].owner
        /\ new.number = adapters[i].number /\ new.ip = m /\ new.mac = adapters[i].mac
        /\ new.setting = adapters[i].setting
    <3>1. adapters[i] \in AdapterRecord
      BY <1>3, <2>5, AdapterFields
    <3> QED BY <2>4, <3>1 DEF AdapterRecord
  <2> HIDE DEF new
  <2>7. /\ AdaptersFit(adapters)' /\ HostAdapters' = HostAdapters
        /\ DOMAIN adapters' = DOMAIN adapters /\ adapters'[i] = new
        /\ \A j \in DOMAIN adapters : j # i => adapters'[j] = adapters[j]
        /\ \A j \in DOMAIN adapters :
              adapters'[j].name = adapters[j].name /\ adapters'[j].owner = adapters[j].owner
    BY <1>1, <1>3, <2>3, <2>5, <2>6, AdapterChanged
  <2>8. \A j \in HostAdapters : j \in DOMAIN adapters
    BY DEF HostAdapters
  <2>9. LinksInPlace'
    BY <1>1, <1>5, <2>7, LinksStay DEF NetworkInPlace, Declares, Allocates, Expands
  <2>10. /\ \A j \in HostAdapters :
              /\ adapters[j].setting = "fixed" => adapters[j].ip # 0
              /\ adapters[j].setting = "none" => adapters[j].ip = 0
              /\ adapters[j].ip # 0 => adapters[j].ip \in 1..(Broadcast - 1)
         /\ \A j, k \in HostAdapters :
              j # k /\ adapters[j].ip # 0 => adapters[j].ip # adapters[k].ip
         /\ \A n \in 1..(Broadcast - 1) : n < candidate => n \in UsedIps
    BY <1>1 DEF NetworkInPlace, AddressesInPlace, Allocates
  <2>11. \A j \in HostAdapters : adapters[j].ip # m
    BY <2>4 DEF UsedIps
  <2>12. ASSUME NEW j \in HostAdapters
         PROVE  /\ adapters'[j].setting = "fixed" => adapters'[j].ip # 0
                /\ adapters'[j].setting = "none" => adapters'[j].ip = 0
                /\ adapters'[j].ip # 0 => adapters'[j].ip \in 1..(Broadcast - 1)
    BY <2>4, <2>5, <2>6, <2>7, <2>8, <2>10
  <2>13. ASSUME NEW j \in HostAdapters, NEW k \in HostAdapters, j # k
         PROVE  adapters'[j].ip # 0 => adapters'[j].ip # adapters'[k].ip
    BY <2>5, <2>6, <2>7, <2>8, <2>10, <2>11, <2>13
  <2>14. ASSUME NEW n \in 1..(Broadcast - 1), n < m + 1 PROVE n \in UsedIps'
    <3>1. CASE n = m
      BY <2>4, <2>5, <2>6, <2>7, <3>1 DEF UsedIps
    <3>2. CASE n # m
      <4>1. n \in UsedIps
        BY <1>3, <2>4, <2>10, <2>14, <3>2
      <4>2. PICK j \in HostAdapters : n = adapters[j].ip /\ n # 0
        BY <4>1 DEF UsedIps
      <4>3. adapters'[j] = adapters[j]
        BY <2>5, <2>7, <2>8, <4>2
      <4> QED BY <2>7, <4>2, <4>3 DEF UsedIps
    <3> QED BY <3>1, <3>2
  <2>15. AddressesInPlace'
    <3>1. stage' = "allocate" /\ candidate' = m + 1 /\ m + 1 \in Nat \ {0}
      BY <1>1, <1>5, <2>4
    <3>2. Broadcast' = Broadcast
      BY <1>1, SameResources
    <3> QED BY <2>7, <2>12, <2>13, <2>14, <3>1, <3>2
            DEF AddressesInPlace, Declares, Resolves, Allocates, Expands
  <2>16. ResourcesChecked' /\ DeclaredInOrder' /\ DpidsInPlace' /\ ExhaustionIsReal'
    BY <1>1, <1>3, <1>5, SameResources
         DEF NetworkInPlace, ResourcesChecked, DeclaredInOrder, DpidsInPlace,
       ExhaustionIsReal, Declares, Expands
  <2> QED BY <2>7, <2>9, <2>15, <2>16 DEF NetworkInPlace
<1> QED BY <1>2, <1>4, <1>5

(* Fixed MACs are distinct before any are handed out, and by then whoever  *)
(* wants an address has one.                                               *)
LEMMA ReserveMacsNetwork ==
    ASSUME PlanTypeOK, NetworkInPlace, ReserveMacs
    PROVE  NetworkInPlace'
<1>1. /\ stage = "allocate" /\ Unaddressed = {}
      /\ UNCHANGED <<doc, declared, adapters, links, candidate, dpid, instances,
                     edges, graph, visited>>
  BY DEF ReserveMacs
<1>2. \/ stage' = "refused" /\ error' = "macs"
      \/ /\ stage' = "macs" /\ UNCHANGED error
         /\ \A i, j \in HostAdapters :
                i # j /\ adapters[i].mac # 0 => adapters[i].mac # adapters[j].mac
  BY DEF ReserveMacs, Refuse
<1>3. CASE stage' = "refused" /\ error' = "macs"
  BY <1>1, <1>3, NetworkRefused
<1>4. CASE /\ stage' = "macs" /\ UNCHANGED error
           /\ \A i, j \in HostAdapters :
                  i # j /\ adapters[i].mac # 0 => adapters[i].mac # adapters[j].mac
  <2>1. /\ AdaptersFit(adapters)' /\ HostAdapters' = HostAdapters /\ UsedIps' = UsedIps
        /\ Broadcast' = Broadcast /\ (ResourcesFit' <=> ResourcesFit)
    BY <1>1, SameAdapters, SameResources DEF NetworkInPlace
  <2>2. LinksInPlace'
    BY <1>1, <1>4, LinksStay DEF NetworkInPlace, Declares, Allocates, Expands
  <2>3. \A i \in HostAdapters : adapters[i].setting # "none" => adapters[i].ip # 0
    <3>1. adapters \in Seq(AdapterRecord)
      BY DEF NetworkInPlace, AdaptersFit
    <3>2. \A i \in HostAdapters : adapters[i].setting \in {"auto", "fixed", "none"}
      BY <3>1, AdapterFields DEF HostAdapters
    <3> QED BY <1>1, <3>2 DEF Unaddressed, NetworkInPlace, AddressesInPlace, Allocates
  <2>4. AddressesInPlace'
    BY <1>1, <1>4, <2>1, <2>3
         DEF NetworkInPlace, AddressesInPlace, Declares, Resolves, Allocates, Expands
  <2>5. ResourcesChecked' /\ DeclaredInOrder' /\ DpidsInPlace' /\ ExhaustionIsReal'
    BY <1>1, <1>4, <2>1 DEF NetworkInPlace, ResourcesChecked, DeclaredInOrder, DpidsInPlace,
       ExhaustionIsReal, Declares, Expands
  <2> QED BY <2>1, <2>2, <2>4, <2>5 DEF NetworkInPlace
<1> QED BY <1>2, <1>3, <1>4

(* An interface gets the first MAC that nobody has.                        *)
LEMMA MacNetwork ==
    ASSUME PlanTypeOK, NetworkInPlace, AllocateMac
    PROVE  NetworkInPlace'
<1> DEFINE bare == {i \in HostAdapters : adapters[i].mac = 0}
           free == (1..MaxSuffix) \ UsedMacs
           i == FirstByName(bare)
           m == Min(free)
<1>1. /\ stage = "macs"
      /\ UNCHANGED <<doc, declared, links, candidate, dpid, instances, edges, graph, visited>>
  BY DEF AllocateMac
<1>2. \/ bare = {} /\ stage' = "reserve" /\ UNCHANGED <<adapters, error>>
      \/ stage' = "refused" /\ error' = "macs" /\ UNCHANGED adapters
      \/ /\ bare # {} /\ free # {} /\ adapters' = [adapters EXCEPT ![i].mac = m]
         /\ UNCHANGED <<stage, error>>
  BY DEF AllocateMac, Refuse
<1>3. /\ adapters \in Seq(AdapterRecord) /\ AdaptersFit(adapters) /\ error = "none" /\ ResourcesFit
      /\ candidate \in Nat \ {0}
  BY <1>1 DEF NetworkInPlace, AdaptersFit, AddressesInPlace, ResourcesChecked
<1>4. /\ \A j \in HostAdapters :
            /\ adapters[j].setting = "fixed" => adapters[j].ip # 0
            /\ adapters[j].setting = "none" => adapters[j].ip = 0
            /\ adapters[j].ip # 0 => adapters[j].ip \in 1..(Broadcast - 1)
      /\ \A j, k \in HostAdapters : j # k =>
            /\ adapters[j].ip # 0 => adapters[j].ip # adapters[k].ip
            /\ adapters[j].mac # 0 => adapters[j].mac # adapters[k].mac
      /\ \A n \in 1..(Broadcast - 1) : n < candidate => n \in UsedIps
      /\ \A j \in HostAdapters : adapters[j].setting # "none" => adapters[j].ip # 0
  BY <1>1 DEF NetworkInPlace, AddressesInPlace, Allocates
<1>5. \A j \in HostAdapters : /\ j \in DOMAIN adapters
                              /\ adapters[j].setting \in {"auto", "fixed", "none"}
  BY <1>3, AdapterFields DEF HostAdapters
<1>6. CASE stage' = "refused" /\ error' = "macs" /\ UNCHANGED adapters
  BY <1>1, <1>6, NetworkRefused
<1>7. CASE bare = {} /\ stage' = "reserve" /\ UNCHANGED <<adapters, error>>
  <2>1. /\ AdaptersFit(adapters)' /\ HostAdapters' = HostAdapters /\ UsedIps' = UsedIps
        /\ Broadcast' = Broadcast /\ (ResourcesFit' <=> ResourcesFit)
    BY <1>1, <1>3, <1>7, SameAdapters, SameResources
  <2>2. \A j \in HostAdapters :
            adapters[j].mac # 0 /\ (adapters[j].setting # "none" => adapters[j].ip # 0)
    BY <1>4, <1>7
  <2>3. AddressesInPlace'
    BY <1>1, <1>3, <1>4, <1>7, <2>1, <2>2
         DEF AddressesInPlace, Declares, Resolves, Allocates, Expands
  <2>4. LinksInPlace'
    BY <1>1, <1>7, LinksStay DEF NetworkInPlace, Declares, Allocates, Expands
  <2>5. ResourcesChecked' /\ DeclaredInOrder' /\ DpidsInPlace' /\ ExhaustionIsReal'
    BY <1>1, <1>3, <1>7, <2>1 DEF NetworkInPlace, ResourcesChecked, DeclaredInOrder, DpidsInPlace,
       ExhaustionIsReal, Declares, Expands
  <2> QED BY <2>1, <2>3, <2>4, <2>5 DEF NetworkInPlace
<1>8. CASE /\ bare # {} /\ free # {} /\ adapters' = [adapters EXCEPT ![i].mac = m]
           /\ UNCHANGED <<stage, error>>
  <2>1. i \in bare
    BY <1>3, <1>5, <1>8, FirstExists
  <2>2. m \in free /\ m \in Nat
    <3>1. free \in SUBSET Nat
      OBVIOUS
    <3> QED BY <1>8, <3>1, LeastNumber
  <2> DEFINE new == [adapters[i] EXCEPT !.mac = m]
  <2>3. adapters' = [adapters EXCEPT ![i] = new]
    BY <1>8
  <2> HIDE DEF i, m
  <2>4. i \in HostAdapters /\ i \in DOMAIN adapters /\ adapters[i].mac = 0
    BY <1>5, <2>1
  <2>5. m # 0 /\ \A j \in HostAdapters : adapters[j].mac # m
    BY <2>2 DEF UsedMacs
  <2>6. /\ new \in AdapterRecord /\ new.name = adapters[i].name /\ new.owner = adapters[i].owner
        /\ new.number = adapters[i].number /\ new.ip = adapters[i].ip /\ new.mac = m
        /\ new.setting = adapters[i].setting
    <3>1. adapters[i] \in AdapterRecord
      BY <1>3, <2>4, AdapterFields
    <3> QED BY <2>2, <3>1 DEF AdapterRecord
  <2> HIDE DEF new
  <2>7. /\ AdaptersFit(adapters)' /\ HostAdapters' = HostAdapters
        /\ DOMAIN adapters' = DOMAIN adapters /\ adapters'[i] = new
        /\ \A j \in DOMAIN adapters : j # i => adapters'[j] = adapters[j]
        /\ \A j \in DOMAIN adapters :
              adapters'[j].name = adapters[j].name /\ adapters'[j].owner = adapters[j].owner
    BY <1>1, <1>3, <2>3, <2>4, <2>6, AdapterChanged
  <2>8. \A j \in HostAdapters : /\ adapters'[j].ip = adapters[j].ip
                                /\ adapters'[j].setting = adapters[j].setting
                                /\ adapters'[j].mac = IF j = i THEN m ELSE adapters[j].mac
    BY <1>5, <2>6, <2>7
  <2>9. UsedIps' = UsedIps
    BY <2>7, <2>8 DEF UsedIps
  <2>10. LinksInPlace'
    BY <1>1, <1>8, <2>7, LinksStay DEF NetworkInPlace, Declares, Allocates, Expands
  <2>11. AddressesInPlace'
    <3>1. stage' = "macs" /\ candidate' = candidate /\ Broadcast' = Broadcast
      BY <1>1, <1>8, SameResources
    <3>2. \A j \in HostAdapters :
            /\ adapters'[j].setting = "fixed" => adapters'[j].ip # 0
            /\ adapters'[j].setting = "none" => adapters'[j].ip = 0
            /\ adapters'[j].ip # 0 => adapters'[j].ip \in 1..(Broadcast - 1)
      BY <1>4, <2>8
    <3>3. \A j, k \in HostAdapters : j # k =>
            /\ adapters'[j].ip # 0 => adapters'[j].ip # adapters'[k].ip
            /\ adapters'[j].mac # 0 => adapters'[j].mac # adapters'[k].mac
      BY <1>4, <2>4, <2>5, <2>8
    <3>4. \A j \in HostAdapters : adapters'[j].setting # "none" => adapters'[j].ip # 0
      BY <1>4, <2>8
    <3> QED BY <1>3, <1>4, <2>7, <2>9, <3>1, <3>2, <3>3, <3>4
            DEF AddressesInPlace, Declares, Resolves, Allocates, Expands
  <2>12. ResourcesChecked' /\ DeclaredInOrder' /\ DpidsInPlace' /\ ExhaustionIsReal'
    BY <1>1, <1>3, <1>8, SameResources
         DEF NetworkInPlace, ResourcesChecked, DeclaredInOrder, DpidsInPlace,
       ExhaustionIsReal, Declares, Expands
  <2> QED BY <2>7, <2>10, <2>11, <2>12 DEF NetworkInPlace
<1> QED BY <1>2, <1>6, <1>7, <1>8

-----------------------------------------------------------------------------
(* Datapath ids *)

(* A switch has a name of its own, and its hash is an id or zero.          *)
LEMMA SwitchNamed ==
    ASSUME doc \in Documents, ResourcesFit, NEW n \in Switches
    PROVE  n \in Nodes /\ n[1] \in Nat /\ Hash[n] \in 0..MaxDpid
<1>1. PICK r \in Resources : r.name = n /\ r.kind = "switch"
  BY DEF Switches, OfKind
<1>2. n \in Nodes /\ ResourceFits(r) /\ IsBareName(n)
  BY <1>1, ResourceNamed
<1>3. n[1] \in Nat
  BY <1>2, NameParts DEF IsBareName
<1> QED BY <1>1, <1>2, <1>3 DEF ResourceFits

(* There are no more switches than resources.                              *)
LEMMA SwitchesFinite ==
    ASSUME doc \in Documents
    PROVE  /\ IsFiniteSet(Switches) /\ Cardinality(Switches) \in Nat
           /\ Cardinality(Switches) <= Len(doc.resources)
<1> DEFINE n == Len(doc.resources)
           f == [k \in 1..n |-> doc.resources[k].name]
<1>1. n \in Nat /\ DOMAIN doc.resources = 1..n
  BY DocumentFits
<1>2. DOMAIN f = 1..n /\ \A k \in 1..n : f[k] = doc.resources[k].name
  OBVIOUS
<1>3. IsFiniteSet(1..n) /\ Cardinality(1..n) = n
  BY <1>1, FS_Interval
<1> HIDE DEF n, f
<1>4. \A s \in Switches : \E k \in 1..n : s = f[k]
  BY <1>1, <1>2 DEF Switches, OfKind, Resources, Range
<1>5. IsFiniteSet(Switches) /\ Cardinality(Switches) <= n /\ Cardinality(Switches) \in Nat
  <2> DEFINE S == 1..n
  <2>1. IsFiniteSet(S) /\ Cardinality(S) = n /\ DOMAIN f = S
        /\ \A s \in Switches : \E k \in S : s = f[k]
    BY <1>2, <1>3, <1>4
  <2> HIDE DEF S
  <2> QED BY <2>1, CoveredFinite
<1> QED BY <1>5 DEF n

(* The search finds an id that is free, if there is one.                   *)
LEMMA FreeDpid ==
    ASSUME MaxDpid \in Nat, NEW start \in 1..MaxDpid, NEW taken, (1..MaxDpid) \ taken # {}
    PROVE  FreeFrom(start, taken) \in (1..MaxDpid) \ taken
<1> DEFINE after == (start..MaxDpid) \ taken
           any == (1..MaxDpid) \ taken
<1>1. after \subseteq any /\ any \in SUBSET Nat /\ after \in SUBSET Nat
  OBVIOUS
<1>2. FreeFrom(start, taken) = Min(IF after # {} THEN after ELSE any)
  BY DEF FreeFrom
<1> HIDE DEF after
<1>3. CASE after # {}
  <2>1. Min(after) \in after
    BY <1>1, <1>3, LeastNumber
  <2> QED BY <1>1, <1>2, <1>3, <2>1
<1>4. CASE after = {}
  <2>1. Min(any) \in any
    BY <1>1, LeastNumber
  <2> QED BY <1>2, <1>4, <2>1
<1> QED BY <1>3, <1>4

(* Switches keep the ids they are given.                                   *)
LEMMA PinNetwork ==
    ASSUME PlanTypeOK, NetworkInPlace, ReserveDpids
    PROVE  NetworkInPlace'
<1>1. /\ stage = "reserve"
      /\ UNCHANGED <<doc, declared, adapters, links, candidate, instances, edges, graph, visited>>
  BY DEF ReserveDpids
<1>2. \/ stage' = "refused" /\ error' = "dpids"
      \/ /\ \A m, n \in Pinned : m # n => Resource(m).dpid # Resource(n).dpid
         /\ dpid' = [n \in Pinned |-> Resource(n).dpid]
         /\ stage' = "dpids" /\ UNCHANGED error
  BY DEF ReserveDpids, Refuse
<1>3. CASE stage' = "refused" /\ error' = "dpids"
  BY <1>1, <1>3, NetworkRefused
<1>4. CASE /\ \A m, n \in Pinned : m # n => Resource(m).dpid # Resource(n).dpid
           /\ dpid' = [n \in Pinned |-> Resource(n).dpid]
           /\ stage' = "dpids" /\ UNCHANGED error
  <2>1. /\ AdaptersFit(adapters)' /\ HostAdapters' = HostAdapters /\ UsedIps' = UsedIps
        /\ Broadcast' = Broadcast /\ (ResourcesFit' <=> ResourcesFit)
    BY <1>1, SameAdapters, SameResources DEF NetworkInPlace
  <2>2. AddressesInPlace'
    BY <1>1, <1>4, <2>1
         DEF NetworkInPlace, AddressesInPlace, Declares, Resolves, Allocates, Expands
  <2>3. LinksInPlace'
    BY <1>1, <1>4, LinksStay DEF NetworkInPlace, Declares, Allocates, Expands
  <2>4. DpidsInPlace'
    <3>1. Switches' = Switches /\ Pinned' = Pinned /\ \A n : Resource(n)' = Resource(n)
      BY <1>1, SameResources
    <3>2. DOMAIN dpid' = Pinned /\ \A n \in Pinned : dpid'[n] = Resource(n).dpid
      BY <1>4
    <3>3. Pinned \subseteq Switches /\ \A n \in Pinned : Resource(n).dpid \in 1..MaxDpid
      BY DEF Pinned
    <3>4. dpid' \in [Pinned -> 1..MaxDpid]
      BY <1>4, <3>3
    <3> QED BY <1>4, <3>1, <3>2, <3>3, <3>4 DEF DpidsInPlace, Expands
  <2>5. ResourcesChecked' /\ DeclaredInOrder' /\ ExhaustionIsReal'
    BY <1>1, <1>4, <2>1 DEF NetworkInPlace, ResourcesChecked, DeclaredInOrder, ExhaustionIsReal,
       Declares
  <2> QED BY <2>1, <2>2, <2>3, <2>4, <2>5 DEF NetworkInPlace
<1> QED BY <1>2, <1>3, <1>4

(* A switch gets an id that is free: there are more ids than switches.     *)
LEMMA DpidNetwork ==
    ASSUME PlanTypeOK, NetworkInPlace, AllocateDpid
    PROVE  NetworkInPlace'
<1> DEFINE left  == Switches \ DOMAIN dpid
           n     == CHOOSE m \in left : \A o \in left : m[1] <= o[1]
           start == IF Hash[n] = 0 THEN 1 ELSE Hash[n]
           id    == FreeFrom(start, Range(dpid))
<1>1. /\ stage = "dpids"
      /\ UNCHANGED <<doc, declared, error, adapters, links, candidate, instances,
                     edges, graph, visited>>
  BY DEF AllocateDpid
<1>2. IF left = {} THEN stage' = "instances" /\ UNCHANGED dpid
      ELSE /\ dpid' = [m \in DOMAIN dpid \cup {n} |-> IF m = n THEN id ELSE dpid[m]]
           /\ UNCHANGED stage
  BY DEF AllocateDpid
<1>3. /\ dpid \in [DOMAIN dpid -> 1..MaxDpid]
      /\ DOMAIN dpid \subseteq Switches /\ Pinned \subseteq DOMAIN dpid
      /\ \A p, q \in DOMAIN dpid : p # q => dpid[p] # dpid[q]
      /\ \A p \in Pinned : dpid[p] = Resource(p).dpid
  BY <1>1 DEF NetworkInPlace, DpidsInPlace
<1>4. CASE left = {}
  <2>1. DOMAIN dpid = Switches
    BY <1>3, <1>4
  <2> QED BY <1>1, <1>2, <1>4, <2>1, NetworkStays
<1>5. CASE left # {}
  <2>1. doc \in Documents /\ ResourcesFit /\ MaxDpid \in Nat /\ Len(doc.resources) \in Nat
        /\ Len(doc.resources) <= MaxDpid
    BY <1>1, DocumentFits DEF PlanTypeOK, NetworkInPlace, ResourcesChecked
  <2>2. n \in left
    <3> DEFINE Heads == {m[1] : m \in left}
    <3>1. \A m \in left : m[1] \in Nat
      BY <2>1, SwitchNamed
    <3>2. Heads \in SUBSET Nat /\ Heads # {}
      BY <1>5, <3>1
    <3>3. Min(Heads) \in Heads /\ \A h \in Heads : Min(Heads) <= h
      <4> HIDE DEF Heads
      <4> QED BY <3>2, LeastNumber
    <3>4. PICK m \in left : m[1] = Min(Heads)
      BY <3>3
    <3>5. \A o \in left : m[1] <= o[1]
      BY <3>3, <3>4
    <3> QED BY <3>4, <3>5
  <2>3. dpid' = [m \in DOMAIN dpid \cup {n} |-> IF m = n THEN id ELSE dpid[m]] /\ stage' = stage
    BY <1>2, <1>5
  <2> HIDE DEF n
  <2>4. n \in Switches /\ n \notin DOMAIN dpid
    BY <2>2
  <2>5. IsFiniteSet(Switches) /\ Cardinality(Switches) \in Nat /\ Cardinality(Switches) <= MaxDpid
    BY <2>1, SwitchesFinite
  <2>6. (1..MaxDpid) \ Range(dpid) # {}
    <3>1. DOMAIN dpid # Switches
      BY <2>4
    <3>3. IsFiniteSet(DOMAIN dpid) /\ Cardinality(DOMAIN dpid) \in Nat
      BY <1>3, <2>5, FS_Subset, FS_CardinalityType
    <3>2. Cardinality(DOMAIN dpid) < Cardinality(Switches)
      <4>1. /\ Cardinality(DOMAIN dpid) <= Cardinality(Switches)
            /\ Cardinality(DOMAIN dpid) # Cardinality(Switches)
        BY <1>3, <2>5, <3>1, FS_Subset
      <4> QED BY <2>5, <3>3, <4>1
    <3>4. \A y \in Range(dpid) : \E x \in DOMAIN dpid : y = dpid[x]
      BY DEF Range
    <3>5. /\ IsFiniteSet(Range(dpid)) /\ Cardinality(Range(dpid)) <= Cardinality(DOMAIN dpid)
          /\ Cardinality(Range(dpid)) \in Nat
      BY <3>3, <3>4, CoveredFinite
    <3>6. IsFiniteSet(1..MaxDpid) /\ Cardinality(1..MaxDpid) = MaxDpid
      BY <2>1, FS_Interval
    <3>7. SUFFICES ASSUME 1..MaxDpid \subseteq Range(dpid) PROVE FALSE
      OBVIOUS
    <3>8. MaxDpid <= Cardinality(Range(dpid))
      <4> DEFINE ids == 1..MaxDpid
      <4>1. ids \in SUBSET Range(dpid) /\ Cardinality(ids) = MaxDpid
        BY <3>6, <3>7
      <4> HIDE DEF ids
      <4> QED BY <3>5, <4>1, FS_Subset
    <3> QED BY <2>1, <2>5, <3>2, <3>3, <3>5, <3>8
  <2>7. start \in 1..MaxDpid
    <3>1. Hash[n] \in 0..MaxDpid
      BY <2>1, <2>4, SwitchNamed
    <3>2. MaxDpid >= 1
      BY <2>1, <2>6
    <3> QED BY <2>1, <3>1, <3>2
  <2>8. id \in (1..MaxDpid) \ Range(dpid)
    <3> HIDE DEF start
    <3> QED BY <2>1, <2>6, <2>7, FreeDpid
  <2> HIDE DEF id
  <2>9. \A p \in DOMAIN dpid : dpid[p] # id
    BY <2>8 DEF Range
  <2>10. /\ DOMAIN dpid' = DOMAIN dpid \cup {n} /\ dpid'[n] = id
         /\ \A p \in DOMAIN dpid : dpid'[p] = dpid[p]
         /\ dpid' \in [DOMAIN dpid \cup {n} -> 1..MaxDpid]
    BY <1>3, <2>3, <2>4, <2>8
  <2>11. DpidsInPlace'
    <3>1. Switches' = Switches /\ Pinned' = Pinned /\ \A p : Resource(p)' = Resource(p)
      BY <1>1, SameResources
    <3>2. \A p, q \in DOMAIN dpid' : p # q => dpid'[p] # dpid'[q]
      BY <1>3, <2>4, <2>9, <2>10
    <3>3. \A p \in Pinned : dpid'[p] = Resource(p).dpid
      BY <1>3, <2>10
    <3>4. stage' = "dpids" /\ DOMAIN dpid' \subseteq Switches /\ Pinned \subseteq DOMAIN dpid'
      BY <1>1, <1>3, <2>3, <2>4, <2>10
    <3> QED BY <2>10, <3>1, <3>2, <3>3, <3>4 DEF DpidsInPlace, Expands
  <2>12. /\ AdaptersFit(adapters)' /\ HostAdapters' = HostAdapters /\ UsedIps' = UsedIps
         /\ Broadcast' = Broadcast /\ (ResourcesFit' <=> ResourcesFit)
    BY <1>1, SameAdapters, SameResources DEF NetworkInPlace
  <2>13. AddressesInPlace'
    BY <1>1, <2>3, <2>12
         DEF NetworkInPlace, AddressesInPlace, Declares, Resolves, Allocates, Expands
  <2>14. LinksInPlace'
    BY <1>1, <2>3, LinksStay DEF NetworkInPlace, Declares, Allocates, Expands
  <2>15. ResourcesChecked' /\ DeclaredInOrder' /\ ExhaustionIsReal'
    BY <1>1, <2>3, <2>12 DEF NetworkInPlace, ResourcesChecked, DeclaredInOrder, ExhaustionIsReal,
       Declares
  <2> QED BY <2>11, <2>12, <2>13, <2>14, <2>15 DEF NetworkInPlace
<1> QED BY <1>4, <1>5

-----------------------------------------------------------------------------
(* The steps together *)

(* Every step of the compilation.                                          *)
LEMMA StepNetwork ==
    ASSUME PlanTypeOK, NetworkInPlace, CompileStep \/ UNCHANGED planVars
    PROVE  NetworkInPlace'
<1>1. CASE CheckResources
  BY <1>1, CheckNetwork
<1>2. CASE DeclareAdapter
  BY <1>2, DeclareNetwork
<1>3. CASE EndResource
  BY <1>3, EndNetwork
<1>4. CASE ResolveLink
  BY <1>4, ResolveNetwork
<1>5. CASE LinksResolved
  BY <1>5, NetworkStays DEF LinksResolved
<1>6. CASE ReserveFixed
  BY <1>6, ReserveNetwork
<1>7. CASE AllocateAddress
  BY <1>7, AddressNetwork
<1>8. CASE AllocateMac
  BY <1>8, MacNetwork
<1>9. CASE ReserveDpids
  BY <1>9, PinNetwork
<1>10. CASE AllocateDpid
  BY <1>10, DpidNetwork
<1>11. CASE CompileInstances
  <2>1. /\ stage = "instances" /\ UNCHANGED <<doc, declared, adapters, links, candidate, dpid>>
        /\ \/ stage' = "coordination" /\ UNCHANGED error
           \/ stage' = "refused" /\ error' = "placement"
    BY <1>11 DEF CompileInstances, Refuse
  <2>2. CASE stage' = "coordination" /\ UNCHANGED error
    BY <2>1, <2>2, NetworkStays DEF Expands
  <2>3. CASE stage' = "refused" /\ error' = "placement"
    BY <2>1, <2>3, NetworkRefused
  <2> QED BY <2>1, <2>2, <2>3
<1>12. CASE Coordinate
  <2>1. /\ stage = "coordination" /\ UNCHANGED <<doc, declared, adapters, links, candidate, dpid>>
        /\ \/ stage' = "compiled" /\ UNCHANGED error
           \/ stage' = "refused" /\ error' = "coordination"
    BY <1>12 DEF Coordinate, Refuse
  <2>2. CASE stage' = "compiled" /\ UNCHANGED error
    BY <2>1, <2>2, NetworkStays DEF Expands
  <2>3. CASE stage' = "refused" /\ error' = "coordination"
    BY <2>1, <2>3, NetworkRefused
  <2> QED BY <2>1, <2>2, <2>3
<1>13. CASE BuildGraph \/ (\E a \in Agents : Visit(a)) \/ EndVisit \/ UNCHANGED planVars
  <2>1. UNCHANGED <<doc, stage, error, declared, adapters, links, candidate, dpid>>
    BY <1>13 DEF BuildGraph, Visit, EndVisit, planVars
  <2> QED BY <2>1, NetworkStays
<1>14. CASE ReserveMacs
  BY <1>14, ReserveMacsNetwork
<1> QED BY <1>1, <1>2, <1>3, <1>4, <1>5, <1>6, <1>7, <1>8, <1>9, <1>10, <1>11, <1>12, <1>13,
           <1>14 DEF CompileStep

(* The adapter with a name is the one with that name.                      *)
LEMMA OwnerNamed ==
    ASSUME AdaptersFit(adapters), NEW j \in DOMAIN adapters
    PROVE  Owner(adapters[j].name) = adapters[j].owner
<1>1. \A a \in Range(adapters) : \E i \in DOMAIN adapters : a = adapters[i]
  BY DEF Range
<1>2. adapters[j] \in Range(adapters)
  BY DEF Range
<1>3. \A a \in Range(adapters) : a.name = adapters[j].name => a = adapters[j]
  BY <1>1 DEF AdaptersFit
<1>4. (CHOOSE a \in Range(adapters) : a.name = adapters[j].name) = adapters[j]
  BY <1>2, <1>3
<1> QED BY <1>4 DEF Owner

(* A link has two adapters of its own.                                     *)
LEMMA TwoOfEach ==
    ASSUME LinksInPlace
    PROVE  Cardinality(Used) = 2 * Len(links)
<1> DEFINE n == Len(links)
           S == 1..(2 * n)
           f == [s \in S |-> IF s <= n THEN links[s][1] ELSE links[s - n][2]]
<1>1. n \in Nat /\ DOMAIN links = 1..n
  BY DEF LinksInPlace
<1>2. \A i, j \in DOMAIN links, k, l \in 1..2 : i # j \/ k # l => links[i][k] # links[j][l]
  BY DEF LinksInPlace
<1>3. \A s \in S : (s <= n => s \in 1..n) /\ (~(s <= n) => s - n \in 1..n)
  BY <1>1
<1>4. \A s \in S : f[s] \in Used
  BY <1>1, <1>3 DEF Used
<1>5. \A s, t \in S : s # t => f[s] # f[t]
  <2>1. SUFFICES ASSUME NEW s \in S, NEW t \in S, s # t PROVE f[s] # f[t]
    OBVIOUS
  <2>2. s \in Nat /\ t \in Nat
    BY <1>1
  <2>3. CASE s <= n /\ t <= n
    BY <1>1, <1>2, <1>3, <2>1, <2>3
  <2>4. CASE s <= n /\ ~(t <= n)
    BY <1>1, <1>2, <1>3, <2>1, <2>4
  <2>5. CASE ~(s <= n) /\ t <= n
    BY <1>1, <1>2, <1>3, <2>1, <2>5
  <2>6. CASE ~(s <= n) /\ ~(t <= n)
    <3>1. s - n # t - n
      BY <1>1, <2>1, <2>2
    <3> QED BY <1>1, <1>2, <1>3, <2>1, <2>6, <3>1
  <2> QED BY <2>3, <2>4, <2>5, <2>6
<1>6. \A u \in Used : \E s \in S : f[s] = u
  <2>1. SUFFICES ASSUME NEW i \in DOMAIN links, NEW k \in 1..2
       PROVE \E s \in S : f[s] = links[i][k]
    BY DEF Used
  <2>2. CASE k = 1
    <3>1. i \in S /\ i <= n
      BY <1>1
    <3> QED BY <2>2, <3>1
  <2>3. CASE k = 2
    <3>1. i + n \in S /\ ~(i + n <= n) /\ i + n - n = i
      BY <1>1
    <3> QED BY <2>3, <3>1
  <2> QED BY <2>2, <2>3
<1>7. f \in [S -> Used]
  BY <1>4
<1>8. IsFiniteSet(S) /\ Cardinality(S) = 2 * n
  BY <1>1, FS_Interval
<1> HIDE DEF f, S
<1>9. f \in Bijection(S, Used)
  <2>1. f \in Injection(S, Used)
    BY <1>5, <1>7 DEF Injection, IsInjective
  <2>2. f \in Surjection(S, Used)
    BY <1>6, <1>7 DEF Surjection
  <2> QED BY <2>1, <2>2 DEF Bijection
<1> QED BY <1>8, <1>9, FS_Bijection DEF ExistsBijection, n

(* What the invariant says of a plan that is complete.                     *)
LEMMA NetworkConsistent ==
    ASSUME PlanTypeOK, NetworkInPlace
    PROVE  PlanIsConsistent
<1>1. SUFFICES ASSUME error = "none",
                      stage \notin {"resources", "adapters", "links", "addresses", "allocate",
                                    "macs", "reserve", "dpids"}
               PROVE  PlanIsConsistent
  BY DEF PlanIsConsistent
<1>2. stage \in Expands
  BY <1>1 DEF PlanTypeOK, NetworkInPlace, ResourcesChecked, Expands
<1>3. AdaptersFit(adapters) /\ adapters \in Seq(AdapterRecord)
  BY DEF NetworkInPlace, AdaptersFit
<1>4. /\ \A i \in HostAdapters :
            /\ adapters[i].setting = "fixed" => adapters[i].ip # 0
            /\ adapters[i].setting = "none" => adapters[i].ip = 0
            /\ adapters[i].ip # 0 => adapters[i].ip \in 1..(Broadcast - 1)
      /\ \A i, j \in HostAdapters : i # j =>
            /\ adapters[i].ip # 0 => adapters[i].ip # adapters[j].ip
            /\ adapters[i].mac # 0 => adapters[i].mac # adapters[j].mac
      /\ \A i \in HostAdapters :
            adapters[i].mac # 0 /\ (adapters[i].setting # "none" => adapters[i].ip # 0)
  BY <1>2 DEF NetworkInPlace, AddressesInPlace
<1>5. \A i \in DOMAIN adapters : i \notin HostAdapters => adapters[i].ip = 0 /\ adapters[i].mac = 0
  BY <1>3 DEF AdaptersFit, HostAdapters, IsHostAdapter
<1>6. \A i, j \in DOMAIN adapters : i # j =>
        /\ adapters[i].name # adapters[j].name
        /\ adapters[i].owner = adapters[j].owner => adapters[i].number # adapters[j].number
        /\ adapters[i].ip # 0 => adapters[i].ip # adapters[j].ip
        /\ adapters[i].mac # 0 => adapters[i].mac # adapters[j].mac
  <2>1. SUFFICES ASSUME NEW i \in DOMAIN adapters, NEW j \in DOMAIN adapters, i # j
                 PROVE  /\ adapters[i].name # adapters[j].name
                        /\ adapters[i].owner = adapters[j].owner
                              => adapters[i].number # adapters[j].number
                        /\ adapters[i].ip # 0 => adapters[i].ip # adapters[j].ip
                        /\ adapters[i].mac # 0 => adapters[i].mac # adapters[j].mac
    OBVIOUS
  <2>2. /\ adapters[i].name # adapters[j].name
        /\ adapters[i].owner = adapters[j].owner => adapters[i].number # adapters[j].number
    BY <1>3, <2>1 DEF AdaptersFit
  <2>3. /\ adapters[i].ip # 0 => adapters[i].ip # adapters[j].ip
        /\ adapters[i].mac # 0 => adapters[i].mac # adapters[j].mac
    BY <1>4, <1>5, <2>1
  <2> QED BY <2>2, <2>3
<1>7. Names(adapters) \cap (Nodes \cup Links) = {}
  BY <1>3 DEF AdaptersFit, Names
<1>8. \A i \in HostAdapters :
        /\ adapters[i].mac # 0
        /\ adapters[i].setting # "none" => adapters[i].ip \in 1..(Broadcast - 1)
  BY <1>4
<1>9. Cardinality(Used) = 2 * Len(links)
  BY TwoOfEach DEF NetworkInPlace
<1>10. \A i \in DOMAIN links, k \in 1..2 : Owner(links[i][k]) = doc.links[i].ends[k].node
  <2>1. SUFFICES ASSUME NEW i \in DOMAIN links, NEW k \in 1..2
                 PROVE  Owner(links[i][k]) = doc.links[i].ends[k].node
    OBVIOUS
  <2>2. PICK j \in DOMAIN adapters : /\ adapters[j].name = links[i][k]
                                     /\ adapters[j].owner = doc.links[i].ends[k].node
    BY DEF NetworkInPlace, LinksInPlace
  <2> QED BY <1>3, <2>2, OwnerNamed
<1>11. /\ DOMAIN dpid = Switches
       /\ \A m, n \in Switches : dpid[m] \in 1..MaxDpid /\ (m # n => dpid[m] # dpid[n])
       /\ \A n \in Pinned : dpid[n] = Resource(n).dpid
  BY <1>2 DEF NetworkInPlace, DpidsInPlace
<1> QED BY <1>6, <1>7, <1>8, <1>9, <1>10, <1>11 DEF PlanIsConsistent

(* The invariant of the plan, with its runs left out.                      *)
LEMMA InitPlan == PlanInit => PlanInv
  BY InitNetwork, InitGraph DEF PlanInv

LEMMA StepPlan == PlanInv /\ (CompileStep \/ UNCHANGED planVars) => PlanInv'
<1> SUFFICES ASSUME PlanInv, CompileStep \/ UNCHANGED planVars PROVE PlanInv'
  OBVIOUS
<1>1. PlanTypeOK /\ NetworkInPlace /\ GraphInPlace
  BY DEF PlanInv, GraphInPlace
<1> QED BY <1>1, StepNetwork, StepGraph DEF PlanInv

(* It holds throughout a compilation and the runs of its plan.             *)
LEMMA PlanInvariant == Spec => []PlanInv
<1>1. Init => PlanInv
  BY InitPlan DEF Init
<1>2. [Next]_vars => CompileStep \/ UNCHANGED planVars
  BY DEF Next, vars, Compile, Ask, Thread, Reserve, Open, SendRoot, Enter, Take, Submit, Return,
     Wait, Collect, Resume, Delegate, Answer, Close, EndClose
<1> QED BY <1>1, <1>2, StepPlan, PTL DEF Spec

(* A run refuses a compiled plan exactly for agents of a hierarchy that    *)
(* are each below another one of them.                                     *)
THEOREM RefusesCyclesOnly == Spec => []PlanIsExecutable
<1>1. PlanInv => PlanIsExecutable
  BY DEF PlanInv, GraphInPlace
<1> QED BY <1>1, PlanInvariant, PTL

(* A plan is consistent whatever its documents fix and leave to be chosen: *)
(* no name, number, address, MAC or datapath id is given twice, links have *)
(* adapters of their own at the nodes they join, what is fixed is kept.    *)
THEOREM PlansAreConsistent == Spec => []PlanIsConsistent
<1>1. PlanInv => PlanIsConsistent
  BY NetworkConsistent DEF PlanInv, GraphInPlace
<1> QED BY <1>1, PlanInvariant, PTL

(* Documents are refused for want of addresses only if the subnet has too  *)
(* few: an allocation that never looks back misses none.                   *)
THEOREM ExhaustionsAreReal == Spec => []ExhaustionIsReal
<1>1. PlanInv => ExhaustionIsReal
  BY DEF PlanInv, NetworkInPlace
<1> QED BY <1>1, PlanInvariant, PTL

-----------------------------------------------------------------------------
(* Sequences without repetitions.                                          *)

(* Appending a new entry.                                                  *)
LEMMA Appended ==
    ASSUME NEW S, NEW s \in Seq(S), IsInjective(s), NEW x \in S, x \notin ToSet(s)
    PROVE  /\ Append(s, x) \in Seq(S) /\ IsInjective(Append(s, x))
           /\ Len(Append(s, x)) = Len(s) + 1
           /\ ToSet(Append(s, x)) = ToSet(s) \cup {x}
<1> DEFINE t == Append(s, x)
<1>1. /\ t \in Seq(S) /\ Len(t) = Len(s) + 1 /\ Len(s) \in Nat
      /\ DOMAIN s = 1 .. Len(s) /\ DOMAIN t = 1 .. Len(s) + 1
      /\ \A n \in 1 .. Len(s) : t[n] = s[n]
      /\ t[Len(s) + 1] = x
  OBVIOUS
<1> HIDE DEF t
<1>2. \A n \in DOMAIN t : n \in DOMAIN s \/ n = Len(s) + 1
  BY <1>1
<1>3. \A n \in DOMAIN s : s[n] # x
  BY DEF ToSet
<1>4. IsInjective(t)
  BY <1>1, <1>2, <1>3 DEF IsInjective
<1>5. ToSet(t) = ToSet(s) \cup {x}
  BY <1>1, <1>2 DEF ToSet
<1> QED BY <1>1, <1>4, <1>5 DEF t

(* Removing the entry at a position.                                       *)
LEMMA RemovedAt ==
    ASSUME NEW S, NEW s \in Seq(S), IsInjective(s), NEW p \in DOMAIN s
    PROVE  /\ RemoveAt(s, p) \in Seq(S) /\ IsInjective(RemoveAt(s, p))
           /\ Len(RemoveAt(s, p)) = Len(s) - 1
           /\ ToSet(RemoveAt(s, p)) = ToSet(s) \ {s[p]}
<1> DEFINE t == RemoveAt(s, p)
           left == SubSeq(s, 1, p - 1)
           right == SubSeq(s, p + 1, Len(s))
           from(n) == IF n < p THEN n ELSE n + 1
<1>1. p \in 1 .. Len(s) /\ Len(s) \in Nat /\ DOMAIN s = 1 .. Len(s)
  OBVIOUS
<1>2. /\ left \in Seq(S) /\ Len(left) = p - 1
      /\ \A n \in 1 .. p - 1 : left[n] = s[n]
  <2>1. \A n \in 1 .. p - 1 : s[n] \in S
    BY <1>1, ElementOfSeq
  <2> QED BY <1>1, <2>1, SubSeqProperties
<1>3. /\ right \in Seq(S) /\ Len(right) = Len(s) - p
      /\ \A n \in 1 .. Len(s) - p : right[n] = s[p + n]
  <2>1. \A n \in p + 1 .. Len(s) : s[n] \in S
    BY <1>1, ElementOfSeq
  <2>2. /\ right \in Seq(S)
        /\ Len(right) = IF p + 1 <= Len(s) THEN Len(s) - (p + 1) + 1 ELSE 0
        /\ \A n \in 1 .. Len(s) - (p + 1) + 1 : right[n] = s[(p + 1) + n - 1]
    <3>1. p + 1 \in Int /\ Len(s) \in Int
      BY <1>1
    <3> QED BY <2>1, <3>1, SubSeqProperties
  <2>3. Len(right) = Len(s) - p
    BY <1>1, <2>2
  <2>4. ASSUME NEW n \in 1 .. Len(s) - p PROVE right[n] = s[p + n]
    <3>1. n \in 1 .. Len(s) - (p + 1) + 1 /\ (p + 1) + n - 1 = p + n
      BY <1>1
    <3> HIDE DEF right
    <3> QED BY <2>2, <3>1
  <2> QED BY <2>2, <2>3, <2>4
<1>4. t = left \o right
  BY DEF RemoveAt
<1>5. /\ left \o right \in Seq(S)
      /\ Len(left \o right) = Len(left) + Len(right)
      /\ \A n \in 1 .. Len(left) + Len(right) :
            (left \o right)[n] = IF n <= Len(left) THEN left[n] ELSE right[n - Len(left)]
  <2>1. left \in Seq(S) /\ right \in Seq(S)
    BY <1>2, <1>3
  <2> HIDE DEF left, right
  <2> QED BY <2>1, ConcatProperties
<1> HIDE DEF left, right, t
<1>6. /\ t \in Seq(S) /\ Len(t) = Len(s) - 1 /\ DOMAIN t = 1 .. Len(s) - 1
  <2>1. t \in Seq(S) /\ Len(t) = Len(s) - 1
    <3>1. Len(left) + Len(right) = Len(s) - 1
      BY <1>1, <1>2, <1>3
    <3> QED BY <1>4, <1>5, <3>1
  <2>2. DOMAIN t = 1 .. Len(t)
    BY <2>1, LenProperties
  <2> QED BY <2>1, <2>2
<1>7. ASSUME NEW n \in 1 .. Len(s) - 1
      PROVE  from(n) \in DOMAIN s /\ from(n) # p /\ t[n] = s[from(n)]
  <2>1. n \in 1 .. Len(left) + Len(right)
    BY <1>1, <1>2, <1>3
  <2>2. CASE n < p
    BY <1>1, <1>2, <1>4, <1>5, <2>1, <2>2
  <2>3. CASE ~(n < p)
    <3>1. n - Len(left) \in 1 .. Len(s) - p /\ p + (n - Len(left)) = n + 1 /\ ~(n <= Len(left))
      BY <1>1, <1>2, <2>3
    <3>2. t[n] = right[n - Len(left)]
      BY <1>4, <1>5, <2>1, <3>1
    <3>3. right[n - Len(left)] = s[p + (n - Len(left))]
      BY <1>3, <3>1
    <3>4. from(n) = n + 1 /\ n + 1 \in 1 .. Len(s) /\ n + 1 # p
      BY <1>1, <2>3
    <3> QED BY <1>1, <3>1, <3>2, <3>3, <3>4
  <2> QED BY <2>2, <2>3
<1>8. IsInjective(t)
  <2> SUFFICES ASSUME NEW m \in DOMAIN t, NEW n \in DOMAIN t, t[m] = t[n]
               PROVE  m = n
    BY DEF IsInjective
  <2>1. from(m) = from(n)
    BY <1>6, <1>7 DEF IsInjective
  <2>2. m \in Int /\ n \in Int /\ p \in Int
    BY <1>1, <1>6
  <2> QED BY <2>1, <2>2
<1>9. ASSUME NEW m \in DOMAIN s, m # p
      PROVE  \E n \in 1 .. Len(s) - 1 : from(n) = m
  <2>1. CASE m < p
    <3>1. m \in 1 .. Len(s) - 1 /\ from(m) = m
      BY <1>1, <2>1
    <3> QED BY <3>1
  <2>2. CASE ~(m < p)
    <3>1. m - 1 \in 1 .. Len(s) - 1 /\ from(m - 1) = m
      BY <1>1, <1>9, <2>2
    <3> QED BY <3>1
  <2> QED BY <2>1, <2>2
<1>10. ToSet(t) \subseteq ToSet(s) \ {s[p]}
  <2> SUFFICES ASSUME NEW n \in DOMAIN t
               PROVE  t[n] \in ToSet(s) \ {s[p]}
    BY DEF ToSet
  <2>1. from(n) \in DOMAIN s /\ from(n) # p /\ t[n] = s[from(n)]
    BY <1>6, <1>7
  <2> HIDE DEF from
  <2> QED BY <2>1 DEF IsInjective, ToSet
<1>11. ToSet(s) \ {s[p]} \subseteq ToSet(t)
  <2> SUFFICES ASSUME NEW m \in DOMAIN s, m # p
               PROVE  s[m] \in ToSet(t)
    BY DEF ToSet
  <2>1. PICK n \in 1 .. Len(s) - 1 : from(n) = m
    BY <1>9
  <2>2. s[m] = t[n] /\ n \in DOMAIN t
    BY <1>6, <1>7, <2>1
  <2> QED BY <2>2 DEF ToSet
<1>12. ToSet(t) = ToSet(s) \ {s[p]}
  BY <1>10, <1>11
<1> QED BY <1>6, <1>8, <1>12 DEF t

-----------------------------------------------------------------------------
(* The messages of the requests.                                           *)

Messages == Seq([to : Agents, hop : 0 .. HopLimit, fate : Fate])

(* A step of a run leaves the plan as it is.                               *)
LEMMA PlanFixed ==
    ASSUME RoutingInv, UNCHANGED planVars
    PROVE  /\ PlanInv'
           /\ doc' = doc /\ graph' = graph /\ edges' = edges
           /\ Agents' = Agents /\ HopLimit' = HopLimit
           /\ \A r \in Request : asked'[r] = asked[r] => Entry(r)' = Entry(r)
<1>1. PlanInv'
  BY StepPlan DEF RoutingInv
<1>2. Agents' = Agents
  BY DEF Agents, planVars
<1>3. HopLimit' = HopLimit
  BY <1>2 DEF HopLimit
<1>4. doc' = doc /\ graph' = graph /\ edges' = edges
  BY DEF planVars
<1>5. Coordinator' = Coordinator
  BY <1>2, <1>4 DEF Coordinator
<1>6. Coordination' = Coordination
  BY <1>4 DEF Coordination
<1> QED BY <1>1, <1>2, <1>3, <1>4, <1>5, <1>6 DEF Entry

(* Something happens to requests on accepted plans only.                   *)
LEMMA RunsOnPlan ==
    ASSUME RoutingInv, NEW r \in Request, status[r] # "idle"
    PROVE  graph = "accepted" /\ asked[r] \in Agents
<1>1. ~RouteInit
  BY DEF RouteInit
<1> QED BY <1>1 DEF RoutingInv, RouteInv, RunFollowsPlan

(* A request on an accepted plan enters at an agent of the plan.           *)
LEMMA EntryIsAgent ==
    ASSUME RoutingInv, NEW r \in Request, status[r] # "idle"
    PROVE  Entry(r) \in Agents
<1>1. graph = "accepted" /\ asked[r] \in Agents
  BY RunsOnPlan
<1>2. CASE Coordination.mode = "centralized"
  <2>1. PICK c \in Agents : edges = {c} \X (Agents \ {c})
    BY <1>1, <1>2, OneCoordinator DEF RoutingInv, PlanInv, GraphInPlace, EdgesOfPlan
  <2>2. \A b \in Agents \ {c} : <<c, b>> \in edges
    BY <2>1
  <2>3. Coordinator \in Agents
    BY <2>2 DEF Coordinator
  <2> QED BY <1>2, <2>3 DEF Entry
<1>3. CASE Coordination.mode # "centralized"
  BY <1>1, <1>3 DEF Entry
<1> QED BY <1>2, <1>3

LEMMA MessageTyped ==
    ASSUME RouteTypeOK, NEW r \in Request, NEW i \in DOMAIN messages[r]
    PROVE  /\ messages[r][i].to \in Agents /\ messages[r][i].hop \in 0 .. HopLimit
           /\ messages[r][i].fate \in Fate
           /\ i \in Nat
<1> DEFINE R == [to : Agents, hop : 0 .. HopLimit, fate : Fate]
<1>1. messages[r] \in Seq(R)
  BY DEF RouteTypeOK
<1> HIDE DEF R
<1>2. messages[r][i] \in R /\ i \in Nat
  BY <1>1
<1> QED BY <1>2 DEF R

(* The fate of one message changes.                                        *)
LEMMA Settled ==
    ASSUME RouteTypeOK, NEW m, NEW r \in Request, m \in Sent(r), NEW fate \in Fate,
           Settle(m, fate)
    PROVE  /\ messages' \in [Request -> Messages]
           /\ \A q \in Request : q # r => messages'[q] = messages[q]
           /\ \A q \in Request : Len(messages'[q]) = Len(messages[q]) /\ Sent(q)' = Sent(q)
           /\ \A q \in Request : \A i \in DOMAIN messages[q] :
                 /\ i \in DOMAIN messages'[q]
                 /\ messages'[q][i].to = messages[q][i].to
                 /\ messages'[q][i].fate = IF m = <<q, i>> THEN fate ELSE messages[q][i].fate
<1> DEFINE R == [to : Agents, hop : 0 .. HopLimit, fate : Fate]
<1>1. PICK k \in DOMAIN messages[r] : m = <<r, k>>
  BY DEF Sent
<1>2. messages \in [Request -> Seq(R)]
  BY DEF RouteTypeOK
<1> HIDE DEF R
<1>3. messages' = [messages EXCEPT ![r][k].fate = fate]
  BY <1>1 DEF Settle
<1> DEFINE new == [messages[r][k] EXCEPT !.fate = fate]
<1>4. messages[r] \in Seq(R) /\ messages[r][k] \in R
  BY <1>1, <1>2
<1>5. /\ new \in R /\ new.to = messages[r][k].to /\ new.fate = fate
  BY <1>4 DEF R
<1>6. messages'[r] = [messages[r] EXCEPT ![k] = new]
  BY <1>2, <1>3
<1> HIDE DEF new
<1>7. /\ messages'[r] \in Seq(R) /\ Len(messages'[r]) = Len(messages[r])
      /\ DOMAIN messages'[r] = DOMAIN messages[r]
      /\ messages'[r][k] = new
      /\ \A i \in DOMAIN messages[r] : i # k => messages'[r][i] = messages[r][i]
  BY <1>1, <1>4, <1>5, <1>6
<1>8. messages' = [messages EXCEPT ![r] = messages'[r]]
  BY <1>2, <1>3
<1>9. \A q \in Request : q # r => messages'[q] = messages[q]
  BY <1>2, <1>8
<1>10. messages' \in [Request -> Seq(R)]
  BY <1>2, <1>7, <1>8
<1>11. ASSUME NEW q \in Request
       PROVE  /\ Len(messages'[q]) = Len(messages[q])
              /\ DOMAIN messages'[q] = DOMAIN messages[q]
  BY <1>7, <1>9
<1>12. ASSUME NEW q \in Request, NEW i \in DOMAIN messages[q]
       PROVE  /\ messages'[q][i].to = messages[q][i].to
              /\ messages'[q][i].fate = IF m = <<q, i>> THEN fate ELSE messages[q][i].fate
  <2>1. CASE q = r /\ i = k
    BY <1>1, <1>5, <1>7, <2>1
  <2>2. CASE q # r \/ i # k
    <3>1. m # <<q, i>>
      BY <1>1, <2>2
    <3>2. messages'[q][i] = messages[q][i]
      BY <1>7, <1>9, <1>12, <2>2
    <3> QED BY <3>1, <3>2
  <2> QED BY <2>1, <2>2
<1> QED BY <1>9, <1>10, <1>11, <1>12 DEF Messages, R, Sent

(* So it leaves those of its old fate and joins those of its new one.      *)
LEMMA FatedSettled ==
    ASSUME RouteTypeOK, NEW m, NEW r \in Request, m \in Sent(r), NEW fate \in Fate,
           Settle(m, fate), NEW q \in Request, NEW f
    PROVE  Fated(q, f)' = (Fated(q, f) \ {m}) \cup (IF q = r /\ f = fate THEN {m} ELSE {})
<1>1. /\ Sent(q)' = Sent(q)
      /\ \A i \in DOMAIN messages[q] :
            messages'[q][i].fate = IF m = <<q, i>> THEN fate ELSE messages[q][i].fate
  BY Settled
<1>2. ASSUME NEW x \in Sent(q)
      PROVE  FateOf(x)' = IF x = m THEN fate ELSE FateOf(x)
  <2>1. PICK i \in DOMAIN messages[q] : x = <<q, i>>
    BY <1>2 DEF Sent
  <2> QED BY <1>1, <2>1 DEF FateOf
<1>3. m \in Sent(q) <=> q = r
  BY DEF Sent
<1>4. Fated(q, f)' = {x \in Sent(q)' : FateOf(x)' = f}
  BY DEF Fated
<1> QED BY <1>1, <1>2, <1>3, <1>4 DEF Fated

(* A request sends another message.                                        *)
LEMMA AnotherSent ==
    ASSUME RouteTypeOK, NEW r \in Request, NEW to \in Agents, NEW hop \in 0 .. HopLimit,
           messages' = [messages EXCEPT ![r] = Append(@, Message(to, hop))]
    PROVE  /\ messages' \in [Request -> Messages]
           /\ \A q \in Request : q # r => messages'[q] = messages[q]
           /\ Len(messages'[r]) = Len(messages[r]) + 1
           /\ messages'[r][Len(messages[r]) + 1].fate = "queued"
           /\ \A i \in DOMAIN messages[r] :
                 i \in DOMAIN messages'[r] /\ messages'[r][i] = messages[r][i]
           /\ Fated(r, "queued")' = Fated(r, "queued") \cup {<<r, Len(messages[r]) + 1>>}
           /\ \A q \in Request : \A f \in Fate :
                 q # r \/ f # "queued" => Fated(q, f)' = Fated(q, f)
<1> DEFINE R == [to : Agents, hop : 0 .. HopLimit, fate : Fate]
           new == Message(to, hop)
           n == Len(messages[r])
<1>1. messages \in [Request -> Seq(R)]
  BY DEF RouteTypeOK
<1>2. new \in R /\ new.fate = "queued"
  BY DEF Message, Fate
<1> HIDE DEF new, R
<1>3. messages' = [messages EXCEPT ![r] = Append(@, new)]
  BY DEF new
<1>4. /\ messages'[r] = Append(messages[r], new)
      /\ \A q \in Request : q # r => messages'[q] = messages[q]
  BY <1>1, <1>3
<1>5. /\ messages'[r] \in Seq(R) /\ Len(messages'[r]) = n + 1 /\ n \in Nat
      /\ DOMAIN messages[r] = 1 .. n /\ DOMAIN messages'[r] = 1 .. n + 1
      /\ messages'[r][n + 1] = new
      /\ \A i \in 1 .. n : messages'[r][i] = messages[r][i]
  BY <1>1, <1>2, <1>4
<1>6. messages' \in [Request -> Seq(R)]
  BY <1>1, <1>3, <1>4, <1>5
<1>7. ASSUME NEW q \in Request, NEW f
      PROVE  Fated(q, f)' = Fated(q, f) \cup (IF q = r /\ f = "queued" THEN {<<r, n + 1>>} ELSE {})
  <2>1. Fated(q, f)' = {x \in Sent(q)' : FateOf(x)' = f}
    BY DEF Fated
  <2>2. CASE q # r
    <3>1. Sent(q)' = Sent(q)
      BY <1>4, <2>2 DEF Sent
    <3>2. \A x \in Sent(q) : FateOf(x)' = FateOf(x)
      BY <1>4, <2>2 DEF Sent, FateOf
    <3> QED BY <2>1, <2>2, <3>1, <3>2 DEF Fated
  <2>3. CASE q = r
    <3>1. Sent(r)' = Sent(r) \cup {<<r, n + 1>>}
      <4>1. 1 .. n + 1 = (1 .. n) \cup {n + 1}
        BY <1>5
      <4> QED BY <1>5, <4>1 DEF Sent
    <3>2. \A x \in Sent(r) : FateOf(x)' = FateOf(x)
      BY <1>5 DEF Sent, FateOf
    <3>3. \A x \in {<<r, n + 1>>} : FateOf(x)' = "queued"
      BY <1>2, <1>5 DEF FateOf
    <3>4. Fated(r, f)' = {x \in Sent(r) : FateOf(x)' = f}
                            \cup {x \in {<<r, n + 1>>} : FateOf(x)' = f}
      BY <2>1, <2>3, <3>1
    <3>5. {x \in Sent(r) : FateOf(x)' = f} = Fated(r, f)
      BY <3>2 DEF Fated
    <3>6. {x \in {<<r, n + 1>>} : FateOf(x)' = f}
            = IF f = "queued" THEN {<<r, n + 1>>} ELSE {}
      BY <3>3
    <3> QED BY <2>3, <3>4, <3>5, <3>6
  <2> QED BY <2>2, <2>3
<1>8. messages'[r][n + 1].fate = "queued"
  BY <1>2, <1>5
<1>9. \A i \in DOMAIN messages[r] : i \in DOMAIN messages'[r] /\ messages'[r][i] = messages[r][i]
  BY <1>5
<1>10. Fated(r, "queued")' = Fated(r, "queued") \cup {<<r, n + 1>>}
  BY <1>7
<1>11. ASSUME NEW q \in Request, NEW f \in Fate, q # r \/ f # "queued"
       PROVE  Fated(q, f)' = Fated(q, f)
  <2>1. Fated(q, f)' = Fated(q, f) \cup (IF q = r /\ f = "queued" THEN {<<r, n + 1>>} ELSE {})
    BY <1>7
  <2> QED BY <1>11, <2>1
<1> QED BY <1>4, <1>5, <1>6, <1>8, <1>9, <1>10, <1>11 DEF Messages, R

-----------------------------------------------------------------------------
(* Budgets and threads.                                                    *)

LEMMA LimitsOfPlan ==
    ASSUME RoutingInv
    PROVE  doc.maxConcurrent \in Nat /\ doc.concurrency \in Nat /\ doc.maxQueued \in Nat
BY DocumentsAssumption DEF RoutingInv, PlanInv, GraphInPlace, PlanTypeOK, LimitsFit

(* A lease stays with its agent.                                           *)
LEMMA SameAgent ==
    ASSUME RoutingInv, UNCHANGED planVars, NEW m \in leases, asked'[m[1]] = asked[m[1]],
           \A q \in Request : \A i \in DOMAIN messages[q] :
                messages'[q][i].to = messages[q][i].to
    PROVE  AgentOf(m)' = AgentOf(m)
<1>1. m[1] \in Request
  BY DEF RoutingInv, RouteInv, RouteTypeOK
<1>2. m[2] = 1 \/ m \in Fated(m[1], "running")
  BY DEF RoutingInv, RouteInv, LeasesInPlace
<1>3. m[2] = 1 \/ m[2] \in DOMAIN messages[m[1]]
  BY <1>2 DEF Fated, Sent
<1>4. Entry(m[1])' = Entry(m[1])
  BY <1>1, PlanFixed
<1> QED BY <1>1, <1>3, <1>4 DEF AgentOf

(* Releasing budget keeps to the limits.                                   *)
LEMMA FewerLeases ==
    ASSUME RoutingInv, doc' = doc, Agents' = Agents, leases' \subseteq leases,
           \A m \in leases' : AgentOf(m)' = AgentOf(m)
    PROVE  RoutesWithinBudget'
<1>1. /\ IsFiniteSet(leases) /\ Cardinality(leases) <= doc.maxConcurrent
      /\ \A a \in Agents : Cardinality({m \in leases : AgentOf(m) = a}) <= doc.concurrency
  BY DEF RoutingInv, RouteInv, RoutesWithinBudget
<1>2. doc.maxConcurrent \in Nat /\ doc.concurrency \in Nat
  BY LimitsOfPlan
<1>3. /\ IsFiniteSet(leases') /\ Cardinality(leases') <= Cardinality(leases)
      /\ Cardinality(leases') \in Nat /\ Cardinality(leases) \in Nat
  BY <1>1, FS_Subset, FS_CardinalityType
<1>4. ASSUME NEW a \in Agents
      PROVE  Cardinality({m \in leases' : AgentOf(m)' = a}) <= doc.concurrency
  <2> DEFINE S == {m \in leases : AgentOf(m) = a}
             T == {m \in leases' : AgentOf(m)' = a}
  <2>1. T \subseteq S
    OBVIOUS
  <2>2. IsFiniteSet(S)
    BY <1>1, FS_Subset
  <2>3. Cardinality(S) <= doc.concurrency
    BY <1>1
  <2> HIDE DEF S, T
  <2>4. Cardinality(T) <= Cardinality(S) /\ Cardinality(T) \in Nat /\ Cardinality(S) \in Nat
    BY <2>1, <2>2, FS_Subset, FS_CardinalityType
  <2>5. Cardinality(T) <= doc.concurrency
    BY <1>2, <2>3, <2>4
  <2> QED BY <2>5 DEF T
<1>5. Cardinality(leases') <= doc.maxConcurrent
  BY <1>1, <1>2, <1>3
<1> QED BY <1>3, <1>4, <1>5 DEF RoutesWithinBudget

LEMMA OneMore ==
    ASSUME NEW S, IsFiniteSet(S), NEW x
    PROVE  /\ IsFiniteSet(S \cup {x})
           /\ Cardinality(S) \in Nat /\ Cardinality(S \cup {x}) \in Nat
           /\ Cardinality(S \cup {x}) <= Cardinality(S) + 1
<1>1. IsFiniteSet(S \cup {x})
  BY FS_AddElement
<1>2. Cardinality(S) \in Nat /\ Cardinality(S \cup {x}) \in Nat
  BY <1>1, FS_CardinalityType
<1>3. Cardinality(S \cup {x}) = Cardinality(S) \/ Cardinality(S \cup {x}) = Cardinality(S) + 1
  BY FS_AddElement
<1> QED BY <1>1, <1>2, <1>3

(* So does taking budget that is available.                                *)
LEMMA OneMoreLease ==
    ASSUME RoutingInv, doc' = doc, Agents' = Agents, NEW m, Available(AgentOf(m)),
           leases' = leases \cup {m}, \A x \in leases' : AgentOf(x)' = AgentOf(x)
    PROVE  RoutesWithinBudget'
<1>1. /\ IsFiniteSet(leases)
      /\ \A a \in Agents : Cardinality({x \in leases : AgentOf(x) = a}) <= doc.concurrency
  BY DEF RoutingInv, RouteInv, RoutesWithinBudget
<1>2. doc.maxConcurrent \in Nat /\ doc.concurrency \in Nat
  BY LimitsOfPlan
<1>3. /\ Cardinality(leases) < doc.maxConcurrent
      /\ Cardinality({x \in leases : AgentOf(x) = AgentOf(m)}) < doc.concurrency
  BY DEF Available
<1>4. IsFiniteSet(leases') /\ Cardinality(leases') <= doc.maxConcurrent
  <2>1. /\ IsFiniteSet(leases') /\ Cardinality(leases) \in Nat /\ Cardinality(leases') \in Nat
        /\ Cardinality(leases') <= Cardinality(leases) + 1
    BY <1>1, OneMore
  <2> QED BY <1>2, <1>3, <2>1
<1>5. ASSUME NEW a \in Agents
      PROVE  Cardinality({x \in leases' : AgentOf(x)' = a}) <= doc.concurrency
  <2> DEFINE S == {x \in leases : AgentOf(x) = a}
             T == {x \in leases' : AgentOf(x)' = a}
  <2>1. IsFiniteSet(S) /\ Cardinality(S) <= doc.concurrency
    BY <1>1, FS_Subset
  <2>2. T = IF AgentOf(m) = a THEN S \cup {m} ELSE S
    OBVIOUS
  <2>3. AgentOf(m) = a => Cardinality(S) < doc.concurrency
    BY <1>3
  <2> HIDE DEF S, T
  <2>4. /\ Cardinality(S) \in Nat /\ Cardinality(S \cup {m}) \in Nat
        /\ Cardinality(S \cup {m}) <= Cardinality(S) + 1
    BY <2>1, OneMore
  <2>5. Cardinality(T) <= doc.concurrency
    BY <1>2, <2>1, <2>2, <2>3, <2>4
  <2> QED BY <2>5 DEF T
<1> QED BY <1>4, <1>5 DEF RoutesWithinBudget

(* A thread moves on; what it sent, and the channel, stay.                 *)
LEMMA ThreadMoves ==
    ASSUME RoutingInv, graph = "accepted", NEW r \in Request, NEW s \in Place,
           UNCHANGED <<planVars, messages, proposals, proposed, issues, channel, closing, faults>>,
           status' = [status EXCEPT ![r] = s],
           asked' \in [Request -> Agents \cup {NoAgent}], asked'[r] \in Agents,
           \A q \in Request : q # r => asked'[q] = asked[q],
           leases' \subseteq Request \X Nat,
           MessagesInPlace(r)', ProposalsInPlace(r)', LeasesInPlace', RoutesWithinBudget'
    PROVE  RoutingInv'
<1>1. PlanInv' /\ doc' = doc /\ graph' = graph /\ Agents' = Agents /\ HopLimit' = HopLimit
  BY PlanFixed
<1>2. status \in [Request -> Place] /\ status' \in [Request -> Place]
  BY DEF RoutingInv, RouteInv, RouteTypeOK
<1>3. RouteTypeOK'
  BY <1>1, <1>2 DEF RoutingInv, RouteInv, RouteTypeOK
<1>4. RunFollowsPlan'
  BY <1>1, <1>2 DEF RoutingInv, RouteInv, RunFollowsPlan
<1>5. ASSUME NEW q \in Request
      PROVE  MessagesInPlace(q)' /\ ProposalsInPlace(q)'
  <2>1. CASE q = r
    BY <2>1
  <2>2. CASE q # r
    <3>1. status'[q] = status[q]
      BY <1>2, <2>2
    <3>2. MessagesInPlace(q)'
      BY <3>1 DEF RoutingInv, RouteInv, MessagesInPlace, Fated, Sent, FateOf
    <3>3. ProposalsInPlace(q)'
      BY <3>1 DEF RoutingInv, RouteInv, ProposalsInPlace
    <3> QED BY <3>2, <3>3
  <2> QED BY <2>1, <2>2
<1>6. ChannelInPlace'
  BY <1>1 DEF RoutingInv, RouteInv, ChannelInPlace, Fated, Sent, FateOf
<1> QED BY <1>1, <1>3, <1>4, <1>5, <1>6 DEF RoutingInv, RouteInv

LEMMA AskKeeps ==
    ASSUME RoutingInv, NEW r \in Request, NEW a \in Agents, Ask(r, a)
    PROVE  RoutingInv'
<1>1. PICK s \in {"reserving", "opening"} : status' = [status EXCEPT ![r] = s]
  BY DEF Ask
<1>2. /\ graph = "accepted" /\ status[r] = "idle" /\ asked' = [asked EXCEPT ![r] = a]
      /\ UNCHANGED <<planVars, messages, proposals, proposed, issues, channel, leases, closing,
                     faults>>
  BY DEF Ask
<1>3. /\ status \in [Request -> Place] /\ asked \in [Request -> Agents \cup {NoAgent}]
      /\ leases \subseteq Request \X Nat
  BY DEF RoutingInv, RouteInv, RouteTypeOK
<1>4. /\ status'[r] = s /\ \A q \in Request : q # r => status'[q] = status[q]
      /\ asked' \in [Request -> Agents \cup {NoAgent}] /\ asked'[r] = a
      /\ \A q \in Request : q # r => asked'[q] = asked[q]
  BY <1>1, <1>2, <1>3
<1>5. doc' = doc /\ Agents' = Agents
  BY <1>2, PlanFixed
<1>6. MessagesInPlace(r) /\ ProposalsInPlace(r) /\ LeasesInPlace
  BY DEF RoutingInv, RouteInv
<1>7. MessagesInPlace(r)'
  BY <1>1, <1>2, <1>4, <1>6 DEF MessagesInPlace, Unsent, Fated, Sent, FateOf
<1>8. ProposalsInPlace(r)'
  BY <1>1, <1>2, <1>4, <1>6 DEF ProposalsInPlace, Unsent
<1>9. \A m \in leases : m[1] # r
  <2> SUFFICES ASSUME NEW m \in leases, m[1] = r PROVE FALSE
    OBVIOUS
  <2>1. m \in Fated(r, "running")
    BY <1>2, <1>6 DEF LeasesInPlace
  <2>2. messages[r] = <<>>
    BY <1>2, <1>6 DEF MessagesInPlace, Unsent
  <2> QED BY <2>1, <2>2 DEF Fated, Sent
<1>10. LeasesInPlace'
  <2>1. ASSUME NEW q \in Request
        PROVE  /\ Fated(q, "running")' = Fated(q, "running")
               /\ status'[q] = "entering" => status[q] = "entering"
    BY <1>1, <1>2, <1>4 DEF Fated, Sent, FateOf
  <2>2. \A m \in leases : m[1] \in Request /\ status'[m[1]] = status[m[1]]
    BY <1>3, <1>4, <1>9
  <2>3. \A m \in leases : Fated(m[1], "running")' = Fated(m[1], "running")
    BY <1>3, <2>1
  <2> QED BY <1>2, <1>6, <2>1, <2>2, <2>3 DEF LeasesInPlace
<1>11. RoutesWithinBudget'
  <2>1. \A m \in leases : AgentOf(m)' = AgentOf(m)
    BY <1>2, <1>3, <1>4, <1>9, SameAgent
  <2> QED BY <1>2, <1>5, <2>1, FewerLeases
<1> QED BY <1>1, <1>2, <1>3, <1>4, <1>7, <1>8, <1>10, <1>11, ThreadMoves DEF Place

(* A thread moves on whose request keeps what it has.                      *)
LEMMA ThreadOnly ==
    ASSUME RoutingInv, NEW r \in Request, status[r] # "idle", NEW s \in Place, s # "entering",
           status[r] \notin {"opening", "opened", "entering"},
           UNCHANGED <<planVars, asked, messages, proposals, proposed, issues, channel, leases,
                       closing, faults>>,
           status' = [status EXCEPT ![r] = s],
           MessagesInPlace(r)', ProposalsInPlace(r)'
    PROVE  RoutingInv'
<1>1. graph = "accepted" /\ asked[r] \in Agents
  BY RunsOnPlan
<1>2. /\ status \in [Request -> Place] /\ asked \in [Request -> Agents \cup {NoAgent}]
      /\ leases \subseteq Request \X Nat
  BY DEF RoutingInv, RouteInv, RouteTypeOK
<1>3. doc' = doc /\ Agents' = Agents
  BY PlanFixed
<1>4. LeasesInPlace'
  <2>1. ASSUME NEW q \in Request
        PROVE  /\ Fated(q, "running")' = Fated(q, "running")
               /\ status'[q] = "entering" => status[q] = "entering"
               /\ status[q] \in {"opening", "opened", "entering"} => status'[q] = status[q]
    BY <1>2 DEF Fated, Sent, FateOf
  <2>2. \A m \in leases : m[1] \in Request
    BY <1>2
  <2> QED BY <2>1, <2>2 DEF RoutingInv, RouteInv, LeasesInPlace
<1>5. RoutesWithinBudget'
  <2>1. \A m \in leases : AgentOf(m)' = AgentOf(m)
    BY SameAgent
  <2> QED BY <1>3, <2>1, FewerLeases
<1> QED BY <1>1, <1>2, <1>4, <1>5, ThreadMoves

LEMMA ReturnKeeps ==
    ASSUME RoutingInv, NEW r \in Request, Return(r)
    PROVE  RoutingInv'
<1>1. /\ status[r] = "taking" /\ Pending(r) = {} /\ InFlight(r) = {}
      /\ status' = [status EXCEPT ![r] = "returned"]
      /\ UNCHANGED <<planVars, asked, messages, proposals, proposed, issues, channel, leases,
                     closing, faults>>
  BY DEF Return
<1>2. status' \in [Request -> Place] /\ status'[r] = "returned"
  BY <1>1 DEF RoutingInv, RouteInv, RouteTypeOK, Place
<1>3. MessagesInPlace(r) /\ ProposalsInPlace(r)
  BY DEF RoutingInv, RouteInv
<1>4. ASSUME NEW m \in Sent(r) PROVE FateOf(m) \in {"invoked", "issue"}
  <2>1. FateOf(m) \in Fate
    <3>1. PICK i \in DOMAIN messages[r] : m = <<r, i>>
      BY DEF Sent
    <3>2. messages[r][i].fate \in Fate
      BY MessageTyped DEF RoutingInv, RouteInv
    <3> QED BY <3>1, <3>2 DEF FateOf
  <2>2. FateOf(m) \notin {"queued", "running", "answered", "failed"}
    BY <1>1 DEF Pending, InFlight, Fated
  <2>3. FateOf(m) # "unstarted"
    BY <1>1, <1>3 DEF MessagesInPlace, Fated
  <2> QED BY <2>1, <2>2, <2>3 DEF Fate
<1>5. MessagesInPlace(r)'
  BY <1>1, <1>2, <1>3, <1>4 DEF MessagesInPlace, Unsent, Fated, Sent, FateOf
<1>6. ProposalsInPlace(r)'
  BY <1>1, <1>2, <1>3 DEF ProposalsInPlace, Unsent
<1> QED BY <1>1, <1>5, <1>6, ThreadOnly DEF Place

LEMMA WaitKeeps ==
    ASSUME RoutingInv, NEW r \in Request, Wait(r) \/ Resume(r)
    PROVE  RoutingInv'
<1>1. PICK s \in {"waiting", "taking"} :
        /\ status[r] \in {"waiting", "taking"} /\ proposals[r] = {}
        /\ status' = [status EXCEPT ![r] = s]
        /\ UNCHANGED <<planVars, asked, messages, proposals, proposed, issues, channel, leases,
                       closing, faults>>
  <2>1. status[r] = "taking" => proposals[r] = {}
    BY DEF RoutingInv, RouteInv, ProposalsInPlace
  <2> QED BY <2>1 DEF Wait, Resume
<1>2. status' \in [Request -> Place] /\ status'[r] = s
  BY <1>1 DEF RoutingInv, RouteInv, RouteTypeOK, Place
<1>3. MessagesInPlace(r) /\ ProposalsInPlace(r)
  BY DEF RoutingInv, RouteInv
<1>4. MessagesInPlace(r)'
  BY <1>1, <1>2, <1>3 DEF MessagesInPlace, Unsent, Fated, Sent, FateOf
<1>5. ProposalsInPlace(r)'
  BY <1>1, <1>2, <1>3 DEF ProposalsInPlace, Unsent
<1> QED BY <1>1, <1>4, <1>5, ThreadOnly DEF Place

LEMMA ReserveKeeps ==
    ASSUME RoutingInv, NEW r \in Request, Reserve(r)
    PROVE  RoutingInv'
<1>1. /\ status[r] = "reserving" /\ status[r] # "idle"
      /\ UNCHANGED <<planVars, asked, messages, proposals, proposed, issues, channel, closing,
                     faults>>
  BY DEF Reserve
<1>2. graph = "accepted" /\ asked[r] \in Agents
  BY <1>1, RunsOnPlan
<1>3. /\ status \in [Request -> Place] /\ asked \in [Request -> Agents \cup {NoAgent}]
      /\ leases \subseteq Request \X Nat
  BY DEF RoutingInv, RouteInv, RouteTypeOK
<1>4. MessagesInPlace(r) /\ ProposalsInPlace(r) /\ LeasesInPlace
  BY DEF RoutingInv, RouteInv
<1>5. doc' = doc /\ Agents' = Agents
  BY <1>1, PlanFixed
<1>6. CASE status' = [status EXCEPT ![r] = "refused"] /\ UNCHANGED leases
  <2>1. status'[r] = "refused"
    BY <1>3, <1>6
  <2>2. MessagesInPlace(r)'
    BY <1>1, <1>4, <2>1 DEF MessagesInPlace, Unsent, Fated, Sent, FateOf
  <2>3. ProposalsInPlace(r)'
    BY <1>1, <1>4, <2>1 DEF ProposalsInPlace, Unsent
  <2> QED BY <1>1, <1>6, <2>2, <2>3, ThreadOnly DEF Place
<1>7. CASE /\ Available(Entry(r)) /\ leases' = leases \cup {<<r, 1>>}
           /\ status' = [status EXCEPT ![r] = "opening"]
  <2>1. status'[r] = "opening" /\ \A q \in Request : q # r => status'[q] = status[q]
    BY <1>3, <1>7
  <2>2. MessagesInPlace(r)'
    BY <1>1, <1>4, <2>1 DEF MessagesInPlace, Unsent, Fated, Sent, FateOf
  <2>3. ProposalsInPlace(r)'
    BY <1>1, <1>4, <2>1 DEF ProposalsInPlace, Unsent
  <2>4. LeasesInPlace'
    <3>1. ASSUME NEW q \in Request
          PROVE  /\ Fated(q, "running")' = Fated(q, "running")
                 /\ status'[q] = "entering" => status[q] = "entering"
                 /\ status[q] \in {"opening", "opened", "entering"} => status'[q] = status[q]
      BY <1>1, <2>1 DEF Fated, Sent, FateOf
    <3>2. \A m \in leases : m[1] \in Request
      BY <1>3
    <3>3. \A m \in leases' : m \in leases \/ m = <<r, 1>>
      BY <1>7
    <3> QED BY <1>4, <1>7, <2>1, <3>1, <3>2, <3>3 DEF LeasesInPlace
  <2>5. RoutesWithinBudget'
    <3> DEFINE m == <<r, 1>>
    <3>1. AgentOf(m) = Entry(r) /\ \A x \in {m} : AgentOf(x)' = AgentOf(x)
      <4>1. Entry(r)' = Entry(r)
        BY <1>1, PlanFixed
      <4> QED BY <4>1 DEF AgentOf
    <3>2. \A x \in leases : AgentOf(x)' = AgentOf(x)
      BY <1>1, SameAgent
    <3> HIDE DEF m
    <3>3. leases' = leases \cup {m}
      BY <1>7 DEF m
    <3> QED BY <1>5, <1>7, <3>1, <3>2, <3>3, OneMoreLease
  <2>6. leases' \subseteq Request \X Nat
    BY <1>3, <1>7
  <2> QED BY <1>1, <1>2, <1>3, <1>7, <2>2, <2>3, <2>4, <2>5, <2>6, ThreadMoves DEF Place
<1> QED BY <1>6, <1>7 DEF Reserve

(* A request enters, or fails before it has sent anything.                 *)
LEMMA OpensOrFails ==
    ASSUME RoutingInv, NEW r \in Request, status[r] \in {"opening", "opened"},
           NEW s \in {"opened", "refused", "raised"},
           UNCHANGED <<planVars, asked, messages, proposals, proposed, issues, channel, closing,
                       faults>>,
           status' = [status EXCEPT ![r] = s],
           leases' = IF s = "opened" THEN leases ELSE leases \ {<<r, 1>>}
    PROVE  RoutingInv'
<1>1. graph = "accepted" /\ asked[r] \in Agents
  BY RunsOnPlan
<1>2. /\ status \in [Request -> Place] /\ asked \in [Request -> Agents \cup {NoAgent}]
      /\ leases \subseteq Request \X Nat
  BY DEF RoutingInv, RouteInv, RouteTypeOK
<1>3. MessagesInPlace(r) /\ ProposalsInPlace(r) /\ LeasesInPlace
  BY DEF RoutingInv, RouteInv
<1>4. status'[r] = s /\ \A q \in Request : q # r => status'[q] = status[q]
  BY <1>2
<1>5. MessagesInPlace(r)'
  BY <1>3, <1>4 DEF MessagesInPlace, Unsent, Fated, Sent, FateOf
<1>6. ProposalsInPlace(r)'
  BY <1>3, <1>4 DEF ProposalsInPlace, Unsent
<1>7. leases' \subseteq leases /\ \A m \in leases : m \in leases' \/ (m = <<r, 1>> /\ s # "opened")
  OBVIOUS
<1>8. LeasesInPlace'
  <2>1. ASSUME NEW q \in Request
        PROVE  /\ Fated(q, "running")' = Fated(q, "running")
               /\ status'[q] = "entering" => status[q] = "entering" /\ q # r
    BY <1>4 DEF Fated, Sent, FateOf
  <2>2. Fated(r, "running") = {} /\ \A q \in Request : <<r, 1>> \notin Fated(q, "running")
    <3>1. messages[r] = <<>>
      BY <1>3 DEF MessagesInPlace, Unsent
    <3> QED BY <3>1 DEF Fated, Sent
  <2>3. \A q \in Request : Fated(q, "running")' \subseteq leases'
    BY <1>3, <1>7, <2>1, <2>2 DEF LeasesInPlace
  <2>4. \A q \in Request : status'[q] = "entering" => <<q, 1>> \in leases'
    BY <1>3, <1>7, <2>1 DEF LeasesInPlace
  <2>5. ASSUME NEW m \in leases'
        PROVE  \/ m \in Fated(m[1], "running")'
               \/ m[2] = 1 /\ status'[m[1]] \in {"opening", "opened", "entering"}
    <3>1. m \in leases /\ m[1] \in Request /\ m = <<m[1], m[2]>>
      BY <1>2, <1>7, <2>5
    <3>2. CASE m[1] # r
      BY <1>3, <1>4, <2>1, <3>1, <3>2 DEF LeasesInPlace
    <3>3. CASE m[1] = r
      <4>1. m[2] = 1
        BY <1>3, <2>2, <3>1, <3>3 DEF LeasesInPlace
      <4>2. m \notin {<<r, 1>>} \/ s = "opened"
        BY <2>5
      <4> QED BY <1>4, <3>1, <3>3, <4>1, <4>2
    <3> QED BY <3>2, <3>3
  <2> QED BY <2>3, <2>4, <2>5 DEF LeasesInPlace
<1>9. RoutesWithinBudget'
  <2>1. \A m \in leases : AgentOf(m)' = AgentOf(m)
    BY SameAgent
  <2>2. doc' = doc /\ Agents' = Agents
    BY PlanFixed
  <2> QED BY <1>7, <2>1, <2>2, FewerLeases
<1>10. leases' \subseteq Request \X Nat
  BY <1>2, <1>7
<1> QED BY <1>1, <1>2, <1>5, <1>6, <1>8, <1>9, <1>10, ThreadMoves DEF Place

LEMMA OpenKeeps ==
    ASSUME RoutingInv, NEW r \in Request, Open(r)
    PROVE  RoutingInv'
<1>1. /\ status[r] \in {"opening", "opened"}
      /\ UNCHANGED <<planVars, asked, messages, proposals, proposed, issues, channel, closing,
                     faults>>
  BY DEF Open
<1>2. PICK s \in {"opened", "refused", "raised"} :
        /\ status' = [status EXCEPT ![r] = s]
        /\ leases' = IF s = "opened" THEN leases ELSE leases \ {<<r, 1>>}
  BY DEF Open, Release
<1> QED BY <1>1, <1>2, OpensOrFails

LEMMA NoRootKeeps ==
    ASSUME RoutingInv, NEW r \in Request, SendRoot(r), ~(Len(channel) < doc.maxQueued)
    PROVE  RoutingInv'
BY OpensOrFails DEF SendRoot, Release

(* Closing changes nothing else.                                           *)
LEMMA CloseKeeps ==
    ASSUME RoutingInv, Close \/ EndClose \/ UNCHANGED vars
    PROVE  RoutingInv'
<1>1. UNCHANGED <<planVars, asked, status, messages, proposals, proposed, issues, channel, leases,
                  faults>>
  BY DEF Close, EndClose, vars, routeVars
<1>2. PlanInv' /\ doc' = doc /\ graph' = graph /\ Agents' = Agents /\ HopLimit' = HopLimit
  BY <1>1, PlanFixed
<1>3. closing' \in {"no", "closing", "closed"}
  BY DEF Close, EndClose, vars, routeVars, RoutingInv, RouteInv, RouteTypeOK
<1>4. RouteTypeOK'
  BY <1>1, <1>2, <1>3 DEF RoutingInv, RouteInv, RouteTypeOK
<1>5. RunFollowsPlan'
  <2>1. graph = "accepted" \/ closing' = closing
    <3>1. closing # "no" => graph = "accepted"
      BY DEF RoutingInv, RouteInv, RunFollowsPlan, RouteInit
    <3> QED BY <3>1 DEF Close, EndClose, vars, routeVars
  <2> QED BY <1>1, <1>2, <2>1 DEF RoutingInv, RouteInv, RunFollowsPlan, RouteInit
<1>6. ASSUME NEW q \in Request PROVE MessagesInPlace(q)' /\ ProposalsInPlace(q)'
  <2>1. MessagesInPlace(q)'
    BY <1>1 DEF RoutingInv, RouteInv, MessagesInPlace, Fated, Sent, FateOf
  <2>2. ProposalsInPlace(q)'
    BY <1>1 DEF RoutingInv, RouteInv, ProposalsInPlace
  <2> QED BY <2>1, <2>2
<1>7. ChannelInPlace' /\ LeasesInPlace'
  BY <1>1, <1>2 DEF RoutingInv, RouteInv, ChannelInPlace, LeasesInPlace, Fated, Sent, FateOf
<1>8. RoutesWithinBudget'
  <2>1. \A m \in leases : AgentOf(m)' = AgentOf(m)
    BY <1>1, SameAgent
  <2> QED BY <1>1, <1>2, <2>1, FewerLeases
<1> QED BY <1>2, <1>4, <1>5, <1>6, <1>7, <1>8 DEF RoutingInv, RouteInv

-----------------------------------------------------------------------------
(* Messages and invocations.                                               *)

LEMMA SendRootKeeps ==
    ASSUME RoutingInv, NEW r \in Request, SendRoot(r), Len(channel) < doc.maxQueued
    PROVE  RoutingInv'
<1>1. /\ status[r] = "opened" /\ status[r] # "idle"
      /\ UNCHANGED <<planVars, asked, proposals, proposed, issues, leases, closing, faults>>
      /\ channel' = Append(channel, <<r, 1>>)
      /\ messages' = [messages EXCEPT ![r] = <<Message(Entry(r), 0)>>]
      /\ status' = [status EXCEPT ![r] = IF <<r, 1>> \in leases THEN "entering" ELSE "taking"]
  BY DEF SendRoot
<1>2. Entry(r) \in Agents /\ graph = "accepted"
  BY <1>1, EntryIsAgent, RunsOnPlan
<1>3. MessagesInPlace(r) /\ ProposalsInPlace(r) /\ LeasesInPlace /\ ChannelInPlace /\ RouteTypeOK
  BY DEF RoutingInv, RouteInv
<1>4. messages[r] = <<>> /\ proposals[r] = {} /\ proposed[r] = 0 /\ issues[r] = 0
  BY <1>1, <1>3 DEF MessagesInPlace, ProposalsInPlace, Unsent
<1>5. messages' = [messages EXCEPT ![r] = Append(@, Message(Entry(r), 0))]
  <2> DEFINE new == Message(Entry(r), 0)
  <2> HIDE DEF new
  <2>1. Append(<<>>, new) = <<new>>
    OBVIOUS
  <2>2. messages' = [messages EXCEPT ![r] = Append(messages[r], new)]
    BY <1>1, <1>4, <2>1 DEF new
  <2> QED BY <2>2 DEF new
<1>6. PlanInv' /\ doc' = doc /\ graph' = graph /\ Agents' = Agents /\ HopLimit' = HopLimit
  BY <1>1, PlanFixed
<1>7. HopLimit \in Nat /\ 0 \in 0 .. HopLimit
  <2>1. Cardinality(Agents) \in Nat
    BY AgentsFinite, FS_CardinalityType DEF RoutingInv, PlanInv, GraphInPlace, PlanTypeOK
  <2> QED BY <2>1 DEF HopLimit
<1>8. /\ messages' \in [Request -> Messages]
      /\ \A q \in Request : q # r => messages'[q] = messages[q]
      /\ Len(messages'[r]) = 1 /\ messages'[r][1].fate = "queued"
      /\ Fated(r, "queued")' = Fated(r, "queued") \cup {<<r, 1>>}
      /\ \A q \in Request : \A f \in Fate :
            q # r \/ f # "queued" => Fated(q, f)' = Fated(q, f)
  <2> HIDE DEF Messages
  <2>1. Len(messages[r]) = 0
    BY <1>4
  <2>2. Len(messages[r]) + 1 = 1
    BY <2>1
  <2>3. /\ messages' \in [Request -> Messages]
        /\ \A q \in Request : q # r => messages'[q] = messages[q]
        /\ Len(messages'[r]) = Len(messages[r]) + 1
        /\ messages'[r][Len(messages[r]) + 1].fate = "queued"
        /\ Fated(r, "queued")' = Fated(r, "queued") \cup {<<r, Len(messages[r]) + 1>>}
        /\ \A q \in Request : \A f \in Fate :
              q # r \/ f # "queued" => Fated(q, f)' = Fated(q, f)
    BY <1>2, <1>3, <1>5, <1>7, AnotherSent
  <2> QED BY <2>2, <2>3
<1>9. status \in [Request -> Place]
  BY <1>3 DEF RouteTypeOK
<1>10. PICK s \in {"entering", "taking"} :
          status' = [status EXCEPT ![r] = s] /\ (s = "entering" => <<r, 1>> \in leases)
                                            /\ (s = "taking" => <<r, 1>> \notin leases)
  BY <1>1
<1>11. status'[r] = s /\ \A q \in Request : q # r => status'[q] = status[q]
  BY <1>9, <1>10
<1>12. /\ channel' \in Seq(Request \X Nat) /\ IsInjective(channel')
       /\ Len(channel') = Len(channel) + 1 /\ ToSet(channel') = ToSet(channel) \cup {<<r, 1>>}
  <2>1. <<r, 1>> \notin ToSet(channel)
    BY <1>3, <1>4 DEF ChannelInPlace, Fated, Sent
  <2>2. <<r, 1>> \in Request \X Nat
    OBVIOUS
  <2>3. channel \in Seq(Request \X Nat) /\ IsInjective(channel)
    BY <1>3 DEF RouteTypeOK, ChannelInPlace
  <2> QED BY <1>1, <2>1, <2>2, <2>3, Appended
<1>13. RouteTypeOK'
  <2>1. status' \in [Request -> Place]
    BY <1>9, <1>10 DEF Place
  <2>2. messages' \in [Request -> Seq([to : Agents', hop : 0 .. HopLimit', fate : Fate])]
    BY <1>6, <1>8 DEF Messages
  <2> QED BY <1>1, <1>3, <1>6, <1>12, <2>1, <2>2 DEF RouteTypeOK
<1>14. RunFollowsPlan'
  BY <1>1, <1>2, <1>6, <1>11, RunsOnPlan DEF RoutingInv, RouteInv, RunFollowsPlan
<1>15. ASSUME NEW q \in Request PROVE MessagesInPlace(q)' /\ ProposalsInPlace(q)'
  <2>1. CASE q = r
    <3>1. MessagesInPlace(r)'
      <4>1. Fated(r, "unstarted")' = Fated(r, "unstarted")
        BY <1>8 DEF Fate
      <4> QED BY <1>1, <1>3, <1>8, <1>11, <4>1 DEF MessagesInPlace, Unsent
    <3>2. ProposalsInPlace(r)'
      BY <1>1, <1>3, <1>4, <1>8, <1>11, FS_EmptySet DEF ProposalsInPlace, Unsent
    <3> QED BY <2>1, <3>1, <3>2
  <2>2. CASE q # r
    <3>1. status'[q] = status[q] /\ messages'[q] = messages[q]
      BY <1>8, <1>11, <2>2
    <3>2. MessagesInPlace(q)'
      BY <3>1 DEF RoutingInv, RouteInv, MessagesInPlace, Fated, Sent, FateOf
    <3>3. ProposalsInPlace(q)'
      BY <1>1, <3>1 DEF RoutingInv, RouteInv, ProposalsInPlace
    <3> QED BY <3>2, <3>3
  <2> QED BY <2>1, <2>2
<1>16. ChannelInPlace'
  <2>1. Len(channel') <= doc.maxQueued
    BY <1>3, <1>12, LimitsOfPlan DEF RouteTypeOK
  <2>2. ToSet(channel') = UNION {Fated(q, "queued")' : q \in Request}
    <3>1. "queued" \in Fate
      BY DEF Fate
    <3>2. \A m : m \in ToSet(channel) <=> \E q \in Request : m \in Fated(q, "queued")
      BY <1>3 DEF ChannelInPlace
    <3>3. ASSUME NEW m
          PROVE  (\E q \in Request : m \in Fated(q, "queued")')
                    <=> m = <<r, 1>> \/ \E q \in Request : m \in Fated(q, "queued")
      <4>1. \A q \in Request : q # r => Fated(q, "queued")' = Fated(q, "queued")
        BY <1>8, <3>1
      <4> QED BY <1>8, <4>1
    <3> QED BY <1>12, <3>2, <3>3
  <2> QED BY <1>6, <1>12, <2>1, <2>2 DEF ChannelInPlace
<1>17. LeasesInPlace'
  <2>1. \A q \in Request : Fated(q, "running")' = Fated(q, "running")
    BY <1>8 DEF Fate
  <2>2. \A m \in leases : m[1] \in Request /\ m = <<m[1], m[2]>>
    BY <1>3 DEF RouteTypeOK
  <2>3. \A m \in leases : m[1] = r /\ m[2] = 1 => s = "entering"
    BY <1>10, <2>2
  <2> QED BY <1>1, <1>3, <1>10, <1>11, <2>1, <2>2, <2>3 DEF LeasesInPlace
<1>18. RoutesWithinBudget'
  <2>1. \A q \in Request : \A i \in DOMAIN messages[q] : messages'[q][i].to = messages[q][i].to
    BY <1>4, <1>8
  <2>2. \A m \in leases : AgentOf(m)' = AgentOf(m)
    BY <1>1, <2>1, SameAgent
  <2> QED BY <1>1, <1>6, <2>2, FewerLeases
<1> QED BY <1>6, <1>13, <1>14, <1>15, <1>16, <1>17, <1>18 DEF RoutingInv, RouteInv

(* The requests that a step is not of.                                     *)
LEMMA OthersKeep ==
    ASSUME RoutingInv, NEW q \in Request,
           status'[q] = status[q], messages'[q] = messages[q], proposals'[q] = proposals[q],
           proposed'[q] = proposed[q], issues'[q] = issues[q]
    PROVE  MessagesInPlace(q)' /\ ProposalsInPlace(q)'
<1>1. MessagesInPlace(q)'
  BY DEF RoutingInv, RouteInv, MessagesInPlace, Fated, Sent, FateOf
<1>2. ProposalsInPlace(q)'
  BY DEF RoutingInv, RouteInv, ProposalsInPlace
<1> QED BY <1>1, <1>2

(* The channel gives a request the first message it may take.              *)
LEMMA Received ==
    ASSUME RoutingInv, NEW r \in Request, NEW own, own \subseteq Pending(r), own # {}
    PROVE  Receive(own) \in DOMAIN channel /\ channel[Receive(own)] \in own
<1> DEFINE T == {k \in DOMAIN channel : channel[k] \in own}
<1>1. T \in SUBSET Nat
  BY DEF RoutingInv, RouteInv, RouteTypeOK
<1>2. own \subseteq ToSet(channel)
  BY DEF RoutingInv, RouteInv, ChannelInPlace, Pending
<1>3. T # {}
  BY <1>2 DEF ToSet
<1> HIDE DEF T
<1>4. Min(T) \in T
  BY <1>1, <1>3, LeastNumber
<1> QED BY <1>4 DEF T, Receive

LEMMA SubmitKeeps ==
    ASSUME RoutingInv, NEW r \in Request, NEW own, own \subseteq Pending(r), own # {},
           \/ status[r] = "entering" /\ own = {<<r, 1>>}
           \/ status[r] = "taking" /\ \A m \in own : Available(AgentOf(m)),
           Submit(r, own)
    PROVE  RoutingInv'
<1>1. PICK p \in DOMAIN channel, m \in own : p = Receive(own) /\ m = channel[p]
  BY Received
<1>2. PICK f \in {"running", "unstarted"} :
        /\ Settle(m, f)
        /\ status' = [status EXCEPT ![r] = IF f = "running" THEN "taking" ELSE "raised"]
        /\ leases' = IF f = "running" THEN leases \cup {m} ELSE leases \ {m}
  BY <1>1 DEF Submit, Release
<1>3. /\ channel' = RemoveAt(channel, p)
      /\ UNCHANGED <<planVars, asked, proposals, proposed, issues, closing>>
  BY <1>1 DEF Submit
<1>4. MessagesInPlace(r) /\ ProposalsInPlace(r) /\ LeasesInPlace /\ ChannelInPlace /\ RouteTypeOK
  BY DEF RoutingInv, RouteInv
<1>5. faults' \in Nat
  <2>1. faults' = faults \/ faults' = faults + 1
    BY DEF Submit
  <2> QED BY <1>4, <2>1 DEF RouteTypeOK
<1>6. m \in Fated(r, "queued") /\ m \in Sent(r) /\ FateOf(m) = "queued" /\ f \in Fate
  BY DEF Pending, Fated, Fate
<1>7. PICK k \in DOMAIN messages[r] : m = <<r, k>>
  BY <1>6 DEF Sent
<1>8. k \in Nat /\ m \in Request \X Nat
  BY <1>4, <1>7, MessageTyped
<1>9. PlanInv' /\ doc' = doc /\ graph' = graph /\ Agents' = Agents /\ HopLimit' = HopLimit
  BY <1>3, PlanFixed
<1>10. /\ messages' \in [Request -> Messages]
       /\ \A q \in Request : q # r => messages'[q] = messages[q]
       /\ \A q \in Request : Len(messages'[q]) = Len(messages[q]) /\ Sent(q)' = Sent(q)
       /\ \A q \in Request : \A i \in DOMAIN messages[q] : messages'[q][i].to = messages[q][i].to
  BY <1>2, <1>4, <1>6, Settled
<1>11. \A q \in Request : \A g : Fated(q, g)' = (Fated(q, g) \ {m})
                                        \cup (IF q = r /\ g = f THEN {m} ELSE {})
  BY <1>2, <1>4, <1>6, FatedSettled
<1>12. status \in [Request -> Place] /\ graph = "accepted"
  BY <1>4, RunsOnPlan DEF RouteTypeOK
<1>13. /\ status'[r] = IF f = "running" THEN "taking" ELSE "raised"
       /\ \A q \in Request : q # r => status'[q] = status[q]
  BY <1>2, <1>12
<1>14. /\ channel' \in Seq(Request \X Nat) /\ IsInjective(channel')
       /\ Len(channel') = Len(channel) - 1 /\ ToSet(channel') = ToSet(channel) \ {m}
  <2>1. channel \in Seq(Request \X Nat) /\ IsInjective(channel)
    BY <1>4 DEF RouteTypeOK, ChannelInPlace
  <2> QED BY <1>1, <1>3, <2>1, RemovedAt
<1>15. RouteTypeOK'
  <2>1. status' \in [Request -> Place]
    BY <1>2, <1>12 DEF Place
  <2>2. messages' \in [Request -> Seq([to : Agents', hop : 0 .. HopLimit', fate : Fate])]
    BY <1>9, <1>10 DEF Messages
  <2>3. leases' \subseteq Request \X Nat
    BY <1>2, <1>4, <1>8 DEF RouteTypeOK
  <2> QED BY <1>3, <1>4, <1>5, <1>9, <1>14, <2>1, <2>2, <2>3 DEF RouteTypeOK
<1>16. RunFollowsPlan'
  BY <1>3, <1>9, <1>12, <1>13, RunsOnPlan DEF RoutingInv, RouteInv, RunFollowsPlan
<1>17. ASSUME NEW q \in Request PROVE MessagesInPlace(q)' /\ ProposalsInPlace(q)'
  <2>1. CASE q = r
    <3>1. MessagesInPlace(r)'
      <4>1. f = "running" => Fated(r, "unstarted")' = {}
        <5>1. Fated(r, "unstarted") = {}
          BY <1>4 DEF MessagesInPlace
        <5> QED BY <1>11, <5>1
      <4> QED BY <1>13, <4>1 DEF MessagesInPlace, Unsent
    <3>2. proposals[r] = {} /\ proposed[r] + 1 = Len(messages[r]) + issues[r] + Cardinality({})
      BY <1>4 DEF ProposalsInPlace
    <3>3. ProposalsInPlace(r)'
      BY <1>3, <1>10, <1>13, <3>2, FS_EmptySet DEF ProposalsInPlace, Unsent
    <3> QED BY <2>1, <3>1, <3>3
  <2>2. CASE q # r
    BY <1>3, <1>10, <1>13, <2>2, OthersKeep
  <2> QED BY <2>1, <2>2
<1>18. ChannelInPlace'
  <2>1. Len(channel') <= doc.maxQueued
    <3>1. Len(channel) \in Nat
      BY <1>4, LenProperties DEF RouteTypeOK
    <3>2. Len(channel) <= doc.maxQueued /\ doc.maxQueued \in Nat
      BY <1>4, LimitsOfPlan DEF ChannelInPlace
    <3> QED BY <1>14, <3>1, <3>2
  <2>2. \A q \in Request : Fated(q, "queued")' = Fated(q, "queued") \ {m}
    BY <1>11
  <2>3. ToSet(channel') = UNION {Fated(q, "queued")' : q \in Request}
    BY <1>4, <1>14, <2>2 DEF ChannelInPlace
  <2> QED BY <1>9, <1>14, <2>1, <2>3 DEF ChannelInPlace
<1>19. \A q \in Request : Fated(q, "running")' =
            IF q = r /\ f = "running" THEN Fated(q, "running") \cup {m} ELSE Fated(q, "running")
  <2> TAKE q \in Request
  <2>1. m \notin Fated(q, "running")
    BY <1>6 DEF Fated
  <2>2. Fated(q, "running")' = (Fated(q, "running") \ {m})
                                  \cup (IF q = r /\ "running" = f THEN {m} ELSE {})
    BY <1>11
  <2> QED BY <2>1, <2>2
<1>20. LeasesInPlace'
  <2>1. ASSUME NEW q \in Request
        PROVE  /\ Fated(q, "running")' \subseteq leases'
               /\ status'[q] = "entering" => <<q, 1>> \in leases'
    <3>1. m \notin Fated(q, "running")
      BY <1>6 DEF Fated
    <3>2. Fated(q, "running")' \subseteq leases'
      BY <1>2, <1>4, <1>19, <3>1 DEF LeasesInPlace
    <3>3. status'[q] = "entering" => q # r /\ status[q] = "entering"
      BY <1>13
    <3> QED BY <1>2, <1>4, <1>7, <3>2, <3>3 DEF LeasesInPlace
  <2>2. ASSUME NEW x \in leases'
        PROVE  \/ x \in Fated(x[1], "running")'
               \/ x[2] = 1 /\ status'[x[1]] \in {"opening", "opened", "entering"}
    <3>1. CASE x = m
      BY <1>2, <1>7, <1>19, <2>2, <3>1
    <3>2. CASE x # m
      <4>1. x \in leases /\ x[1] \in Request /\ x = <<x[1], x[2]>>
        <5>1. x \in leases
          BY <1>2, <2>2, <3>2
        <5>2. leases \subseteq Request \X Nat
          BY <1>4 DEF RouteTypeOK
        <5> QED BY <5>1, <5>2
      <4>2. \/ x \in Fated(x[1], "running")
            \/ x[2] = 1 /\ status[x[1]] \in {"opening", "opened", "entering"}
        BY <1>4, <4>1 DEF LeasesInPlace
      <4>3. CASE x \in Fated(x[1], "running")
        BY <1>19, <4>1, <4>3
      <4>4. CASE x[2] = 1 /\ status[x[1]] \in {"opening", "opened", "entering"}
        <5>1. x[1] # r
          <6>1. SUFFICES ASSUME x[1] = r PROVE FALSE
            OBVIOUS
          <6>2. own = {<<r, 1>>}
            BY <4>4, <6>1
          <6> QED BY <3>2, <4>1, <4>4, <6>1, <6>2
        <5> QED BY <1>13, <4>1, <4>4, <5>1
      <4> QED BY <4>2, <4>3, <4>4
    <3> QED BY <3>1, <3>2
  <2> QED BY <2>1, <2>2 DEF LeasesInPlace
<1>21. RoutesWithinBudget'
  <2>1. \A x \in leases : AgentOf(x)' = AgentOf(x)
    BY <1>3, <1>10, SameAgent
  <2>2. AgentOf(m)' = AgentOf(m)
    <3>1. Entry(r)' = Entry(r)
      BY <1>3, PlanFixed
    <3> QED BY <1>7, <1>10, <3>1 DEF AgentOf
  <2>3. CASE m \in leases \/ f # "running"
    <3>1. leases' \subseteq leases
      BY <1>2, <2>3
    <3> QED BY <1>9, <2>1, <3>1, FewerLeases
  <2>4. CASE m \notin leases /\ f = "running"
    <3>1. status[r] = "taking"
      BY <1>4, <2>4 DEF LeasesInPlace
    <3>2. Available(AgentOf(m))
      BY <3>1
    <3>3. leases' = leases \cup {m}
      BY <1>2, <2>4
    <3> QED BY <1>9, <2>1, <2>2, <3>2, <3>3, OneMoreLease
  <2> QED BY <2>3, <2>4
<1> QED BY <1>9, <1>15, <1>16, <1>17, <1>18, <1>20, <1>21 DEF RoutingInv, RouteInv

(* An invocation ends.                                                     *)
LEMMA AnswerKeeps ==
    ASSUME RoutingInv, NEW r \in Request, NEW m \in Sent(r), Answer(m)
    PROVE  RoutingInv'
<1>1. PICK f \in {"answered", "failed"} : Settle(m, f)
  BY DEF Answer
<1>2. /\ FateOf(m) = "running" /\ leases' = leases \ {m}
      /\ UNCHANGED <<planVars, asked, status, proposals, proposed, issues, channel, closing, faults>>
  BY DEF Answer, Release
<1>3. MessagesInPlace(r) /\ ProposalsInPlace(r) /\ LeasesInPlace /\ ChannelInPlace /\ RouteTypeOK
  BY DEF RoutingInv, RouteInv
<1>4. f \in Fate /\ m \in Fated(r, "running")
  BY <1>2 DEF Fate, Fated
<1>5. PICK k \in DOMAIN messages[r] : m = <<r, k>>
  BY DEF Sent
<1>6. PlanInv' /\ doc' = doc /\ graph' = graph /\ Agents' = Agents /\ HopLimit' = HopLimit
  BY <1>2, PlanFixed
<1>7. /\ messages' \in [Request -> Messages]
      /\ \A q \in Request : q # r => messages'[q] = messages[q]
      /\ \A q \in Request : Len(messages'[q]) = Len(messages[q]) /\ Sent(q)' = Sent(q)
      /\ \A q \in Request : \A i \in DOMAIN messages[q] :
            i \in DOMAIN messages'[q] /\ messages'[q][i].to = messages[q][i].to
  BY <1>1, <1>3, <1>4, Settled
<1>8. ASSUME NEW q \in Request, NEW g
      PROVE  Fated(q, g)' = (Fated(q, g) \ {m}) \cup (IF q = r /\ g = f THEN {m} ELSE {})
  BY <1>1, <1>3, <1>4, FatedSettled
<1>9. status[r] \in Place \ (Unsent \cup {"entering", "returned"})
  <2>1. status[r] \notin Unsent
    BY <1>3, <1>5 DEF MessagesInPlace
  <2>2. status[r] # "entering"
    <3>1. SUFFICES ASSUME status[r] = "entering" PROVE FALSE
      OBVIOUS
    <3>2. Len(messages[r]) = 1 /\ messages[r][1].fate = "queued"
      BY <1>3, <3>1 DEF MessagesInPlace
    <3>3. DOMAIN messages[r] = 1 .. 1
      BY <1>3, <3>2, LenProperties DEF RouteTypeOK
    <3>4. k = 1
      BY <3>3
    <3> QED BY <1>2, <1>5, <3>2, <3>4 DEF FateOf
  <2>3. status[r] # "returned"
    BY <1>2, <1>3 DEF MessagesInPlace
  <2>4. status[r] \in Place
    BY <1>3 DEF RouteTypeOK
  <2> QED BY <2>1, <2>2, <2>3, <2>4
<1>10. graph = "accepted"
  <2>1. status[r] # "idle"
    BY <1>9 DEF Unsent
  <2> QED BY <2>1, RunsOnPlan
<1>11. RouteTypeOK'
  <2>1. messages' \in [Request -> Seq([to : Agents', hop : 0 .. HopLimit', fate : Fate])]
    BY <1>6, <1>7 DEF Messages
  <2> QED BY <1>2, <1>3, <1>6, <2>1 DEF RouteTypeOK
<1>12. RunFollowsPlan'
  BY <1>2, <1>6, <1>10 DEF RoutingInv, RouteInv, RunFollowsPlan
<1>13. ASSUME NEW q \in Request PROVE MessagesInPlace(q)' /\ ProposalsInPlace(q)'
  <2>1. CASE q = r
    <3>1. MessagesInPlace(r)'
      <4>1. Fated(r, "unstarted")' = Fated(r, "unstarted") \ {m}
        BY <1>8
      <4> QED BY <1>2, <1>3, <1>9, <4>1 DEF MessagesInPlace, Unsent
    <3>2. ProposalsInPlace(r)'
      BY <1>2, <1>3, <1>7, <1>9 DEF ProposalsInPlace, Unsent
    <3> QED BY <2>1, <3>1, <3>2
  <2>2. CASE q # r
    BY <1>2, <1>7, <2>2, OthersKeep
  <2> QED BY <2>1, <2>2
<1>14. ChannelInPlace'
  <2>1. \A q \in Request : Fated(q, "queued")' = Fated(q, "queued")
    <3> TAKE q \in Request
    <3>1. m \notin Fated(q, "queued")
      BY <1>2 DEF Fated
    <3>2. Fated(q, "queued")' = (Fated(q, "queued") \ {m})
                                  \cup (IF q = r /\ "queued" = f THEN {m} ELSE {})
      BY <1>8
    <3> QED BY <3>1, <3>2
  <2> QED BY <1>2, <1>3, <1>6, <2>1 DEF ChannelInPlace
<1>15. LeasesInPlace'
  <2>1. \A q \in Request : Fated(q, "running")' = Fated(q, "running") \ {m}
    <3> TAKE q \in Request
    <3>1. Fated(q, "running")' = (Fated(q, "running") \ {m})
                                  \cup (IF q = r /\ "running" = f THEN {m} ELSE {})
      BY <1>8
    <3> QED BY <3>1
  <2>2. \A q \in Request : status[q] = "entering" => q # r
    BY <1>9
  <2>3. \A x \in leases : x[1] \in Request
    BY <1>3 DEF RouteTypeOK
  <2> QED BY <1>2, <1>3, <1>5, <2>1, <2>2, <2>3 DEF LeasesInPlace
<1>16. RoutesWithinBudget'
  <2>1. \A x \in leases : AgentOf(x)' = AgentOf(x)
    BY <1>2, <1>7, SameAgent
  <2>2. leases' \subseteq leases
    BY <1>2
  <2> QED BY <1>6, <2>1, <2>2, FewerLeases
<1> QED BY <1>6, <1>11, <1>12, <1>13, <1>14, <1>15, <1>16 DEF RoutingInv, RouteInv

(* The delegations of one invocation are as many as their targets.         *)
LEMMA AsManyAsTargets ==
    ASSUME NEW T, IsFiniteSet(T), NEW n
    PROVE  /\ IsFiniteSet({<<n, a>> : a \in T})
           /\ Cardinality({<<n, a>> : a \in T}) = Cardinality(T)
<1> DEFINE S == {<<n, a>> : a \in T}
           h == [a \in T |-> <<n, a>>]
<1>1. h \in Bijection(T, S)
  BY DEF Bijection, Injection, Surjection, IsInjective
<1> QED BY <1>1, FS_Bijection DEF ExistsBijection

(* What is added to one side of the balance is added to the other.          *)
LEMMA SumCarries ==
    ASSUME NEW p \in Nat, NEW l \in Nat, NEW i \in Nat, NEW n \in Nat, p + 1 = l + i + 0
    PROVE  (p + n) + 1 = l + i + n
  OBVIOUS

LEMMA CollectKeeps ==
    ASSUME RoutingInv, NEW r \in Request, Collect(r)
    PROVE  RoutingInv'
<1>1. PICK m \in Fated(r, "answered") \cup Fated(r, "failed"), targets \in SUBSET Agents :
        /\ Settle(m, IF FateOf(m) = "failed" THEN "issue" ELSE "invoked")
        /\ proposals' = [proposals EXCEPT ![r] = {<<m[2], a>> : a \in targets}]
        /\ proposed' = [proposed EXCEPT ![r] = @ + Cardinality(targets)]
  BY DEF Collect
<1>2. /\ status[r] = "waiting" /\ proposals[r] = {}
      /\ UNCHANGED <<planVars, asked, status, issues, channel, leases, closing, faults>>
  BY DEF Collect
<1>3. PICK f \in {"issue", "invoked"} : Settle(m, f)
  BY <1>1
<1>4. MessagesInPlace(r) /\ ProposalsInPlace(r) /\ LeasesInPlace /\ ChannelInPlace /\ RouteTypeOK
  BY DEF RoutingInv, RouteInv
<1>5. m \in Sent(r) /\ FateOf(m) \in {"answered", "failed"} /\ f \in Fate
  BY DEF Fated, Fate
<1>6. PICK k \in DOMAIN messages[r] : m = <<r, k>>
  BY <1>5 DEF Sent
<1>7. k \in Nat /\ m[2] = k
  BY <1>4, <1>6, MessageTyped
<1>8. PlanInv' /\ doc' = doc /\ graph' = graph /\ Agents' = Agents /\ HopLimit' = HopLimit
  BY <1>2, PlanFixed
<1>9. /\ messages' \in [Request -> Messages]
      /\ \A q \in Request : q # r => messages'[q] = messages[q]
      /\ \A q \in Request : Len(messages'[q]) = Len(messages[q]) /\ Sent(q)' = Sent(q)
      /\ \A q \in Request : \A i \in DOMAIN messages[q] :
            i \in DOMAIN messages'[q] /\ messages'[q][i].to = messages[q][i].to
  BY <1>3, <1>4, <1>5, Settled
<1>10. ASSUME NEW q \in Request, NEW g
       PROVE  Fated(q, g)' = (Fated(q, g) \ {m}) \cup (IF q = r /\ g = f THEN {m} ELSE {})
  BY <1>3, <1>4, <1>5, FatedSettled
<1>11. ASSUME NEW q \in Request, NEW g \in {"queued", "running"}
       PROVE  Fated(q, g)' = Fated(q, g)
  <2>1. m \notin Fated(q, g)
    BY <1>5 DEF Fated
  <2>2. Fated(q, g)' = (Fated(q, g) \ {m}) \cup (IF q = r /\ g = f THEN {m} ELSE {})
    BY <1>10
  <2> QED BY <2>1, <2>2
<1>12. graph = "accepted"
  BY <1>2, RunsOnPlan
<1> DEFINE new == {<<k, a>> : a \in targets}
<1>13. IsFiniteSet(new) /\ Cardinality(new) = Cardinality(targets) /\ Cardinality(new) \in Nat
  <2>1. IsFiniteSet(targets)
    BY AgentsFinite, FS_Subset DEF RoutingInv, PlanInv, GraphInPlace, PlanTypeOK
  <2>2. IsFiniteSet(new) /\ Cardinality(new) = Cardinality(targets)
    BY <2>1, AsManyAsTargets
  <2> HIDE DEF new
  <2> QED BY <2>2, FS_CardinalityType
<1>14. /\ proposals \in [Request -> SUBSET (Nat \X Agents)]
       /\ proposed \in [Request -> Nat] /\ issues \in [Request -> Nat]
  BY <1>4 DEF RouteTypeOK
<1>15. /\ proposals' \in [Request -> SUBSET (Nat \X Agents)] /\ proposals'[r] = new
       /\ \A q \in Request : q # r => proposals'[q] = proposals[q]
  <2>1. new \in SUBSET (Nat \X Agents)
    BY <1>7
  <2>2. proposals' = [proposals EXCEPT ![r] = new]
    BY <1>1, <1>7
  <2> HIDE DEF new
  <2> QED BY <1>14, <2>1, <2>2
<1>16. /\ proposed' \in [Request -> Nat] /\ proposed'[r] = proposed[r] + Cardinality(new)
       /\ \A q \in Request : q # r => proposed'[q] = proposed[q]
  <2> HIDE DEF new
  <2> QED BY <1>1, <1>13, <1>14
<1>17. RouteTypeOK'
  <2>1. messages' \in [Request -> Seq([to : Agents', hop : 0 .. HopLimit', fate : Fate])]
    BY <1>8, <1>9 DEF Messages
  <2> QED BY <1>2, <1>4, <1>8, <1>15, <1>16, <2>1 DEF RouteTypeOK
<1>18. RunFollowsPlan'
  BY <1>2, <1>8, <1>12 DEF RoutingInv, RouteInv, RunFollowsPlan
<1>19. ASSUME NEW q \in Request PROVE MessagesInPlace(q)' /\ ProposalsInPlace(q)'
  <2>1. CASE q = r
    <3>1. MessagesInPlace(r)'
      <4>1. Fated(r, "unstarted")' = (Fated(r, "unstarted") \ {m})
                                        \cup (IF r = r /\ "unstarted" = f THEN {m} ELSE {})
        BY <1>10
      <4>2. Fated(r, "unstarted")' = Fated(r, "unstarted") \ {m}
        BY <4>1
      <4> QED BY <1>2, <1>4, <4>2 DEF MessagesInPlace, Unsent
    <3>2. ProposalsInPlace(r)'
      <4>1. \A p \in new : p[1] \in DOMAIN messages'[r]
        BY <1>9
      <4>2. proposed[r] + 1 = Len(messages[r]) + issues[r] + Cardinality({})
        BY <1>2, <1>4 DEF ProposalsInPlace
      <4>3. Len(messages[r]) \in Nat /\ Cardinality({}) = 0
        BY <1>4, LenProperties, FS_EmptySet DEF RouteTypeOK
      <4>4. proposed'[r] + 1 = Len(messages'[r]) + issues'[r] + Cardinality(new)
        <5> HIDE DEF new
        <5>1. Len(messages'[r]) = Len(messages[r])
          BY <1>9
        <5>2. issues'[r] = issues[r] /\ issues[r] \in Nat /\ proposed[r] \in Nat
          BY <1>2, <1>14
        <5>3. proposed'[r] = proposed[r] + Cardinality(new) /\ Cardinality(new) \in Nat
          BY <1>13, <1>16
        <5>4. proposed[r] + 1 = Len(messages[r]) + issues[r] + 0
          BY <4>2, <4>3
        <5>5. (proposed[r] + Cardinality(new)) + 1
                 = Len(messages[r]) + issues[r] + Cardinality(new)
          BY <4>3, <5>2, <5>3, <5>4, SumCarries
        <5> QED BY <5>1, <5>2, <5>3, <5>5
      <4> HIDE DEF new
      <4> QED BY <1>2, <1>13, <1>15, <4>1, <4>4 DEF ProposalsInPlace, Unsent
    <3> QED BY <2>1, <3>1, <3>2
  <2>2. CASE q # r
    BY <1>2, <1>9, <1>15, <1>16, <2>2, OthersKeep
  <2> QED BY <2>1, <2>2
<1>20. ChannelInPlace'
  <2>1. \A q \in Request : Fated(q, "queued")' = Fated(q, "queued")
    BY <1>11
  <2> QED BY <1>2, <1>4, <1>8, <2>1 DEF ChannelInPlace
<1>21. LeasesInPlace'
  <2>1. \A q \in Request : Fated(q, "running")' = Fated(q, "running")
    BY <1>11
  <2>2. \A x \in leases : x[1] \in Request
    BY <1>4 DEF RouteTypeOK
  <2> QED BY <1>2, <1>4, <2>1, <2>2 DEF LeasesInPlace
<1>22. RoutesWithinBudget'
  <2>1. \A x \in leases : AgentOf(x)' = AgentOf(x)
    BY <1>2, <1>9, SameAgent
  <2> QED BY <1>2, <1>8, <2>1, FewerLeases
<1> QED BY <1>8, <1>17, <1>18, <1>19, <1>20, <1>21, <1>22 DEF RoutingInv, RouteInv

(* A delegation is sent, or refused.                                       *)
LEMMA DelegateKeeps ==
    ASSUME RoutingInv, NEW r \in Request, Delegate(r)
    PROVE  RoutingInv'
<1>1. PICK p \in proposals[r] :
        LET parent == messages[r][p[1]]
        IN  /\ proposals' = [proposals EXCEPT ![r] = @ \ {p}]
            /\ IF /\ Authorized(parent.to, p[2])
                  /\ parent.hop < HopLimit
                  /\ Len(channel) < doc.maxQueued
               THEN /\ messages' = [messages EXCEPT ![r] = Append(@, Message(p[2], parent.hop + 1))]
                    /\ channel' = Append(channel, <<r, Len(messages[r]) + 1>>)
                    /\ UNCHANGED issues
               ELSE /\ issues' = [issues EXCEPT ![r] = @ + 1]
                    /\ UNCHANGED <<messages, channel>>
  BY DEF Delegate
<1>2. /\ status[r] = "waiting"
      /\ UNCHANGED <<planVars, asked, status, proposed, leases, closing, faults>>
      /\ proposals' = [proposals EXCEPT ![r] = @ \ {p}]
  BY <1>1 DEF Delegate
<1>3. MessagesInPlace(r) /\ ProposalsInPlace(r) /\ LeasesInPlace /\ ChannelInPlace /\ RouteTypeOK
  BY DEF RoutingInv, RouteInv
<1>4. PlanInv' /\ doc' = doc /\ graph' = graph /\ Agents' = Agents /\ HopLimit' = HopLimit
  BY <1>2, PlanFixed
<1>5. graph = "accepted"
  BY <1>2, RunsOnPlan
<1>6. /\ proposals \in [Request -> SUBSET (Nat \X Agents)] /\ Len(messages[r]) \in Nat
      /\ proposed \in [Request -> Nat] /\ issues \in [Request -> Nat] /\ Len(channel) \in Nat
  BY <1>3, LenProperties DEF RouteTypeOK
<1>7. /\ proposals' \in [Request -> SUBSET (Nat \X Agents)] /\ proposals'[r] = proposals[r] \ {p}
      /\ \A q \in Request : q # r => proposals'[q] = proposals[q]
  BY <1>2, <1>6
<1>8. /\ IsFiniteSet(proposals'[r]) /\ Cardinality(proposals'[r]) \in Nat
      /\ Cardinality(proposals[r]) = Cardinality(proposals'[r]) + 1
  <2>1. IsFiniteSet(proposals[r])
    BY <1>3 DEF ProposalsInPlace
  <2>2. /\ IsFiniteSet(proposals'[r])
        /\ Cardinality(proposals'[r]) = Cardinality(proposals[r]) - 1
    BY <1>7, <2>1, FS_RemoveElement
  <2>3. Cardinality(proposals[r]) \in Nat /\ Cardinality(proposals'[r]) \in Nat
    BY <2>1, <2>2, FS_CardinalityType
  <2> QED BY <2>2, <2>3
<1>9. proposed[r] + 1 = Len(messages[r]) + issues[r] + Cardinality(proposals'[r]) + 1
  <2>1. proposed[r] + 1 = Len(messages[r]) + issues[r] + Cardinality(proposals[r])
    BY <1>2, <1>3 DEF ProposalsInPlace
  <2> DEFINE sent == Len(messages[r])
             refused == issues[r]
             left == Cardinality(proposals'[r])
  <2>2. sent \in Nat /\ refused \in Nat /\ left \in Nat
    BY <1>6, <1>8
  <2>3. proposed[r] + 1 = sent + refused + (left + 1)
    BY <1>8, <2>1
  <2> HIDE DEF sent, refused, left
  <2>4. proposed[r] + 1 = sent + refused + left + 1
    BY <2>2, <2>3
  <2> QED BY <2>4 DEF sent, refused, left
<1>10. RunFollowsPlan'
  BY <1>2, <1>4, <1>5 DEF RoutingInv, RouteInv, RunFollowsPlan
<1>11. CASE UNCHANGED <<messages, channel>> /\ issues' = [issues EXCEPT ![r] = @ + 1]
  <2>1. /\ issues' \in [Request -> Nat] /\ issues'[r] = issues[r] + 1
        /\ \A q \in Request : q # r => issues'[q] = issues[q]
    BY <1>6, <1>11
  <2>2. RouteTypeOK'
    BY <1>2, <1>3, <1>4, <1>7, <1>11, <2>1 DEF RouteTypeOK
  <2>3. ASSUME NEW q \in Request PROVE MessagesInPlace(q)' /\ ProposalsInPlace(q)'
    <3>1. CASE q = r
      <4>1. MessagesInPlace(r)'
        BY <1>2, <1>3, <1>11 DEF MessagesInPlace, Fated, Sent, FateOf
      <4>2. proposed'[r] + 1 = Len(messages'[r]) + issues'[r] + Cardinality(proposals'[r])
        <5>1. proposed'[r] = proposed[r] /\ messages'[r] = messages[r] /\ issues[r] \in Nat
          BY <1>2, <1>6, <1>11
        <5> DEFINE sent == Len(messages[r])
                   refused == issues[r]
                   left == Cardinality(proposals'[r])
        <5>2. sent \in Nat /\ refused \in Nat /\ left \in Nat
          BY <1>6, <1>8, <5>1
        <5> HIDE DEF sent, refused, left
        <5>3. sent + refused + left + 1 = sent + (refused + 1) + left
          BY <5>2
        <5>4. proposed[r] + 1 = sent + (refused + 1) + left
          BY <1>9, <5>3 DEF sent, refused, left
        <5> QED BY <2>1, <5>1, <5>4 DEF sent, refused, left
      <4>3. ProposalsInPlace(r)'
        BY <1>2, <1>3, <1>7, <1>8, <1>11, <4>2 DEF ProposalsInPlace, Unsent
      <4> QED BY <3>1, <4>1, <4>3
    <3>2. CASE q # r
      BY <1>2, <1>7, <1>11, <2>1, <3>2, OthersKeep
    <3> QED BY <3>1, <3>2
  <2>4. ChannelInPlace' /\ LeasesInPlace'
    BY <1>2, <1>3, <1>4, <1>11 DEF ChannelInPlace, LeasesInPlace, Fated, Sent, FateOf
  <2>5. RoutesWithinBudget'
    <3>1. \A x \in leases : AgentOf(x)' = AgentOf(x)
      BY <1>2, <1>11, SameAgent
    <3> QED BY <1>2, <1>4, <3>1, FewerLeases
  <2> QED BY <1>4, <1>10, <2>2, <2>3, <2>4, <2>5 DEF RoutingInv, RouteInv
<1>12. CASE /\ messages[r][p[1]].hop < HopLimit /\ Len(channel) < doc.maxQueued
            /\ messages' = [messages EXCEPT ![r] = Append(@, Message(p[2], messages[r][p[1]].hop + 1))]
            /\ channel' = Append(channel, <<r, Len(messages[r]) + 1>>)
            /\ UNCHANGED issues
  <2>1. PICK m : m = <<r, Len(messages[r]) + 1>>
    OBVIOUS
  <2>2. PICK to \in Agents, hop \in 0 .. HopLimit :
          messages' = [messages EXCEPT ![r] = Append(@, Message(to, hop))]
    <3>1. p[1] \in DOMAIN messages[r] /\ p[2] \in Agents
      BY <1>3, <1>6 DEF ProposalsInPlace
    <3>2. messages[r][p[1]].hop \in 0 .. HopLimit
      BY <1>3, <3>1, MessageTyped
    <3>3. HopLimit \in Nat
      <4>1. Cardinality(Agents) \in Nat
        BY AgentsFinite, FS_CardinalityType DEF RoutingInv, PlanInv, GraphInPlace, PlanTypeOK
      <4> QED BY <4>1 DEF HopLimit
    <3>4. messages[r][p[1]].hop + 1 \in 0 .. HopLimit
      BY <1>12, <3>2, <3>3
    <3> QED BY <1>12, <3>1, <3>4
  <2>3. /\ messages' \in [Request -> Messages]
        /\ \A q \in Request : q # r => messages'[q] = messages[q]
        /\ Len(messages'[r]) = Len(messages[r]) + 1
        /\ \A i \in DOMAIN messages[r] :
              i \in DOMAIN messages'[r] /\ messages'[r][i] = messages[r][i]
        /\ Fated(r, "queued")' = Fated(r, "queued") \cup {m}
        /\ \A q \in Request : \A f \in Fate :
              q # r \/ f # "queued" => Fated(q, f)' = Fated(q, f)
    <3> HIDE DEF Messages
    <3> QED BY <1>3, <2>1, <2>2, AnotherSent
  <2>4. {"queued", "running", "unstarted"} \subseteq Fate
    BY DEF Fate
  <2>5. m \in Request \X Nat /\ m \notin Sent(r) /\ m[1] = r
    <3>1. DOMAIN messages[r] = 1 .. Len(messages[r])
      BY <1>3, LenProperties DEF RouteTypeOK
    <3> QED BY <1>6, <2>1, <3>1 DEF Sent
  <2>6. /\ channel' \in Seq(Request \X Nat) /\ IsInjective(channel')
        /\ Len(channel') = Len(channel) + 1 /\ ToSet(channel') = ToSet(channel) \cup {m}
    <3>1. m \notin ToSet(channel)
      BY <1>3, <2>5 DEF ChannelInPlace, Fated, Sent
    <3>2. channel \in Seq(Request \X Nat) /\ IsInjective(channel)
      BY <1>3 DEF RouteTypeOK, ChannelInPlace
    <3>3. channel' = Append(channel, m)
      BY <1>12, <2>1
    <3> QED BY <2>5, <3>1, <3>2, <3>3, Appended
  <2>7. RouteTypeOK'
    <3>1. messages' \in [Request -> Seq([to : Agents', hop : 0 .. HopLimit', fate : Fate])]
      BY <1>4, <2>3 DEF Messages
    <3> QED BY <1>2, <1>3, <1>4, <1>7, <1>12, <2>6, <3>1 DEF RouteTypeOK
  <2>8. ASSUME NEW q \in Request PROVE MessagesInPlace(q)' /\ ProposalsInPlace(q)'
    <3>1. CASE q = r
      <4>1. MessagesInPlace(r)'
        <5>1. Fated(r, "unstarted")' = Fated(r, "unstarted")
          BY <2>3, <2>4
        <5> QED BY <1>2, <1>3, <5>1 DEF MessagesInPlace, Unsent
      <4>2. proposed'[r] + 1 = Len(messages'[r]) + issues'[r] + Cardinality(proposals'[r])
        BY <1>2, <1>6, <1>8, <1>9, <1>12, <2>3
      <4>3. ProposalsInPlace(r)'
        BY <1>2, <1>3, <1>7, <1>8, <2>3, <4>2 DEF ProposalsInPlace, Unsent
      <4> QED BY <3>1, <4>1, <4>3
    <3>2. CASE q # r
      BY <1>2, <1>7, <1>12, <2>3, <3>2, OthersKeep
    <3> QED BY <3>1, <3>2
  <2>9. ChannelInPlace'
    <3>1. Len(channel') <= doc.maxQueued
      BY <1>6, <1>12, <2>6, LimitsOfPlan
    <3>2. \A x : x \in ToSet(channel) <=> \E q \in Request : x \in Fated(q, "queued")
      BY <1>3 DEF ChannelInPlace
    <3>3. ASSUME NEW x
          PROVE  (\E q \in Request : x \in Fated(q, "queued")')
                    <=> x = m \/ \E q \in Request : x \in Fated(q, "queued")
      <4>1. \A q \in Request : q # r => Fated(q, "queued")' = Fated(q, "queued")
        BY <2>3, <2>4
      <4> QED BY <2>3, <4>1
    <3>4. ToSet(channel') = UNION {Fated(q, "queued")' : q \in Request}
      BY <2>6, <3>2, <3>3
    <3> QED BY <1>4, <2>6, <3>1, <3>4 DEF ChannelInPlace
  <2>10. LeasesInPlace'
    <3>1. \A q \in Request : Fated(q, "running")' = Fated(q, "running")
      BY <2>3, <2>4
    <3>2. \A x \in leases : x[1] \in Request
      BY <1>3 DEF RouteTypeOK
    <3> QED BY <1>2, <1>3, <3>1, <3>2 DEF LeasesInPlace
  <2>11. RoutesWithinBudget'
    <3>1. \A q \in Request : \A i \in DOMAIN messages[q] :
              messages'[q][i].to = messages[q][i].to
      BY <2>3
    <3>2. \A x \in leases : AgentOf(x)' = AgentOf(x)
      BY <1>2, <3>1, SameAgent
    <3> QED BY <1>2, <1>4, <3>2, FewerLeases
  <2> QED BY <1>4, <1>10, <2>7, <2>8, <2>9, <2>10, <2>11 DEF RoutingInv, RouteInv
<1> QED BY <1>1, <1>11, <1>12

-----------------------------------------------------------------------------
(* The theorems.                                                           *)

LEMMA InitRoute == PlanInv /\ RouteInit => RouteInv
<1> SUFFICES ASSUME PlanInv, RouteInit PROVE RouteInv
  OBVIOUS
<1>1. ASSUME NEW r \in Request PROVE Sent(r) = {} /\ \A f : Fated(r, f) = {}
  BY DEF RouteInit, Sent, Fated
<1>2. RouteTypeOK
  BY DEF RouteInit, RouteTypeOK, Place
<1>3. RunFollowsPlan
  BY DEF RouteInit, RunFollowsPlan
<1>4. \A r \in Request : MessagesInPlace(r)
  BY <1>1 DEF RouteInit, MessagesInPlace
<1>5. \A r \in Request : ProposalsInPlace(r)
  BY FS_EmptySet DEF RouteInit, ProposalsInPlace
<1>6. ChannelInPlace
  <2>1. ToSet(channel) = {} /\ IsInjective(channel) /\ Len(channel) = 0
    BY DEF RouteInit, ToSet, IsInjective
  <2>2. doc.maxQueued \in Nat
    BY DocumentsAssumption DEF PlanInv, GraphInPlace, PlanTypeOK, LimitsFit
  <2> QED BY <1>1, <2>1, <2>2 DEF ChannelInPlace
<1>7. LeasesInPlace
  BY <1>1 DEF RouteInit, LeasesInPlace
<1>8. RoutesWithinBudget
  <2>1. doc.maxConcurrent \in Nat /\ doc.concurrency \in Nat
    BY DocumentsAssumption DEF PlanInv, GraphInPlace, PlanTypeOK, LimitsFit
  <2>2. \A a : {m \in leases : AgentOf(m) = a} = {}
    BY DEF RouteInit
  <2> QED BY <2>1, <2>2, FS_EmptySet DEF RouteInit, RoutesWithinBudget
<1> QED BY <1>2, <1>3, <1>4, <1>5, <1>6, <1>7, <1>8 DEF RouteInv

(* Compiling goes on only until the graph is accepted.                     *)
LEMMA CompileKeeps == RoutingInv /\ Compile => RoutingInv'
<1> SUFFICES ASSUME RoutingInv, Compile PROVE PlanInv' /\ RouteInit'
  BY InitRoute, PTL DEF RoutingInv
<1>1. PlanInv'
  BY StepPlan DEF Compile, RoutingInv
<1>2. graph # "accepted"
  BY DEF Compile, CompileStep, CheckResources, DeclareAdapter, EndResource, ResolveLink,
     LinksResolved, ReserveFixed, AllocateAddress, ReserveMacs, AllocateMac, ReserveDpids,
     AllocateDpid, CompileInstances, Coordinate, BuildGraph, Visit, EndVisit, RoutingInv, PlanInv,
     GraphInPlace, EdgesOfPlan
<1>3. RouteInit
  BY <1>2 DEF RoutingInv, RouteInv, RunFollowsPlan
<1> QED BY <1>1, <1>3 DEF Compile, routeVars, RouteInit

LEMMA StepRouting == RoutingInv /\ [Next]_vars => RoutingInv'
<1> SUFFICES ASSUME RoutingInv, [Next]_vars PROVE RoutingInv'
  OBVIOUS
<1>1. CASE Compile
  BY <1>1, CompileKeeps
<1>2. CASE \E r \in Request, a \in Agents : Ask(r, a)
  BY <1>2, AskKeeps
<1>3. CASE \E r \in Request : Thread(r)
  <2>1. PICK r \in Request : Thread(r)
    BY <1>3
  <2>2. CASE Reserve(r) \/ Open(r) \/ SendRoot(r)
    BY <2>2, ReserveKeeps, OpenKeeps, SendRootKeeps, NoRootKeeps
  <2>3. CASE Enter(r)
    <3>1. <<r, 1>> \in Pending(r)
      <4>1. Len(messages[r]) = 1 /\ messages[r][1].fate = "queued"
        BY <2>3 DEF Enter, RoutingInv, RouteInv, MessagesInPlace
      <4>2. 1 \in DOMAIN messages[r]
        BY <4>1, LenProperties DEF RoutingInv, RouteInv, RouteTypeOK
      <4> QED BY <4>1, <4>2 DEF Pending, Fated, Sent, FateOf
    <3> QED BY <2>3, <3>1, SubmitKeeps DEF Enter
  <2>4. CASE Take(r)
    BY <2>4, SubmitKeeps DEF Take, Eligible
  <2>5. CASE Return(r) \/ Wait(r) \/ Resume(r)
    BY <2>5, ReturnKeeps, WaitKeeps
  <2>6. CASE Collect(r) \/ Delegate(r)
    BY <2>6, CollectKeeps, DelegateKeeps
  <2> QED BY <2>1, <2>2, <2>3, <2>4, <2>5, <2>6 DEF Thread
<1>4. CASE \E r \in Request : \E m \in Sent(r) : Answer(m)
  BY <1>4, AnswerKeeps
<1>5. CASE Close \/ EndClose \/ UNCHANGED vars
  BY <1>5, CloseKeeps
<1> QED BY <1>1, <1>2, <1>3, <1>4, <1>5 DEF Next

(* The inductive invariant of requests.                                    *)
THEOREM RoutingInvariant == Spec => []RoutingInv
<1>1. Init => RoutingInv
  BY InitPlan, InitRoute DEF Init, RoutingInv
<1> QED BY <1>1, StepRouting, PTL DEF Spec

(* A request that returns has accounted for everything it sent and was     *)
(* asked to delegate, and holds nothing.                                   *)
THEOREM RequestsAccount == Spec => []Accounted
<1>1. RoutingInv => Accounted
  <2> SUFFICES ASSUME RoutingInv, NEW r \in Request, status[r] = "returned"
               PROVE  /\ \A m \in Sent(r) : FateOf(m) \in {"invoked", "issue"}
                      /\ (ToSet(channel) \cup leases) \cap (Sent(r) \cup {<<r, 1>>}) = {}
                      /\ proposed[r] + 1 = Len(messages[r]) + issues[r]
    BY DEF Accounted
  <2>1. MessagesInPlace(r) /\ ProposalsInPlace(r) /\ ChannelInPlace /\ LeasesInPlace /\ RouteTypeOK
    BY DEF RoutingInv, RouteInv
  <2>2. \A m \in Sent(r) : FateOf(m) \in {"invoked", "issue"}
    BY <2>1 DEF MessagesInPlace
  <2>3. Fated(r, "queued") = {} /\ Fated(r, "running") = {}
    BY <2>2 DEF Fated
  <2>4. ASSUME NEW m \in ToSet(channel) \cup leases, m \in Sent(r) \cup {<<r, 1>>}
        PROVE  FALSE
    <3>1. m[1] = r
      BY <2>4 DEF Sent
    <3>2. CASE m \in leases
      BY <2>1, <2>3, <3>1, <3>2 DEF LeasesInPlace
    <3>3. CASE m \in ToSet(channel)
      <4>1. PICK q \in Request : m \in Fated(q, "queued")
        BY <2>1, <3>3 DEF ChannelInPlace
      <4>2. q = r
        BY <3>1, <4>1 DEF Fated, Sent
      <4> QED BY <2>3, <4>1, <4>2
    <3> QED BY <2>4, <3>2, <3>3
  <2>5. proposed[r] + 1 = Len(messages[r]) + issues[r] + Cardinality({})
    BY <2>1 DEF ProposalsInPlace
  <2>6. proposed[r] + 1 = Len(messages[r]) + issues[r]
    BY <2>1, <2>5, FS_EmptySet, LenProperties DEF RouteTypeOK
  <2> QED BY <2>2, <2>4, <2>6
<1> QED BY <1>1, RoutingInvariant, PTL

(* However requests overlap, start and end, the invocations that run keep  *)
(* to the limits of the plan, in all and for each agent.                   *)
THEOREM RequestsKeepBudget == Spec => []RoutesWithinBudget
<1>1. RoutingInv => RoutesWithinBudget
  BY DEF RoutingInv, RouteInv
<1> QED BY <1>1, RoutingInvariant, PTL

=============================================================================

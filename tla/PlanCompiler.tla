---------------------------- MODULE PlanCompiler ----------------------------
(***************************************************************************)
(* From the documents of an experiment to its deployment plan, and from    *)
(* the plan to the coordination graph of a run.                            *)
(*                                                                         *)
(* The compiler makes one pass: it checks the resources, declares their    *)
(* adapters, gives every link two of them, then hands out addresses and    *)
(* datapath ids (the fixed ones first), expands the agent deployments into *)
(* instances and derives who may delegate to whom.  Every stage may refuse *)
(* the documents.  CoordinationGraph looks at the plan again, much later,  *)
(* when a run starts, and may refuse it too.                               *)
(*                                                                         *)
(* A name is a tuple: <<n>> is a resource, a link or a deployment, and     *)
(* <<n, k>> is the name generated for adapter k of <<n>>.  A document may  *)
(* give either to any adapter.  Addresses are offsets in the subnet, MACs  *)
(* suffixes of the allocation prefix; 0 is none in either.                 *)
(*                                                                         *)
(* Sources: compiler/compiler.py, specification/models.py and              *)
(* coordination/graph.py.                                                  *)
(***************************************************************************)
EXTENDS Integers, Sequences, FiniteSets, FiniteSetsExt, Functions

CONSTANTS
    Documents,  \* the experiments there are
    MaxDpid,    \* the largest datapath id, 2^64 - 1
    MaxSuffix,  \* the largest MAC suffix, 2^24 - 1
    Hash,       \* first eight bytes of the SHA-256 of the name of each switch
    Slug        \* what the values of labels are shortened to in agent ids

None == <<>>

IsList(s) == s \in Seq(Range(s))

IsName(n) == n \in Seq(Nat) /\ Len(n) \in 1..2
IsBareName(n) == IsName(n) /\ Len(n) = 1

\* A port number is positive (0: not given), an address may be fixed or left out;
\* only the interfaces of a host have addresses, only the ports of a switch numbers.
PortFits(p, kind) ==
    /\ p.name = None \/ IsName(p.name)
    /\ p.number \in Nat /\ p.ip \in Nat /\ p.mac \in Nat
    /\ p.setting \in {"auto", "fixed", "none"} /\ (p.setting # "fixed" => p.ip = 0)
    /\ kind = "host" => p.number = 0
    /\ kind # "host" => p.setting = "none" /\ p.mac = 0

ResourceFits(r) ==
    /\ IsBareName(r.name) /\ IsList(r.ports)
    /\ \A k \in DOMAIN r.ports : PortFits(r.ports[k], r.kind)
    /\ r.kind = "switch" => Hash[r.name] \in 0..MaxDpid

\* Each mode has the configuration it needs, and no other.
ModeConfigured(c) ==
    /\ c.mode \in {"independent", "centralized", "hierarchical", "distributed"}
    /\ c.coordinator # None <=> c.mode = "centralized"
    /\ c.peers # "" <=> c.mode = "distributed"
    /\ c.relationships # {} <=> c.mode = "hierarchical"

LimitsFit(d) ==
    {d.subnet, d.maxInstances, d.maxConcurrent, d.maxQueued, d.concurrency} \subseteq Nat \ {0}

\* What the models of the documents ensure before anything is compiled.  There are
\* more datapath ids than a document has resources.
ASSUME DocumentsAssumption ==
    \A d \in Documents :
        /\ IsList(d.resources) /\ IsList(d.links) /\ IsList(d.agents)
        /\ d.resources # <<>> /\ Len(d.resources) <= MaxDpid /\ MaxDpid \in Nat
        /\ \A i \in DOMAIN d.agents :
                d.agents[i].cardinality \in {"singleton", "per-target", "per-group"}
        /\ \A i \in DOMAIN d.resources : ResourceFits(d.resources[i])
        /\ \A i \in DOMAIN d.links : d.links[i].ends[1].node # d.links[i].ends[2].node
        /\ ModeConfigured(d.coordination) /\ LimitsFit(d)

VARIABLES
    doc,        \* the documents of this experiment
    stage,      \* the next stage of the compilation
    error,      \* why the documents were refused
    declared,   \* how many resources have declared their adapters
    adapters,   \* interfaces and ports, in the order of their declaration
    links,      \* endpoints of the links resolved so far
    candidate,  \* next address the allocation looks at
    dpid,       \* datapath ids handed out: [switch -> id]
    instances,  \* agent instances of the plan
    edges,      \* who may delegate to whom
    graph,      \* the graph of the run: "none", "visiting", "accepted" or "refused"
    visited     \* agents the check of a hierarchy has passed

planVars == <<doc, stage, error, declared, adapters, links, candidate, dpid, instances,
              edges, graph, visited>>

Refuse(why) == stage' = "refused" /\ error' = why

PlanInit ==
    /\ doc \in Documents
    /\ stage = "resources" /\ error = "none"
    /\ declared = 0 /\ adapters = <<>> /\ links = <<>>
    /\ candidate = 1
    /\ dpid = <<>>
    /\ instances = {} /\ edges = {}
    /\ graph = "none" /\ visited = {}

-----------------------------------------------------------------------------
(* Resources *)

Resources  == Range(doc.resources)
Nodes      == {r.name : r \in Resources}
Links      == {l.name : l \in Range(doc.links)}
Resource(n) == CHOOSE r \in Resources : r.name = n
OfKind(kind) == {r \in Resources : r.kind = kind}

Unique(s, Name(_)) == \A i, j \in DOMAIN s : i # j => Name(s[i]) # Name(s[j])
NameOf(r) == r.name

\* _validate_resource_graph: parents exist and form no cycle, links have names
\* of their own, and a controller reference names a controller.
ResourcesFit ==
    /\ Unique(doc.resources, NameOf)
    /\ \A r \in Resources : r.parent \in Nodes \cup {None}
    /\ \A S \in (SUBSET Nodes) \ {{}} : \E n \in S : Resource(n).parent \notin S
    /\ Unique(doc.links, NameOf) /\ Links \cap Nodes = {}
    /\ \A r \in Resources : r.controller \in {None} \cup {c.name : c \in OfKind("controller")}

CheckResources ==
    /\ stage = "resources"
    /\ IF ResourcesFit THEN stage' = "adapters" /\ UNCHANGED error ELSE Refuse("resources")
    /\ UNCHANGED <<doc, declared, adapters, links, candidate, dpid, instances, edges,
                   graph, visited>>

-----------------------------------------------------------------------------
(* Adapters *)

\* Port numbers start at 1, interface numbers at 0.
FirstNumber(n) == IF Resource(n).kind = "host" THEN 0 ELSE 1

Names(ads) == {ads[i].name : i \in DOMAIN ads}
Owned(ads, n) == {i \in DOMAIN ads : ads[i].owner = n}
Numbers(ads, n) == {ads[i].number : i \in Owned(ads, n)}
Reserved(ads) == Names(ads) \cup Nodes \cup Links

\* The least number that is not taken, from the first one on.
FirstFree(first, taken) == Min((first..(first + Cardinality(taken))) \ taken)

\* The numbers ports are given explicitly; the others get the free ones in order.
Explicit(r) == {r.ports[i].number : i \in DOMAIN r.ports} \ {0}
NumberOf(r, i) ==
    IF r.kind = "host" THEN i - 1
    ELSE IF r.ports[i].number # 0 THEN r.ports[i].number
    ELSE FirstFree(1, Explicit(r) \cup Numbers(adapters, r.name))

Adapter(r, i) ==
    LET p == r.ports[i]
    IN  [name |-> IF p.name = None THEN r.name \o <<NumberOf(r, i)>> ELSE p.name,
         owner |-> r.name, number |-> NumberOf(r, i),
         setting |-> p.setting, ip |-> p.ip, mac |-> p.mac]

\* The resource whose adapters are declared, and the next of its ports.
Declaring == doc.resources[declared + 1]
NextPort == Cardinality(Owned(adapters, Declaring.name)) + 1
PortsLeft == Declaring.kind \in {"host", "switch"} /\ NextPort \in DOMAIN Declaring.ports

ExplicitFit(r) ==
    \A i, j \in DOMAIN r.ports :
        i # j /\ r.ports[i].number # 0 => r.ports[i].number # r.ports[j].number

\* _declare_adapters, one adapter at a time, in document order.
DeclareAdapter ==
    /\ stage = "adapters" /\ PortsLeft
    /\ LET new == Adapter(Declaring, NextPort)
       IN  IF ExplicitFit(Declaring) /\ new.name \notin Reserved(adapters)
           THEN adapters' = Append(adapters, new) /\ UNCHANGED <<stage, error>>
           ELSE Refuse("adapters") /\ UNCHANGED adapters
    /\ UNCHANGED <<doc, declared, links, candidate, dpid, instances, edges, graph,
                   visited>>

EndResource ==
    /\ stage = "adapters" /\ ~PortsLeft
    /\ declared' = declared + 1
    /\ stage' = IF declared + 1 = Len(doc.resources) THEN "links" ELSE "adapters"
    /\ UNCHANGED <<doc, error, adapters, links, candidate, dpid, instances, edges, graph,
                   visited>>

-----------------------------------------------------------------------------
(* Links *)

\* _create_automatic_adapter: the first free number, and automatic addresses.
Generated(ads, n) ==
    LET number == FirstFree(FirstNumber(n), Numbers(ads, n))
    IN  [name |-> n \o <<number>>, owner |-> n, number |-> number,
         setting |-> IF Resource(n).kind = "host" THEN "auto" ELSE "none",
         ip |-> 0, mac |-> 0]

\* The adapter of an endpoint: the one it names, else the first one of its node
\* that no link uses yet, else a new one.
Endpoint(e, ads, used) ==
    LET free == {i \in Owned(ads, e.node) : ads[i].name \notin used}
    IN  IF e.adapter # None THEN [adapter |-> e.adapter, all |-> ads]
        ELSE IF free # {} THEN [adapter |-> ads[Min(free)].name, all |-> ads]
        ELSE LET new == Generated(ads, e.node)
             IN  [adapter |-> new.name, all |-> Append(ads, new)]

EndpointFits(e, ads, used) ==
    /\ e.node \in Nodes /\ Resource(e.node).kind \in {"host", "switch"}
    /\ e.adapter # None =>
        /\ \E i \in Owned(ads, e.node) : ads[i].name = e.adapter
        /\ e.adapter \notin used
    /\ \/ e.adapter # None
       \/ \E i \in Owned(ads, e.node) : ads[i].name \notin used
       \/ Generated(ads, e.node).name \notin Reserved(ads)

Used == {links[i][k] : i \in DOMAIN links, k \in 1..2}

\* _resolve_links, one link at a time.
ResolveLink ==
    LET l == doc.links[Len(links) + 1]
        first == Endpoint(l.ends[1], adapters, Used)
        second == Endpoint(l.ends[2], first.all, Used \cup {first.adapter})
    IN  /\ stage = "links" /\ Len(links) < Len(doc.links)
        /\ IF /\ EndpointFits(l.ends[1], adapters, Used)
              /\ EndpointFits(l.ends[2], first.all, Used \cup {first.adapter})
           THEN /\ links' = Append(links, <<first.adapter, second.adapter>>)
                /\ adapters' = second.all
                /\ UNCHANGED <<stage, error>>
           ELSE Refuse("links") /\ UNCHANGED <<links, adapters>>
        /\ UNCHANGED <<doc, declared, candidate, dpid, instances, edges, graph, visited>>

LinksResolved ==
    /\ stage = "links" /\ Len(links) = Len(doc.links)
    /\ stage' = "addresses"
    /\ UNCHANGED <<doc, declared, error, adapters, links, candidate, dpid, instances,
                   edges, graph, visited>>

-----------------------------------------------------------------------------
(* Addresses *)

IsHostAdapter(i) == Resource(adapters[i].owner).kind = "host"
HostAdapters == {i \in DOMAIN adapters : IsHostAdapter(i)}

Before(a, b) ==
    \/ a[1] < b[1]
    \/ a[1] = b[1] /\ Len(a) < Len(b)
    \/ a[1] = b[1] /\ Len(a) = 2 /\ Len(b) = 2 /\ a[2] < b[2]

\* The first of some adapters by name.
FirstByName(S) == CHOOSE i \in S : \A j \in S \ {i} : Before(adapters[i].name, adapters[j].name)

Broadcast == doc.subnet - 1
Fixed     == {i \in HostAdapters : adapters[i].setting = "fixed"}
UsedIps   == {adapters[i].ip : i \in HostAdapters} \ {0}
UsedMacs  == {adapters[i].mac : i \in HostAdapters} \ {0}

\* The fixed addresses lie inside the subnet, are not its first or last one, and
\* are not shared.
ReserveFixed ==
    /\ stage = "addresses"
    /\ IF /\ \A i \in Fixed : adapters[i].ip \in 1..(Broadcast - 1)
          /\ \A i, j \in Fixed : i # j => adapters[i].ip # adapters[j].ip
       THEN stage' = "allocate" /\ UNCHANGED error
       ELSE Refuse("addresses")
    /\ UNCHANGED <<doc, declared, adapters, links, candidate, dpid, instances, edges,
                   graph, visited>>

Unaddressed == {i \in HostAdapters : adapters[i].setting = "auto" /\ adapters[i].ip = 0}

\* Fault: the last address of the pool is taken for the broadcast address.
ShortPool == (candidate..(Broadcast - 2)) \ UsedIps

\* The addresses the allocation may still hand out: it never looks back.
Pool == (candidate..(Broadcast - 1)) \ UsedIps

AllocateAddress ==
    /\ stage = "allocate" /\ Unaddressed # {}
    /\ LET i == FirstByName(Unaddressed)
       IN  IF Pool # {}
           THEN /\ adapters' = [adapters EXCEPT ![i].ip = Min(Pool)]
                /\ candidate' = Min(Pool) + 1
                /\ UNCHANGED <<stage, error>>
           ELSE Refuse("exhausted") /\ UNCHANGED <<adapters, candidate>>
    /\ UNCHANGED <<doc, declared, links, dpid, instances, edges, graph, visited>>

\* Once all have addresses: the fixed MACs are not shared.
ReserveMacs ==
    /\ stage = "allocate" /\ Unaddressed = {}
    /\ IF \A i, j \in HostAdapters :
            i # j /\ adapters[i].mac # 0 => adapters[i].mac # adapters[j].mac
       THEN stage' = "macs" /\ UNCHANGED error
       ELSE Refuse("macs")
    /\ UNCHANGED <<doc, declared, adapters, links, candidate, dpid, instances, edges,
                   graph, visited>>

\* Every adapter without one gets the first MAC that nobody has.
AllocateMac ==
    LET bare == {i \in HostAdapters : adapters[i].mac = 0}
        free == (1..MaxSuffix) \ UsedMacs
    IN  /\ stage = "macs"
        /\ IF bare = {} THEN stage' = "reserve" /\ UNCHANGED <<adapters, error>>
           ELSE IF free = {} THEN Refuse("macs") /\ UNCHANGED adapters
           ELSE /\ adapters' = [adapters EXCEPT ![FirstByName(bare)].mac = Min(free)]
                /\ UNCHANGED <<stage, error>>
        /\ UNCHANGED <<doc, declared, links, candidate, dpid, instances, edges, graph,
                       visited>>

-----------------------------------------------------------------------------
(* Datapath ids *)

Switches == {r.name : r \in OfKind("switch")}
\* The id a switch has of itself: given, or in a canonical name.
Pinned == {n \in Switches : Resource(n).dpid \in 1..MaxDpid}

ReserveDpids ==
    /\ stage = "reserve"
    /\ IF \A m, n \in Pinned : m # n => Resource(m).dpid # Resource(n).dpid
       THEN /\ dpid' = [n \in Pinned |-> Resource(n).dpid]
            /\ stage' = "dpids" /\ UNCHANGED error
       ELSE Refuse("dpids") /\ UNCHANGED dpid
    /\ UNCHANGED <<doc, declared, adapters, links, candidate, instances, edges, graph,
                   visited>>

\* Fault: the search wraps to zero.
FreeFromZero(start, taken) ==
    LET after == (start..MaxDpid) \ taken
    IN  Min(IF after # {} THEN after ELSE (0..MaxDpid) \ taken)

\* The first id that is free, from the hash on and around the range of ids.
FreeFrom(start, taken) ==
    LET after == (start..MaxDpid) \ taken
    IN  Min(IF after # {} THEN after ELSE (1..MaxDpid) \ taken)

AllocateDpid ==
    LET left  == Switches \ DOMAIN dpid
        n     == CHOOSE m \in left : \A o \in left : m[1] <= o[1]
        start == IF Hash[n] = 0 THEN 1 ELSE Hash[n]
    IN  /\ stage = "dpids"
        /\ IF left = {} THEN stage' = "instances" /\ UNCHANGED dpid
           ELSE /\ dpid' = [m \in DOMAIN dpid \cup {n} |->
                                IF m = n THEN FreeFrom(start, Range(dpid)) ELSE dpid[m]]
                /\ UNCHANGED stage
        /\ UNCHANGED <<doc, declared, error, adapters, links, candidate, instances, edges,
                       graph, visited>>

-----------------------------------------------------------------------------
(* Agent instances *)

\* _select: by kind, by name and by label.
Selected(d) ==
    {r.name : r \in {r \in OfKind(d.kind) :
        (d.names = {} \/ r.name \in d.names) /\ d.label \in {0, r.label}}}

\* _target_groups: one instance for the only target, one per target, or one per
\* value of the label, whose slug ends its id.
Groups(d) ==
    CASE d.cardinality = "singleton"  -> {<<d.name, Selected(d)>>}
      [] d.cardinality = "per-target" -> {<<d.name \o n, {n}>> : n \in Selected(d)}
      [] d.cardinality = "per-group"  ->
            {<<d.name \o <<Slug[l]>>, {n \in Selected(d) : Resource(n).label = l}>> :
                l \in {Resource(n).label : n \in Selected(d)}}

\* A deployment that takes bounded decisions is placed as its inputs allow: one
\* instance per target if they are current measurements only, else one instance.
BoundedFits(d) ==
    IF d.currentOnly THEN d.cardinality = "per-target"
    ELSE d.cardinality \in {"singleton", "per-group"} /\ Cardinality(Groups(d)) = 1

\* An agent is attachable if the substrate and the definitions of its
\* capabilities accept it at its targets.
PlacementFits(d) ==
    /\ \A n \in d.names : n \in {r.name : r \in OfKind(d.kind)}
    /\ Selected(d) # {}
    /\ d.cardinality = "singleton" => Cardinality(Selected(d)) = 1
    /\ d.attachable
    /\ d.bounded => BoundedFits(d)
    /\ d.cardinality = "per-group" => \A n \in Selected(d) : Resource(n).label # 0

Deployments == Range(doc.agents)
Instances == UNION {{[id |-> g[1], deployment |-> d.name, targets |-> g[2]] : g \in Groups(d)} :
                        d \in Deployments}

CompileInstances ==
    /\ stage = "instances"
    /\ IF /\ Unique(doc.agents, NameOf)
          /\ \A d \in Deployments : PlacementFits(d)
          /\ Cardinality({d \in Deployments : d.bounded}) <= 1
          /\ \A a, b \in Instances : a # b => a.id # b.id
          /\ Cardinality(Instances) <= doc.maxInstances
       THEN instances' = Instances /\ stage' = "coordination" /\ UNCHANGED error
       ELSE Refuse("placement") /\ UNCHANGED instances
    /\ UNCHANGED <<doc, declared, adapters, links, candidate, dpid, edges, graph,
                   visited>>

-----------------------------------------------------------------------------
(* Coordination *)

Of(deployment) == {a.id : a \in {a \in instances : a.deployment = deployment}}
Agents == {a.id : a \in instances}
Owner(adapter) == (CHOOSE a \in Range(adapters) : a.name = adapter).owner
Neighbors == {{Owner(links[i][1]), Owner(links[i][2])} : i \in DOMAIN links}

\* Agents whose targets are at the two ends of a link.
Adjacent(a, b) == \E m \in a.targets, n \in b.targets : {m, n} \in Neighbors

Coordination == doc.coordination

CoordinationFits ==
    /\ Coordination.mode = "centralized" =>
        /\ Coordination.coordinator \in {d.name : d \in Deployments}
        /\ Cardinality(Of(Coordination.coordinator)) = 1
    /\ Coordination.mode = "hierarchical" =>
        \A pair \in Coordination.relationships : \A k \in 1..2 :
            pair[k] \in {d.name : d \in Deployments}

PeerEdges ==
    {<<q[1].id, q[2].id>> : q \in {p \in instances \X instances :
        p[1].id # p[2].id /\ (Coordination.peers = "all" \/ Adjacent(p[1], p[2]))}}

CoordinationEdges ==
    CASE Coordination.mode = "independent"  -> {}
      [] Coordination.mode = "centralized"  ->
            LET c == Of(Coordination.coordinator) IN c \X (Agents \ c)
      [] Coordination.mode = "hierarchical" ->
            UNION {Of(pair[1]) \X Of(pair[2]) : pair \in Coordination.relationships}
      [] Coordination.mode = "distributed"  -> PeerEdges

\* _coordination, and the plan is complete.
Coordinate ==
    /\ stage = "coordination"
    /\ IF CoordinationFits
       THEN edges' = CoordinationEdges /\ stage' = "compiled" /\ UNCHANGED error
       ELSE Refuse("coordination") /\ UNCHANGED edges
    /\ UNCHANGED <<doc, declared, adapters, links, candidate, dpid, instances, graph,
                   visited>>

-----------------------------------------------------------------------------
(* The graph of a run *)

\* Edges without selves, one coordinator to all others, peers both ways.
ShapeFits ==
    /\ \A e \in edges : e[1] # e[2] /\ {e[1], e[2]} \subseteq Agents
    /\ Coordination.mode = "centralized" =>
        \/ Cardinality(Agents) = 1 /\ edges = {}
        \/ \E c \in Agents : edges = {c} \X (Agents \ {c})
    /\ Coordination.mode = "distributed" => \A e \in edges : <<e[2], e[1]>> \in edges

BuildGraph ==
    /\ stage = "compiled" /\ graph = "none"
    /\ graph' = IF ~ShapeFits THEN "refused"
                ELSE IF Coordination.mode = "hierarchical" THEN "visiting" ELSE "accepted"
    /\ UNCHANGED <<doc, declared, stage, error, adapters, links, candidate, dpid,
                   instances, edges, visited>>

\* Fault: an agent leaves with the first of its parents.
ReadyEarly ==
    {a \in Agents \ visited :
        (\E e \in edges : e[2] = a) => (\E e \in edges : e[2] = a /\ e[1] \in visited)}

\* _validate_hierarchy: agents leave one by one, when all their parents have.
Ready == {a \in Agents \ visited : \A e \in edges : e[2] = a => e[1] \in visited}

Visit(a) ==
    /\ graph = "visiting" /\ a \in Ready
    /\ visited' = visited \cup {a}
    /\ UNCHANGED <<doc, declared, stage, error, adapters, links, candidate, dpid,
                   instances, edges, graph>>

EndVisit ==
    /\ graph = "visiting" /\ Ready = {}
    /\ graph' = IF visited = Agents THEN "accepted" ELSE "refused"
    /\ UNCHANGED <<doc, declared, stage, error, adapters, links, candidate, dpid,
                   instances, edges, visited>>

CompileStep ==
    \/ CheckResources \/ DeclareAdapter \/ EndResource \/ ResolveLink \/ LinksResolved
    \/ ReserveFixed \/ AllocateAddress \/ ReserveMacs \/ AllocateMac
    \/ ReserveDpids \/ AllocateDpid \/ CompileInstances \/ Coordinate
    \/ BuildGraph \/ (\E a \in Agents : Visit(a)) \/ EndVisit

-----------------------------------------------------------------------------
(* A plan is consistent, whatever mixture of fixed and automatic names,    *)
(* numbers, addresses and ids its documents have: no two adapters share a  *)
(* name, a number of one node, an address or a MAC, none has the name of a *)
(* resource or a link, all addresses can be used, a link has two adapters  *)
(* of its own, datapath ids are positive and distinct and the given ones   *)
(* are kept.                                                               *)
PlanIsConsistent ==
    error = "none" /\ stage \notin {"resources", "adapters", "links", "addresses", "allocate",
                                    "macs", "reserve", "dpids"} =>
        /\ \A i, j \in DOMAIN adapters : i # j =>
            /\ adapters[i].name # adapters[j].name
            /\ adapters[i].owner = adapters[j].owner => adapters[i].number # adapters[j].number
            /\ adapters[i].ip # 0 => adapters[i].ip # adapters[j].ip
            /\ adapters[i].mac # 0 => adapters[i].mac # adapters[j].mac
        /\ Names(adapters) \cap (Nodes \cup Links) = {}
        /\ \A i \in HostAdapters :
            /\ adapters[i].mac # 0
            /\ adapters[i].setting # "none" => adapters[i].ip \in 1..(Broadcast - 1)
        /\ Cardinality(Used) = 2 * Len(links)
        /\ \A i \in DOMAIN links, k \in 1..2 : Owner(links[i][k]) = doc.links[i].ends[k].node
        /\ DOMAIN dpid = Switches
        /\ \A m, n \in Switches : dpid[m] \in 1..MaxDpid /\ (m # n => dpid[m] # dpid[n])
        /\ \A n \in Pinned : dpid[n] = Resource(n).dpid

(* Addresses are reported exhausted only if the subnet has too few for the *)
(* interfaces that want one.                                               *)
ExhaustionIsReal ==
    error = "exhausted" =>
        Cardinality({i \in HostAdapters : adapters[i].setting = "auto"})
            > Cardinality((1..(Broadcast - 1)) \ {adapters[i].ip : i \in Fixed})

(* The graph of a run refuses a plan the compiler accepted for one reason  *)
(* only: some agents of a hierarchy are each below another one of them     *)
(* (tests/coordination/test_graph.py:162).                                 *)
PlanIsExecutable ==
    graph \in {"accepted", "refused"} =>
        (graph = "refused" <=>
            /\ Coordination.mode = "hierarchical"
            /\ \E S \in (SUBSET Agents) \ {{}} : \A a \in S : \E b \in S : <<b, a>> \in edges)

-----------------------------------------------------------------------------
(* What the proofs need besides: the inductive invariant.                  *)

AdapterRecord ==
    [name : Seq(Nat), owner : Seq(Nat), number : Nat, setting : {"auto", "fixed", "none"},
     ip : Nat, mac : Nat]

PlanTypeOK ==
    /\ doc \in Documents
    /\ stage \in {"resources", "adapters", "links", "addresses", "allocate", "macs",
                  "reserve", "dpids", "instances", "coordination", "compiled", "refused"}
    /\ graph \in {"none", "visiting", "accepted", "refused"}
    /\ IsFiniteSet(instances)

Declares == {"resources", "adapters"}
Resolves == Declares \cup {"links"}
Allocates == {"allocate", "macs", "reserve", "dpids"}
Expands == {"instances", "coordination", "compiled"}

ResourcesChecked ==
    /\ stage = "refused" <=> error # "none"
    /\ stage # "resources" /\ error # "resources" => ResourcesFit

(* Adapters belong to hosts and switches, and no two share a name, or a    *)
(* number of one node.                                                     *)
AdaptersFit(ads) ==
    /\ ads \in Seq(AdapterRecord)
    /\ \A i \in DOMAIN ads :
        /\ IsName(ads[i].name) /\ ads[i].name \notin Nodes \cup Links
        /\ ads[i].owner \in Nodes /\ Resource(ads[i].owner).kind \in {"host", "switch"}
        /\ Resource(ads[i].owner).kind = "switch" =>
              ads[i].setting = "none" /\ ads[i].ip = 0 /\ ads[i].mac = 0
    /\ \A i, j \in DOMAIN ads : i # j =>
        /\ ads[i].name # ads[j].name
        /\ ads[i].owner = ads[j].owner => ads[i].number # ads[j].number

(* The numbers a resource has given out are none of those that its other   *)
(* ports are given, and resources that come later have none yet.           *)
DeclaredInOrder ==
    /\ declared \in Nat
    /\ stage \in Declares => declared < Len(doc.resources)
    /\ stage = "resources" => declared = 0 /\ adapters = <<>>
    /\ stage = "adapters" =>
        /\ \A i \in DOMAIN adapters :
              \E k \in 1..(declared + 1) : adapters[i].owner = doc.resources[k].name
        /\ \A i \in Owned(adapters, Declaring.name) :
            /\ Declaring.kind = "host" => adapters[i].number < NextPort - 1
            /\ \A j \in DOMAIN Declaring.ports :
                  j >= NextPort => adapters[i].number # Declaring.ports[j].number
                                    \/ Declaring.ports[j].number = 0

(* Every end of a link has an adapter of its node, and for itself.         *)
LinksInPlace ==
    /\ stage \in Declares => links = <<>>
    /\ links \in Seq(Seq(Nat) \X Seq(Nat)) /\ Len(links) <= Len(doc.links)
    /\ stage \in Allocates \cup Expands \cup {"addresses"} => Len(links) = Len(doc.links)
    /\ \A i \in DOMAIN links, k \in 1..2 :
          \E j \in DOMAIN adapters : /\ adapters[j].name = links[i][k]
                                     /\ adapters[j].owner = doc.links[i].ends[k].node
    /\ \A i, j \in DOMAIN links, k, l \in 1..2 :
          i # j \/ k # l => links[i][k] # links[j][l]

(* Addresses and MACs are handed out once, and the allocation passes over  *)
(* used addresses alone.                                                   *)
AddressesInPlace ==
    /\ candidate \in Nat \ {0}
    /\ stage \in Resolves \cup {"addresses"} =>
        /\ candidate = 1
        /\ \A i \in DOMAIN adapters : adapters[i].setting # "fixed" => adapters[i].ip = 0
    /\ stage \in Allocates \cup Expands =>
        /\ \A i \in HostAdapters :
            /\ adapters[i].setting = "fixed" => adapters[i].ip # 0
            /\ adapters[i].setting = "none" => adapters[i].ip = 0
            /\ adapters[i].ip # 0 => adapters[i].ip \in 1..(Broadcast - 1)
        /\ \A i, j \in HostAdapters :
            i # j /\ adapters[i].ip # 0 => adapters[i].ip # adapters[j].ip
        /\ \A n \in 1..(Broadcast - 1) : n < candidate => n \in UsedIps
    /\ stage \in (Allocates \ {"allocate"}) \cup Expands =>
        /\ \A i \in HostAdapters : adapters[i].setting # "none" => adapters[i].ip # 0
        /\ \A i, j \in HostAdapters :
            i # j /\ adapters[i].mac # 0 => adapters[i].mac # adapters[j].mac
    /\ stage \in {"reserve", "dpids"} \cup Expands =>
          \A i \in HostAdapters : adapters[i].mac # 0

(* Datapath ids are handed out once, first those that are given.           *)
DpidsInPlace ==
    /\ stage \in {"dpids"} \cup Expands =>
        /\ dpid \in [DOMAIN dpid -> 1..MaxDpid]
        /\ DOMAIN dpid \subseteq Switches /\ Pinned \subseteq DOMAIN dpid
        /\ \A m, n \in DOMAIN dpid : m # n => dpid[m] # dpid[n]
        /\ \A n \in Pinned : dpid[n] = Resource(n).dpid
    /\ stage \in Expands => DOMAIN dpid = Switches

(* A plan that is complete stays as it is, and its edges are those of its  *)
(* coordination.                                                           *)
EdgesOfPlan ==
    /\ graph # "none" => stage = "compiled"
    /\ stage = "compiled" => CoordinationFits /\ edges = CoordinationEdges

(* Agents that are each below another one of them never leave.             *)
Cyclic(S) == \A a \in S : \E b \in S : <<b, a>> \in edges

VisitInOrder ==
    /\ graph = "none" => visited = {}
    /\ graph = "visiting" =>
          /\ Coordination.mode = "hierarchical" /\ ShapeFits
          /\ visited \subseteq Agents
          /\ \A S \in SUBSET Agents : Cyclic(S) => S \cap visited = {}

NetworkInPlace ==
    /\ ResourcesChecked /\ AdaptersFit(adapters) /\ DeclaredInOrder /\ LinksInPlace
    /\ AddressesInPlace /\ DpidsInPlace /\ ExhaustionIsReal

GraphInPlace == PlanTypeOK /\ EdgesOfPlan /\ VisitInOrder /\ PlanIsExecutable

PlanInv == NetworkInPlace /\ GraphInPlace

=============================================================================

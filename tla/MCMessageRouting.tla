--------------------------- MODULE MCMessageRouting ---------------------------
(* Small documents: every mixture of fixed and automatic addresses, ports  *)
(* and datapath ids on a few nodes, every relation of three deployments,   *)
(* and five plans whose runs are asked something.                          *)
EXTENDS MessageRouting

CONSTANTS r1, r2

Node(n, kind, label, ports) ==
    [name |-> n, kind |-> kind, parent |-> None, controller |-> None, label |-> label,
     ports |-> ports, dpid |-> 0]
Port(name, number) == [name |-> name, number |-> number, setting |-> "none", ip |-> 0, mac |-> 0]
Interface(setting, ip, mac) ==
    [name |-> None, number |-> 0, setting |-> setting, ip |-> ip, mac |-> mac]
Switch(n) == Node(<<n>>, "switch", n, <<>>)
Host(n) == Node(<<n>>, "host", 0, <<>>)
End(n, adapter) == [node |-> <<n>>, adapter |-> adapter]
Link(n, a, b) == [name |-> <<n>>, ends |-> <<a, b>>]
Agent(n, kind, names, cardinality) ==
    [name |-> <<n>>, kind |-> kind, names |-> names, label |-> 0, cardinality |-> cardinality,
     attachable |-> TRUE, bounded |-> FALSE, currentOnly |-> FALSE]
Mode(mode, coordinator, relationships, peers) ==
    [mode |-> mode, coordinator |-> coordinator, relationships |-> relationships, peers |-> peers]
Independent == Mode("independent", None, {}, "")
Document(resources, ls, agents, coordination) ==
    [resources |-> resources, links |-> ls, agents |-> agents, coordination |-> coordination,
     subnet |-> 4, maxInstances |-> 3, maxConcurrent |-> 1, maxQueued |-> 2, concurrency |-> 1,
     load |-> [requests |-> {}, proposals |-> 0]]
Topology(resources, ls) == Document(resources, ls, <<>>, Independent)

(* Digit k of n, whose digits below it have b values in all, has d values.  *)
Digit(n, b, d) == (n \div b) % d

(* Three interfaces of two hosts in a subnet with room for two.            *)
Addressing ==
    << Interface("auto", 0, 0), Interface("auto", 0, 1), Interface("none", 0, 0),
       Interface("fixed", 0, 0), Interface("fixed", 1, 0), Interface("fixed", 2, 0),
       Interface("fixed", 3, 0) >>
AddressDoc(n) ==
    LET setting(k) == Addressing[1 + Digit(n, k, 7)]
    IN  Topology(<<Node(<<2>>, "host", 0, <<setting(1)>>),
                   Node(<<1>>, "host", 0, <<setting(7), setting(49)>>)>>, <<>>)

(* Three switches, all with the hash of the largest id but one.            *)
DpidDoc(n) ==
    Topology(<<[Switch(1) EXCEPT !.dpid = Digit(n, 1, 5)],
               [Switch(2) EXCEPT !.dpid = Digit(n, 5, 5)], Switch(3)>>, <<>>)

(* Three links between a switch with ports of its own and its neighbors.    *)
PortName == <<None, <<9, 1>>, <<9, 2>>, <<1, 2>>, <<6>>, <<3>>>>
LinkDoc(n) ==
    LET port(b, d) == PortName[1 + Digit(n, b, d)]
    IN  Topology(<<Node(<<1>>, "switch", 0, <<Port(port(48, 6), 3 * Digit(n, 1, 2)),
                                              Port(<<9, 2>>, 3 * Digit(n, 2, 2))>>),
                   Host(2), Switch(6)>>,
                 <<Link(3, End(1, port(4, 3)), End(2, None)),
                   Link(4, End(2, port(12, 2)), End(1, port(24, 2))),
                   Link(5, End(1, None), End(6, None))>>)

(* A switch and a controller that refer to each other, or to what is not    *)
(* there or not a controller.                                              *)
NodeDoc(n) ==
    LET other(b, d) == <<None, <<1>>, <<2>>, <<8>>>>[1 + Digit(n, b, d)]
    IN  Topology(<<[Switch(1) EXCEPT !.parent = other(1, 4), !.controller = other(16, 4)],
                   [Node(<<2>>, "controller", 0, <<>>) EXCEPT !.parent = other(4, 4)]>>, <<>>)

(* Placements, those that fit and those that do not.                       *)
PlacementDoc(n) ==
    LET placed == <<{}, {<<1>>}, {<<8>>}, {<<1>>, <<2>>}>>[1 + Digit(n, 1, 4)]
        cardinality == <<"singleton", "per-target", "per-group">>[1 + Digit(n, 4, 3)]
    IN  [Document(<<Switch(1), Switch(2), Switch(11)>>, <<>>,
                  <<[Agent(5, "switch", placed, cardinality) EXCEPT
                        !.attachable = Digit(n, 12, 2) = 0, !.bounded = Digit(n, 24, 3) # 0,
                        !.currentOnly = Digit(n, 24, 3) = 2]>>,
                  Independent)
            EXCEPT !.maxInstances = 2 + Digit(n, 72, 2)]

(* Three agents in a line, and every relation between them.                *)
Pair == <<Agent(5, "switch", {<<1>>}, "singleton"), Agent(6, "switch", {<<2>>}, "per-target")>>
Three == Append(Pair, Agent(7, "switch", {<<3>>}, "per-group"))
Run(agents, coordination) ==
    Document(<<Switch(1), Switch(2), Switch(3)>>,
             <<Link(4, End(1, None), End(2, None)), Link(8, End(2, None), End(3, None))>>,
             agents, coordination)
RelationDoc(n) ==
    Run(Three, Mode("hierarchical", None,
                    {<<<<p[1]>>, <<p[2]>>>> : p \in
                        {q \in (5..7) \X (5..7) : Digit(n, 2^(3 * (q[1] - 5) + q[2] - 5), 2) = 1}}, ""))

Peers(which) == Mode("distributed", None, {}, which)
Modes == << Independent, Peers("all"), Peers("topology-neighbors"),
            Mode("centralized", <<8>>, {}, ""), Mode("centralized", <<6>>, {}, "") >>

Load(d, who, most, slots, queue) ==
    [d EXCEPT !.load = [requests |-> who, proposals |-> most],
              !.maxConcurrent = slots, !.maxQueued = queue]
Tree(d) == Mode("hierarchical", None, {<<<<d>>, <<e>>>> : e \in (5..7) \ {d}}, "")

(* One request whose agents delegate to each other up to the hop limit;    *)
(* two requests that share a channel for one message, or a single slot; a  *)
(* hierarchy and a coordinator with two agents each below them.            *)
LoadedDocs ==
    { Load(Run(Pair, Peers("topology-neighbors")), {r1}, 5, 1, 2),
      Load(Run(Pair, Peers("all")), {r1, r2}, 2, 2, 1),
      Load(Run(Pair, Peers("all")), {r1, r2}, 2, 1, 2),
      Load(Run(Three, Tree(5)), {r1}, 4, 2, 3),
      Load(Run(Three, Modes[5]), {r1, r2}, 1, 2, 2) }

MCDocuments ==
    LoadedDocs \cup {AddressDoc(n) : n \in 1..343} \cup {DpidDoc(n) : n \in 1..25}
        \cup {LinkDoc(n) : n \in 1..288} \cup {NodeDoc(n) : n \in 1..64}
        \cup {PlacementDoc(n) : n \in 1..144} \cup {RelationDoc(n) : n \in 1..511}
        \cup {Run(Three, m) : m \in Range(Modes)}

MCHash == [n \in {<<k>> : k \in 0..11} |-> 3]
MCSlug == [l \in 1..11 |-> IF l = 11 THEN 1 ELSE l]
MCRequest == {r1, r2}
=============================================================================

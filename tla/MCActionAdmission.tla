-------------------------- MODULE MCActionAdmission --------------------------
(* Small instances of ActionAdmission: three invocations, two of one       *)
(* request; one shared key; two switches and a forwarding effect.          *)
EXTENDS ActionAdmission

CONSTANTS i1, i2, i3, r1, r2, k1, s1, s2

MCInvocation == {i1, i2, i3}
MCRequest == {r1, r2}
MCRequestOf == (i1 :> r1) @@ (i2 :> r1) @@ (i3 :> r2)
MCPriorityOf == (i1 :> 1) @@ (i2 :> 1) @@ (i3 :> 2)
MCStateKey == {k1}
MCTarget == {s1, s2}
MCEffect == {"forwarding", AnyEffect}

Install(s) == [target |-> s, effects |-> EffectsOf("substrate.action", {"forwarding"})]
Custom(s) == [target |-> s, effects |-> EffectsOf("plugin", {"forwarding"})]
Observe(s) == [target |-> s, effects |-> EffectsOf("substrate.observation", {})]

Decide_(reads, writes, actions, proposed) ==
    [reads |-> reads, writes |-> writes, actions |-> actions, proposed |-> proposed]

(* A state-only update; a route on one switch, on the other, on both; a    *)
(* reroute that depends on the key; an unknown mutation after an           *)
(* observation; a decision whose every action failed validation.           *)
MCDecision ==
    { Decide_({}, {k1}, <<>>, FALSE),
      Decide_({}, {}, <<Install(s1)>>, TRUE),
      Decide_({k1}, {}, <<Install(s2)>>, TRUE),
      Decide_({}, {k1}, <<Install(s1), Install(s2)>>, TRUE),
      Decide_({}, {}, <<Observe(s1), Custom(s2)>>, TRUE),
      Decide_({k1}, {k1}, <<>>, TRUE) }

(* The policies that wait also keep a decision that conflicts with itself. *)
MCWaitingDecision ==
    MCDecision \cup { Decide_({k1}, {}, <<Install(s1), Custom(s1)>>, TRUE) }
=============================================================================

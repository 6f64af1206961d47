------------------------- MODULE MCCoordinatedCommit -------------------------
(* Small instances of CoordinatedCommit: invocations of one request, two   *)
(* switches, two keys that share the single entry the run namespace allows.*)
EXTENDS CoordinatedCommit

CONSTANTS i1, i2, r1, route, backup, run, s1, s2

MCInvocation == {i1, i2}
MCRequest == {r1}
MCRequestOf == (i1 :> r1) @@ (i2 :> r1)
MCPriorityOf == (i1 :> 1) @@ (i2 :> 2)
MCStateKey == {route, backup}
MCTarget == {s1, s2}
MCEffect == {"forwarding", AnyEffect}
MCNamespace == {run}
MCNamespaceOf == (route :> run) @@ (backup :> run)
MCLimit == (run :> 1)

Install(s) == [target |-> s, effects |-> EffectsOf("substrate.action", {"forwarding"})]

Answer(reads, updates, proposals, bundle) ==
    [reads |-> reads, updates |-> updates, proposals |-> proposals, bundle |-> bundle]

Set(k) == [operation |-> "set", key |-> k]
Delete(k) == [operation |-> "delete", key |-> k]

(* A state-only write; a route that depends on a key; a route with its     *)
(* record; two routes and a deletion; a recovery bundle whose second step  *)
(* touches the switch of the first.                                        *)
MCResponse ==
    { Answer({}, <<Set(backup)>>, <<>>, FALSE),
      Answer({route}, <<>>, <<Install(s2)>>, FALSE),
      Answer({}, <<Set(route)>>, <<Install(s1)>>, FALSE),
      Answer({backup}, <<Delete(route)>>, <<>>, FALSE),
      Answer({}, <<>>, <<Install(s1), Install(s1), Install(s2)>>, TRUE) }
=============================================================================

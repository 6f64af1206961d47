------------------------- MODULE MCSharedStateStore -------------------------
(* Two agents; three keys, two in the run namespace (limit one) and one in *)
(* the namespace of a deployment.                                          *)
EXTENDS SharedStateStore, TLC

CONSTANTS a, b, route, backup, load, run, deployment

MCClient == {a, b}
MCKey == {route, backup, load}
MCNamespace == {run, deployment}
MCNamespaceOf == (route :> run) @@ (backup :> run) @@ (load :> deployment)
MCLimit == (run :> 1) @@ (deployment :> 1)

Set(k) == [operation |-> "set", key |-> k]
Delete(k) == [operation |-> "delete", key |-> k]

(* Swaps in both orders: only one of them fits the limit at every update.  *)
MCBatch ==
    { <<Set(route)>>, <<Delete(route)>>, <<Set(route), Set(load)>>,
      <<Delete(route), Set(backup)>>, <<Set(backup), Delete(route)>>,
      <<Delete(backup), Delete(load)>> }
=============================================================================

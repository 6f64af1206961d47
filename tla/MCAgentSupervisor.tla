-------------------------- MODULE MCAgentSupervisor --------------------------
(* Two agents, one of which may restart twice and runs three jobs.         *)
EXTENDS AgentSupervisor, TLC

CONSTANTS router, monitor, j1, j2, j3, tick

MCAgent == {router, monitor}
MCJob == {j1, j2, j3, tick}
MCAgentOf == (j1 :> router) @@ (j2 :> router) @@ (j3 :> router) @@ (tick :> monitor)
MCMaxAttempts == (router :> 2) @@ (monitor :> 0)
MCTolerant == {tick}
=============================================================================

------------------------- MODULE MCContinuousRuntime -------------------------
(* Small instances of ContinuousRuntime: a router that executes ticks of a *)
(* bounded decision and link events, and a monitor it delegates to.        *)
EXTENDS ContinuousRuntime

CONSTANTS router, monitor, tick1, tick2, link1, link2, ticks, network

MCAgent == {router, monitor}
MCSource == {ticks, network}
MCInterval == {ticks}

MCSourceOf == [e \in Event |-> IF e \in {tick1, tick2} THEN ticks ELSE network]
MCSequenceOf == [e \in Event |-> IF e \in {tick1, link1} THEN 0 ELSE 1]
MCKeyOf == [j \in Item |-> IF j[1] \in {tick1, tick2} THEN "tick" ELSE "link"]
MCBounded == {tick1, tick2}
MCFiltered == {link2}
MCQueueCapacity == (router :> 1) @@ (monitor :> 1)
MCMaxAttempts == (router :> 1) @@ (monitor :> 0)

(* Ticks meet one link event, which both agents take.                      *)
MCTicks == {tick1, tick2, link1}
MCLinkBoth == [e \in Event |-> IF e = link1 THEN <<router, monitor>> ELSE <<router>>]
MCNoRestarts == [a \in Agent |-> 0]
MCRouterOnly == [e \in Event |-> <<router>>]
MCDelegates == [j \in Item |-> IF j[1] = link1 THEN monitor ELSE NoAgent]
MCWide == (router :> 2) @@ (monitor :> 1)
MCOldest == (router :> "drop-oldest") @@ (monitor :> "reject")

(* One tick and one link event while the router is paused and resumed.     *)
MCPair == {tick1, link1}
MCPausable == {router}

(* Link events may overtake each other and coalesce; one delegates.        *)
MCLinks == {link1, link2}
MCNarrow == (router :> 1) @@ (monitor :> 1)
MCCoalesce == (router :> "coalesce") @@ (monitor :> "reject")
MCNone == {}
=============================================================================

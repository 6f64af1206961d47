---------------------------- MODULE MessageRouting ----------------------------
(***************************************************************************)
(* Requests on the coordination graph of a compiled plan: the messages of  *)
(* CoordinationRuntime (coordination/routing.py), the one bounded channel  *)
(* they all share (coordination/channel.py), the invocations they lead to  *)
(* and the budgets these hold.                                             *)
(*                                                                         *)
(* Each request has a thread.  It sends the root message, then repeats:    *)
(* take every message of its own whose agent has budget, submit it, wait   *)
(* for an invocation, send what its agent delegated.  An invocation gives  *)
(* its budget back before its result is collected (docs/decisions/0009).   *)
(* A continuous worker reserves the budget of the entry agent beforehand.  *)
(*                                                                         *)
(* With the documents of an experiment comes a bound, its load: the        *)
(* requests of the run and the delegations its agents propose for each.    *)
(*                                                                         *)
(* Message i of request r is <<r, i>>, and so is the lease it holds; the   *)
(* root is message 1.  What an invocation does is in CoordinatedCommit.    *)
(***************************************************************************)
EXTENDS PlanCompiler, SequencesExt

CONSTANTS
    Request,    \* the calls of coordinate(), each made once
    MaxFaults   \* bound on invocations the executor cannot start

VARIABLES
    asked,      \* the agent each request is for
    status,     \* where the thread of each request is
    messages,   \* what each request sent: Request -> sequence of messages
    proposals,  \* delegations still to be sent: Request -> set of <<i, target>>
    proposed,   \* how many agents proposed for each request
    issues,     \* how many of them were refused
    channel,    \* messages in the shared channel
    leases,     \* messages that hold budget
    closing,    \* close() was called, "closed" when it returned
    faults

routeVars == <<asked, status, messages, proposals, proposed, issues, channel, leases,
               closing, faults>>
vars == <<planVars, routeVars>>

NoAgent == None

RouteInit ==
    /\ asked = [r \in Request |-> NoAgent]
    /\ status = [r \in Request |-> "idle"]
    /\ messages = [r \in Request |-> <<>>]
    /\ proposals = [r \in Request |-> {}]
    /\ proposed = [r \in Request |-> 0]
    /\ issues = [r \in Request |-> 0]
    /\ channel = <<>> /\ leases = {}
    /\ closing = "no" /\ faults = 0

-----------------------------------------------------------------------------
(* entry_agent: a centralized graph sends every intent to its coordinator. *)
Coordinator == CHOOSE a \in Agents : \A b \in Agents \ {a} : <<a, b>> \in edges
Entry(r) == IF Coordination.mode = "centralized" THEN Coordinator ELSE asked[r]

Authorized(source, target) == <<source, target>> \in edges

HopLimit == 2 * Cardinality(Agents)

AgentOf(m) == IF m[2] = 1 THEN Entry(m[1]) ELSE messages[m[1]][m[2]].to

\* _available
Available(a) ==
    /\ Cardinality(leases) < doc.maxConcurrent
    /\ Cardinality({m \in leases : AgentOf(m) = a}) < doc.concurrency

Message(to, hop) == [to |-> to, hop |-> hop, fate |-> "queued"]
Sent(r) == {<<r, i>> : i \in DOMAIN messages[r]}
FateOf(m) == messages[m[1]][m[2]].fate
Fated(r, fate) == {m \in Sent(r) : FateOf(m) = fate}
Release(m) == leases' = leases \ {m}
Settle(m, fate) == messages' = [messages EXCEPT ![m[1]][m[2]].fate = fate]

InSession == {r \in Request : status[r] \in {"opened", "entering", "taking", "waiting"}}

-----------------------------------------------------------------------------
(* Entering *)

\* coordinate(), with or without a lease reserved by the caller.
Ask(r, a) ==
    /\ graph = "accepted" /\ r \in doc.load.requests /\ status[r] = "idle"
    /\ asked' = [asked EXCEPT ![r] = a]
    /\ \E s \in {"reserving", "opening"} : status' = [status EXCEPT ![r] = s]
    /\ UNCHANGED <<planVars, messages, proposals, proposed, issues, channel, leases,
                   closing, faults>>

\* reserve_invocation
Reserve(r) ==
    /\ status[r] = "reserving"
    /\ \/ /\ closing = "no" /\ Available(Entry(r))
          /\ leases' = leases \cup {<<r, 1>>}
          /\ status' = [status EXCEPT ![r] = "opening"]
       \/ /\ closing # "no"
          /\ status' = [status EXCEPT ![r] = "refused"]
          /\ UNCHANGED leases
    /\ UNCHANGED <<planVars, asked, messages, proposals, proposed, issues, channel, closing,
                   faults>>

\* _request_session; a lease is closed with the call.
Open(r) ==
    /\ status[r] = "opening"
    /\ IF closing = "no"
       THEN status' = [status EXCEPT ![r] = "opened"] /\ UNCHANGED leases
       ELSE status' = [status EXCEPT ![r] = "refused"] /\ Release(<<r, 1>>)
    /\ UNCHANGED <<planVars, asked, messages, proposals, proposed, issues, channel, closing,
                   faults>>

\* channel.send(root): a full channel fails the request.
SendRoot(r) ==
    /\ status[r] = "opened"
    /\ IF Len(channel) < doc.maxQueued
       THEN /\ channel' = Append(channel, <<r, 1>>)
            /\ messages' = [messages EXCEPT ![r] = <<Message(Entry(r), 0)>>]
            /\ status' = [status EXCEPT ![r] =
                            IF <<r, 1>> \in leases THEN "entering" ELSE "taking"]
            /\ UNCHANGED leases
       ELSE /\ status' = [status EXCEPT ![r] = "raised"]
            /\ Release(<<r, 1>>)
            /\ UNCHANGED <<channel, messages>>
    /\ UNCHANGED <<planVars, asked, proposals, proposed, issues, closing, faults>>

\* channel.receive(): the place of the first message that a request may take.
Receive(own) == Min({k \in DOMAIN channel : channel[k] \in own})

\* _submit_invocation: a lease is closed and the request fails if the executor
\* cannot start the invocation.
Submit(r, own) ==
    LET m == channel[Receive(own)]
    IN  /\ channel' = RemoveAt(channel, Receive(own))
        /\ \/ /\ leases' = leases \cup {m}
              /\ Settle(m, "running")
              /\ status' = [status EXCEPT ![r] = "taking"]
              /\ UNCHANGED faults
           \/ /\ faults < MaxFaults
              /\ Release(m)
              /\ Settle(m, "unstarted")
              /\ status' = [status EXCEPT ![r] = "raised"]
              /\ faults' = faults + 1
        /\ UNCHANGED <<planVars, asked, proposals, proposed, issues, closing>>

\* The leased root leaves the channel at once.
Enter(r) == status[r] = "entering" /\ Submit(r, {<<r, 1>>})

-----------------------------------------------------------------------------
(* Taking and collecting *)

Pending(r) == Fated(r, "queued")
Eligible(r) == {m \in Pending(r) : Available(AgentOf(m))}
InFlight(r) == Fated(r, "running") \cup Fated(r, "answered") \cup Fated(r, "failed")

\* _take_invocation: the first message in the channel that is eligible.
Take(r) == status[r] = "taking" /\ Eligible(r) # {} /\ Submit(r, Eligible(r))

\* Fault: the request returns when nothing is running, whatever is queued.
ReturnEarly(r) ==
    /\ status[r] = "taking" /\ Eligible(r) = {} /\ InFlight(r) = {}
    /\ status' = [status EXCEPT ![r] = "returned"]
    /\ UNCHANGED <<planVars, asked, messages, proposals, proposed, issues, channel, leases,
                   closing, faults>>

\* Nothing in flight and nothing queued: the outcome.  (If something is queued
\* the thread sleeps until there is budget for it.)
Return(r) ==
    /\ status[r] = "taking" /\ Pending(r) = {} /\ InFlight(r) = {}
    /\ status' = [status EXCEPT ![r] = "returned"]
    /\ UNCHANGED <<planVars, asked, messages, proposals, proposed, issues, channel, leases,
                   closing, faults>>

Wait(r) ==
    /\ status[r] = "taking" /\ Eligible(r) = {} /\ InFlight(r) # {}
    /\ status' = [status EXCEPT ![r] = "waiting"]
    /\ UNCHANGED <<planVars, asked, messages, proposals, proposed, issues, channel, leases,
                   closing, faults>>

\* A result is looked at after all delegations of the one before it were sent.
Collect(r) ==
    /\ status[r] = "waiting" /\ proposals[r] = {}
    /\ \E m \in Fated(r, "answered") \cup Fated(r, "failed"), targets \in SUBSET Agents :
        /\ FateOf(m) = "failed" => targets = {}
        /\ Cardinality(targets) + proposed[r] <= doc.load.proposals
        /\ Settle(m, IF FateOf(m) = "failed" THEN "issue" ELSE "invoked")
        /\ proposals' = [proposals EXCEPT ![r] = {<<m[2], a>> : a \in targets}]
        /\ proposed' = [proposed EXCEPT ![r] = @ + Cardinality(targets)]
    /\ UNCHANGED <<planVars, asked, status, issues, channel, leases, closing, faults>>

\* The results wait() returned are collected, or it timed out.  Those that arrived
\* in the meantime are left to the next round.
Resume(r) ==
    /\ status[r] = "waiting" /\ proposals[r] = {}
    /\ status' = [status EXCEPT ![r] = "taking"]
    /\ UNCHANGED <<planVars, asked, messages, proposals, proposed, issues, channel, leases,
                   closing, faults>>

\* _delegate: authorized by the graph, within the hop limit and the channel.
Delegate(r) ==
    /\ status[r] = "waiting"
    /\ \E p \in proposals[r] :
        LET parent == messages[r][p[1]]
        IN  /\ proposals' = [proposals EXCEPT ![r] = @ \ {p}]
            /\ IF /\ Authorized(parent.to, p[2])
                  /\ parent.hop < HopLimit
                  /\ Len(channel) < doc.maxQueued
               THEN /\ messages' = [messages EXCEPT ![r] = Append(@, Message(p[2], parent.hop + 1))]
                    /\ channel' = Append(channel, <<r, Len(messages[r]) + 1>>)
                    /\ UNCHANGED issues
               ELSE /\ issues' = [issues EXCEPT ![r] = @ + 1]
                    /\ UNCHANGED <<messages, channel>>
    /\ UNCHANGED <<planVars, asked, status, proposed, leases, closing, faults>>

-----------------------------------------------------------------------------
(* Invocations and the end of the run *)

\* Fault: an agent that has answered keeps its budget.
AnswerHolding(m) ==
    /\ FateOf(m) = "running"
    /\ \E fate \in {"answered", "failed"} : Settle(m, fate)
    /\ UNCHANGED <<planVars, asked, status, proposals, proposed, issues, channel, leases,
                   closing, faults>>

\* _invoke_message ends, with a response or an exception; its lease is closed.
Answer(m) ==
    /\ FateOf(m) = "running"
    /\ \E fate \in {"answered", "failed"} : Settle(m, fate)
    /\ Release(m)
    /\ UNCHANGED <<planVars, asked, status, proposals, proposed, issues, channel, closing,
                   faults>>

\* close(): no new request; it waits for those there are, then for the executor.
Close ==
    /\ doc.load.requests # {} /\ graph = "accepted" /\ closing = "no"
    /\ closing' = "closing"
    /\ UNCHANGED <<planVars, asked, status, messages, proposals, proposed, issues, channel,
                   leases, faults>>

EndClose ==
    /\ closing = "closing" /\ InSession = {}
    /\ \A r \in Request : Fated(r, "running") = {}
    /\ closing' = "closed"
    /\ UNCHANGED <<planVars, asked, status, messages, proposals, proposed, issues, channel,
                   leases, faults>>

-----------------------------------------------------------------------------
Thread(r) ==
    \/ Reserve(r) \/ Open(r) \/ SendRoot(r) \/ Enter(r)
    \/ Take(r) \/ Return(r) \/ Wait(r) \/ Collect(r) \/ Resume(r) \/ Delegate(r)

Compile == CompileStep /\ UNCHANGED routeVars

Init == PlanInit /\ RouteInit

Next ==
    \/ Compile
    \/ \E r \in Request, a \in Agents : Ask(r, a)
    \/ \E r \in Request : Thread(r) \/ \E m \in Sent(r) : Answer(m)
    \/ Close \/ EndClose

Spec == Init /\ [][Next]_vars

(* Threads run and invocations end (they have deadlines).  wait() returns  *)
(* whatever has ended, so a round collects what the one before left.       *)
(* Nobody has to ask or close.                                             *)
FairSpec ==
    /\ Spec
    /\ WF_vars(Compile)
    /\ \A r \in Request :
        /\ WF_vars(Thread(r))
        /\ SF_vars(Collect(r))
        /\ WF_vars(\E m \in Sent(r) : Answer(m))
    /\ WF_vars(EndClose)

-----------------------------------------------------------------------------
(* A request that returns has accounted for everything: each message it    *)
(* sent became an invocation or an issue and is neither in the channel nor *)
(* holding budget, each delegation became a message or an issue.           *)
Accounted ==
    \A r \in Request : status[r] = "returned" =>
        /\ \A m \in Sent(r) : FateOf(m) \in {"invoked", "issue"}
        /\ (ToSet(channel) \cup leases) \cap (Sent(r) \cup {<<r, 1>>}) = {}
        /\ proposed[r] + 1 = Len(messages[r]) + issues[r]

(* However requests overlap, reserve before they enter, fail to start and  *)
(* end, the invocations that hold budget stay within the limits of the     *)
(* plan: of each agent and of all agents together.                         *)
RoutesWithinBudget ==
    /\ IsFiniteSet(leases) /\ Cardinality(leases) <= doc.maxConcurrent
    /\ \A a \in Agents : Cardinality({m \in leases : AgentOf(m) = a}) <= doc.concurrency

(* Budgets, a full channel and requests that wait for the same agents not- *)
(* withstanding, every request ends, and so does close().                  *)
RequestsEnd ==
    /\ \A r \in Request :
        status[r] # "idle" ~> status[r] \in {"returned", "refused", "raised"}
    /\ closing = "closing" ~> closing = "closed"

-----------------------------------------------------------------------------
(* What the proofs need besides: the inductive invariant.                  *)

Fate == {"queued", "running", "unstarted", "answered", "failed", "invoked", "issue"}

Place == {"idle", "reserving", "opening", "refused", "opened", "raised", "entering", "taking",
          "waiting", "returned"}

RouteTypeOK ==
    /\ asked \in [Request -> Agents \cup {NoAgent}]
    /\ status \in [Request -> Place]
    /\ messages \in [Request -> Seq([to : Agents, hop : 0 .. HopLimit, fate : Fate])]
    /\ proposals \in [Request -> SUBSET (Nat \X Agents)]
    /\ proposed \in [Request -> Nat] /\ issues \in [Request -> Nat]
    /\ channel \in Seq(Request \X Nat) /\ leases \subseteq Request \X Nat
    /\ closing \in {"no", "closing", "closed"} /\ faults \in Nat

(* Nobody is asked, and nothing closed, before the graph is accepted.      *)
RunFollowsPlan ==
    /\ graph # "accepted" => RouteInit
    /\ \A r \in Request : status[r] # "idle" => asked[r] \in Agents

(* What a request has sent, by where its thread is.                        *)
Unsent == {"idle", "reserving", "opening", "refused", "opened"}

MessagesInPlace(r) ==
    /\ status[r] \in Unsent => messages[r] = <<>>
    /\ status[r] = "entering" => Len(messages[r]) = 1 /\ messages[r][1].fate = "queued"
    /\ status[r] # "raised" => Fated(r, "unstarted") = {}
    /\ status[r] = "returned" => \A m \in Sent(r) : FateOf(m) \in {"invoked", "issue"}

(* Every delegation is still to be sent, was sent or was refused.          *)
ProposalsInPlace(r) ==
    /\ IsFiniteSet(proposals[r])
    /\ status[r] # "waiting" => proposals[r] = {}
    /\ \A p \in proposals[r] : p[1] \in DOMAIN messages[r]
    /\ status[r] \in Unsent => proposed[r] = 0 /\ issues[r] = 0
    /\ status[r] \in {"entering", "taking", "waiting", "returned"} =>
          proposed[r] + 1 = Len(messages[r]) + issues[r] + Cardinality(proposals[r])

(* The channel holds every message that is queued, once.                   *)
ChannelInPlace ==
    /\ IsInjective(channel) /\ Len(channel) <= doc.maxQueued
    /\ ToSet(channel) = UNION {Fated(r, "queued") : r \in Request}

(* Who runs has a lease, and who has one runs or has reserved it.          *)
LeasesInPlace ==
    /\ \A r \in Request :
          /\ Fated(r, "running") \subseteq leases
          /\ status[r] = "entering" => <<r, 1>> \in leases
    /\ \A m \in leases :
          \/ m \in Fated(m[1], "running")
          \/ m[2] = 1 /\ status[m[1]] \in {"opening", "opened", "entering"}

RouteInv ==
    /\ RouteTypeOK /\ RunFollowsPlan
    /\ \A r \in Request : MessagesInPlace(r) /\ ProposalsInPlace(r)
    /\ ChannelInPlace /\ LeasesInPlace /\ RoutesWithinBudget

RoutingInv == PlanInv /\ RouteInv

=============================================================================

--------------------------- MODULE BoundedRecovery ---------------------------
(***************************************************************************)
(* Bounded decisions of one agent that may install a recovery bundle: from *)
(* the inspection of the rules through the model's answer to the ordered   *)
(* steps, their verification and rollback (agents/bounded.py,              *)
(* agents/reconciliation.py, capabilities/engine.py, and the bundle's part *)
(* of coordination/routing.py).                                            *)
(*                                                                         *)
(* A step installs one flow rule.  The decisions of one agent follow one   *)
(* another; beside them run the clock, callers that cancel, and whoever    *)
(* else changes the rules.  That the steps of a bundle do not conflict     *)
(* with one another is CoordinatedCommit's concern, not this module's.     *)
(***************************************************************************)
EXTENDS Integers, FiniteSets

CONSTANTS
    NSteps,        \* length of the bundle
    SwitchOf,      \* step -> the switch that holds its rule
    Covers,        \* step -> steps whose rules a removal by its match takes away
    Checked,       \* steps whose capability has postconditions to verify
    Reversible,    \* steps whose capability declares a rollback
    Timed,         \* steps whose rule has an idle or a hard timeout
    DecisionTime,  \* the scenario's decision deadline
    MaxRound, MaxClock, MaxChanges, MaxCancels   \* bounds

Steps == 1 .. NSteps
Rounds == 1 .. MaxRound

ASSUME RecoveryAssumption ==
    /\ NSteps \in Nat \ {0}
    /\ Covers \in [Steps -> SUBSET Steps]
    /\ \A i \in Steps : i \in Covers[i]
    /\ Checked \subseteq Steps /\ Reversible \subseteq Steps /\ Timed \subseteq Steps
    /\ {DecisionTime, MaxRound, MaxClock, MaxChanges, MaxCancels} \subseteq Nat

VARIABLES
    rules,       \* what the switches hold for each step
    touched,     \* steps somebody else changed since the last inspection began
    changes,     \* number of such changes
    clock,
    unfit,       \* steps that the capability engine refuses, fixed by the plan
    round,       \* number of decisions begun
    deadline,    \* of the current decision
    revocation,  \* _revocation of the authority of each decision
    registered,  \* the decision in _active_authorities, 0 for none
    held,        \* the authority a cancelling thread has fetched, 0 for none
    cancels,     \* number of calls of cancel_bounded_decision
    phase,       \* where the current decision is
    seen,        \* the states of the steps that the last inspection read
    started,     \* steps whose action has started
    results,     \* result of each step
    halted,      \* the bundle stops before its next step
    outcome      \* how each decision ended

network == <<rules, touched, changes>>
authority == <<deadline, revocation, registered>>
cancelling == <<held, cancels>>
bundle == <<started, results, halted>>
vars == <<network, clock, unfit, round, authority, cancelling, phase, seen, bundle, outcome>>

(* "wrong" is any rule that claims the identity of the step's and differs  *)
(* from it, or several of them.                                            *)
Rule == {"present", "missing", "wrong"}
Reading == Rule \cup {"unread", "unreadable"}

(* succeeded, rejected (nothing changed), failed (effects unknown); after  *)
(* a failed postcondition: kept (the change stays), undone (rolled back)   *)
(* and stuck (the rollback failed).                                        *)
Result == {"none", "succeeded", "rejected", "failed", "kept", "undone", "stuck"}

Phase == {"idle", "deciding", "rechecking", "committing", "running", "verifying",
          "reverting", "confirming"}

Unread == [i \in Steps |-> "unread"]

Init ==
    /\ rules \in [Steps -> {"present", "missing"}]
    /\ touched = {} /\ changes = 0
    /\ clock = 0
    /\ unfit \in {{}, {NSteps}}
    /\ round = 0 /\ deadline = 0 /\ registered = 0
    /\ revocation = [n \in Rounds |-> "none"]
    /\ held = 0 /\ cancels = 0
    /\ phase = "idle"
    /\ seen = Unread
    /\ started = {}
    /\ results = [i \in Steps |-> "none"]
    /\ halted = FALSE
    /\ outcome = [n \in Rounds |-> "open"]

-----------------------------------------------------------------------------
(* reconcile_bundle: only a clean prefix of exact rules is ever acted on.  *)
Policy(states) ==
    LET present == {i \in Steps : states[i] = "present"}
        exact == \A i \in Steps : states[i] \in {"present", "missing"}
        prefix == \A i \in present : 1 .. i \subseteq present
    IN  IF ~exact \/ ~prefix THEN "unknown"
        ELSE IF present = {} THEN "verified-primary"
        ELSE IF present = Steps THEN "verified-recovery"
        ELSE "partial"

Inspected == \A i \in Steps : seen[i] # "unread"

(* The rules of a switch are dumped once, when its first step is reached.  *)
InspectSwitch ==
    \E i \in Steps :
        /\ phase = "confirming" \/ seen # Unread \/ clock < deadline
        /\ phase \in {"deciding", "confirming"}
        /\ seen[i] = "unread" /\ \A j \in 1 .. i - 1 : seen[j] # "unread"
        /\ seen' = [j \in Steps |-> IF SwitchOf[j] = SwitchOf[i] THEN rules[j] ELSE seen[j]]
        /\ UNCHANGED <<network, clock, unfit, round, authority, cancelling, phase, bundle,
                       outcome>>

(* A dump that fails, or a decision that is late: nothing is known.        *)
InspectNothing ==
    /\ phase \in {"deciding", "confirming"}
    /\ ~Inspected
    /\ seen' = [i \in Steps |-> "unreadable"]
    /\ UNCHANGED <<network, clock, unfit, round, authority, cancelling, phase, bundle, outcome>>

-----------------------------------------------------------------------------
(* A decision begins with an authority of its own.  Its deadline counts    *)
(* from the scheduled tick, which may have waited in the queue.            *)
Prepare ==
    /\ phase = "idle" /\ round < MaxRound
    /\ round' = round + 1
    /\ \E left \in 0 .. DecisionTime : deadline' = clock + left
    /\ registered' = round'
    /\ touched' = {}
    /\ phase' = "deciding"
    /\ seen' = Unread
    /\ started' = {}
    /\ results' = [i \in Steps |-> "none"]
    /\ halted' = FALSE
    /\ UNCHANGED <<rules, changes, clock, unfit, revocation, cancelling, outcome>>

(* Fault: only the deadline counts.                                      *)
InTime == clock < deadline

Authorized == revocation[round] = "none" /\ clock < deadline

(* Whoever revokes first gives the reason.                                 *)
Revoked(n, reason) ==
    IF revocation[n] = "none" THEN [revocation EXCEPT ![n] = reason] ELSE revocation

Ends(how) ==
    /\ phase' = "idle"
    /\ outcome' = [outcome EXCEPT ![round] = how]

Released == registered' = IF registered = round THEN 0 ELSE registered

(* The end of a decision before anything was admitted.                     *)
Fails(revocations) ==
    /\ Ends("failed")
    /\ Released
    /\ revocation' = revocations
    /\ UNCHANGED <<network, clock, unfit, round, deadline, cancelling, seen, bundle>>

(* The model's answer, of which only the choice counts; a late one is      *)
(* discarded.                                                              *)
Answer ==
    /\ phase = "deciding" /\ Inspected
    /\ IF ~Authorized
       THEN Fails(Revoked(round, "timeout"))
       ELSE \/ /\ Ends("no_action")
               /\ Released
               /\ UNCHANGED <<network, clock, unfit, round, deadline, revocation, cancelling,
                              seen, bundle>>
            \/ /\ Policy(seen) \in {"verified-primary", "partial"}
               /\ phase' = "rechecking"
               /\ UNCHANGED <<network, clock, unfit, round, authority, cancelling, seen, bundle,
                              outcome>>
            \/ /\ Policy(seen) \in {"unknown", "verified-recovery"}
               /\ Fails(revocation)

(* The service fails, or its answer is malformed or comes too late for it. *)
NoAnswer ==
    /\ phase = "deciding" /\ Inspected
    /\ \/ Fails(Revoked(round, "timeout"))
       \/ Authorized /\ Fails(revocation)

(* Fresh evidence must permit the recovery, and time must be left.  What   *)
(* capability validation refuses stops the bundle before it starts.        *)
Recheck ==
    /\ phase = "rechecking"
    /\ IF ~Authorized
       THEN Fails(Revoked(round, "timeout"))
       ELSE \/ Fails(revocation)
            \/ /\ phase' = "committing"
               /\ results' = [i \in Steps |-> IF seen[i] = "missing" /\ i \in unfit
                                              THEN "rejected" ELSE "none"]
               /\ halted' = \E i \in unfit : seen[i] = "missing"
               /\ UNCHANGED <<network, clock, unfit, round, authority, cancelling, seen,
                              started, outcome>>

-----------------------------------------------------------------------------
Pending == {i \in Steps : seen[i] = "missing" /\ results[i] = "none"}

Current(i) == i \in Pending /\ \A j \in Pending : i <= j

(* Fault: a rejection does not stop the bundle.                          *)
SettledPastRejection(i, result) ==
    /\ phase' = "committing"
    /\ results' = [results EXCEPT ![i] = result]
    /\ halted' = (halted \/ result \notin {"succeeded", "rejected"})

(* A result other than a success stops the bundle.                         *)
Settled(i, result) ==
    /\ phase' = "committing"
    /\ results' = [results EXCEPT ![i] = result]
    /\ halted' = (halted \/ result # "succeeded")

Stop(i) ==
    /\ phase = "committing" /\ Current(i) /\ halted
    /\ Settled(i, "rejected")
    /\ UNCHANGED <<network, clock, unfit, round, authority, cancelling, seen, started, outcome>>

(* Admission refuses the step because of another agent's action.           *)
Lose(i) ==
    /\ phase = "committing" /\ Current(i) /\ ~halted
    /\ Settled(i, "rejected")
    /\ UNCHANGED <<network, clock, unfit, round, authority, cancelling, seen, started, outcome>>

(* execute_if_authorized: the check and the start are one step.            *)
Start(i) ==
    /\ phase = "committing" /\ Current(i) /\ ~halted
    /\ IF Authorized
       THEN /\ started' = started \cup {i}
            /\ phase' = "running"
            /\ UNCHANGED <<revocation, results, halted>>
       ELSE /\ revocation' = Revoked(round, "timeout")
            /\ Settled(i, "failed")
            /\ UNCHANGED started
    /\ UNCHANGED <<network, clock, unfit, round, deadline, registered, cancelling, seen, outcome>>

(* The rule is added; without postconditions that is a success.            *)
Install(i) ==
    /\ phase = "running" /\ Current(i)
    /\ rules' = [rules EXCEPT ![i] = "present"]
    /\ IF i \in Checked
       THEN phase' = "verifying" /\ UNCHANGED <<results, halted>>
       ELSE Settled(i, "succeeded")
    /\ UNCHANGED <<touched, changes, clock, unfit, round, authority, cancelling, seen, started,
                   outcome>>

(* The command fails or times out; the rule may be there all the same.     *)
InstallFails(i) ==
    /\ phase = "running" /\ Current(i)
    /\ rules' \in {rules, [rules EXCEPT ![i] = "present"]}
    /\ Settled(i, "failed")
    /\ UNCHANGED <<touched, changes, clock, unfit, round, authority, cancelling, seen, started,
                   outcome>>

(* The postconditions observe what the step's rule brings about.  They are *)
(* polled until one poll is satisfied ...                                  *)
Verify(i) ==
    /\ phase = "verifying" /\ Current(i)
    /\ rules[i] = "present"
    /\ Settled(i, "succeeded")
    /\ UNCHANGED <<network, clock, unfit, round, authority, cancelling, seen, started, outcome>>

(* ... or the last one, when their time is over, is not.                   *)
VerifyFails(i) ==
    /\ phase = "verifying" /\ Current(i)
    /\ IF i \in Reversible
       THEN phase' = "reverting" /\ UNCHANGED <<results, halted>>
       ELSE Settled(i, "kept")
    /\ UNCHANGED <<network, clock, unfit, round, authority, cancelling, seen, started, outcome>>

(* The inverse of an installation removes whatever its match covers: the   *)
(* removal is not strict.                                                  *)
Removed(i) == [j \in Steps |-> IF j \in Covers[i] THEN "missing" ELSE rules[j]]

(* The inverse passes the timeouts on to the removal, which refuses them.  *)
Invertible(i) == i \notin Timed

(* Fault: the result of the inverse is not looked at.                    *)
RollbackAssumed(i) ==
    /\ phase = "reverting" /\ Current(i)
    /\ rules' \in {rules, Removed(i)}
    /\ Settled(i, "undone")
    /\ UNCHANGED <<touched, changes, clock, unfit, round, authority, cancelling, seen, started,
                   outcome>>

Rollback(i) ==
    /\ phase = "reverting" /\ Current(i)
    /\ \/ Invertible(i) /\ rules' = Removed(i) /\ Settled(i, "undone")
       \/ Invertible(i) /\ rules' = Removed(i) /\ Settled(i, "stuck")
       \/ rules' = rules /\ Settled(i, "stuck")
    /\ UNCHANGED <<touched, changes, clock, unfit, round, authority, cancelling, seen, started,
                   outcome>>

(* The audit journal fails, in a decision that ends with an error or in    *)
(* one that goes on: the exception leaves its authority registered.        *)
Abort ==
    /\ phase \in {"deciding", "rechecking", "committing", "confirming"}
    /\ Ends("raised")
    /\ \/ UNCHANGED revocation
       \/ phase \in {"deciding", "rechecking"} /\ revocation' = Revoked(round, "timeout")
    /\ UNCHANGED <<network, clock, unfit, round, deadline, registered, cancelling, seen, bundle>>

(* complete() inspects the rules once more ...                             *)
Complete ==
    /\ phase = "committing" /\ Pending = {}
    /\ phase' = "confirming"
    /\ seen' = Unread
    /\ touched' = {}
    /\ UNCHANGED <<rules, changes, clock, unfit, round, authority, cancelling, bundle, outcome>>

Unsuccessful == {i \in Steps : results[i] \notin {"none", "succeeded"}}

(* Fault: successful steps make a recovery.                              *)
ConcludeFromResults ==
    /\ phase = "confirming" /\ Inspected
    /\ Ends(IF Unsuccessful = {} THEN "recovered" ELSE "failed")
    /\ Released
    /\ UNCHANGED <<network, clock, unfit, round, deadline, revocation, cancelling, seen, bundle>>

(* ... and reports success only when every rule is in place.               *)
Conclude ==
    /\ phase = "confirming" /\ Inspected
    /\ Ends(IF Unsuccessful = {}
            THEN IF Policy(seen) = "verified-recovery" THEN "recovered" ELSE "failed"
            ELSE LET first == CHOOSE i \in Unsuccessful : \A j \in Unsuccessful : i <= j
                 IN  IF results[first] = "rejected" THEN "rejected" ELSE "failed")
    /\ Released
    /\ UNCHANGED <<network, clock, unfit, round, deadline, revocation, cancelling, seen, bundle>>

-----------------------------------------------------------------------------
(* cancel_bounded_decision fetches the active authority ...                *)
FetchAuthority ==
    /\ cancels < MaxCancels /\ held = 0 /\ registered # 0
    /\ held' = registered
    /\ cancels' = cancels + 1
    /\ UNCHANGED <<network, clock, unfit, round, authority, phase, seen, bundle, outcome>>

(* ... releases the lock, and revokes it.                                  *)
Cancel ==
    /\ held # 0
    /\ revocation' = Revoked(held, "cancelled")
    /\ held' = 0
    /\ UNCHANGED <<network, clock, unfit, round, deadline, registered, cancels, phase, seen,
                   bundle, outcome>>

Tick ==
    /\ clock < MaxClock
    /\ clock' = clock + 1
    /\ UNCHANGED <<network, unfit, round, authority, cancelling, phase, seen, bundle, outcome>>

(* Another agent, an operator, or the expiry of a rule.                    *)
Interfere ==
    /\ changes < MaxChanges
    /\ \E i \in Steps, rule \in Rule :
        /\ rule # rules[i]
        /\ rules' = [rules EXCEPT ![i] = rule]
        /\ touched' = touched \cup {i}
    /\ changes' = changes + 1
    /\ UNCHANGED <<clock, unfit, round, authority, cancelling, phase, seen, bundle, outcome>>

Step(i) ==
    \/ Stop(i) \/ Lose(i) \/ Start(i) \/ Install(i) \/ InstallFails(i)
    \/ Verify(i) \/ VerifyFails(i) \/ Rollback(i)

Decision ==
    \/ Prepare \/ InspectSwitch \/ InspectNothing \/ Answer \/ NoAnswer \/ Recheck
    \/ (\E i \in Steps : Step(i))
    \/ Abort \/ Complete \/ Conclude

Next == Decision \/ FetchAuthority \/ Cancel \/ Tick \/ Interfere

Spec == Init /\ [][Next]_vars

-----------------------------------------------------------------------------
(* While a step is executed, it has started and is the current one.        *)
Executing == phase \in {"running", "verifying", "reverting"} => \E i \in started : Current(i)

(* Types.  A step that is executed is the current one.                     *)
TypeOK ==
    /\ rules \in [Steps -> Rule]
    /\ touched \subseteq Steps /\ changes \in 0 .. MaxChanges
    /\ clock \in 0 .. MaxClock
    /\ unfit \subseteq Steps
    /\ round \in 0 .. MaxRound
    /\ deadline \in Nat
    /\ revocation \in [Rounds -> {"none", "cancelled", "timeout"}]
    /\ registered \in 0 .. round /\ held \in 0 .. round /\ cancels \in 0 .. MaxCancels
    /\ phase \in Phase
    /\ seen \in [Steps -> Reading]
    /\ started \subseteq Steps
    /\ results \in [Steps -> Result]
    /\ halted \in BOOLEAN
    /\ outcome \in [Rounds -> {"open", "no_action", "recovered", "rejected", "failed", "raised"}]
    /\ Executing

Committing == phase \in {"committing", "running", "verifying", "reverting"}

(* A bundle is installed in order and from a prefix: when a step has       *)
(* started, every step before it was found in place or has succeeded.  The *)
(* halts of _finish_prepared and the prefix rule of reconcile_bundle       *)
(* together bring this about, through retries and refusals.                *)
InOrder ==
    Committing => \A i \in started : \A j \in 1 .. i - 1 :
                      seen[j] = "present" \/ results[j] = "succeeded"

(* What is reported of a step is true of the network until somebody else   *)
(* touches its rule: a success is in place, a change that was kept too, a  *)
(* rolled-back one is gone, and a rejected step never started.             *)
ReportsHold ==
    Committing => \A i \in Steps \ touched :
                      /\ results[i] \in {"succeeded", "kept"} => rules[i] = "present"
                      /\ results[i] = "undone" => rules[i] = "missing"
                      /\ results[i] = "rejected" => i \notin started

(* docs/bounded-decision.md:25 says that partial effects of a bundle are   *)
(* not rolled back: a step that succeeded stays in place when a later one  *)
(* fails, unless somebody else touches its rule.                           *)
PartialEffectsStay ==
    Committing => \A i \in Steps \ touched : results[i] = "succeeded" => rules[i] = "present"

(* A decision that ends as a successful recovery leaves every rule in      *)
(* place that nobody else touches after the final inspection has begun,    *)
(* whatever happened between the first inspection, the answer and the      *)
(* actions (record_action_results).                                        *)
RecoveryVerified ==
    phase = "idle" /\ round > 0 /\ outcome[round] = "recovered" =>
        \A i \in Steps \ touched : rules[i] = "present"

(* A step starts only on a rule that is missing, or that somebody else     *)
(* touched after the inspection had begun: a retry repeats no step that is *)
(* in place and overwrites no foreign rule.                                *)
OnlyKnownMissing ==
    [][\A i \in (started' \ started) \ touched : rules[i] = "missing"]_vars

(* No action of a decision starts once its authority has been revoked, by  *)
(* a caller or by the deadline, and the first reason stands; the caller    *)
(* revokes without waiting for the action that runs.                       *)
RevocationFinal ==
    [][/\ \A n \in Rounds : revocation[n] # "none" => revocation'[n] = revocation[n]
       /\ round' = round /\ (clock >= deadline \/ (round > 0 /\ revocation[round] # "none"))
             => started' = started]_vars

-----------------------------------------------------------------------------
(* Nothing has been started, and a decision that is rechecked has found    *)
(* nothing foreign.                                                        *)
Preparing ==
    /\ phase \in {"deciding", "rechecking"} =>
          started = {} /\ ~halted /\ \A i \in Steps : results[i] = "none"
    /\ phase = "rechecking" => \A i \in Steps : seen[i] \in {"present", "missing"}

(* The bookkeeping of the bundle: what was found in place is left alone,   *)
(* and a step in execution is the only one that has started and has no     *)
(* result.                                                                 *)
Bookkeeping ==
    Committing =>
        /\ \A i \in Steps : seen[i] \in {"present", "missing"}
        /\ \A i \in started : seen[i] = "missing"
        /\ \A i \in Steps : results[i] # "none" => seen[i] = "missing"
        /\ ~halted => \A i \in Steps : results[i] \in {"none", "succeeded"}
        /\ phase # "committing" => ~halted
        /\ phase = "committing" => \A i \in started : results[i] # "none"
        /\ \A i \in started : results[i] = "none" => Current(i)

(* What was read is still so, where nobody else and no step has acted.     *)
Fresh ==
    /\ phase \notin {"idle", "confirming"} =>
          \A i \in Steps \ (touched \cup started) : seen[i] = "missing" => rules[i] = "missing"
    /\ phase = "confirming" =>
          \A i \in Steps \ touched : seen[i] = "present" => rules[i] = "present"
    /\ phase = "verifying" =>
          \A i \in Steps \ touched : Current(i) => rules[i] = "present"

IInv == TypeOK /\ Preparing /\ Bookkeeping /\ Fresh /\ InOrder /\ RecoveryVerified
=============================================================================

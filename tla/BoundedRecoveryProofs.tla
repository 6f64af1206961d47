------------------------ MODULE BoundedRecoveryProofs ------------------------
(***************************************************************************)
(* Theorems about BoundedRecovery for bundles of any length, any switches, *)
(* capabilities and bounds.                                                *)
(***************************************************************************)
EXTENDS BoundedRecovery, TLAPS

-----------------------------------------------------------------------------
(* The assumption on the constants, one fact at a time.                    *)
LEMMA ConstantTypes ==
    /\ NSteps \in Nat \ {0} /\ NSteps \in Steps
    /\ DecisionTime \in Nat /\ MaxRound \in Nat /\ MaxClock \in Nat
    /\ MaxChanges \in Nat /\ MaxCancels \in Nat
    /\ Covers \in [Steps -> SUBSET Steps]
BY RecoveryAssumption DEF Steps

(* At most one step is next.                                               *)
LEMMA CurrentUnique ==
    ASSUME NEW i \in Steps, NEW j \in Steps, Current(i), Current(j)
    PROVE  i = j
BY DEF Current, Steps

(* The ways a decision and a step end keep the types.                      *)
LEMMA RevokedType ==
    ASSUME TypeOK, NEW n, NEW reason \in {"cancelled", "timeout"}
    PROVE  Revoked(n, reason) \in [Rounds -> {"none", "cancelled", "timeout"}]
BY DEF TypeOK, Revoked

LEMMA FailsType ==
    ASSUME TypeOK, NEW r \in [Rounds -> {"none", "cancelled", "timeout"}], Fails(r)
    PROVE  TypeOK'
<1>1. phase' \in Phase /\ Executing'
  BY DEF Fails, Ends, Phase, Executing
<1>2. registered' \in 0 .. round
  BY DEF TypeOK, Fails, Released
<1>3. outcome' \in [Rounds -> {"open", "no_action", "recovered", "rejected", "failed", "raised"}]
  BY DEF TypeOK, Fails, Ends
<1> QED BY <1>1, <1>2, <1>3 DEF TypeOK, Fails, network, cancelling, bundle

LEMMA SettledType ==
    ASSUME TypeOK, NEW i \in Steps, NEW result \in Result, Settled(i, result)
    PROVE  /\ phase' \in Phase /\ results' \in [Steps -> Result] /\ halted' \in BOOLEAN
           /\ Executing'
BY DEF TypeOK, Settled, Phase, Executing

-----------------------------------------------------------------------------
(* The type invariant is inductive by itself.                              *)
LEMMA TypeInit == Init => TypeOK
<1> SUFFICES ASSUME Init PROVE TypeOK
  OBVIOUS
<1>1. rules \in [Steps -> Rule] /\ touched \subseteq Steps /\ changes \in 0 .. MaxChanges
  BY ConstantTypes DEF Init, Rule
<1>2. /\ clock \in 0 .. MaxClock /\ unfit \subseteq Steps
      /\ round \in 0 .. MaxRound /\ deadline \in Nat
  BY ConstantTypes DEF Init
<1>3. /\ revocation \in [Rounds -> {"none", "cancelled", "timeout"}]
      /\ registered \in 0 .. round /\ held \in 0 .. round /\ cancels \in 0 .. MaxCancels
      /\ outcome \in [Rounds -> {"open", "no_action", "recovered", "rejected", "failed", "raised"}]
  BY ConstantTypes DEF Init
<1>4. /\ phase \in Phase /\ seen \in [Steps -> Reading] /\ started \subseteq Steps
      /\ results \in [Steps -> Result] /\ halted \in BOOLEAN /\ Executing
  BY DEF Init, Phase, Unread, Reading, Result, Executing
<1> QED BY <1>1, <1>2, <1>3, <1>4 DEF TypeOK

LEMMA TypeStep == ASSUME TypeOK, [Next]_vars PROVE TypeOK'
<1> USE DEF TypeOK, network, authority, cancelling, bundle
<1>1. CASE Prepare
  <2>1. round' \in 0 .. MaxRound /\ registered' \in 0 .. round' /\ held' \in 0 .. round'
    BY <1>1, ConstantTypes DEF Prepare
  <2>2. deadline' \in Nat
    BY <1>1, ConstantTypes DEF Prepare
  <2> QED BY <1>1, <2>1, <2>2 DEF Prepare, Phase, Unread, Reading, Result, Executing
<1>2. CASE InspectSwitch
  BY <1>2 DEF InspectSwitch, Rule, Reading, Executing
<1>3. CASE InspectNothing
  BY <1>3 DEF InspectNothing, Reading, Executing
<1>4. CASE Answer
  <2>1. CASE Authorized /\ phase' = "rechecking"
    BY <1>4, <2>1, ConstantTypes DEF Answer, Phase, Executing, Fails, Ends
  <2>2. CASE Authorized /\ phase' = "idle" /\ UNCHANGED revocation
    BY <1>4, <2>2 DEF Answer, Ends, Released, Fails, Phase, Executing
  <2> QED BY <1>4, <2>1, <2>2, RevokedType, FailsType DEF Answer, Fails, Ends
<1>5. CASE NoAnswer
  BY <1>5, RevokedType, FailsType DEF NoAnswer
<1>6. CASE Recheck
  <2>1. CASE phase' = "committing"
    BY <1>6, <2>1 DEF Recheck, Phase, Executing, Result, Fails, Ends
  <2> QED BY <1>6, <2>1, RevokedType, FailsType DEF Recheck
<1>7. ASSUME NEW i \in Steps, Step(i) PROVE TypeOK'
  <2> USE SettledType DEF Result
  <2>1. CASE Stop(i)
    BY <2>1 DEF Stop
  <2>2. CASE Lose(i)
    BY <2>2 DEF Lose
  <2>3. CASE Start(i) /\ Authorized
    BY <2>3 DEF Start, Phase, Executing, Current, Pending
  <2>4. CASE Start(i) /\ ~Authorized
    BY <2>4, RevokedType DEF Start
  <2>5. CASE Install(i) /\ i \in Checked
    BY <2>5 DEF Install, Rule, Phase, Executing, Current, Pending
  <2>6. CASE Install(i) /\ i \notin Checked
    BY <2>6 DEF Install, Rule
  <2>7. CASE InstallFails(i)
    BY <2>7 DEF InstallFails, Rule
  <2>8. CASE Verify(i)
    BY <2>8 DEF Verify
  <2>9. CASE VerifyFails(i) /\ i \in Reversible
    BY <2>9 DEF VerifyFails, Phase, Executing, Current, Pending
  <2>10. CASE VerifyFails(i) /\ i \notin Reversible
    BY <2>10 DEF VerifyFails
  <2>11. CASE Rollback(i)
    <3>1. rules' \in [Steps -> Rule]
      BY <2>11 DEF Rollback, Removed, Rule
    <3> QED BY <2>11, <3>1 DEF Rollback
  <2> QED BY <1>7, <2>1, <2>2, <2>3, <2>4, <2>5, <2>6, <2>7, <2>8, <2>9, <2>10, <2>11 DEF Step
<1>8. CASE Abort
  <2>1. outcome' \in [Rounds -> {"open", "no_action", "recovered", "rejected", "failed", "raised"}]
    BY <1>8 DEF Abort, Ends
  <2> QED BY <1>8, <2>1, RevokedType DEF Abort, Ends, Phase, Executing
<1>9. CASE Complete
  BY <1>9 DEF Complete, Phase, Unread, Reading, Executing
<1>10. CASE Conclude
  <2>1. PICK how \in {"recovered", "failed", "rejected"} : Ends(how)
    BY <1>10 DEF Conclude
  <2>2. outcome' \in [Rounds -> {"open", "no_action", "recovered", "rejected", "failed", "raised"}]
    BY <2>1 DEF Ends
  <2>3. registered' \in 0 .. round
    BY <1>10 DEF Conclude, Released
  <2> QED BY <1>10, <2>1, <2>2, <2>3 DEF Conclude, Ends, Phase, Executing
<1>11. CASE FetchAuthority
  BY <1>11, ConstantTypes DEF FetchAuthority, Executing, Current, Pending
<1>12. CASE Cancel
  BY <1>12, RevokedType DEF Cancel, Executing, Current, Pending
<1>13. CASE Tick
  BY <1>13, ConstantTypes DEF Tick, Executing, Current, Pending
<1>14. CASE Interfere
  BY <1>14, ConstantTypes DEF Interfere, Executing, Current, Pending
<1>15. CASE UNCHANGED vars
  BY <1>15 DEF vars, Executing, Current, Pending
<1> QED BY <1>1, <1>2, <1>3, <1>4, <1>5, <1>6, <1>7, <1>8, <1>9, <1>10, <1>11, <1>12, <1>13,
           <1>14, <1>15 DEF Next, Decision

-----------------------------------------------------------------------------
(* Before a bundle is committed, nothing of it has started: a decision     *)
(* enters the recheck only from an inspection that reconciled.             *)
LEMMA PrepareStep == ASSUME IInv, [Next]_vars PROVE Preparing'
<1> USE DEF IInv, Preparing, network, authority, cancelling, bundle
<1>1. CASE Prepare
  BY <1>1 DEF Prepare
<1>2. CASE InspectSwitch \/ InspectNothing
  BY <1>2 DEF InspectSwitch, InspectNothing
<1>3. CASE Answer
  <2>1. CASE phase' = "rechecking"
    <3>1. \A j \in Steps : seen[j] \in {"present", "missing"}
      BY <1>3, <2>1 DEF Answer, Fails, Ends, Policy
    <3> QED BY <1>3, <3>1 DEF Answer, Fails, Ends
  <2> QED BY <1>3, <2>1 DEF Answer, Fails, Ends
<1>4. CASE NoAnswer \/ Recheck
  BY <1>4 DEF NoAnswer, Recheck, Fails, Ends
<1>5. ASSUME NEW i \in Steps, Step(i) PROVE Preparing'
  <2>1. phase' \notin {"deciding", "rechecking"}
    BY <1>5 DEF Step, Stop, Lose, Start, Install, InstallFails, Verify, VerifyFails, Rollback,
                Settled
  <2> QED BY <2>1
<1>6. CASE Abort \/ Complete \/ Conclude
  BY <1>6 DEF Abort, Complete, Conclude, Ends
<1>7. CASE FetchAuthority \/ Cancel \/ Tick \/ Interfere \/ UNCHANGED vars
  BY <1>7 DEF FetchAuthority, Cancel, Tick, Interfere, vars
<1> QED BY <1>1, <1>2, <1>3, <1>4, <1>5, <1>6, <1>7 DEF Next, Decision

(* A result for the current step keeps the bookkeeping, whatever it is.    *)
LEMMA SettledBookkeeping ==
    ASSUME IInv, Committing, NEW i \in Steps, Current(i), NEW result \in Result \ {"none"},
           Settled(i, result), UNCHANGED <<seen, started>>
    PROVE  Bookkeeping'
<1>1. /\ phase' = "committing"
      /\ results' = [results EXCEPT ![i] = result]
      /\ halted' = (halted \/ result # "succeeded")
      /\ results \in [Steps -> Result]
      /\ started \subseteq Steps
  BY DEF Settled, IInv, TypeOK
<1>2. seen[i] = "missing" /\ results[i] = "none"
  BY DEF Current, Pending
<1>3. \A j \in started : results'[j] # "none"
  BY <1>1, CurrentUnique DEF IInv, Bookkeeping
<1>4. ~halted' => ~halted /\ result = "succeeded"
  BY <1>1
<1>5. ~halted' => \A j \in Steps : results'[j] \in {"none", "succeeded"}
  BY <1>1, <1>4 DEF IInv, Bookkeeping
<1>6. \A j \in Steps : results'[j] # "none" => seen[j] = "missing"
  BY <1>1, <1>2 DEF IInv, Bookkeeping
<1> QED BY <1>1, <1>3, <1>5, <1>6 DEF IInv, Bookkeeping, Committing

(* The bookkeeping is made by Recheck, and disturbed only by the steps.    *)
LEMMA BookkeepingStep == ASSUME IInv, [Next]_vars PROVE Bookkeeping'
<1> USE DEF IInv, network, authority, cancelling, bundle
<1>1. CASE phase' \notin {"committing", "running", "verifying", "reverting"}
  BY <1>1 DEF Bookkeeping, Committing
<1>2. CASE Recheck /\ phase' = "committing"
  <2>1. \A i \in Steps : seen'[i] \in {"present", "missing"}
    BY <1>2 DEF Recheck, Preparing, Fails, Ends
  <2>2. \A i \in Steps : results'[i] # "none" => i \in unfit /\ seen[i] = "missing"
    BY <1>2 DEF Recheck, Fails, Ends
  <2>3. ~halted' => \A i \in Steps : results'[i] = "none"
    BY <1>2, <2>2 DEF Recheck, Fails, Ends
  <2>4. started' = {} /\ seen' = seen
    BY <1>2 DEF Recheck, Preparing, Fails, Ends
  <2> QED BY <1>2, <2>1, <2>2, <2>3, <2>4 DEF Bookkeeping
<1>3. ASSUME NEW i \in Steps, Step(i) PROVE Bookkeeping'
  <2>1. Committing /\ Current(i)
    BY <1>3 DEF Step, Stop, Lose, Start, Install, InstallFails, Verify, VerifyFails, Rollback,
                Committing
  <2>2. CASE \E result \in Result \ {"none"} : Settled(i, result) /\ UNCHANGED <<seen, started>>
    BY <2>1, <2>2, SettledBookkeeping
  <2>3. CASE Start(i) /\ Authorized
    <3>1. /\ phase = "committing" /\ Current(i) /\ ~halted
          /\ phase' = "running" /\ started' = started \cup {i}
          /\ UNCHANGED <<seen, results, halted>>
      BY <2>3 DEF Start
    <3>2. seen[i] = "missing" /\ results[i] = "none" /\ Current(i)'
      BY <3>1 DEF Current, Pending
    <3>3. \A j \in started : results[j] # "none" /\ seen[j] = "missing"
      BY <3>1 DEF Bookkeeping, Committing
    <3> QED BY <3>1, <3>2, <3>3 DEF Bookkeeping, Committing
  <2>4. CASE phase' \in {"verifying", "reverting"}
    <3>1. /\ phase \in {"running", "verifying"}
          /\ UNCHANGED <<seen, results, halted, started>>
      BY <1>3, <2>4 DEF Step, Stop, Lose, Start, Install, InstallFails, Verify, VerifyFails,
                        Rollback, Settled
    <3>2. \A j \in Steps : Current(j)' = Current(j)
      BY <3>1 DEF Current, Pending
    <3>3. started \subseteq Steps
      BY DEF TypeOK
    <3> QED BY <2>4, <3>1, <3>2, <3>3 DEF Bookkeeping, Committing
  <2> QED BY <1>3, <2>2, <2>3, <2>4
          DEF Step, Stop, Lose, Start, Install, InstallFails, Verify, VerifyFails, Rollback,
              Result
<1>4. CASE FetchAuthority \/ Cancel \/ Tick \/ Interfere \/ UNCHANGED vars
  BY <1>4 DEF FetchAuthority, Cancel, Tick, Interfere, vars, Bookkeeping, Committing, Current,
              Pending
<1>5. CASE Prepare \/ InspectSwitch \/ InspectNothing \/ Answer \/ NoAnswer \/ Recheck \/ Abort
           \/ Complete \/ Conclude
  BY <1>1, <1>2, <1>5 DEF Prepare, InspectSwitch, InspectNothing, Answer, NoAnswer, Recheck,
                          Abort, Complete, Conclude, Fails, Ends
<1> QED BY <1>3, <1>4, <1>5 DEF Next, Decision

(* Only Start adds a step, and the halt has kept every step before it to   *)
(* success: this is where InOrder needs the bookkeeping.                   *)
LEMMA OrderStep == ASSUME IInv, [Next]_vars PROVE InOrder'
<1> USE DEF IInv, network, authority, cancelling, bundle
<1>1. CASE phase' \notin {"committing", "running", "verifying", "reverting"}
  BY <1>1 DEF InOrder, Committing
<1>2. CASE Recheck
  BY <1>2 DEF Recheck, Preparing, Fails, Ends, InOrder
<1>3. ASSUME NEW i \in Steps, Step(i) PROVE InOrder'
  <2>1. Committing /\ Current(i) /\ seen' = seen
    BY <1>3 DEF Step, Stop, Lose, Start, Install, InstallFails, Verify, VerifyFails, Rollback,
                Committing
  <2>2. results[i] = "none" /\ seen[i] = "missing"
    BY <2>1 DEF Current, Pending
  <2>3. results' = results \/ \E result \in Result : results' = [results EXCEPT ![i] = result]
    BY <1>3 DEF Step, Stop, Lose, Start, Install, InstallFails, Verify, VerifyFails, Rollback,
                Settled, Result
  <2>4. \A j \in Steps : results[j] = "succeeded" => results'[j] = "succeeded"
    BY <2>2, <2>3 DEF TypeOK
  <2>5. \A k \in Steps : \A j \in 1 .. k - 1 : j \in Steps /\ j < k
    BY ConstantTypes DEF Steps
  <2>6. CASE Start(i) /\ Authorized
    <3> SUFFICES ASSUME NEW k \in started \cup {i}, NEW j \in 1 .. k - 1
                 PROVE  seen[j] = "present" \/ results[j] = "succeeded"
      BY <2>6, <2>1 DEF Start, InOrder
    <3>1. CASE k \in started
      BY <2>1, <3>1 DEF InOrder
    <3>2. CASE k = i
      <4>1. j \in Steps /\ j < i
        BY <2>5, <3>2
      <4>2. j \notin Pending
        BY <2>1, <4>1 DEF Current, Steps
      <4> QED BY <2>1, <2>6, <4>1, <4>2 DEF Start, Pending, Bookkeeping
    <3> QED BY <3>1, <3>2
  <2>7. CASE started' = started
    BY <2>1, <2>4, <2>5, <2>7 DEF InOrder, TypeOK
  <2> QED BY <1>3, <2>6, <2>7
          DEF Step, Stop, Lose, Start, Install, InstallFails, Verify, VerifyFails, Rollback
<1>4. CASE FetchAuthority \/ Cancel \/ Tick \/ Interfere \/ UNCHANGED vars
  BY <1>4 DEF FetchAuthority, Cancel, Tick, Interfere, vars, InOrder, Committing
<1>5. CASE Prepare \/ InspectSwitch \/ InspectNothing \/ Answer \/ NoAnswer \/ Abort
           \/ Complete \/ Conclude
  BY <1>1, <1>5 DEF Prepare, InspectSwitch, InspectNothing, Answer, NoAnswer, Abort, Complete,
                    Conclude, Fails, Ends
<1> QED BY <1>2, <1>3, <1>4, <1>5 DEF Next, Decision

(* A reading outlives every step of the bundle but the ones it is about;   *)
(* only an outside change, which is then in touched, makes it stale.       *)
LEMMA FreshStep == ASSUME IInv, [Next]_vars PROVE Fresh'
<1> USE DEF IInv, network, authority, cancelling, bundle
<1>1. CASE Prepare
  BY <1>1 DEF Prepare, Unread, Fresh
<1>2. CASE InspectSwitch
  BY <1>2 DEF InspectSwitch, Fresh
<1>3. CASE InspectNothing
  BY <1>3 DEF InspectNothing, Fresh
<1>4. CASE Answer \/ NoAnswer
  BY <1>4 DEF Answer, NoAnswer, Fails, Ends, Fresh
<1>5. CASE Recheck
  <2>1. \/ phase' = "idle"
        \/ phase = "rechecking" /\ phase' = "committing"
             /\ UNCHANGED <<rules, touched, started, seen>>
    BY <1>5 DEF Recheck, Fails, Ends
  <2> QED BY <2>1 DEF Fresh
<1>6. ASSUME NEW i \in Steps, Step(i) PROVE Fresh'
  <2>1. /\ Committing /\ Current(i) /\ UNCHANGED <<seen, touched>>
        /\ phase' \in {"committing", "running", "verifying", "reverting"}
        /\ started \subseteq started' /\ started' \subseteq Steps
    BY <1>6 DEF Step, Stop, Lose, Start, Install, InstallFails, Verify, VerifyFails, Rollback,
                Settled, Committing, TypeOK
  <2>2. phase # "committing" => i \in started
    BY <2>1, CurrentUnique DEF TypeOK, Executing, Committing
  <2>3. \A j \in Steps \ started' : rules[j] = "missing" => rules'[j] = "missing"
    BY <1>6, <2>1, <2>2
    DEF Step, Stop, Lose, Start, Install, InstallFails, Verify, VerifyFails, Rollback, Removed,
        TypeOK
  <2>4. \A j \in Steps \ (touched' \cup started') : seen'[j] = "missing" => rules'[j] = "missing"
    BY <2>1, <2>3 DEF Fresh, Committing
  <2>5. ASSUME phase' = "verifying", NEW j \in Steps, Current(j)'
        PROVE  rules'[j] = "present"
    <3>1. Install(i) /\ UNCHANGED <<seen, results>>
      BY <1>6, <2>5 DEF Step, Stop, Lose, Start, Install, InstallFails, Verify, VerifyFails,
                        Rollback, Settled
    <3>2. Current(j)
      BY <2>5, <3>1 DEF Current, Pending
    <3>3. j = i
      BY <2>1, <3>2, CurrentUnique
    <3> QED BY <3>1, <3>3 DEF Install, TypeOK
  <2> QED BY <2>1, <2>4, <2>5 DEF Fresh
<1>7. CASE Abort
  BY <1>7 DEF Abort, Ends, Fresh
<1>8. CASE Complete
  BY <1>8 DEF Complete, Unread, Fresh
<1>9. CASE Conclude
  BY <1>9 DEF Conclude, Ends, Fresh
<1>10. CASE FetchAuthority \/ Cancel \/ Tick \/ UNCHANGED vars
  BY <1>10 DEF FetchAuthority, Cancel, Tick, vars, Fresh, Current, Pending
<1>11. CASE Interfere
  BY <1>11 DEF Interfere, Fresh, Current, Pending, TypeOK
<1> QED BY <1>1, <1>2, <1>3, <1>4, <1>5, <1>6, <1>7, <1>8, <1>9, <1>10, <1>11 DEF Next, Decision

(* Only Conclude reports a recovery, from a final reading that is fresh.   *)
LEMMA VerifiedStep == ASSUME IInv, [Next]_vars PROVE RecoveryVerified'
<1> USE DEF IInv, network, authority, cancelling, bundle
<1>1. CASE phase' # "idle"
  BY <1>1 DEF RecoveryVerified
<1>2. CASE /\ phase' = "idle" /\ round' = round
           /\ \E how \in {"no_action", "rejected", "failed", "raised"} : Ends(how)
  BY <1>2 DEF RecoveryVerified, Ends, TypeOK, Rounds
<1>3. CASE Conclude /\ outcome' = [outcome EXCEPT ![round] = "recovered"]
  <2> SUFFICES ASSUME round \in Rounds, NEW i \in Steps \ touched PROVE rules[i] = "present"
    BY <1>3, ConstantTypes DEF RecoveryVerified, Conclude, TypeOK, Rounds
  <2>1. outcome'[round] = "recovered"
    BY <1>3 DEF TypeOK
  <2>2. Policy(seen) = "verified-recovery"
    BY <1>3, <2>1 DEF Conclude, Ends, TypeOK
  <2>3. seen[i] = "present"
    BY <2>2 DEF Policy
  <2> QED BY <1>3, <2>3 DEF Conclude, Fresh
<1>4. CASE Answer \/ NoAnswer \/ Recheck
  BY <1>1, <1>2, <1>4 DEF Answer, NoAnswer, Recheck, Fails, Ends
<1>5. CASE Conclude
  <2>1. \E how \in {"recovered", "rejected", "failed"} : Ends(how)
    BY <1>5 DEF Conclude
  <2> QED BY <1>2, <1>3, <1>5, <2>1 DEF Conclude, Ends
<1>6. CASE Abort
  BY <1>2, <1>6 DEF Abort, Ends
<1>7. CASE Prepare \/ InspectSwitch \/ InspectNothing \/ Complete \/ \E i \in Steps : Step(i)
  BY <1>1, <1>7 DEF Prepare, InspectSwitch, InspectNothing, Complete, Step, Stop, Lose, Start,
                    Install, InstallFails, Verify, VerifyFails, Rollback, Settled
<1>8. CASE FetchAuthority \/ Cancel \/ Tick \/ UNCHANGED vars
  BY <1>8 DEF FetchAuthority, Cancel, Tick, vars, RecoveryVerified
<1>9. CASE Interfere
  BY <1>9 DEF Interfere, RecoveryVerified, TypeOK
<1> QED BY <1>4, <1>5, <1>6, <1>7, <1>8, <1>9 DEF Next, Decision

-----------------------------------------------------------------------------
(* The inductive invariant.                                                *)
LEMMA InitInvariant == Init => IInv
BY TypeInit DEF Init, IInv, Preparing, Bookkeeping, Fresh, InOrder, RecoveryVerified, Committing

LEMMA Invariance == Spec => []IInv
<1>1. IInv /\ [Next]_vars => IInv'
  BY TypeStep, PrepareStep, BookkeepingStep, OrderStep, FreshStep, VerifiedStep DEF IInv
<1> QED BY <1>1, InitInvariant, PTL DEF Spec

(* Types, for every length of the bundle and every bound.                  *)
THEOREM TypeCorrect == Spec => []TypeOK
BY Invariance, PTL DEF IInv

(* A bundle is installed in order, past no missing or failed step: the     *)
(* prefix rule of reconcile_bundle and the halts of _finish_prepared.      *)
THEOREM BundleInOrder == Spec => []InOrder
BY Invariance, PTL DEF IInv

(* A reported recovery has every rule in place: record_action_results      *)
(* believes the final inspection, not the results of the steps.            *)
THEOREM RecoveryIsVerified == Spec => []RecoveryVerified
BY Invariance, PTL DEF IInv

(* A step starts only on a rule known to be missing: reconcile_bundle's    *)
(* remainder is exactly what Start draws from, and readings stay fresh.    *)
THEOREM StepsKnownMissing == Spec => OnlyKnownMissing
<1>1. ASSUME IInv, [Next]_vars
      PROVE  [\A i \in (started' \ started) \ touched : rules[i] = "missing"]_vars
  <2>1. \A i \in started' \ started : i \in Steps /\ Start(i)
    BY <1>1
    DEF IInv, TypeOK, Next, Decision, Step, Prepare, InspectSwitch, InspectNothing, Answer,
       NoAnswer, Recheck, Stop, Lose, Start, Install, InstallFails, Verify, VerifyFails, Rollback,
       Abort, Complete, Conclude, Fails, FetchAuthority, Cancel, Tick, Interfere, vars, network,
       bundle
  <2> QED BY <1>1, <2>1 DEF Start, Current, Pending, Committing, Bookkeeping, IInv, Fresh
<1> QED BY <1>1, Invariance, PTL DEF Spec, OnlyKnownMissing

(* A revoked or overdue decision starts nothing more, and keeps the first  *)
(* reason: execute_if_authorized and cancel_local exclude one another.     *)
THEOREM RevocationsFinal == Spec => RevocationFinal
<1>1. ASSUME IInv, [Next]_vars
      PROVE  /\ \A n \in Rounds : revocation[n] # "none" => revocation'[n] = revocation[n]
             /\ round' = round /\ (clock >= deadline \/ (round > 0 /\ revocation[round] # "none"))
                   => started' = started
  <2>1. \A n \in Rounds : revocation[n] # "none" => revocation'[n] = revocation[n]
    BY <1>1
    DEF IInv, TypeOK, Next, Decision, Step, Prepare, InspectSwitch, InspectNothing, Answer,
       NoAnswer, Recheck, Stop, Lose, Start, Install, InstallFails, Verify, VerifyFails, Rollback,
       Abort, Complete, Conclude, Fails, Revoked, FetchAuthority, Cancel, Tick, Interfere, vars,
       authority
  <2>2. started' # started => (\E i \in Steps : Start(i) /\ Authorized) \/ round' = round + 1
    BY <1>1
    DEF Next, Decision, Step, Prepare, InspectSwitch, InspectNothing, Answer, NoAnswer, Recheck,
        Stop, Lose, Start, Install, InstallFails, Verify, VerifyFails, Rollback,
       Abort, Complete, Conclude, Fails, FetchAuthority, Cancel, Tick, Interfere, vars, bundle
  <2>3. clock \in Nat /\ deadline \in Nat /\ round \in Nat
    BY <1>1 DEF IInv, TypeOK
  <2> QED BY <2>1, <2>2, <2>3 DEF Authorized
<1> QED BY <1>1, Invariance, PTL DEF Spec, RevocationFinal

-----------------------------------------------------------------------------
(* No removal by the match of one step takes away the rule of another.  The *)
(* code does not ensure this: PartialEffectsStay fails without it.         *)
Apart == \A i \in Steps : Covers[i] = {i}

(* With it, a rollback changes no rule but its own.                        *)
LEMMA ReportsStep == ASSUME Apart, IInv, ReportsHold, [Next]_vars PROVE ReportsHold'
<1> USE DEF IInv, network, authority, cancelling, bundle
<1>1. CASE phase' \notin {"committing", "running", "verifying", "reverting"}
  BY <1>1 DEF ReportsHold, Committing
<1>2. CASE Recheck
  <2>1. CASE phase' = "committing"
    <3>1. started' = {} /\ \A i \in Steps : results'[i] \in {"none", "rejected"}
      BY <1>2, <2>1 DEF Recheck, Preparing, Fails, Ends
    <3> QED BY <3>1 DEF ReportsHold
  <2> QED BY <1>1, <1>2, <2>1 DEF Recheck, Fails, Ends
<1>3. ASSUME NEW i \in Steps, Step(i) PROVE ReportsHold'
  <2>1. Committing /\ Current(i) /\ UNCHANGED <<seen, touched>> /\ results[i] = "none"
    BY <1>3 DEF Step, Stop, Lose, Start, Install, InstallFails, Verify, VerifyFails, Rollback,
                Committing, Current, Pending
  <2>2. \A j \in Steps \ {i} : results'[j] = results[j] /\ rules'[j] = rules[j]
                                 /\ (j \in started' <=> j \in started)
    BY <1>3 DEF Step, Stop, Lose, Start, Install, InstallFails, Verify, VerifyFails, Rollback,
                Settled, Removed, Apart, TypeOK
  <2>3. results'[i] = "rejected" => i \notin started'
    BY <1>3, <2>1 DEF Step, Stop, Lose, Start, Install, InstallFails, Verify, VerifyFails,
                      Rollback, Settled, TypeOK, Bookkeeping
  <2>4. results'[i] = "undone" => rules'[i] = "missing"
    BY <1>3, <2>1 DEF Step, Stop, Lose, Start, Install, InstallFails, Verify, VerifyFails,
                      Rollback, Settled, TypeOK, Removed, Apart
  <2>5. i \notin touched /\ results'[i] \in {"succeeded", "kept"} => rules'[i] = "present"
    BY <1>3, <2>1 DEF Step, Stop, Lose, Start, Install, InstallFails, Verify, VerifyFails,
                      Rollback, Settled, TypeOK, Fresh
  <2> QED BY <2>1, <2>2, <2>3, <2>4, <2>5 DEF ReportsHold, Committing
<1>4. CASE Interfere
  BY <1>4 DEF Interfere, ReportsHold, Committing, TypeOK
<1>5. CASE FetchAuthority \/ Cancel \/ Tick \/ UNCHANGED vars
  BY <1>5 DEF FetchAuthority, Cancel, Tick, vars, ReportsHold, Committing
<1>6. CASE Prepare \/ InspectSwitch \/ InspectNothing \/ Answer \/ NoAnswer \/ Abort
           \/ Complete \/ Conclude
  BY <1>1, <1>6 DEF Prepare, InspectSwitch, InspectNothing, Answer, NoAnswer, Abort, Complete,
                    Conclude, Fails, Ends
<1> QED BY <1>2, <1>3, <1>4, <1>5, <1>6 DEF Next, Decision

(* What _verify_effect and _rollback report of a step is true of the network *)
(* as long as nobody else touches its rule, for bundles whose matches are  *)
(* apart.                                                                  *)
THEOREM ReportsTrue == ASSUME Apart PROVE Spec => []ReportsHold
<1>1. Init => ReportsHold
  BY DEF Init, ReportsHold, Committing
<1>2. IInv /\ ReportsHold /\ [Next]_vars => ReportsHold'
  BY ReportsStep
<1> QED BY <1>1, <1>2, Invariance, PTL DEF Spec
=============================================================================

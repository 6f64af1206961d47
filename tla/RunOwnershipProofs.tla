------------------------- MODULE RunOwnershipProofs -------------------------
(***************************************************************************)
(* Theorems about RunOwnership for any owners, callers, host processes and *)
(* any number of crashes and failures.                                     *)
(***************************************************************************)
EXTENDS RunOwnership, TLAPS

-----------------------------------------------------------------------------
LEMMA InitInvariant == Init => OwnershipInv
<1> SUFFICES ASSUME Init PROVE OwnershipInv
  OBVIOUS
<1> USE OwnershipAssumption DEF Init, NoRecord, Idle
<1>1. TypeOK
  BY DEF TypeOK, OwnerStates, RecordStates, CallStates, Results
<1>2. LockIsHeld /\ NetworkIsRecorded /\ RecoversAlone
  BY DEF LockIsHeld, Holding, Recovering, NetworkIsRecorded, RecoversAlone
<1>3. OwnerFollowsRecord /\ CallerFollowsRecord
  BY DEF OwnerFollowsRecord, CallerFollowsRecord
<1> QED BY <1>1, <1>2, <1>3 DEF OwnershipInv

(* A caller that moves on, with at most the lock taken, and that is not in *)
(* the middle of a recovery afterwards, keeps the invariant.               *)
LEMMA CallerGoes ==
    ASSUME OwnershipInv, NEW c \in Callers, NEW at \in CallStates, At(c, at),
           call[c].at # "idle", call[c].result # "stopped", at \notin {"idle", "release"},
           UNCHANGED <<record, stopped, network, live, op, pc, asked>>,
           faults' \in 0..MaxFaults,
           \/ lock' = lock
           \/ lock = NoOne /\ lock' = c
           \/ lock = c /\ lock' = NoOne,
           at \in Recovering \cup {"probing", "viewing"} => lock' = c,
           at \in {"kill", "delete", "record", "clear"} =>
               /\ at = "kill"
               /\ record.run = call[c].run
               /\ pc[record.run] \in Ended \cup {"leaving"}
    PROVE  OwnershipInv'
<1> USE OwnershipAssumption
<1>0. /\ call' \in [Callers -> [at : CallStates, run : Owners \cup {NoOne},
                                result : Results]]
      /\ call'[c].at = at /\ call'[c].run = call[c].run /\ call'[c].result = call[c].result
      /\ \A d \in Callers \ {c} : call'[d] = call[d]
  BY DEF At, OwnershipInv, TypeOK
<1>1. TypeOK'
  BY <1>0 DEF OwnershipInv, TypeOK
<1>2. LockIsHeld'
  BY <1>0 DEF OwnershipInv, TypeOK, LockIsHeld, Holding, Recovering, Ended
<1>3. OwnerFollowsRecord' /\ NetworkIsRecorded'
  BY DEF OwnershipInv, OwnerFollowsRecord, NetworkIsRecorded, NoRecord
<1>4. RecoversAlone'
  BY <1>0 DEF OwnershipInv, LockIsHeld, RecoversAlone, Recovering
<1>5. CallerFollowsRecord'
  BY <1>0 DEF OwnershipInv, CallerFollowsRecord, Over
<1> QED BY <1>1, <1>2, <1>3, <1>4, <1>5 DEF OwnershipInv

(* So does a caller that ends, with at most the lock released.             *)
LEMMA CallerEnds ==
    ASSUME OwnershipInv, NEW c \in Callers, NEW result \in Results, Ends(c, result),
           call[c].at # "idle",
           UNCHANGED <<record, stopped, network, live, op, pc, asked>>,
           faults' \in 0..MaxFaults,
           \/ lock' = lock
           \/ lock = c /\ lock' = NoOne,
           result = "stopped" => Over(call[c].run)
    PROVE  OwnershipInv'
<1> USE OwnershipAssumption
<1>0. /\ call' \in [Callers -> [at : CallStates, run : Owners \cup {NoOne},
                                result : Results]]
      /\ call'[c].at = "done" /\ call'[c].run = call[c].run /\ call'[c].result = result
      /\ \A d \in Callers \ {c} : call'[d] = call[d]
  <2>1. /\ call \in [Callers -> [at : CallStates, run : Owners \cup {NoOne}, result : Results]]
        /\ "done" \in CallStates
    BY DEF OwnershipInv, TypeOK, CallStates
  <2>2. call' = [call EXCEPT ![c] = [@ EXCEPT !.at = "done", !.result = result]]
    BY DEF Ends
  <2> QED BY <2>1, <2>2
<1>1. TypeOK'
  BY <1>0 DEF OwnershipInv, TypeOK
<1>2. LockIsHeld'
  BY <1>0 DEF OwnershipInv, TypeOK, LockIsHeld, Holding, Recovering, Ended
<1>3. OwnerFollowsRecord' /\ NetworkIsRecorded'
  BY DEF OwnershipInv, OwnerFollowsRecord, NetworkIsRecorded, NoRecord
<1>4. RecoversAlone'
  BY <1>0 DEF OwnershipInv, LockIsHeld, RecoversAlone, Recovering
<1>5. CallerFollowsRecord'
  BY <1>0 DEF OwnershipInv, CallerFollowsRecord, Over
<1> QED BY <1>1, <1>2, <1>3, <1>4, <1>5 DEF OwnershipInv

(* What an owner does of itself.                                           *)
LEMMA OwnerPreserves ==
    ASSUME OwnershipInv, NEW o \in Owners, OwnerStep(o)
    PROVE  OwnershipInv'
<1> USE OwnershipAssumption DEF OwnershipInv, TypeOK, LockIsHeld, OwnerFollowsRecord,
        NetworkIsRecorded, RecoversAlone, CallerFollowsRecord, Over, Holding, Recovering,
        OwnerStates, RecordStates, Latched, Ended, NoRecord, WriteRecord, Fault, Goto
<1>1. CASE RecordClaim(o)
  BY <1>1, SMTT(30) DEF RecordClaim
<1>2. CASE Build(o)
  BY <1>2, SMTT(30) DEF Build
<1>3. CASE Start(o)
  BY <1>3, SMTT(30) DEF Start
<1>4. CASE SettleFailedDeploy(o)
  BY <1>4, SMTT(30) DEF SettleFailedDeploy
<1>5. CASE BeginTeardown(o)
  BY <1>5, SMTT(30) DEF BeginTeardown, OwnedPids, Idle
<1>6. CASE LeaveUndone(o)
  BY <1>6, SMTT(30) DEF LeaveUndone, Idle
<1>7. CASE TearDown(o)
  BY <1>7, SMTT(30) DEF TearDown, OwnedPids
<1>8. CASE RecordStopped(o)
  BY <1>8, SMTT(30) DEF RecordStopped
<1>9. CASE ClearRecord(o)
  BY <1>9, SMTT(30) DEF ClearRecord
<1>10. CASE Release(o)
  BY <1>10, SMTT(30) DEF Release
<1>11. CASE Exit(o)
  BY <1>11, SMTT(30) DEF Exit, Freed
<1> QED BY <1>1, <1>2, <1>3, <1>4, <1>5, <1>6, <1>7, <1>8, <1>9, <1>10, <1>11 DEF OwnerStep

(* What the world does to an owner.                                        *)
LEMMA OwnerDisturbed ==
    ASSUME OwnershipInv, NEW o \in Owners,
           Claim(o) \/ DeployFails(o) \/ Interrupt(o) \/ Crash(o)
    PROVE  OwnershipInv'
<1> USE OwnershipAssumption DEF OwnershipInv, TypeOK, LockIsHeld, OwnerFollowsRecord,
        NetworkIsRecorded, RecoversAlone, CallerFollowsRecord, Over, Holding, Recovering,
        OwnerStates, RecordStates, Latched, Ended, NoRecord, WriteRecord, Fault, Goto
<1>1. CASE Claim(o)
  BY <1>1, SMTT(30) DEF Claim
<1>2. CASE DeployFails(o)
  BY <1>2, SMTT(30) DEF DeployFails
<1>3. CASE Interrupt(o)
  BY <1>3, SMTT(30) DEF Interrupt
<1>4. CASE Crash(o)
  BY <1>4, SMTT(30) DEF Crash, IsAlive, Dies, Freed, Idle
<1> QED BY <1>1, <1>2, <1>3, <1>4

(* Host processes and the threads that record them.                        *)
LEMMA ProcessesPreserve ==
    ASSUME OwnershipInv,
           \/ \E o \in Owners, p \in Procs :
                  Threads(o, p) \/ StartProcess(o, p) \/ StopProcess(o, p)
           \/ \E p \in Procs : ProcessEnds(p)
    PROVE  OwnershipInv'
<1> USE OwnershipAssumption DEF OwnershipInv, TypeOK, LockIsHeld, OwnerFollowsRecord,
        NetworkIsRecorded, RecoversAlone, CallerFollowsRecord, Over, Holding, Recovering,
        OwnerStates, RecordStates, Latched, Ended, NoRecord, WriteRecord, Fault, Goto
<1>1. ASSUME NEW o \in Owners, NEW p \in Procs, StartProcess(o, p)
     PROVE  OwnershipInv'
  BY <1>1, SMTT(30) DEF StartProcess, OwnedPids, Idle
<1>2. ASSUME NEW o \in Owners, NEW p \in Procs, StopProcess(o, p)
     PROVE  OwnershipInv'
  BY <1>2, SMTT(30) DEF StopProcess, OwnedPids, Idle
<1>3. ASSUME NEW o \in Owners, NEW p \in Procs, CompareProcesses(o, p)
     PROVE  OwnershipInv'
  BY <1>3, SMTT(30) DEF CompareProcesses, OwnedPids, Idle
<1>4. ASSUME NEW o \in Owners, NEW p \in Procs, RecordProcesses(o, p)
     PROVE  OwnershipInv'
  BY <1>4, SMTT(30) DEF RecordProcesses, OwnedPids, Idle
<1>5. ASSUME NEW p \in Procs, ProcessEnds(p)
     PROVE  OwnershipInv'
  BY <1>5, SMTT(30) DEF ProcessEnds
<1> QED BY <1>1, <1>2, <1>3, <1>4, <1>5 DEF Threads

(* A caller reads the record.                                              *)
LEMMA LookPreserves ==
    ASSUME OwnershipInv, NEW c \in Callers, NEW r \in Owners,
           Look(c, r, "stop") \/ Look(c, r, "status")
    PROVE  OwnershipInv'
<1> USE OwnershipAssumption DEF OwnershipInv, TypeOK, LockIsHeld, OwnerFollowsRecord,
        NetworkIsRecorded, RecoversAlone, CallerFollowsRecord, Over, Holding, Recovering,
        OwnerStates, RecordStates, Latched, Ended, NoRecord, WriteRecord, Fault, Goto
<1> USE DEF CallStates, Results
<1>1. PICK at \in CallStates \ (Recovering \cup {"probing", "viewing", "idle"}),
           result \in Results \ {"stopped"} :
         call' = [call EXCEPT ![c] = [at |-> at, run |-> r, result |-> result]]
  BY DEF Look
<1>2. UNCHANGED <<lock, record, stopped, network, live, op, pc, asked, faults>>
  BY DEF Look
<1> QED BY <1>1, <1>2, SMTT(30)

(* What a caller does of itself, and what may happen to it.                *)
LEMMA CallerPreserves ==
    ASSUME OwnershipInv, NEW c \in Callers,
           CallerStep(c) \/ TimeOut(c) \/ RecoveryFails(c) \/ CallerDies(c)
    PROVE  OwnershipInv'
<1>0. /\ call[c].at \in CallStates /\ call[c].result \in Results
      /\ faults \in 0..MaxFaults /\ call[c].run \in Owners \cup {NoOne}
      /\ faults < MaxFaults => faults + 1 \in 0..MaxFaults
      /\ call[c].result = "stopped" => call[c].at = "done"
  BY OwnershipAssumption DEF OwnershipInv, TypeOK, CallerFollowsRecord
<1>1. CASE Probe(c)
  <2>1. CASE lock # NoOne /\ call[c].at = "status"
    <3>1. Ends(c, "inspected")
      BY <1>1, <2>1 DEF Probe
    <3> QED BY <1>0, <1>1, <2>1, <3>1, CallerEnds DEF Probe, Results
  <2>2. CASE lock = NoOne \/ call[c].at # "status"
    BY <1>0, <1>1, <2>2, CallerGoes DEF Probe, CallStates, Recovering
  <2> QED BY <2>1, <2>2
<1>2. CASE EndProbe(c)
  BY <1>0, <1>2, CallerGoes, CallerEnds DEF EndProbe, OwnershipInv, LockIsHeld, CallStates, Results,
        Recovering
<1>3. CASE Signal(c)
  <2> DEFINE r == call[c].run
  <2>1. CASE ~IsAlive(r)
    BY <1>0, <1>3, <2>1, CallerGoes, CallerEnds DEF Signal, CallStates, Recovering
  <2>2. CASE IsAlive(r) /\ pc[r] \in Latched
    <3>1. call' = [call EXCEPT ![c].at = "poll"] /\ asked' \in SUBSET Owners
      BY <1>3, <2>2 DEF Signal, At, OwnershipInv, TypeOK, CallerFollowsRecord
    <3>2. UNCHANGED <<lock, record, stopped, network, live, op, pc, faults>>
      BY <1>3, <2>2 DEF Signal
    <3> QED BY <1>0, <1>3, <3>1, <3>2, SMTT(30) DEF Signal, OwnershipInv, TypeOK, LockIsHeld,
          OwnerFollowsRecord, NetworkIsRecorded, RecoversAlone, CallerFollowsRecord, Over,
          CallStates, Recovering
  <2>3. CASE IsAlive(r) /\ pc[r] \notin Latched
    <3>1. /\ call' = [call EXCEPT ![c].at = "poll"] /\ r \in Owners
          /\ lock' = Freed(r) /\ pc' = [pc EXCEPT ![r] = "gone"]
          /\ op' = IF pc[r] = "running" THEN [p \in Procs |-> Idle] ELSE op
          /\ UNCHANGED <<record, stopped, network, live, asked, faults>>
      BY <1>3, <2>3 DEF Signal, Dies, Goto, At, OwnershipInv, CallerFollowsRecord
    <3> QED BY <1>0, <1>3, <2>3, <3>1, SMTT(60), OwnershipAssumption DEF Freed, Signal,
          OwnershipInv, TypeOK, LockIsHeld, OwnerFollowsRecord, NetworkIsRecorded,
          RecoversAlone, CallerFollowsRecord, Over, CallStates, Recovering, Ended, Latched,
          OwnerStates, Holding, Idle
  <2> QED BY <2>1, <2>2, <2>3
<1>4. CASE Poll(c)
  <2>1. CASE At(c, "recover")
    BY <1>0, <1>4, <2>1, CallerGoes, CallerEnds DEF Poll, CallStates, Recovering
  <2>2. CASE Ends(c, "changed")
    BY <1>0, <1>4, <2>2, CallerEnds DEF Poll, Results
  <2> QED BY <1>4, <2>1, <2>2 DEF Poll
<1>5. CASE Recover(c)
  <2>1. CASE lock # NoOne
    <3>1. Ends(c, "active")
      BY <1>5, <2>1 DEF Recover
    <3> QED BY <1>0, <1>5, <2>1, <3>1, CallerEnds DEF Recover, Results
  <2>2. CASE lock = NoOne /\ record.run # call[c].run
    BY <1>0, <1>5, <2>2, CallerGoes, CallerEnds DEF Recover, CallStates, Recovering
  <2>3. CASE lock = NoOne /\ record.run = call[c].run
    <3>1. record.run \in Owners /\ pc[record.run] \in Ended \cup {"leaving"}
      BY <1>5, <2>3, OwnershipAssumption DEF Recover, OwnershipInv, TypeOK, LockIsHeld,
         OwnerFollowsRecord, CallerFollowsRecord, Holding, OwnerStates
    <3> QED BY <1>0, <1>5, <2>3, <3>1, CallerGoes, CallerEnds DEF Recover, CallStates, Recovering
  <2> QED BY <2>1, <2>2, <2>3
<1>6. CASE Repeat(c)
  <2>1. lock = c
    BY <1>6 DEF Repeat, OwnershipInv, LockIsHeld, Recovering
  <2>2. CASE record = NoRecord /\ stopped = call[c].run
    <3>1. Over(call[c].run)
      BY <1>6, <2>2, OwnershipAssumption DEF Repeat, OwnershipInv, CallerFollowsRecord
    <3> QED BY <1>0, <1>6, <2>1, <2>2, <3>1, CallerGoes, CallerEnds DEF Repeat, CallStates, Results, Recovering
  <2>3. CASE ~(record = NoRecord /\ stopped = call[c].run)
    BY <1>0, <1>6, <2>1, <2>3, CallerGoes, CallerEnds DEF Repeat, CallStates, Results, Recovering
  <2> QED BY <2>2, <2>3
<1>7. CASE KillGroups(c)
  BY <1>7, SMTT(30), OwnershipAssumption DEF KillGroups, At, Ends, OwnershipInv, TypeOK, LockIsHeld,
     OwnerFollowsRecord, NetworkIsRecorded, RecoversAlone, CallerFollowsRecord, Over,
     Holding, Recovering, OwnerStates, CallStates, Results, Ended, NoRecord, RecordStates
<1>8. CASE DeleteNetwork(c)
  BY <1>8, SMTT(30), OwnershipAssumption DEF DeleteNetwork, At, Ends, OwnershipInv, TypeOK, LockIsHeld,
     OwnerFollowsRecord, NetworkIsRecorded, RecoversAlone, CallerFollowsRecord, Over,
     Holding, Recovering, OwnerStates, CallStates, Results, Ended, NoRecord, RecordStates
<1>9. CASE SaveStopped(c)
  BY <1>9, SMTT(30), OwnershipAssumption DEF SaveStopped, At, Ends, OwnershipInv, TypeOK, LockIsHeld,
     OwnerFollowsRecord, NetworkIsRecorded, RecoversAlone, CallerFollowsRecord, Over,
     Holding, Recovering, OwnerStates, CallStates, Results, Ended, NoRecord, RecordStates
<1>10. CASE ForgetRun(c)
  BY <1>10, SMTT(30), OwnershipAssumption DEF ForgetRun, At, Ends, OwnershipInv, TypeOK, LockIsHeld,
     OwnerFollowsRecord, NetworkIsRecorded, RecoversAlone, CallerFollowsRecord, Over,
     Holding, Recovering, OwnerStates, CallStates, Results, Ended, NoRecord, RecordStates
<1>11. CASE ReleaseRecovery(c)
  <2>1. lock = c /\ Over(call[c].run)
    BY <1>11 DEF ReleaseRecovery, OwnershipInv, LockIsHeld, CallerFollowsRecord, Recovering
  <2>2. Ends(c, "stopped")
    BY <1>11 DEF ReleaseRecovery
  <2> QED BY <1>0, <1>11, <2>1, <2>2, CallerEnds DEF ReleaseRecovery, Results
<1>12. CASE TimeOut(c)
  <2>2. Ends(c, "timeout") /\ faults' \in 0..MaxFaults
    BY <1>0, <1>12 DEF TimeOut
  <2> QED BY <1>12, <2>2, CallerEnds DEF TimeOut, Freed, Results
<1>13. CASE RecoveryFails(c)
  <2>1. lock = c
    BY <1>13 DEF RecoveryFails, OwnershipInv, LockIsHeld, Recovering
  <2>2. Ends(c, "failed") /\ faults' \in 0..MaxFaults
    BY <1>0, <1>13 DEF RecoveryFails, Fault
  <2> QED BY <1>13, <2>1, <2>2, CallerEnds DEF RecoveryFails, Freed, Results
<1>14. CASE CallerDies(c)
  <2>2. Ends(c, "killed") /\ faults' \in 0..MaxFaults
    BY <1>0, <1>14 DEF CallerDies, Fault
  <2> QED BY <1>14, <2>2, CallerEnds DEF CallerDies, Freed, Results
<1> QED BY <1>1, <1>2, <1>3, <1>4, <1>5, <1>6, <1>7, <1>8, <1>9, <1>10, <1>11, <1>12, <1>13, <1>14 DEF CallerStep

LEMMA NextInvariant == OwnershipInv /\ [Next]_vars => OwnershipInv'
<1> SUFFICES ASSUME OwnershipInv, [Next]_vars PROVE OwnershipInv'
  OBVIOUS
<1>1. CASE UNCHANGED vars
  BY <1>1 DEF vars, OwnershipInv, TypeOK, LockIsHeld, OwnerFollowsRecord,
     NetworkIsRecorded, RecoversAlone, CallerFollowsRecord, Over, NoRecord
<1>2. CASE Next
  BY <1>2, OwnerPreserves, OwnerDisturbed, ProcessesPreserve, LookPreserves, CallerPreserves
     DEF Next, Environment
<1> QED BY <1>1, <1>2

-----------------------------------------------------------------------------
(* Lock, records, network and processes agree on who may do what, through  *)
(* every interleaving of owners and callers and every crash: the invariant *)
(* of runtime.py and state.py that the theorems below rest on.             *)
THEOREM OwnershipInvariant == Spec => []OwnershipInv
BY InitInvariant, NextInvariant, PTL DEF Spec

(* The active record names every network that exists: _claim_run writes it *)
(* before the network is built, teardown and recovery clear it after.      *)
THEOREM NetworksAreRecorded == Spec => []NetworkIsRecorded
<1>1. OwnershipInv => NetworkIsRecorded
  BY DEF OwnershipInv
<1> QED BY <1>1, OwnershipInvariant, PTL

(* _recover_persisted never runs beside the owner of the run or beside     *)
(* another recovery.                                                       *)
THEOREM RecoveriesAreAlone == Spec => []RecoversAlone
<1>1. OwnershipInv => RecoversAlone
  BY DEF OwnershipInv
<1> QED BY <1>1, OwnershipInvariant, PTL

(* A stopped record, or a stop that reports success, means that the        *)
(* network of the run is gone, and stays so.                               *)
THEOREM StoppedRunsAreGone == Spec => []StoppedIsGone
<1>1. OwnershipInv => StoppedIsGone
  BY OwnershipAssumption DEF OwnershipInv, CallerFollowsRecord, Over, StoppedIsGone
<1> QED BY <1>1, OwnershipInvariant, PTL

(* Bridges are deleted by name: no step deletes a network other than that  *)
(* of the run it stops, rolls back or recovers.                            *)
THEOREM OnlyOwnNetworksAreDeleted == Spec => DeletesOwnNetwork
<1> DEFINE Deletes == \A r \in network \ network' :
              \/ pc[r] \in {"built", "stopping"}
              \/ \E c \in Callers : call[c].at = "delete" /\ call[c].run = r
<1>1. ASSUME OwnershipInv, Next PROVE Deletes
  <2> USE OwnershipAssumption DEF OwnershipInv, NetworkIsRecorded
  <2>1. CASE network' = network
    BY <2>1
  <2>2. ASSUME NEW o \in Owners, Build(o) \/ DeployFails(o) \/ TearDown(o) PROVE Deletes
    BY <1>1, <2>2 DEF Build, DeployFails, TearDown, OwnerFollowsRecord
  <2>3. ASSUME NEW c \in Callers, DeleteNetwork(c) PROVE Deletes
    BY <1>1, <2>3 DEF DeleteNetwork, RecoversAlone
  <2>4. \/ network' = network
        \/ \E o \in Owners : Build(o) \/ DeployFails(o) \/ TearDown(o)
        \/ \E c \in Callers : DeleteNetwork(c)
    BY <1>1 DEF Next, OwnerStep, Threads, CallerStep, Environment, Claim, RecordClaim, Start,
       SettleFailedDeploy, Interrupt, BeginTeardown, LeaveUndone, RecordStopped, ClearRecord,
       Release, Exit, Crash, Dies, StartProcess, StopProcess, ProcessEnds, CompareProcesses,
       RecordProcesses, Look, Probe, EndProbe, Signal, Poll, TimeOut, Recover, Repeat,
       KillGroups, RecoveryFails, SaveStopped, ForgetRun, ReleaseRecovery, CallerDies
  <2> QED BY <2>1, <2>2, <2>3, <2>4
<1>2. OwnershipInv /\ [Next]_vars => [Deletes]_vars
  BY <1>1
<1> QED BY <1>2, OwnershipInvariant, PTL DEF Spec, DeletesOwnNetwork

=============================================================================

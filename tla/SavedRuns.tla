----------------------------- MODULE SavedRuns ------------------------------
(***************************************************************************)
(* The saved evidence of a run, from the reservation of its directory to   *)
(* the exports made of it: the `run` process of ExperimentRuntime together *)
(* with `export` processes that copy its sources into one destination.     *)
(*                                                                         *)
(* Writers hold shared locks for their lifetime, readers try exclusive     *)
(* ones, and nobody ever waits for a lock; the kernel frees the locks of a *)
(* process that dies.  There is a lock on the directory of the run and one *)
(* on its sources (they are always locked together, in a fixed order).     *)
(* What an export may believe is in the metadata file of the run, which    *)
(* the run rewrites and which survives it.                                 *)
(*                                                                         *)
(* Sources: saved_runs.py, exports.py, evidence_reader.py, artifacts.py,   *)
(* inspection.py and the run and export commands of cli.py.                *)
(***************************************************************************)
EXTENDS ExperimentRuntime

CONSTANTS
    Exporters,      \* `export` processes, one export each
    MaxArtifacts    \* bound on the artifacts an unmanaged writer writes

ASSUME SavedRunsAssumption ==
    /\ MaxArtifacts \in Nat
    /\ {NoOne, "main", "rival"} \cap Exporters = {} /\ NoOne # "rival"

VARIABLES
    verified,       \* all writers of this run are managed ones
    meta,           \* run.json: "none", "preparing", "running", "final", "failed"
    dirShared,      \* the run holds the shared lock of its directory
    dirOwner,       \* export that holds the exclusive one
    shared,         \* shared locks of the run on its sources
    owner,          \* export, or the inspection, with the exclusive lock on them
    artifacts,      \* what has been written to the artifacts, a count
    inspection,     \* ledger copy of the inspection
    export,         \* each export: [kind, at, copy]
    dest            \* the destination: [by, copy, foreign, marker]

runVars   == <<verified, meta, dirShared, shared, inspection>>
savedVars == <<runVars, dirOwner, owner, artifacts, export, dest>>
vars == <<expVars, savedVars>>

\* A copy of the evidence: whole once all of it has been read.
Nothing == [records |-> [events |-> <<>>, others |-> 0], artifacts |-> 0, whole |-> FALSE]
NoExport == [kind |-> "none", at |-> "idle", copy |-> Nothing]

Init ==
    /\ ExperimentInit
    /\ verified \in BOOLEAN
    /\ meta = "none"
    /\ dirShared = FALSE /\ dirOwner = NoOne
    /\ shared = {} /\ owner = NoOne
    /\ artifacts = 0
    /\ inspection = Nothing
    /\ export = [x \in Exporters |-> NoExport]
    /\ dest = [by |-> NoOne, copy |-> Nothing, foreign |-> FALSE, marker |-> FALSE]

-----------------------------------------------------------------------------
(* The run command around the experiment *)

threadVars == <<layerVars, sampler, worker, busVars, intakeVars>>
mainRest   == <<exp, undo, late, issue, finished, retries>>

\* A directory is reserved by an exclusive mkdir; RunEvidence locks it and
\* writes the metadata, untrusted until the run has finished.
Prepare ==
    /\ phase = "idle"
    /\ dirShared' = TRUE /\ meta' = "preparing"
    /\ Goto("reserved")
    /\ UNCHANGED <<mainRest, threadVars, ledgerVars, faults, verified, shared, inspection,
                   dirOwner, owner, artifacts, export, dest>>

Released == dirShared' = FALSE /\ shared' = {}

\* The sources may be files of earlier runs, and an export may be reading them.
LockSources ==
    /\ phase = "reserved"
    /\ IF owner = NoOne
       THEN shared' = {"evidence"} /\ Goto("prepared") /\ UNCHANGED dirShared
       ELSE Released /\ Goto("dead")
    /\ UNCHANGED <<mainRest, threadVars, ledgerVars, faults, verified, meta, inspection,
                   dirOwner, owner, artifacts, export, dest>>

\* The ledger takes a shared lock of its own on its file.
StartLedger ==
    /\ phase = "prepared" /\ owner = NoOne
    /\ OpenLedger
    /\ shared' = shared \cup {"ledger"}
    /\ Goto("opened")
    /\ UNCHANGED <<mainRest, threadVars, faults, verified, meta, dirShared, inspection,
                   dirOwner, owner, artifacts, export, dest>>

\* evidence.active: the metadata says that the run is running.
Activate ==
    /\ phase = "up"
    /\ meta' = "running"
    /\ Goto("active")
    /\ UNCHANGED <<mainRest, threadVars, ledgerVars, faults, verified, dirShared, shared, inspection, dirOwner, owner,
                   artifacts, export, dest>>

StopLedger ==
    /\ phase = "done"
    /\ CloseLedger
    /\ shared' = shared \ {"ledger"}
    /\ Goto("closed")
    /\ UNCHANGED <<mainRest, threadVars, faults, verified, meta, dirShared, inspection,
                   dirOwner, owner, artifacts, export, dest>>

\* finish: final only when writers_stopped is.  A write that fails leaves the
\* metadata as they are.
Finish ==
    /\ phase = "closed"
    /\ \/ /\ meta' = IF finished THEN "final" ELSE "failed"
          /\ Goto("finished")
          /\ UNCHANGED faults
       \/ Fault /\ Goto("leaving") /\ UNCHANGED meta
    /\ UNCHANGED <<mainRest, threadVars, ledgerVars, verified, dirShared, shared, inspection,
                   dirOwner, owner, artifacts, export, dest>>

\* inspection_ledger: the shared locks on the sources are given back ...
Inspect ==
    /\ phase = "finished"
    /\ IF meta = "final" /\ verified
       THEN shared' = {} /\ Goto("inspecting")
       ELSE Goto("leaving") /\ UNCHANGED shared
    /\ UNCHANGED <<mainRest, threadVars, ledgerVars, faults, verified, meta, dirShared,
                   inspection, dirOwner, owner, artifacts, export, dest>>

\* ... and the exclusive one is tried: an offline export may be there first.
LockInspection ==
    /\ phase = "inspecting"
    /\ IF owner = NoOne THEN owner' = "main" /\ Goto("inspected")
       ELSE Goto("leaving") /\ UNCHANGED owner
    /\ UNCHANGED <<mainRest, threadVars, ledgerVars, faults, runVars, dirOwner, artifacts,
                   export, dest>>

\* The ledger is read and the lock given back.
ReadInspection ==
    /\ phase = "inspected"
    /\ inspection' = [Nothing EXCEPT !.records = records, !.whole = TRUE]
    /\ owner' = NoOne
    /\ Goto("leaving")
    /\ UNCHANGED <<mainRest, threadVars, ledgerVars, faults, verified, meta, dirShared, shared,
                   dirOwner, artifacts, export, dest>>

\* The evidence is closed; the process ends, and its daemon threads with it.
Leave ==
    /\ phase = "leaving"
    /\ Die /\ Released
    /\ UNCHANGED <<faults, verified, meta, inspection, dirOwner, owner, artifacts, export, dest>>

\* The kernel frees all locks of a process that dies, at any step.
Crash ==
    /\ phase \notin {"idle", "dead"}
    /\ Fault
    /\ Die /\ Released
    /\ owner' = IF owner = "main" THEN NoOne ELSE owner
    /\ UNCHANGED <<verified, meta, inspection, dirOwner, artifacts, export, dest>>

\* A process that an agent or a plugin has started writes when it likes, also
\* after the run; it takes no locks.
UnmanagedWrite ==
    /\ ~verified /\ meta # "none" /\ artifacts < MaxArtifacts
    /\ artifacts' = artifacts + 1
    /\ UNCHANGED <<expVars, runVars, dirOwner, owner, export, dest>>

-----------------------------------------------------------------------------
(* Exports *)

At(x, at) == export' = [export EXCEPT ![x].at = at]

\* An export that fails may be tried again.
Fails(x) == export' = [export EXCEPT ![x] = NoExport]

\* Fault: readers lock the sources like writers.
UnusedByReaders == owner = NoOne

\* Every writer holds a shared lock on the sources while it can write.
Unused == shared = {} /\ owner = NoOne

\* An export that ends gives back what it holds.
Unlock(x) ==
    /\ dirOwner' = IF dirOwner = x THEN NoOne ELSE dirOwner
    /\ owner' = IF owner = x THEN NoOne ELSE owner

\* export_managed locks the directory of the run: the run must be over.
StartManaged(x) ==
    /\ export[x].at = "idle" /\ meta # "none"
    /\ ~dirShared /\ dirOwner = NoOne
    /\ dirOwner' = x
    /\ export' = [export EXCEPT ![x].kind = "managed", ![x].at = "locked"]
    /\ UNCHANGED <<expVars, runVars, owner, artifacts, dest>>

\* export_offline is told the sources and asks only for their locks.
StartOffline(x) ==
    /\ export[x].at = "idle"
    /\ Unused
    /\ owner' = x
    /\ export' = [export EXCEPT ![x].kind = "offline", ![x].at = "reading"]
    /\ UNCHANGED <<expVars, runVars, dirOwner, artifacts, dest>>

\* Fault: the writers of the run are not asked for.
ClearUnverified(x) ==
    /\ export[x].at = "locked"
    /\ IF meta = "final" THEN At(x, "cleared") /\ UNCHANGED <<dirOwner, owner>>
       ELSE Fails(x) /\ Unlock(x)
    /\ UNCHANGED <<expVars, runVars, artifacts, dest>>

\* The metadata must be final, and all writers managed ones.
ClearRun(x) ==
    /\ export[x].at = "locked"
    /\ IF meta = "final" /\ verified THEN At(x, "cleared") /\ UNCHANGED <<dirOwner, owner>>
       ELSE Fails(x) /\ Unlock(x)
    /\ UNCHANGED <<expVars, runVars, artifacts, dest>>

LockForExport(x) ==
    /\ export[x].at = "cleared"
    /\ IF Unused THEN owner' = x /\ At(x, "reading") /\ UNCHANGED dirOwner
       ELSE Fails(x) /\ Unlock(x)
    /\ UNCHANGED <<expVars, runVars, artifacts, dest>>

\* _bundle refuses an existing destination before it reads ...
ReadLedger(x) ==
    /\ export[x].at = "reading"
    /\ IF dest.by = NoOne
       THEN /\ export' = [export EXCEPT ![x].at = "copying", ![x].copy.records = records]
            /\ UNCHANGED <<dirOwner, owner>>
       ELSE Fails(x) /\ Unlock(x)
    /\ UNCHANGED <<expVars, runVars, artifacts, dest>>

CopyArtifacts(x) ==
    /\ export[x].at = "copying"
    /\ export' = [export EXCEPT ![x].at = "staged", ![x].copy.artifacts = artifacts,
                                ![x].copy.whole = TRUE]
    /\ UNCHANGED <<expVars, runVars, dirOwner, owner, artifacts, dest>>

\* Fault: a destination that exists by now is taken over.
TakeDestination(x) ==
    /\ export[x].at = "staged"
    /\ dest' = [dest EXCEPT !.by = x, !.copy.records = export[x].copy.records]
    /\ At(x, "publishing")
    /\ UNCHANGED <<expVars, runVars, dirOwner, owner, artifacts>>

\* ... and claims it with an exclusive mkdir; publishing begins.
ClaimDestination(x) ==
    /\ export[x].at = "staged"
    /\ IF dest.by = NoOne
       THEN /\ dest' = [dest EXCEPT !.by = x, !.copy.records = export[x].copy.records]
            /\ At(x, "publishing") /\ UNCHANGED <<dirOwner, owner>>
       ELSE Fails(x) /\ Unlock(x) /\ UNCHANGED dest
    /\ UNCHANGED <<expVars, runVars, artifacts>>

\* The rest of the tree is published and its checksums compared; the locks are
\* verified and given back.
Publish(x) ==
    /\ export[x].at = "publishing"
    /\ dest' = [dest EXCEPT !.copy = export[x].copy]
    /\ At(x, "published")
    /\ Unlock(x)
    /\ UNCHANGED <<expVars, runVars, artifacts>>

\* _certify compares the checksums once more and writes the marker; when that
\* fails it takes the marker back.
Certify(x) ==
    /\ export[x].at = "published"
    /\ IF dest.by = x /\ dest.copy = export[x].copy
       THEN At(x, "certified") /\ dest' = [dest EXCEPT !.marker = TRUE]
       ELSE Fails(x) /\ UNCHANGED dest
    /\ UNCHANGED <<expVars, runVars, dirOwner, owner, artifacts>>

\* An export of another run, which shares no lock with these, has the same
\* destination: it claims it and publishes into it.
RivalClaims ==
    /\ dest.by = NoOne
    /\ dest' = [dest EXCEPT !.by = "rival", !.foreign = TRUE]
    /\ UNCHANGED <<expVars, runVars, dirOwner, owner, artifacts, export>>

\* An export fails or dies at any step, and leaves what it has published.
ExportFails(x) ==
    /\ export[x].at \notin {"idle", "certified"}
    /\ Fault
    /\ Fails(x)
    /\ Unlock(x)
    /\ UNCHANGED <<mainVars, threadVars, ledgerVars, runVars, artifacts, dest>>

-----------------------------------------------------------------------------
(* The system *)

RunStep ==
    \/ Prepare \/ LockSources \/ StartLedger \/ Activate \/ StopLedger \/ Finish
    \/ Inspect \/ LockInspection \/ ReadInspection \/ Leave

ExportStep(x) ==
    \/ ClearRun(x) \/ LockForExport(x) \/ ReadLedger(x) \/ CopyArtifacts(x)
    \/ ClaimDestination(x) \/ Publish(x) \/ Certify(x)

Experiment == ExperimentStep /\ UNCHANGED savedVars

Next ==
    \/ RunStep \/ Crash \/ UnmanagedWrite \/ RivalClaims
    \/ Experiment
    \/ \E x \in Exporters :
        StartManaged(x) \/ StartOffline(x) \/ ExportStep(x) \/ ExportFails(x)

Spec == Init /\ [][Next]_vars

-----------------------------------------------------------------------------
(* Correctness *)

\* What there is to save.
Source == [records |-> records, artifacts |-> artifacts, whole |-> TRUE]

\* A certified export of a managed run has all the evidence there will ever be,
\* although it was made by a process that knows the writers only by their locks
\* and by what the run wrote about them before it ended.  What the inspection has
\* read stays complete as well.
EvidenceIsComplete ==
    /\ dest.marker /\ export[dest.by].kind = "managed" => dest.copy = Source
    /\ inspection.whole => inspection.records = records

\* The completion marker stands only on a tree that one export has published to
\* the end and nobody else has written to, whatever fails and whoever exports to
\* the same place.
MarkerIsWhole ==
    dest.marker =>
        /\ dest.copy.whole /\ dest.copy = export[dest.by].copy
        /\ ~dest.foreign

\* The ledger does not change under a reader, an export or the inspection, of a
\* run that is alive or has crashed.
StableWhileRead == [][owner # NoOne => records' = records]_vars

\* Nothing a sampler or an agent does or fails to do can hold up the main thread:
\* from any point of the run but the wait for a signal it can go on, as soon as
\* a transaction under way has ended and the server has answered.
NeverHeldUp ==
    phase \notin {"idle", "serving", "dead"} =>
        \/ writer # NoOne
        \/ phase = "joining" /\ \E c \in Clients : conn[c].at \in Served
        \/ ENABLED (RunStep \/ (MainStep /\ UNCHANGED savedVars))

Runs(layer) ==
    LET still == {"off", "unstarted", "ended"} IN
    IF layer = "telemetry" THEN \E s \in Samplers : sampler[s].at \notin still ELSE worker \notin still

\* A start has failed between the first thread of the layers and the last.
HalfStarted ==
    telemetry = "created" \/ worker = "unstarted" \/ \E s \in Samplers : sampler[s].at = "unstarted"

\* A stop never waits for ever and never gives up for nothing: the layers of a run
\* that had started are given up only while one of their threads runs, so that a
\* second stop, after whatever the first one left, finishes as soon as they end.
StopsGoThrough ==
    /\ []NeverHeldUp
    /\ [][\A layer \in late' \ late : Runs(layer) \/ HalfStarted]_vars

\* What the comment in stop() says of every stop, experiment.py:449-450: drain and
\* cleanup uncertainty can be resolved by retry.  It is not so after a start that
\* failed half way.
RetryResolves == [][~undo => \A layer \in late' \ late : Runs(layer)]_vars

-----------------------------------------------------------------------------
(* The inductive invariant *)

Copies  == [records : [events : Seq(Rows), others : Nat], artifacts : Nat, whole : BOOLEAN]
Reading == {"reading", "copying", "staged", "publishing"}
ExportStates == Reading \cup {"idle", "locked", "cleared", "published", "certified"}

\* Types of the process, of the files and of the exports.
FileTypeOK ==
    /\ verified \in BOOLEAN
    /\ meta \in {"none", "preparing", "running", "final", "failed"}
    /\ dirShared \in BOOLEAN /\ dirOwner \in Exporters \cup {NoOne}
    /\ shared \subseteq {"evidence", "ledger"}
    /\ owner \in Exporters \cup {"main", NoOne}
    /\ artifacts \in Nat
    /\ inspection \in Copies
    /\ export \in [Exporters -> [kind : {"none", "managed", "offline"}, at : ExportStates,
                                 copy : Copies]]
    /\ dest \in [by : Exporters \cup {"rival", NoOne}, copy : Copies,
                 foreign : BOOLEAN, marker : BOOLEAN]

TypeOK == ExperimentTypeOK /\ FileTypeOK

\* From the opening of the ledger to its close.
LedgerPhases == Start \cup Stopping \cup {"opened", "done"}

\* The ledger is open only under its shared lock, and nobody has the exclusive
\* lock together with a shared one.
LocksExclude ==
    /\ opened => "ledger" \in shared /\ phase \in LedgerPhases
    /\ owner # NoOne => shared = {}
    /\ phase = "inspecting" => shared = {}

\* The run says "final" once its ledger is closed; a managed export that got past
\* that has copied what will not change any more.
CopiesAgree ==
    /\ meta = "final" => phase \in {"finished", "inspecting", "inspected", "leaving", "dead"}
    /\ inspection.whole => inspection.records = records /\ phase \in {"leaving", "dead"}
    /\ phase = "dead" => ~opened
    /\ \A x \in Exporters :
        /\ export[x].copy.whole <=>
                export[x].at \in {"staged", "publishing", "published", "certified"}
        /\ export[x].kind = "managed" /\ export[x].at \notin {"idle", "locked"} =>
            /\ meta = "final" /\ verified
            /\ export[x].at = "copying" => export[x].copy.records = records
            /\ export[x].copy.whole => export[x].copy = Source

\* The destination belongs to the export that claimed it.
DestinationClaimed ==
    /\ dest.foreign => dest.by = "rival"
    /\ \A x \in Exporters :
        export[x].at \in {"publishing", "published", "certified"} => dest.by = x
    /\ dest.marker =>
        /\ dest.by \in Exporters
        /\ export[dest.by].at = "certified" /\ dest.copy = export[dest.by].copy

SavedRunsInv ==
    /\ ExperimentInv /\ FileTypeOK
    /\ LocksExclude /\ CopiesAgree /\ DestinationClaimed

=============================================================================

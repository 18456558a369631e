---------------------------- MODULE PlatformWork ----------------------------
(***************************************************************************)
(* The data platform: the runs of a workflow version (WorkflowRun), the    *)
(* versions themselves (WorkflowCatalog) and the schedules of SM4 tasks    *)
(* (Sm4Schedule).  A run executes the release it was created for, and a    *)
(* schedule creates batches, so the three share no state: which one a      *)
(* behaviour is about is chosen at the beginning and the others never take *)
(* a step.                                                                 *)
(***************************************************************************)
EXTENDS WorkflowRun

CONSTANTS
    Session,                                             \* WorkflowCatalog, Sm4Schedule
    Kinds, Version, MaxEdits, MaxRequests, MaxRestarts,  \* WorkflowCatalog
    Schedule, TypeOf, MaxScheduleRequests,               \* Sm4Schedule
    MaxNow, MaxFailures,
    off

VARIABLES
    active,
    kind, task, wf, ver, recorded, restarts,
    row, conn, pass, now, started, failures,
    sess, crossed, requests                              \* both of them

Catalog == INSTANCE WorkflowCatalog
Timed == INSTANCE Sm4Schedule
    WITH MaxRequests <- MaxScheduleRequests, MaxFaults <- MaxFailures, faults <- failures

ASSUME PlatformAssumption == Catalog!WorkflowCatalogAssumption /\ Timed!Sm4ScheduleAssumption

-----------------------------------------------------------------------------
versionsOnly == <<kind, task, wf, ver, recorded, restarts>>
timesOnly == <<row, conn, pass, now, started, failures>>
shared == <<sess, crossed, requests>>
platformVars == <<active, vars, versionsOnly, timesOnly, shared>>

VersionsOff == kind = off /\ task = off /\ wf = off /\ ver = off /\ recorded = off /\ restarts = off
TimesOff == row = off /\ conn = off /\ pass = off /\ now = off /\ started = off /\ failures = off
SharedOff == sess = off /\ crossed = off /\ requests = off

PlatformInit ==
    /\ active \in {"runs", "versions", "times"} /\ Init
    /\ active # "runs" => release = CHOOSE r \in ValidRelease : TRUE
    /\ \/ active = "runs" /\ VersionsOff /\ TimesOff /\ SharedOff
       \/ active = "versions" /\ Catalog!Init /\ TimesOff
       \/ active = "times" /\ Timed!Init /\ VersionsOff

PlatformNext ==
    \/ active = "runs" /\ Next /\ UNCHANGED <<active, versionsOnly, timesOnly, shared>>
    \/ active = "versions" /\ Catalog!Next /\ UNCHANGED <<active, vars, timesOnly>>
    \/ active = "times" /\ Timed!Next /\ UNCHANGED <<active, vars, versionsOnly>>

PlatformSpec == PlatformInit /\ [][PlatformNext]_platformVars

\* FairSpec of WorkflowRun, for the behaviours that are about runs.
PlatformFairSpec ==
    /\ PlatformSpec
    /\ \A s \in Starter : WF_vars(active = "runs" /\ (Insert(s) \/ Send(s) \/ MarkFailed(s)))
    /\ \A e \in Executor : WF_vars(active = "runs" /\ Work(e))
    /\ \A r \in RunId : SF_vars(active = "runs" /\ \E e \in Executor : Claim(e, r))

-----------------------------------------------------------------------------
\* What WorkflowCatalog and Sm4Schedule promise: what starts by itself is one
\* version at most, whose snapshots are the revisions recorded; an online
\* version is frozen and what was published is served; a schedule starts once
\* for each of its times, as long as it is enabled.
VersionsKept == active = "versions" => Catalog!OneStarts /\ Catalog!RevisionRecorded
PublishedFrozen == [][active = "versions" => Catalog!FrozenStep /\ Catalog!ServedStep]_platformVars
SchedulesKept == active = "times" => Timed!StartedOnce /\ Timed!EnabledFires
=============================================================================

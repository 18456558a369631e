---------------------------- MODULE RecoveryWork ----------------------------
(***************************************************************************)
(* How databases come and go, side by side: the tasks that restore them    *)
(* (RecoveryTask) and the requests that drop them again (DatabaseCleanup). *)
(* They share no state.  Which one a behaviour is about is chosen at the   *)
(* beginning; the other never takes a step.                                *)
(***************************************************************************)
EXTENDS RecoveryTask

CONSTANTS
    Engines, Targets, System, Units, SystemUnits, ConfiguredFiles,   \* DatabaseCleanup
    Layouts, Requests, MaxMoves, MaxFaults,
    off

VARIABLES
    active,
    engine, live, uses, units, req, late, lost, moves, faults

Cleanup == INSTANCE DatabaseCleanup

ASSUME CleanupWorkAssumption == Cleanup!CleanupAssumption

-----------------------------------------------------------------------------
cleanupVars == <<engine, live, uses, units, req, late, lost, moves, faults>>
recoveryVars == <<active, vars, cleanupVars>>

CleanupOff == /\ engine = off /\ live = off /\ uses = off /\ units = off /\ req = off
              /\ late = off /\ lost = off /\ moves = off /\ faults = off

RecoveryInit ==
    /\ Init
    /\ \/ active = "tasks" /\ CleanupOff
       \/ active = "cleanup" /\ Cleanup!Init

RecoveryNext ==
    \/ active = "tasks" /\ Next /\ UNCHANGED <<active, cleanupVars>>
    \/ active = "cleanup" /\ Cleanup!Next /\ UNCHANGED <<active, vars>>

RecoverySpec == RecoveryInit /\ [][RecoveryNext]_recoveryVars

-----------------------------------------------------------------------------
\* What DatabaseCleanup promises: dropping storage takes nothing of others with
\* it, but for what came after the plan; and a batch that reports success leaves
\* no storage behind that nobody uses.
NeighboursSpared == active = "cleanup" => Cleanup!NeighboursSpared
StorageGone == [][active = "cleanup" => Cleanup!UnitsGone]_recoveryVars
=============================================================================

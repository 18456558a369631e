-------------------------- MODULE AuthorizationWork --------------------------
(***************************************************************************)
(* What gives people their rights, side by side: the batches that share a  *)
(* privilege of Doris (PrivilegeLease) and the runs over the applications  *)
(* of the approval system (ApprovalRun).  They share no state.  Which one  *)
(* a behaviour is about is chosen at the beginning; the other never takes  *)
(* a step.                                                                 *)
(***************************************************************************)
EXTENDS PrivilegeLease

CONSTANTS
    Flows, Poison, MaxItems, Update, Manual, Watcher,    \* ApprovalRun
    MaxManual, MaxTests, MaxFaults,
    off

VARIABLES
    active,
    slot, stuck, effect, log, tested, manual, tests, failures

Approval == INSTANCE ApprovalRun WITH done <- effect, faults <- failures

ASSUME AuthorizationAssumption == Approval!ApprovalRunAssumption

-----------------------------------------------------------------------------
approvalVars == <<slot, stuck, effect, log, tested, manual, tests, failures>>
authVars == <<active, vars, approvalVars>>

ApprovalOff == /\ slot = off /\ stuck = off /\ effect = off /\ log = off
               /\ tested = off /\ manual = off /\ tests = off /\ failures = off

AuthInit ==
    /\ Init
    /\ \/ active = "lease" /\ ApprovalOff
       \/ active = "approval" /\ Approval!Init

AuthNext ==
    \/ active = "lease" /\ Next /\ UNCHANGED <<active, approvalVars>>
    \/ active = "approval" /\ Approval!Next /\ UNCHANGED <<active, vars>>

AuthSpec == AuthInit /\ [][AuthNext]_authVars

-----------------------------------------------------------------------------
\* What ApprovalRun promises: what a run, its log and the approval system say of
\* an import was done.
ImportsEarned == active = "approval" => Approval!ImportsEarned
=============================================================================

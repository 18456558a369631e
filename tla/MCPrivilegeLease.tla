--------------------------- MODULE MCPrivilegeLease ---------------------------
(***************************************************************************)
(* AuthorizationWork on two batches, two API requests and the scheduler,   *)
(* or on three approved applications, one of which always fails, with the  *)
(* watching thread and one other run.  The situations of the batches: a    *)
(* system without history, a privilege that was there before, and, with    *)
(* repeatable reads, a batch that is older than the leases.                *)
(***************************************************************************)
EXTENDS AuthorizationWork, TLC

CONSTANTS b1, b2

New(r) == [repeatable |-> r, exists |-> FALSE, legacy |-> {}]
MCConfig == {New(FALSE), [New(FALSE) EXCEPT !.exists = TRUE], [New(TRUE) EXCEPT !.legacy = {b1}]}

MCInit == AuthInit /\ (active = "approval" => config = New(FALSE))

\* The fairness of PrivilegeLease and ApprovalRun, for the one that is active.
\* (The watching thread either looks or executes.)
MCFairness ==
    /\ WF_vars(active = "lease" /\ Pass)
    /\ \A s \in Session : /\ WF_vars(active = "lease" /\ Commit(s))
                          /\ SF_vars(active = "lease" /\ Revoking(s))
    /\ WF_approvalVars(active = "approval" /\ (Approval!CheckRunning(Watcher) \/ Approval!Execute(Watcher)))
    /\ \A s \in Manual : WF_approvalVars(active = "approval" /\ Approval!Execute(s))

MCSpec == MCInit /\ [][AuthNext]_authVars /\ MCFairness

-----------------------------------------------------------------------------
\* A batch that expires is taken offline (ExpiredEnds of PrivilegeLease), and the
\* watching thread gets every application settled that is not beyond help, unless
\* the process of a run died (FlowsServed of ApprovalRun).  It stays settled.
Unattended ==
    \/ active = "lease" /\ Overdue
    \/ /\ active = "approval" /\ ~stuck
       /\ \E f \in 1 .. Flows : f \notin Poison /\ Approval!Status \notin effect[f]
RequestsServed == []<>~Unattended
=============================================================================

------------------------- MODULE MCAutomationBatch -------------------------
(***************************************************************************)
(* AutomationWork on one batch, one scheduler thread (the service starts   *)
(* it in one process) and two API requests; on two assets with an edge     *)
(* each way, one of them from an event; and on two plans for a file (the   *)
(* second one is of use when it is replaced) with two schedulers.          *)
(***************************************************************************)
EXTENDS AutomationWork, TLC

AllOps == {"scan", "resume", "submit", "activate", "generate", "match"}

MCEdge == {<<"y", "x">>}
MCEvent == {[in |-> {"x"}, out |-> {"y"}]}
MCPlan == 1 .. 2

\* One run is about the batches and the outbox, the other about the plans.
BatchInit == WorkInit /\ active # "plans"
PlansInit == WorkInit /\ active = "plans"
BatchSpec == BatchInit /\ [][WorkNext]_workVars
PlansSpec == PlansInit /\ [][WorkNext]_workVars

\* Whoever acts is alike, and named alike in the three of them.
Alike == Permutations(Request) \cup Permutations(Worker)
=============================================================================

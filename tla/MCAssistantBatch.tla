-------------------------- MODULE MCAssistantBatch --------------------------
(* Two plans for different files of one pipeline. *)
EXTENDS AssistantBatch
MCPlan == 1 .. 2
=============================================================================

----------------------------- MODULE MCDataSync -----------------------------
(***************************************************************************)
(* DataSync with three tables and two threads.                             *)
(***************************************************************************)
EXTENDS DataSync

MCConfig == {[truncate |-> TRUE, continue |-> FALSE, shape |-> "lacking"],
             [truncate |-> FALSE, continue |-> TRUE, shape |-> "missing"]}
==============================================================================

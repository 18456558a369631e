-------------------------- MODULE MCRecoveryTask --------------------------
(***************************************************************************)
(* RecoveryWork on one task, two workers and one API request at a time,    *)
(* which may be slower than the workers, or on two cleanup requests.       *)
(* Tasks interact only by occupying workers.  The storage: two users that  *)
(* share a tablespace, one with data in another one; a database with a     *)
(* file of its own.                                                        *)
(***************************************************************************)
EXTENDS RecoveryWork

CONSTANTS t1, w1, w2, r1, d1, d2, u1, u2

MCTask == {t1}
MCWorker == {w1, w2}
MCRequest == {r1}
AllOps == {"cancel", "stop", "retry"}

Shared == {<<d1, u1, "default">>, <<d2, u1, "default">>, <<d2, u2, "segment">>}
OneFile == {<<d1, u1, "segment">>}
MCLayouts == [g \in Engines |-> CASE g = "oracle" -> {Shared} [] g = "sqlserver" -> {OneFile} [] OTHER -> {{}}]

\* The fairness of RecoveryTask, where it is active.  (Cleanup promises nothing in time.)
MCFairness ==
    /\ \A r \in Request : WF_vars(active = "tasks" /\ Handle(r))
    /\ \A w \in Worker :
        /\ WF_vars(active = "tasks" /\ OpenSnapshot(w))
        /\ WF_vars(active = "tasks" /\ RunPipeline(w))
        /\ WF_vars(active = "tasks" /\ Commit(w))
        /\ WF_vars(active = "tasks" /\ Ack(w))
    /\ \A t \in Task : SF_vars(active = "tasks" /\ \E w \in Worker : Claim(w, t))

MCSpec == RecoverySpec /\ MCFairness
===========================================================================

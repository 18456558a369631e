------------------------------- MODULE MCDoris -------------------------------
(***************************************************************************)
(* DorisWork on two SM4 batches of two tables, one of them of data         *)
(* automation, with two workers and a refresh of the key; on two jobs      *)
(* without a claim: masking jobs of one table, in either mode, runs of one *)
(* ETL task, an export.                                                    *)
(***************************************************************************)
EXTENDS DorisWork

MCJob == 1 .. 2
MCAutomation == {2}
MCKinds == {<<"replace", "suffix">>, <<"truncate", "append">>, <<"export", "truncate">>}

-----------------------------------------------------------------------------
\* The fairness of Sm4Batch and DorisJob, for the one that is active.
MCFairness ==
    /\ WF_vars(active = "sm4" /\ Dispatch)
    /\ WF_vars(active = "sm4" /\ RecoverJobs)
    /\ WF_vars(active = "sm4" /\ Refresh)
    /\ \A j \in Job : /\ WF_vars(active = "sm4" /\ CommitStop(j))
                      /\ WF_vars(active = "sm4" /\ CommitForAutomation(j))
    /\ \A w \in Worker : WF_vars(active = "sm4" /\ Work(w))
    /\ \A j \in 1 .. NJobs : /\ WF_jobVars(active = "jobs" /\ Jobs!Request(j))
                            /\ WF_jobVars(active = "jobs" /\ Jobs!Receive(j))
    /\ \A w \in Worker : WF_jobVars(active = "jobs" /\ Jobs!Work(w))

MCSpec == DorisSpec /\ MCFairness

\* Batches and jobs come to an end for good (BatchesEnd of Sm4Batch, JobsEnd of
\* DorisJob), unless a process was lost.
Waits ==
    \/ active = "sm4" /\ ~(\E i \in Job : Orphan(i)) /\ \E j \in Job : job[j].state \in InFlight
    \/ active = "jobs" /\ Jobs!Unended
JobsEnd == <>[]~Waits
=============================================================================

---------------------------- MODULE MCAutomation ----------------------------
(***************************************************************************)
(* Data automation, to its end: StageDispatch on one stage run of either   *)
(* kind, shared by two dispatchers and two executors (stage runs interact  *)
(* only by occupying them); and beside it, sharing no state, a batch of    *)
(* AutomationBatch, whose runs end because those of StageDispatch do.      *)
(* Which one a behaviour is about is chosen at the beginning; the other    *)
(* never takes a step.                                                     *)
(***************************************************************************)
EXTENDS StageDispatch

CONSTANTS
    Batch, Scheduler, Request, Op, SyncBound, WorkflowBound,  \* AutomationBatch
    EncryptionOn, AccessOn, MaxRequests,
    off

VARIABLES active, row, runs, actor, protected, requests

Flow == INSTANCE AutomationBatch

WithoutScan == {"generate", "submit", "activate", "match"}

-----------------------------------------------------------------------------
flow == <<row, runs, actor, protected, requests>>
allVars == <<active, vars, flow>>

FlowOff == row = off /\ runs = off /\ actor = off /\ protected = off /\ requests = off
MCInit ==
    \/ active = "dispatch" /\ Init /\ FlowOff
    \/ active = "flow" /\ Flow!Init /\ Init /\ sm4 = {}

Dispatching == UNCHANGED <<active, flow>>
Flowing == UNCHANGED <<active, vars>>
MCNext ==
    \/ active = "dispatch" /\ Next /\ Dispatching
    \/ active = "flow" /\ Flow!Next /\ Flowing

\* The fairness of StageDispatch and AutomationBatch, for the one that is active.
MCFairness ==
    /\ \A t \in Target :
        /\ WF_vars(active = "dispatch" /\ Holding(t) = {} /\ ResetStale(t))
        /\ SF_vars(active = "dispatch" /\ ReconcileOrClaim(t))
        /\ WF_vars(active = "dispatch" /\ ReserveSm4(t))
        /\ WF_vars(active = "dispatch" /\ messages[t] = 0 /\ ReadExpired(t))
        /\ WF_vars(active = "dispatch" /\ ReturnToQueue(t))
        /\ SF_vars(active = "dispatch" /\ Deliver(t))
    /\ \A d \in Dispatcher : WF_vars(active = "dispatch" /\ DispatchStep(d))
    /\ \A e \in Executor : /\ WF_vars(active = "dispatch" /\ Finish(e))
                           /\ WF_vars(active = "dispatch" /\ Ack(e))
    /\ \A a \in Scheduler \cup Request : WF_flow(active = "flow" /\ (Flow!Commit(a) \/ Flow!Abandon(a)))
    /\ \A a \in Scheduler, b \in Batch : /\ SF_flow(active = "flow" /\ Flow!Load(a, "advance", b))
                                         /\ SF_flow(active = "flow" /\ Flow!Load(a, "scan", b))
    /\ WF_flow(active = "flow" /\ Flow!Execute)

MCSpec == MCInit /\ [][MCNext]_allVars /\ MCFairness

-----------------------------------------------------------------------------
\* The record of a stage run that has ended agrees with the run for good
\* (RecordSettles), and a batch that left the hands of people ends or comes back
\* to them (FlowSettles of AutomationBatch).
AutomationSettles ==
    /\ <>[](\A t \in Target : target[t] \in Settled => record[t] = target[t] \/ t \in overtaken)
    /\ []<>(active = "flow" => \A b \in Batch : row[b].state \in Flow!WithPeople)
=============================================================================

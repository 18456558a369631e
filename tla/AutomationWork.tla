--------------------------- MODULE AutomationWork ---------------------------
(***************************************************************************)
(* The three loops of data automation side by side: the batches of a       *)
(* pipeline (AutomationBatch), the copies of their lineage in OpenMetadata *)
(* (MetadataOutbox) and the batches of confirmed plans (AssistantBatch).   *)
(* Each works on tables of its own, so which one a behaviour is about is   *)
(* chosen at the beginning and the others never take a step.               *)
(***************************************************************************)
EXTENDS AutomationBatch

CONSTANTS
    Asset, Edge, Event, Writer, Worker,                  \* MetadataOutbox
    MaxAttempts, MaxBucket, MaxOps, MaxOutages,
    Plan, File, Advancer,                                \* AssistantBatch, its Scheduler
    MaxResumes, MaxEdits, MaxFaults,
    off

VARIABLES
    active,
    assets, edges, events, known, linked, enabled, now, outbox, queue, writer, pass, ops, outages,
    saved, online, content, plan, asking, batch, jobs, held, resumes, edits, faults

Lineage == INSTANCE MetadataOutbox
Assistant == INSTANCE AssistantBatch WITH Scheduler <- Advancer

ASSUME WorkAssumption == Lineage!MetadataOutboxAssumption /\ Assistant!AssistantAssumption

-----------------------------------------------------------------------------
lineage == <<assets, edges, events, known, linked, enabled, now, outbox, queue, writer, pass, ops, outages>>
plans == <<saved, online, content, plan, asking, batch, jobs, held, resumes, edits, faults>>
workVars == <<active, vars, lineage, plans>>

LineageOff == /\ assets = off /\ edges = off /\ events = off /\ known = off /\ linked = off /\ enabled = off
              /\ now = off /\ outbox = off /\ queue = off /\ writer = off /\ pass = off /\ ops = off /\ outages = off
PlansOff == /\ saved = off /\ online = off /\ content = off /\ plan = off /\ asking = off /\ batch = off
            /\ jobs = off /\ held = off /\ resumes = off /\ edits = off /\ faults = off

WorkInit ==
    /\ Init
    /\ \/ active = "batch" /\ LineageOff /\ PlansOff
       \/ active = "lineage" /\ Lineage!Init /\ PlansOff
       \/ active = "plans" /\ LineageOff /\ Assistant!Init

WorkNext ==
    \/ active = "batch" /\ Next /\ UNCHANGED <<active, lineage, plans>>
    \/ active = "lineage" /\ Lineage!Next /\ UNCHANGED <<active, vars, plans>>
    \/ active = "plans" /\ Assistant!Next /\ UNCHANGED <<active, vars, lineage>>

WorkSpec == WorkInit /\ [][WorkNext]_workVars

-----------------------------------------------------------------------------
\* What MetadataOutbox and AssistantBatch promise: a snapshot that is recorded
\* as copied was copied; a stage of a plan runs once, in its turn and as it was
\* confirmed.
SnapshotComplete == active = "lineage" => Lineage!SnapshotComplete
StagesAsConfirmed == active = "plans" => Assistant!StagesAsConfirmed
=============================================================================

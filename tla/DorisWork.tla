------------------------------ MODULE DorisWork ------------------------------
(***************************************************************************)
(* What is done to the tables of Doris in the background, side by side:    *)
(* the SM4 batches under their key (Sm4Batch) and the jobs without a claim *)
(* (DorisJob).  They share no state.  Which one a behaviour is about is    *)
(* chosen at the beginning; the other never takes a step.                  *)
(***************************************************************************)
EXTENDS Sm4Batch, Sequences

CONSTANTS
    NJobs, Kinds, MaxCopies, MaxEvents,                  \* DorisJob
    off

VARIABLES
    active,
    kind, row, api, canc, queue, slot, table, file, part, mark, events

Jobs == INSTANCE DorisJob WITH job <- row, Workers <- Worker

ASSUME DorisAssumption == Jobs!DorisJobAssumption

-----------------------------------------------------------------------------
jobVars == <<kind, row, api, canc, queue, slot, table, file, part, mark, events>>
dorisVars == <<active, vars, jobVars>>

JobsOff == /\ kind = off /\ row = off /\ api = off /\ canc = off /\ queue = off /\ slot = off
           /\ table = off /\ file = off /\ part = off /\ mark = off /\ events = off

DorisInit ==
    /\ Init
    /\ \/ active = "sm4" /\ JobsOff
       \/ active = "jobs" /\ Jobs!Init

DorisNext ==
    \/ active = "sm4" /\ Next /\ UNCHANGED <<active, jobVars>>
    \/ active = "jobs" /\ Jobs!Next /\ UNCHANGED <<active, vars>>

DorisSpec == DorisInit /\ [][DorisNext]_dorisVars

-----------------------------------------------------------------------------
\* What DorisJob promises: a job that succeeds has written what it was to write,
\* and what jobs work on stays usable.
JobsFaithful == active = "jobs" => Jobs!JobsFaithful
=============================================================================

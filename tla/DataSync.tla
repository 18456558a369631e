------------------------------ MODULE DataSync ------------------------------
(***************************************************************************)
(* The execution of one data-sync run: tables are copied into Doris by a   *)
(* pool of threads, each with connections of its own.  Lost connections    *)
(* lead to a recovery all threads share; the recorder of the component run *)
(* keeps a row for every table.                                            *)
(***************************************************************************)
EXTENDS Integers, FiniteSets

CONSTANTS
    Config,       \* configurations of the runs that are looked at
    Tables,       \* number of enabled table mappings
    Batches,      \* stream loads of a table; one for INSERT ... SELECT
    Parallelism,  \* table_parallelism
    MaxAttempts,  \* connection_retry_attempts
    MaxProbes,    \* connection_recovery_attempts
    MaxFaults     \* bound: lost connections, failing events, crashes

Shape == {"missing", "lacking", "fits"}

ASSUME DataSyncAssumption ==
    /\ Config \subseteq [truncate : BOOLEAN, continue : BOOLEAN, shape : Shape]
    /\ Tables \in Nat \ {0} /\ Batches \in Nat /\ Parallelism \in Nat \ {0}
    /\ MaxAttempts \in Nat \ {0} /\ MaxProbes \in Nat \ {0} /\ MaxFaults \in Nat

VARIABLES
    config,   \* write_mode = truncate_insert?  continue_on_error?  shape of the targets
    run,      \* the loop of the main thread over the tables
    thread,   \* execute_mapping of each table
    result,   \* indexed_results
    row,      \* DataPlatformComponentRunTable.status of each table
    barrier,  \* _DataSyncConnectionRecovery
    target,   \* the tables in Doris
    faults    \* faults so far

vars == <<config, run, thread, result, row, barrier, target, faults>>

Table == 1 .. Tables
Batch == 1 .. Batches
Closed == {"succeeded", "failed", "skipped"}

\* wrote: _runtime_write_started; stop: stop_remaining of the result.
Thread == [pc : {"none", "start", "ready", "connect", "truncate", "load", "interrupted",
                 "waiting", "announcing", "probing", "failing", "done", "raised",
                 "collected"},
           attempt : 1 .. MaxAttempts, generation : Nat, next : 1 .. Batches + 1,
           wrote : BOOLEAN, stop : BOOLEAN]
NotStarted == [pc |-> "none", attempt |-> 1, generation |-> 0, next |-> 1,
               wrote |-> FALSE, stop |-> FALSE]

\* shape: the table is missing, lacks columns of the source, or fits; old: it
\* has rows from before the run; copies: how often a batch was loaded.
Target == [shape : Shape, old : BOOLEAN, copies : [Batch -> Nat]]

TypeOK ==
    /\ config \in Config
    /\ run \in [pc : {"prepared", "running", "unwinding", "ended", "crashed"},
                next : 1 .. Tables + 1, stop : BOOLEAN,
                status : {"running", "succeeded", "partial", "failed"}]
    /\ thread \in [Table -> Thread]
    /\ result \in [Table -> {"none"} \cup Closed]
    /\ row \in [Table -> {"queued", "running"} \cup Closed]
    /\ barrier \in [recovering : BOOLEAN, generation : Nat, failed : BOOLEAN,
                    probes : 0 .. MaxProbes, rounds : Nat]
    /\ target \in [Table -> Target]
    /\ faults \in 0 .. MaxFaults

Init ==
    /\ config \in Config
    /\ run = [pc |-> "prepared", next |-> 1, stop |-> FALSE, status |-> "running"]
    /\ thread = [t \in Table |-> NotStarted]
    /\ result = [t \in Table |-> "none"]
    /\ row = [t \in Table |-> "queued"]
    /\ barrier = [recovering |-> FALSE, generation |-> 0, failed |-> FALSE,
                  probes |-> 0, rounds |-> 0]
    /\ target = [t \in Table |-> [shape |-> config.shape, old |-> config.shape # "missing",
                                  copies |-> [b \in Batch |-> 0]]]
    /\ faults = 0

Fault == faults < MaxFaults /\ faults' = faults + 1

-----------------------------------------------------------------------------
(* The main thread.  With a parallelism of one the code runs the tables in *)
(* its own thread, in the same order and with the same checks.             *)

Outstanding == {t \in Table : thread[t].pc \notin {"none", "collected"}}

\* run_prepared: the first tables are submitted.
Prepare ==
    /\ run.pc = "prepared"
    /\ LET first == {t \in Table : t <= Parallelism}
       IN /\ thread' = [t \in Table |->
                 IF t \in first THEN [thread[t] EXCEPT !.pc = "start"] ELSE thread[t]]
          /\ run' = [run EXCEPT !.pc = "running", !.next = Cardinality(first) + 1]
    /\ UNCHANGED <<config, result, row, barrier, target, faults>>

Stops(t) == result'[t] = "failed" /\ (thread[t].stop \/ ~config.continue)

\* A future is done: its result is kept and the next table submitted.
Collect(t) ==
    /\ run.pc = "running" /\ thread[t].pc = "done"
    /\ result' = [result EXCEPT ![t] = row[t]]
    /\ LET stop == run.stop \/ Stops(t)
           submit == ~stop /\ run.next <= Tables
       IN /\ run' = [run EXCEPT !.stop = stop,
                                !.next = IF submit THEN @ + 1 ELSE @]
          /\ thread' = [s \in Table |->
                 IF s = t THEN [thread[s] EXCEPT !.pc = "collected"]
                 ELSE IF submit /\ s = run.next THEN [thread[s] EXCEPT !.pc = "start"]
                 ELSE thread[s]]
    /\ UNCHANGED <<config, row, barrier, target, faults>>

\* Bug: the table that was next when the pool stopped is forgotten.
SkippedButNext == {t \in Table : t > run.next}

Skipped == {t \in Table : t >= run.next}

Status(results) ==
    IF \A t \in Table : results[t] # "failed" THEN "succeeded"
    ELSE IF \E t \in Table : results[t] = "succeeded" THEN "partial" ELSE "failed"

\* Tables that were not submitted are skipped, and the run is recorded.
Finish ==
    /\ run.pc = "running" /\ Outstanding = {} /\ (run.stop \/ run.next > Tables)
    /\ result' = [t \in Table |-> IF t \in Skipped THEN "skipped" ELSE result[t]]
    /\ row' = [t \in Table |-> IF t \in Skipped THEN "skipped" ELSE row[t]]
    /\ run' = [run EXCEPT !.pc = "ended", !.status = Status(result')]
    /\ UNCHANGED <<config, thread, barrier, target, faults>>

\* execute_mapping has raised: the pool waits for the other threads, and the
\* run has failed.
Raise(t) ==
    /\ run.pc = "running" /\ thread[t].pc = "raised"
    /\ run' = [run EXCEPT !.pc = "unwinding"]
    /\ UNCHANGED <<config, thread, result, row, barrier, target, faults>>

Unwind ==
    /\ run.pc = "unwinding"
    /\ \A t \in Outstanding : thread[t].pc \in {"done", "raised"}
    /\ run' = [run EXCEPT !.pc = "ended", !.status = "failed"]
    /\ UNCHANGED <<config, thread, result, row, barrier, target, faults>>

\* The worker dies; nothing resumes the run.
Crash ==
    /\ run.pc \in {"prepared", "running", "unwinding"} /\ Fault
    /\ run' = [run EXCEPT !.pc = "crashed"]
    /\ UNCHANGED <<config, thread, result, row, barrier, target>>

-----------------------------------------------------------------------------
(* execute_mapping, _execute_one_table: threads go on until the worker dies. *)

At(t, pc) == run.pc # "crashed" /\ thread[t].pc = pc
Goto(t, pc) == thread' = [thread EXCEPT ![t].pc = pc]

Start(t) ==
    /\ At(t, "start") /\ Goto(t, "ready")
    /\ row' = [row EXCEPT ![t] = "running"]
    /\ UNCHANGED <<config, run, result, barrier, target, faults>>

\* wait_ready
Ready(t) ==
    /\ At(t, "ready") /\ ~barrier.recovering
    /\ thread' = [thread EXCEPT ![t].generation = barrier.generation,
            ![t].wrote = IF barrier.failed THEN @ ELSE FALSE,
            ![t].stop = barrier.failed,
            ![t].pc = IF barrier.failed THEN "failing" ELSE "connect"]
    /\ UNCHANGED <<config, run, result, row, barrier, target, faults>>

\* Connections are opened, the table is created and the missing columns are
\* added; or the mapping does not allow it, or Doris refuses.
PrepareTable(t) ==
    /\ At(t, "connect")
    /\ \/ /\ thread' = [thread EXCEPT ![t].pc = IF config.truncate THEN "truncate" ELSE "load",
                                      ![t].wrote = target[t].shape # "fits",
                                      ![t].next = 1]
          /\ target' = [target EXCEPT ![t].shape = "fits"]
       \/ Goto(t, "failing") /\ UNCHANGED target
    /\ UNCHANGED <<config, run, result, row, barrier, faults>>

Truncate(t) ==
    /\ At(t, "truncate")
    /\ \/ /\ thread' = [thread EXCEPT ![t].pc = "load", ![t].wrote = TRUE]
          /\ target' = [target EXCEPT ![t].old = FALSE, ![t].copies = [b \in Batch |-> 0]]
       \/ /\ thread' = [thread EXCEPT ![t].pc = "failing", ![t].wrote = TRUE]
          /\ UNCHANGED target
    /\ UNCHANGED <<config, run, result, row, barrier, faults>>

Loaded(t) == [target EXCEPT ![t].copies[thread[t].next] = @ + 1]

\* One stream load, or the INSERT ... SELECT; Doris may refuse it.
Load(t) ==
    /\ At(t, "load") /\ thread[t].next <= Batches
    /\ \/ /\ target' = Loaded(t)
          /\ thread' = [thread EXCEPT ![t].next = @ + 1, ![t].wrote = TRUE]
       \/ /\ thread' = [thread EXCEPT ![t].pc = "failing", ![t].wrote = TRUE]
          /\ UNCHANGED target
    /\ UNCHANGED <<config, run, result, row, barrier, faults>>

\* table_finished
FinishTable(t) ==
    /\ At(t, "load") /\ thread[t].next > Batches /\ Goto(t, "done")
    /\ row' = [row EXCEPT ![t] = "succeeded"]
    /\ UNCHANGED <<config, run, result, barrier, target, faults>>

\* A connection is lost.  What was sent may have been done all the same.
Interrupt(t) ==
    /\ Fault
    /\ \/ /\ At(t, "connect") \/ (At(t, "load") /\ thread[t].next > Batches)
          /\ Goto(t, "interrupted") /\ UNCHANGED target
       \/ /\ At(t, "connect") /\ target[t].shape # "fits"
          /\ thread' = [thread EXCEPT ![t].pc = "interrupted", ![t].wrote = TRUE]
          /\ target' \in {target, [target EXCEPT ![t].shape = "fits"]}
       \/ /\ At(t, "truncate")
          /\ thread' = [thread EXCEPT ![t].pc = "interrupted", ![t].wrote = TRUE]
          /\ target' \in {target, [target EXCEPT ![t].old = FALSE,
                                                 ![t].copies = [b \in Batch |-> 0]]}
       \/ /\ At(t, "load") /\ thread[t].next <= Batches
          /\ thread' = [thread EXCEPT ![t].pc = "interrupted", ![t].wrote = TRUE]
          /\ target' \in {target, Loaded(t)}
    /\ UNCHANGED <<config, run, result, row, barrier>>

-----------------------------------------------------------------------------
(* recover *)

\* Bug: a table is attempted again whatever was sent to Doris.
AttemptWhatever(t) == thread[t].attempt < MaxAttempts

MayAttempt(t) == ~thread[t].wrote /\ thread[t].attempt < MaxAttempts

\* The connections are there again.
Resume(t) ==
    IF MayAttempt(t)
    THEN thread' = [thread EXCEPT ![t].pc = "ready", ![t].attempt = @ + 1]
    ELSE Goto(t, "failing")

\* The probes have failed.
GiveUp(t) == thread' = [thread EXCEPT ![t].pc = "failing", ![t].stop = TRUE]

NewGeneration(t) == barrier.generation # thread[t].generation

\* Bug: a round that failed is forgotten.
RecoverAgain(t) ==
    /\ At(t, "interrupted")
    /\ \/ NewGeneration(t) /\ Resume(t) /\ UNCHANGED barrier
       \/ /\ ~NewGeneration(t) /\ barrier.recovering
          /\ Goto(t, "waiting") /\ UNCHANGED barrier
       \/ /\ ~NewGeneration(t) /\ ~barrier.recovering
          /\ barrier' = [barrier EXCEPT !.recovering = TRUE, !.probes = 0, !.rounds = @ + 1]
          /\ Goto(t, "announcing")
    /\ UNCHANGED <<config, run, result, row, target, faults>>

Recover(t) ==
    /\ At(t, "interrupted")
    /\ \/ NewGeneration(t) /\ Resume(t) /\ UNCHANGED barrier
       \/ ~NewGeneration(t) /\ barrier.failed /\ GiveUp(t) /\ UNCHANGED barrier
       \/ /\ ~NewGeneration(t) /\ ~barrier.failed /\ barrier.recovering
          /\ Goto(t, "waiting") /\ UNCHANGED barrier
       \/ /\ ~NewGeneration(t) /\ ~barrier.failed /\ ~barrier.recovering
          /\ barrier' = [barrier EXCEPT !.recovering = TRUE, !.probes = 0, !.rounds = @ + 1]
          /\ Goto(t, "announcing")
    /\ UNCHANGED <<config, run, result, row, target, faults>>

Wait(t) ==
    /\ At(t, "waiting")
    /\ \/ NewGeneration(t) /\ Resume(t)
       \/ ~NewGeneration(t) /\ ~barrier.recovering /\ GiveUp(t)
    /\ UNCHANGED <<config, run, result, row, barrier, target, faults>>

\* The log of the recovery is written before the try block that ends it.
Announce(t) ==
    /\ At(t, "announcing") /\ Goto(t, "probing")
    /\ UNCHANGED <<config, run, result, row, barrier, target, faults>>

Recovered ==
    [barrier EXCEPT !.recovering = FALSE, !.failed = FALSE, !.generation = @ + 1]
NotRecovered == [barrier EXCEPT !.recovering = FALSE, !.failed = TRUE]

ProbeSucceeds(t) ==
    /\ At(t, "probing")
    /\ barrier' = Recovered /\ Resume(t)
    /\ UNCHANGED <<config, run, result, row, target, faults>>

\* Bug: only a successful round ends the recovery.
ProbeFailsOpen(t) ==
    /\ At(t, "probing")
    /\ IF barrier.probes + 1 < MaxProbes
       THEN barrier' = [barrier EXCEPT !.probes = @ + 1] /\ UNCHANGED thread
       ELSE barrier' = [barrier EXCEPT !.failed = TRUE] /\ GiveUp(t)
    /\ UNCHANGED <<config, run, result, row, target, faults>>

ProbeFails(t) ==
    /\ At(t, "probing")
    /\ IF barrier.probes + 1 < MaxProbes
       THEN barrier' = [barrier EXCEPT !.probes = @ + 1] /\ UNCHANGED thread
       ELSE barrier' = NotRecovered /\ GiveUp(t)
    /\ UNCHANGED <<config, run, result, row, target, faults>>

\* table_failed
FailTable(t) ==
    /\ At(t, "failing") /\ Goto(t, "done")
    /\ row' = [row EXCEPT ![t] = "failed"]
    /\ UNCHANGED <<config, run, result, barrier, target, faults>>

\* The recorder fails.  Outside of the try block of an attempt the future
\* raises, whatever becomes of the recovery the thread is making.
EventFails(t) ==
    /\ Fault
    /\ \/ /\ \/ At(t, "start") \/ At(t, "interrupted") \/ At(t, "announcing")
             \/ At(t, "failing") \/ (At(t, "ready") /\ thread[t].attempt > 1)
          /\ Goto(t, "raised") /\ UNCHANGED barrier
       \/ At(t, "probing") /\ Goto(t, "raised") /\ barrier' \in {Recovered, NotRecovered}
       \/ /\ At(t, "load") /\ thread[t].next > Batches
          /\ Goto(t, "failing") /\ UNCHANGED barrier
    /\ UNCHANGED <<config, run, result, row, target>>

-----------------------------------------------------------------------------
ThreadStep(t) ==
    \/ Start(t) \/ Ready(t) \/ PrepareTable(t) \/ Truncate(t) \/ Load(t)
    \/ FinishTable(t) \/ FailTable(t)
    \/ Recover(t) \/ Wait(t) \/ Announce(t) \/ ProbeSucceeds(t) \/ ProbeFails(t)

MainStep == Prepare \/ Finish \/ Unwind \/ \E t \in Table : Collect(t) \/ Raise(t)

Next ==
    \/ MainStep \/ Crash
    \/ \E t \in Table : ThreadStep(t) \/ Interrupt(t) \/ EventFails(t)

Spec == Init /\ [][Next]_vars

\* Threads of one process.  Every request to a database has a timeout.
FairSpec == Spec /\ WF_vars(MainStep) /\ \A t \in Table : WF_vars(ThreadStep(t))

-----------------------------------------------------------------------------
(* No batch is loaded twice, whatever is lost and attempted again; a table  *)
(* that is recorded as succeeded has every batch, and nothing else if it was *)
(* to be truncated (execute_mapping, _execute_one_table).                   *)
LoadedOnce ==
    \A t \in Table :
        /\ \A b \in Batch : target[t].copies[b] <= 1
        /\ row[t] = "succeeded" =>
              /\ \A b \in Batch : target[t].copies[b] = 1
              /\ config.truncate => ~target[t].old

(* A run that ends by itself accounts for every table as the table's row    *)
(* does, and a table it skipped was never touched (execute_data_sync and    *)
(* _DataSyncComponentRunRecorder, two records of the same run).             *)
Accounted ==
    run.pc = "ended" /\ ~(\E t \in Table : thread[t].pc \in {"done", "raised"}) =>
        \A t \in Table :
            /\ result[t] = row[t] /\ row[t] \in Closed
            /\ row[t] = "skipped" => thread[t] = NotStarted /\ run.status # "succeeded"
            /\ row[t] = "failed" => run.status # "succeeded"

(* One thread probes at a time, and one round of probes is made for an      *)
(* outage, however many threads meet it (_DataSyncConnectionRecovery).      *)
ProbedOnce ==
    /\ Cardinality({t \in Table : thread[t].pc \in {"announcing", "probing"}}) <= 1
    /\ barrier.rounds <= barrier.generation + 1

(* Nothing a run did is lost, repeated or misreported, whatever connections *)
(* break and whichever threads go on with its tables.                       *)
RowsAccounted == LoadedOnce /\ Accounted /\ ProbedOnce

(* When a round of probes has failed it is over: the outage is never taken  *)
(* for recovered, no table opens a connection any more, and once the first  *)
(* of the results is in, no table is submitted.                             *)
OutageStops ==
    [][barrier.failed =>
        /\ barrier'.failed
        /\ \A t \in Table : thread'[t].pc = "connect" => thread[t].pc = "connect"
        /\ (\E t \in Table : thread'[t].pc = "collected" /\ thread'[t].stop) =>
              \A t \in Table : thread[t].pc = "none" => thread'[t].pc = "none"]_vars

\* A recovery that was never made nor given up: nobody probes.
Abandoned ==
    barrier.recovering /\ ~barrier.failed /\ \A t \in Table : thread[t].pc \notin {"announcing", "probing"}

(* A run ends unless its worker dies or the log of a recovery cannot be     *)
(* written: no thread waits for another for ever (execute_data_sync).       *)
Unfinished == run.pc = "running" /\ ~Abandoned
RunEnds == []<>~Unfinished
==============================================================================

------------------------------ MODULE Sm4Batch ------------------------------
(***************************************************************************)
(* SM4 encryption batches of one Doris database and the rotation of the    *)
(* key its function CQ_SM4_ENCRYPT carries.                                *)
(*                                                                         *)
(* A batch is bound to a key version when it is created.  The scheduler of *)
(* the API process reserves it, a Celery worker claims it, checks that the *)
(* function still has the bound key and encrypts table after table.  A     *)
(* named lock (the database guard) is meant to keep rotations away from    *)
(* batches.  Stop requests, a restart of the API and redelivered messages  *)
(* write the same row without that lock.                                   *)
(*                                                                         *)
(* The batches of a database exclude each other (one per database and      *)
(* connection, sm4_database_concurrency), so the overlap of their tables   *)
(* is not told apart.  The results column is left out: wrote is what it    *)
(* reports.  The lock is never lost while its holder lives.                *)
(***************************************************************************)
EXTENDS Integers

CONSTANTS
    Job,           \* batches
    Automation,    \* those that data automation submits
    Windowed,      \* those with an execution window
    Tables,        \* tables of a batch
    Worker,        \* Celery worker slots of the SM4 queue
    MaxRotations,  \* bound: refreshes of the function
    MaxStops,      \* bound: stop requests
    MaxFaults      \* bound: failures, crashes and restarts

ASSUME Sm4BatchAssumption ==
    /\ Automation \subseteq Job /\ Windowed \subseteq Job
    /\ Worker \cap {"free", "rotation"} = {}
    /\ Tables \in Nat \ {0}
    /\ MaxRotations \in Nat /\ MaxStops \in Nat /\ MaxFaults \in Nat

VARIABLES
    job,      \* DorisSm4BatchJob: state and bound key
    msgs,     \* doris.sm4_batch messages of a batch in the broker
    worker,   \* the worker slots
    stop,     \* the stop request for a batch: what it has read
    sched,    \* the scheduler thread and the startup of the API
    guard,    \* holder of the database guard
    rot,      \* the running refresh of the function
    fn,       \* key of CQ_SM4_ENCRYPT in Doris; NoKey: no such function
    keys,     \* registered key versions
    deployed, \* newest DorisSm4FunctionDeployment of the database
    wrote,    \* wrote[j][t]: keys that table t was encrypted with by batch j
    rotations, stops, faults

vars == <<job, msgs, worker, stop, sched, guard, rot, fn, keys, deployed,
          wrote, rotations, stops, faults>>

Table == 1 .. Tables
NoKey == 0
Key == 1 .. MaxRotations + 1
NoJob == 0

Active == {"reserved", "running", "stopping"}
InFlight == {"queued"} \cup Active
Halted == {"stopping", "cancelled", "stopped"}
Final == {"succeeded", "failed", "partial", "stopped", "cancelled"}

\* key and seen: the state as the session of the worker has loaded it.
Slot == [pc : {"idle", "claimed", "preflight", "table", "write"},
         job : Job \cup {NoJob}, seen : {"none"} \cup InFlight \cup Final,
         next : 1 .. Tables + 1, ok : BOOLEAN, bad : BOOLEAN]
Idle == [pc |-> "idle", job |-> NoJob, seen |-> "none", next |-> 1, ok |-> FALSE, bad |-> FALSE]

SchedIdle == [pc |-> "idle", stale |-> {}, broken |-> {}, queue |-> {}, job |-> NoJob]
RotIdle == [pc |-> "idle", key |-> NoKey, ok |-> FALSE, encrypt |-> TRUE]

TypeOK ==
    /\ job \in [Job -> [state : {"none", "flushed"} \cup InFlight \cup Final,
                        key : Key \cup {NoKey}]]
    /\ msgs \in [Job -> Nat]
    /\ worker \in [Worker -> Slot]
    /\ stop \in [Job -> {"none", "cancelled", "stopping"}]
    /\ sched \in [pc : {"idle", "reset", "claim", "send", "starting"},
                  stale : SUBSET Job, broken : SUBSET Job, queue : SUBSET Job,
                  job : Job \cup {NoJob}]
    /\ guard \in {"free", "rotation"} \cup Worker
    /\ rot \in [pc : {"idle", "ddl", "record"}, key : Key \cup {NoKey},
                ok : BOOLEAN, encrypt : BOOLEAN]
    /\ fn \in Key \cup {NoKey}
    /\ keys \subseteq Key
    /\ deployed \in [usable : BOOLEAN, key : Key]
    /\ wrote \in [Job -> [Table -> SUBSET Key]]
    /\ rotations \in 0 .. MaxRotations
    /\ stops \in 0 .. MaxStops
    /\ faults \in 0 .. MaxFaults

Init ==
    /\ job = [j \in Job |-> [state |-> "none", key |-> NoKey]]
    /\ msgs = [j \in Job |-> 0]
    /\ worker = [w \in Worker |-> Idle]
    /\ stop = [j \in Job |-> "none"]
    /\ sched = SchedIdle
    /\ guard = "free"
    /\ rot = RotIdle
    /\ fn = 1 /\ keys = {1} /\ deployed = [usable |-> TRUE, key |-> 1]
    /\ wrote = [j \in Job |-> [t \in Table |-> {}]]
    /\ rotations = 0 /\ stops = 0 /\ faults = 0

Fault == faults < MaxFaults /\ faults' = faults + 1
SetState(j, s) == job' = [job EXCEPT ![j].state = s]
Up == sched.pc # "starting"

-----------------------------------------------------------------------------
(* Creation of batches. *)

\* resolve_sm4_key_version_for_batch: a version the caller names, or the one
\* the newest deployment of the database has put into use.
Resolved == keys \cup (IF deployed.usable THEN {deployed.key} ELSE {})

\* create_sm4_batch_task: key and row under the guard.
CreateBatch(j) ==
    /\ Up /\ j \notin Automation /\ job[j].state = "none" /\ guard = "free"
    /\ \E k \in Resolved : job' = [job EXCEPT ![j] = [state |-> "queued", key |-> k]]
    /\ UNCHANGED <<msgs, worker, stop, sched, guard, rot, fn, keys, deployed, wrote, rotations, stops, faults>>

\* _prepare_automation_encryption_job flushes the row under the guard ...
PrepareForAutomation(j) ==
    /\ j \in Automation /\ job[j].state = "none" /\ guard = "free" /\ deployed.usable
    /\ job' = [job EXCEPT ![j] = [state |-> "flushed", key |-> deployed.key]]
    /\ UNCHANGED <<msgs, worker, stop, sched, guard, rot, fn, keys, deployed, wrote, rotations, stops, faults>>

\* ... and the stage of the automation batch commits it after the guard is free.
CommitForAutomation(j) ==
    /\ job[j].state = "flushed"
    /\ \/ SetState(j, "queued") /\ UNCHANGED faults
       \/ SetState(j, "none") /\ Fault                  \* the stage fails and rolls back
    /\ UNCHANGED <<msgs, worker, stop, sched, guard, rot, fn, keys, deployed, wrote, rotations, stops>>

-----------------------------------------------------------------------------
(* Refresh of the function: guard, check, DDL, record. *)

\* list_inflight_sm4_batches sees committed rows only.
InFlightJobs == {j \in Job : job[j].state \in InFlight}

RotationAllowed == InFlightJobs = {}

BeginRotation(k, encrypt) ==
    /\ Up /\ rot.pc = "idle" /\ guard = "free" /\ RotationAllowed
    /\ rotations < MaxRotations /\ rotations' = rotations + 1
    /\ \/ k \in keys
       \/ encrypt /\ k \in Key \ (keys \cup {fn})
    /\ guard' = "rotation"
    /\ rot' = [pc |-> "ddl", key |-> k, ok |-> FALSE, encrypt |-> encrypt]
    /\ UNCHANGED <<job, msgs, worker, stop, sched, fn, keys, deployed, wrote, stops, faults>>

\* _refresh_function_in_database: the old function is dropped, the new one
\* created (unless encryption is disabled) and verified.
ReplaceFunction ==
    /\ rot.pc = "ddl"
    /\ fn' = IF rot.encrypt THEN rot.key ELSE NoKey
    /\ rot' = [rot EXCEPT !.pc = "record", !.ok = TRUE]
    /\ UNCHANGED <<job, msgs, worker, stop, sched, guard, keys, deployed, wrote, rotations, stops, faults>>

\* A statement or the verification fails: the function may exist or not.
ReplaceFails ==
    /\ rot.pc = "ddl" /\ Fault
    /\ fn' \in {NoKey, rot.key}
    /\ rot' = [rot EXCEPT !.pc = "record"]
    /\ UNCHANGED <<job, msgs, worker, stop, sched, guard, keys, deployed, wrote, rotations, stops>>

\* register_sm4_key_version: the version is kept if its function works.
Registered == IF rot.ok THEN keys \cup {rot.key} ELSE keys

\* The key version and the deployment are recorded, the guard is released.
RecordDeployment ==
    /\ rot.pc = "record"
    /\ keys' = Registered
    /\ deployed' = [usable |-> rot.ok /\ rot.encrypt, key |-> rot.key]
    /\ rot' = RotIdle /\ guard' = "free"
    /\ UNCHANGED <<job, msgs, worker, stop, sched, fn, wrote, rotations, stops, faults>>

Refresh == ReplaceFunction \/ ReplaceFails \/ RecordDeployment
Rotation == Refresh \/ \E k \in Key, encrypt \in BOOLEAN : BeginRotation(k, encrypt)

-----------------------------------------------------------------------------
(* The scheduler: _dispatch_queued_sm4_jobs under the dispatch guard. *)

Missing(j) == msgs[j] = 0 /\ \A w \in Worker : worker[w].job # j

\* Bug: reservations are never taken back.
StaleNever(S) == S = {} /\ faults' = faults

\* A reservation is stale after ten minutes: its message got lost, or it waits
\* in a queue that is too slow, which counts as a fault.
Stale(S) ==
    LET reserved == {j \in Job : job[j].state = "reserved"}
        lost == {j \in reserved : Missing(j)}
    IN IF S = lost THEN faults' = faults
       ELSE lost \subseteq S /\ S \subseteq reserved /\ Fault

\* One snapshot: stale reservations, active batches, the queue.  Windows that
\* are closed keep their batches out of it.
ReadQueue ==
    /\ sched.pc = "idle"
    /\ \E S \in SUBSET Job, closed \in SUBSET Windowed :
          LET queue == {j \in Job : job[j].state = "queued"} \cup S
              free == \A j \in Job \ S : job[j].state \notin Active
          IN /\ Stale(S)
             /\ S # {} \/ (free /\ ~(queue \subseteq closed))
             /\ sched' = [sched EXCEPT !.pc = IF S = {} THEN "claim" ELSE "reset",
                             !.stale = S, !.queue = IF free THEN queue \ closed ELSE {}]
    /\ UNCHANGED <<job, msgs, worker, stop, guard, rot, fn, keys, deployed, wrote, rotations, stops>>

Rest(queue) ==
    IF queue = {} THEN SchedIdle
    ELSE [sched EXCEPT !.pc = "claim", !.stale = {}, !.queue = queue, !.job = NoJob]

\* The stale reservations are written back whatever became of them.
ResetStale ==
    /\ sched.pc = "reset"
    /\ job' = [j \in Job |-> IF j \in sched.stale THEN [job[j] EXCEPT !.state = "queued"]
                             ELSE job[j]]
    /\ sched' = Rest(sched.queue)
    /\ UNCHANGED <<msgs, worker, stop, guard, rot, fn, keys, deployed, wrote, rotations, stops, faults>>

\* UPDATE ... WHERE state = 'queued'.
Reserve(j) ==
    /\ sched.pc = "claim" /\ j \in sched.queue
    /\ IF job[j].state = "queued"
       THEN /\ SetState(j, "reserved")
            /\ sched' = [sched EXCEPT !.pc = "send", !.queue = @ \ {j}, !.job = j]
       ELSE job' = job /\ sched' = Rest(sched.queue \ {j})
    /\ UNCHANGED <<msgs, worker, stop, guard, rot, fn, keys, deployed, wrote, rotations, stops, faults>>

\* The batch counts as active: the others of the database have to wait.
Send ==
    /\ sched.pc = "send"
    /\ msgs' = [msgs EXCEPT ![sched.job] = @ + 1]
    /\ sched' = SchedIdle
    /\ UNCHANGED <<job, worker, stop, guard, rot, fn, keys, deployed, wrote, rotations, stops, faults>>

SendFails ==
    /\ sched.pc = "send" /\ Fault
    /\ SetState(sched.job, "queued")
    /\ sched' = Rest(sched.queue)
    /\ UNCHANGED <<msgs, worker, stop, guard, rot, fn, keys, deployed, wrote, rotations, stops>>

Dispatch == ReadQueue \/ ResetStale \/ (\E j \in Job : Reserve(j)) \/ Send \/ SendFails

\* The API restarts: its refresh and its requests are gone, and
\* _recover_interrupted_sm4_jobs_on_startup reads what it will write back.
Restart ==
    /\ Fault
    /\ sched' = [pc |-> "starting", queue |-> {}, job |-> NoJob,
                 stale |-> {j \in Job : job[j].state = "reserved"},
                 broken |-> {j \in Job : job[j].state \in {"running", "stopping"}}]
    /\ stop' = [j \in Job |-> "none"]
    /\ rot' = RotIdle
    /\ guard' = IF guard = "rotation" THEN "free" ELSE guard
    /\ UNCHANGED <<job, msgs, worker, fn, keys, deployed, wrote, rotations, stops>>

RecoverJobs ==
    /\ sched.pc = "starting"
    /\ job' = [j \in Job |-> [job[j] EXCEPT !.state =
                  IF j \in sched.stale THEN "queued"
                  ELSE IF j \in sched.broken THEN "failed" ELSE @]]
    /\ sched' = SchedIdle
    /\ UNCHANGED <<msgs, worker, stop, guard, rot, fn, keys, deployed, wrote, rotations, stops, faults>>

-----------------------------------------------------------------------------
(* Stop requests: read, then write whatever the batch has become. *)

RequestStop(j) ==
    /\ Up /\ stop[j] = "none" /\ stops < MaxStops
    /\ job[j].state \in InFlight
    /\ stop' = [stop EXCEPT ![j] = IF job[j].state \in {"queued", "reserved"}
                                   THEN "cancelled" ELSE "stopping"]
    /\ stops' = stops + 1
    /\ UNCHANGED <<job, msgs, worker, sched, guard, rot, fn, keys, deployed, wrote, rotations, faults>>

CommitStop(j) ==
    /\ stop[j] # "none"
    /\ SetState(j, stop[j])
    /\ stop' = [stop EXCEPT ![j] = "none"]
    /\ UNCHANGED <<msgs, worker, sched, guard, rot, fn, keys, deployed, wrote, rotations, stops, faults>>

-----------------------------------------------------------------------------
(* A worker. *)

Goto(w, pc) == worker' = [worker EXCEPT ![w].pc = pc]
Leave(w) ==
    /\ worker' = [worker EXCEPT ![w] = Idle]
    /\ guard' = IF guard = w THEN "free" ELSE guard

\* run_sm4_batch_job: only a reserved batch is taken, other messages are dropped.
Claim(w, j) ==
    /\ worker[w].pc = "idle" /\ msgs[j] > 0
    /\ msgs' = [msgs EXCEPT ![j] = @ - 1]
    /\ IF job[j].state = "reserved"
       THEN /\ SetState(j, "running")
            /\ worker' = [worker EXCEPT ![w] = [Idle EXCEPT !.pc = "claimed", !.job = j]]
       ELSE UNCHANGED <<job, worker>>
    /\ UNCHANGED <<stop, sched, guard, rot, fn, keys, deployed, wrote, rotations, stops, faults>>

\* The connection profile is gone.
NoProfile(w) ==
    /\ worker[w].pc = "claimed" /\ Fault
    /\ SetState(worker[w].job, "failed")
    /\ Leave(w)
    /\ UNCHANGED <<msgs, stop, sched, rot, fn, keys, deployed, wrote, rotations, stops>>

\* _stop_remaining_sm4_batch_tables: what a batch that was halted ends as.
StopState(j) == IF job[j].state = "cancelled" THEN "cancelled" ELSE "stopped"

\* The guard is taken, the row read, and the batch ended if it was stopped.
TakeGuard(w) ==
    LET j == worker[w].job IN
    /\ worker[w].pc = "claimed" /\ guard = "free"
    /\ IF job[j].state \in Halted
       THEN /\ SetState(j, StopState(j))
            /\ Leave(w)
       ELSE /\ job' = job /\ guard' = w
            /\ worker' = [worker EXCEPT ![w].pc = "preflight", ![w].seen = job[j].state]
    /\ UNCHANGED <<msgs, stop, sched, rot, fn, keys, deployed, wrote, rotations, stops, faults>>

\* After 30 seconds the TimeoutError ends the Celery task; the row stays as it is.
GuardTimeout(w) ==
    /\ worker[w].pc = "claimed" /\ guard # "free"
    /\ worker' = [worker EXCEPT ![w] = Idle]
    /\ UNCHANGED <<job, msgs, stop, sched, guard, rot, fn, keys, deployed, wrote, rotations, stops, faults>>

\* Bug: the preflight accepts any function that encrypts.
KeyMatchesAny(w) == fn # NoKey

\* _verify_sm4_batch_key_binding
KeyMatches(w) == fn = job[worker[w].job].key

\* The session writes the state only if it differs from the one it has loaded.
Preflight(w) ==
    LET j == worker[w].job IN
    /\ worker[w].pc = "preflight" /\ KeyMatches(w)
    /\ IF worker[w].seen = "running" THEN job' = job ELSE SetState(j, "running")
    /\ Goto(w, "table")
    /\ UNCHANGED <<msgs, stop, sched, guard, rot, fn, keys, deployed, wrote, rotations, stops, faults>>

\* The outer except branch: the preflight or a commit has failed.
Abort(w) ==
    /\ \/ worker[w].pc = "preflight" /\ ~KeyMatches(w) /\ UNCHANGED faults
       \/ worker[w].pc \in {"preflight", "table"} /\ Fault
    /\ SetState(worker[w].job, "failed")
    /\ Leave(w)
    /\ UNCHANGED <<msgs, stop, sched, rot, fn, keys, deployed, wrote, rotations, stops>>

\* Before a table the row is read again.
StartTable(w) ==
    LET j == worker[w].job IN
    /\ worker[w].pc = "table" /\ worker[w].next <= Tables
    /\ IF job[j].state \in Halted
       THEN /\ SetState(j, StopState(j))
            /\ Leave(w)
       ELSE job' = job /\ guard' = guard /\ Goto(w, "write")
    /\ UNCHANGED <<msgs, stop, sched, rot, fn, keys, deployed, wrote, rotations, stops, faults>>

\* _execute_sm4_batch_table: target dropped and created, rows encrypted into it.
EncryptTable(w) ==
    LET j == worker[w].job IN
    /\ worker[w].pc = "write" /\ fn # NoKey
    /\ wrote' = [wrote EXCEPT ![j][worker[w].next] = @ \cup {fn}]
    /\ worker' = [worker EXCEPT ![w].pc = "table", ![w].next = @ + 1, ![w].ok = TRUE]
    /\ UNCHANGED <<job, msgs, stop, sched, guard, rot, fn, keys, deployed, rotations, stops, faults>>

\* _try_stop_running_sm4_queries: a request to stop kills the running query.
Killed(j) == stop[j] = "stopping"

\* A statement fails or is killed: the batch ends, or goes on after a failure.
TableFails(w) ==
    LET j == worker[w].job IN
    /\ worker[w].pc = "write"
    /\ \/ (fn = NoKey \/ Killed(j)) /\ UNCHANGED faults
       \/ Fault
    /\ IF job[j].state \in Halted
       THEN SetState(j, "stopped") /\ Leave(w)
       ELSE /\ worker' = [worker EXCEPT ![w].pc = "table", ![w].next = @ + 1, ![w].bad = TRUE]
            /\ UNCHANGED <<job, guard>>
    /\ UNCHANGED <<msgs, stop, sched, rot, fn, keys, deployed, wrote, rotations, stops>>

\* Bug: a batch that has encrypted a table has succeeded.
OutcomeIfAny(s) == IF s.ok THEN "succeeded" ELSE "failed"

Outcome(s) == IF ~s.bad THEN "succeeded" ELSE IF s.ok THEN "partial" ELSE "failed"

\* Written whatever the row says by now.
FinishBatch(w) ==
    /\ worker[w].pc = "table" /\ worker[w].next > Tables
    /\ SetState(worker[w].job, Outcome(worker[w]))
    /\ Leave(w)
    /\ UNCHANGED <<msgs, stop, sched, rot, fn, keys, deployed, wrote, rotations, stops, faults>>

\* The process dies: its locks go, the unacknowledged message comes back.
Crash(w) ==
    /\ worker[w].pc # "idle" /\ Fault
    /\ Leave(w)
    /\ msgs' = [msgs EXCEPT ![worker[w].job] = @ + 1]
    /\ UNCHANGED <<job, stop, sched, rot, fn, keys, deployed, wrote, rotations, stops>>

\* The visibility timeout of the broker passes: delivered again.
Redeliver(w) ==
    /\ worker[w].pc # "idle" /\ Fault
    /\ msgs' = [msgs EXCEPT ![worker[w].job] = @ + 1]
    /\ UNCHANGED <<job, worker, stop, sched, guard, rot, fn, keys, deployed, wrote, rotations, stops>>

LoseMessage(j) ==
    /\ msgs[j] > 0 /\ Fault
    /\ msgs' = [msgs EXCEPT ![j] = @ - 1]
    /\ UNCHANGED <<job, worker, stop, sched, guard, rot, fn, keys, deployed, wrote, rotations, stops>>

Work(w) ==
    \/ \E j \in Job : Claim(w, j)
    \/ TakeGuard(w) \/ Preflight(w) \/ Abort(w) \/ StartTable(w)
    \/ EncryptTable(w) \/ TableFails(w) \/ FinishBatch(w)

Next ==
    \/ \E j \in Job : \/ CreateBatch(j) \/ PrepareForAutomation(j)
                      \/ CommitForAutomation(j) \/ RequestStop(j)
                      \/ CommitStop(j) \/ LoseMessage(j)
    \/ Rotation \/ Dispatch \/ Restart \/ RecoverJobs
    \/ \E w \in Worker : \/ Work(w) \/ NoProfile(w) \/ GuardTimeout(w)
                         \/ Crash(w) \/ Redeliver(w)

Spec == Init /\ [][Next]_vars

\* The loops of the scheduler and of the workers go on, requests that have
\* begun end.  Users need not create, stop or rotate anything.
Fairness ==
    /\ WF_vars(Dispatch) /\ WF_vars(RecoverJobs)
    /\ WF_vars(Refresh)
    /\ \A j \in Job : WF_vars(CommitStop(j)) /\ WF_vars(CommitForAutomation(j))
    /\ \A w \in Worker : WF_vars(Work(w))

FairSpec == Spec /\ Fairness

-----------------------------------------------------------------------------
(* Properties. *)

\* Every row a batch has written is encrypted with the key the batch is bound
\* to, whatever was refreshed, restarted or delivered twice in between: the
\* preflight and the guard (_verify_sm4_batch_key_binding,
\* sm4_database_guard) see to it together.
BoundKeyOnly ==
    \A j \in Job, t \in Table : wrote[j][t] \subseteq {job[j].key}

\* A batch that is recorded as succeeded has encrypted all of its tables.
SucceededIsComplete ==
    \A j \in Job : job[j].state = "succeeded" => \A t \in Table : wrote[j][t] # {}

\* What a batch has written is complete and under one key.
WrittenAsRecorded == BoundKeyOnly /\ SucceededIsComplete

\* Nobody works on the batch any more although its row says so.
Orphan(j) ==
    /\ job[j].state \in {"running", "stopping"} /\ stop[j] = "none"
    /\ \A w \in Worker : worker[w].job # j

\* A batch in the queue comes to an end, also after failed sends, lost
\* messages and restarts; what stands in the way of all batches of the database
\* is a batch that was left running or stopping by a crash, a timeout at the
\* guard or a late stop request, and only that.
BatchesEnd ==
    \A j \in Job : job[j].state \in InFlight ~>
                   (job[j].state \in Final \/ \E i \in Job : Orphan(i))
=============================================================================

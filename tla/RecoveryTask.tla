---------------------------- MODULE RecoveryTask ----------------------------
(***************************************************************************)
(* The life of an Oracle / SQL Server / MySQL recovery task: the row the   *)
(* task API writes, the Celery messages that name it, the workers that     *)
(* claim and run it, and the cancel, stop and retry requests that change   *)
(* the same row while a worker runs.                                       *)
(*                                                                         *)
(* Every API handler reads the row in one transaction and writes it later  *)
(* by primary key: the write is a step of its own and carries what was     *)
(* read.  The session writes only the columns whose value it changed       *)
(* (Flush), and a session under REPEATABLE READ keeps reading the snapshot *)
(* its transaction opened.                                                 *)
(***************************************************************************)
EXTENDS Integers, FiniteSets

CONSTANTS
    Task,             \* recovery tasks
    Worker,           \* Celery worker slots of the Oracle queue
    Request,          \* API requests that can be in progress at once
    Op,               \* the control requests users send: cancel, stop, retry
    Embedded,         \* the tasks with options.embedded_oracle
    RepeatableRead,   \* the isolation level of the system database
    MaxGrants,        \* bound: times a task is made startable (create + retries)
    MaxRedeliveries,  \* bound: messages restored by the broker while unacked
    MaxCrashes        \* bound: worker crashes

ASSUME RecoveryAssumption ==
    /\ Op \subseteq {"cancel", "stop", "retry"}
    /\ Embedded \subseteq Task
    /\ RepeatableRead \in BOOLEAN
    /\ MaxGrants \in Nat
    /\ MaxRedeliveries \in Nat
    /\ MaxCrashes \in Nat

VARIABLES
    row,           \* the recovery_task rows
    messages,      \* messages[t]: deliverable messages that name t
    worker,        \* the worker slots
    request,       \* the API requests in progress
    stopFiles,     \* <<task, run>> whose stop.request file is written
    grants,        \* times each task was made startable
    starts,        \* times each task was claimed
    staleWrite,    \* tasks whose row was written from an outdated read of its state
    redeliveries, crashes

vars == <<row, messages, worker, request, stopFiles, grants, starts,
          staleWrite, redeliveries, crashes>>

-----------------------------------------------------------------------------
\* succeeded stands for succeeded and succeeded_with_warnings: every guard of
\* the modelled code names them together.
Terminal == {"succeeded", "failed", "cancelled"}
TaskState == {"absent", "created", "policy_running", "stopping"} \cup Terminal

\* control is the run whose directory, Data Pump job and container are
\* published in oracle_run_dir, oracle_job_name and oracle_container; 0 when
\* these columns are empty.
Row == [state : TaskState, stopRequested : BOOLEAN, control : Nat]
NoRow == [state |-> "absent", stopRequested |-> FALSE, control |-> 0]

\* What a session writes back: only the columns it changed since it loaded
\* them, over whatever the row holds by then.
Flush(current, loaded, new) ==
    [state         |-> IF new.state = loaded.state
                       THEN current.state ELSE new.state,
     stopRequested |-> IF new.stopRequested = loaded.stopRequested
                       THEN current.stopRequested ELSE new.stopRequested,
     control       |-> IF new.control = loaded.control
                       THEN current.control ELSE new.control]

Outcome == {"succeeded", "failed", "cancelled"}

\* A worker slot: the task and run it works on, the columns its transaction
\* has loaded, what the pipeline returned.
WorkerSlot ==
    [pc : {"idle", "claimed", "running", "finishing", "acking"},
     task : Task, run : Nat, loaded : Row, outcome : Outcome]
IdleWorker(t) == [pc |-> "idle", task |-> t, run |-> 0,
                  loaded |-> NoRow, outcome |-> "failed"]

RequestSlot ==
    [pc : {"idle", "decide", "signal", "enqueue"},
     op : {"cancel", "stop", "retry"}, task : Task, seen : Row]
IdleRequest(t) == [pc |-> "idle", op |-> "cancel", task |-> t, seen |-> NoRow]

\* The workers that are inside the pipeline, or about to enter or leave it,
\* for task t.
Runners(t) ==
    {w \in Worker : worker[w].task = t /\
                    worker[w].pc \in {"claimed", "running", "finishing"}}

TypeOK ==
    /\ row \in [Task -> Row]
    /\ messages \in [Task -> Nat]
    /\ worker \in [Worker -> WorkerSlot]
    /\ request \in [Request -> RequestSlot]
    /\ stopFiles \in SUBSET (Task \X Nat)
    /\ grants \in [Task -> Nat]
    /\ starts \in [Task -> Nat]
    /\ staleWrite \in SUBSET Task
    /\ redeliveries \in Nat
    /\ crashes \in Nat

Init ==
    /\ row = [t \in Task |-> NoRow]
    /\ messages = [t \in Task |-> 0]
    /\ \E t \in Task :
        /\ worker = [w \in Worker |-> IdleWorker(t)]
        /\ request = [r \in Request |-> IdleRequest(t)]
    /\ stopFiles = {}
    /\ grants = [t \in Task |-> 0]
    /\ starts = [t \in Task |-> 0]
    /\ staleWrite = {}
    /\ redeliveries = 0
    /\ crashes = 0

-----------------------------------------------------------------------------
(* The task API *)

Finish(r) == request' = [request EXCEPT ![r] = IdleRequest(request[r].task)]

\* POST /tasks and its embedded variants: the row is committed first, the
\* message is sent afterwards.
Create(r, t) ==
    /\ request[r].pc = "idle"
    /\ row[t].state = "absent"
    /\ row' = [row EXCEPT ![t].state = "created"]
    /\ grants' = [grants EXCEPT ![t] = @ + 1]
    /\ request' = [request EXCEPT ![r] = [pc |-> "enqueue", op |-> "retry",
                                          task |-> t, seen |-> NoRow]]
    /\ UNCHANGED <<messages, worker, stopFiles, starts, staleWrite,
                   redeliveries, crashes>>

\* apply_async of a created or retried task; when the broker refuses, the
\* request fails and the row stays created without a message.
Enqueue(r) ==
    /\ request[r].pc = "enqueue"
    /\ \/ messages' = [messages EXCEPT ![request[r].task] = @ + 1]
       \/ UNCHANGED messages
    /\ Finish(r)
    /\ UNCHANGED <<row, worker, stopFiles, grants, starts, staleWrite,
                   redeliveries, crashes>>

\* A handler loads the row and passes its early returns.  A request that is
\* answered at once (the task is finished, or 409) changes nothing and is not
\* a step.
Load(r, op, t, accepted) ==
    /\ request[r].pc = "idle"
    /\ row[t].state # "absent"
    /\ accepted
    /\ request' = [request EXCEPT ![r] = [pc |-> "decide", op |-> op,
                                          task |-> t, seen |-> row[t]]]
    /\ UNCHANGED <<row, messages, worker, stopFiles, grants, starts,
                   staleWrite, redeliveries, crashes>>

\* cancel accepts created tasks only, and so does stop before it looks for run
\* control: both then write cancelled.
LoadForCancel(r, t) == Load(r, "cancel", t, row[t].state = "created")

\* stop of a running task: an embedded Oracle task whose run control is known.
LoadForStop(r, t) ==
    Load(r, "stop", t, /\ row[t].state \in {"policy_running", "stopping"}
                       /\ t \in Embedded
                       /\ row[t].control # 0)

LoadForRetry(r, t) ==
    LET pending == {q \in Request : request[q].pc = "decide" /\ request[q].op = "retry"}
    IN  Load(r, "retry", t, /\ row[t].state \in Terminal
                            /\ grants[t] + Cardinality(pending) < MaxGrants)

\* The handler's commit: its changed columns over the row, whatever the row
\* became since it was loaded.
Write(r, new) ==
    LET t == request[r].task
        seen == request[r].seen
    IN  /\ row' = [row EXCEPT ![t] = Flush(row[t], seen, new)]
        /\ staleWrite' = IF new.state # seen.state /\ row[t].state # seen.state
                         THEN staleWrite \cup {t} ELSE staleWrite

CancelQueued(r) ==
    /\ request[r].pc = "decide"
    /\ request[r].op = "cancel"
    /\ Write(r, [request[r].seen EXCEPT !.state = "cancelled"])
    /\ Finish(r)
    /\ UNCHANGED <<messages, worker, stopFiles, grants, starts,
                   redeliveries, crashes>>

RequestStop(r) ==
    /\ request[r].pc = "decide"
    /\ request[r].op = "stop"
    /\ Write(r, [request[r].seen EXCEPT !.state = "stopping",
                                        !.stopRequested = TRUE])
    /\ request' = [request EXCEPT ![r].pc = "signal"]
    /\ UNCHANGED <<messages, worker, stopFiles, grants, starts,
                   redeliveries, crashes>>

\* OracleAutoImportRunner().stop writes the stop.request file of the run the
\* handler loaded; if the SSH command fails only error_message is recorded.
SendStop(r) ==
    /\ request[r].pc = "signal"
    /\ \/ stopFiles' = stopFiles \cup
                         {<<request[r].task, request[r].seen.control>>}
       \/ UNCHANGED stopFiles
    /\ Finish(r)
    /\ UNCHANGED <<row, messages, worker, grants, starts, staleWrite,
                   redeliveries, crashes>>

\* The run's fields are reset and the task is queued again.
Retry(r) ==
    LET t == request[r].task IN
    /\ request[r].pc = "decide"
    /\ request[r].op = "retry"
    /\ Write(r, [state |-> "created", stopRequested |-> FALSE, control |-> 0])
    /\ grants' = [grants EXCEPT ![t] = @ + 1]
    /\ request' = [request EXCEPT ![r].pc = "enqueue", ![r].seen = NoRow]
    /\ UNCHANGED <<messages, worker, stopFiles, starts, redeliveries, crashes>>

-----------------------------------------------------------------------------
(* The worker: run_recovery_task *)

\* Bug: the UPDATE that claims the task has no condition.
ClaimUnconditionally(w, t) ==
    /\ worker[w].pc = "idle"
    /\ messages[t] > 0
    /\ messages' = [messages EXCEPT ![t] = @ - 1]
    /\ row' = [row EXCEPT ![t].state = "policy_running"]
    /\ starts' = [starts EXCEPT ![t] = @ + 1]
    /\ worker' = [worker EXCEPT ![w] =
          [IdleWorker(t) EXCEPT !.pc = "claimed", !.run = starts[t] + 1]]
    /\ UNCHANGED <<request, stopFiles, grants, staleWrite, redeliveries, crashes>>

\* The conditional UPDATE created -> policy_running and its commit.  When it
\* matches no row the delivery is a duplicate: it is recorded and acknowledged.
Claim(w, t) ==
    /\ worker[w].pc = "idle"
    /\ messages[t] > 0
    /\ messages' = [messages EXCEPT ![t] = @ - 1]
    /\ IF row[t].state = "created"
       THEN /\ row' = [row EXCEPT ![t].state = "policy_running"]
            /\ starts' = [starts EXCEPT ![t] = @ + 1]
            /\ worker' = [worker EXCEPT ![w] =
                  [IdleWorker(t) EXCEPT !.pc = "claimed", !.run = starts[t] + 1]]
       ELSE /\ worker' = [worker EXCEPT ![w] =
                  [IdleWorker(t) EXCEPT !.pc = "acking"]]
            /\ UNCHANGED <<row, starts>>
    /\ UNCHANGED <<request, stopFiles, grants, staleWrite, redeliveries, crashes>>

\* The columns of the row that the worker's final write depends on: it never
\* touches the run control.
RunView(t) == [row[t] EXCEPT !.control = 0]

\* session.get after the commit: the transaction, and its snapshot, of the
\* whole run starts here.
OpenSnapshot(w) ==
    /\ worker[w].pc = "claimed"
    /\ worker' = [worker EXCEPT ![w].pc = "running",
                                ![w].loaded = RunView(worker[w].task)]
    /\ UNCHANGED <<row, messages, request, stopFiles, grants, starts,
                   staleWrite, redeliveries, crashes>>

\* on_runtime, before the remote script starts: update_oracle_runtime_control
\* writes the run's control columns in a session of its own.
PublishControl(w) ==
    LET t == worker[w].task IN
    /\ worker[w].pc = "running"
    /\ t \in Embedded
    /\ row[t].control # worker[w].run
    /\ row' = [row EXCEPT ![t].control = worker[w].run]
    /\ UNCHANGED <<messages, worker, request, stopFiles, grants, starts,
                   staleWrite, redeliveries, crashes>>

\* What the pipeline can return: cancelled only when the remote script found
\* the stop.request file of its own run.
PipelineOutcome(w) ==
    {"succeeded", "failed"} \cup
        (IF <<worker[w].task, worker[w].run>> \in stopFiles
         THEN {"cancelled"} ELSE {})

\* The row session.refresh reads at the end of the run: the old snapshot under
\* REPEATABLE READ, the row itself otherwise.
Reread(w) == IF RepeatableRead THEN worker[w].loaded ELSE RunView(worker[w].task)

\* The pipeline returned (or raised: outcome failed) and the row is refreshed.
Return(w, outcome) ==
    /\ worker[w].pc = "running"
    /\ worker' = [worker EXCEPT ![w].pc = "finishing",
                                ![w].loaded = Reread(w),
                                ![w].outcome = outcome]
    /\ UNCHANGED <<row, messages, request, stopFiles, grants, starts,
                   staleWrite, redeliveries, crashes>>

\* The refresh itself raises (the connection was lost during the run): the
\* exception handler rolls back and loads the row in a new transaction, and
\* whatever the pipeline returned counts as an exception.
ReturnAfterLostConnection(w) ==
    /\ worker[w].pc = "running"
    /\ worker' = [worker EXCEPT ![w].pc = "finishing",
                                ![w].loaded = RunView(worker[w].task),
                                ![w].outcome = "failed"]
    /\ UNCHANGED <<row, messages, request, stopFiles, grants, starts,
                   staleWrite, redeliveries, crashes>>

\* Bug: a stopped run leaves its state to the stop request.
FinalStateLeftToStop(w) ==
    IF worker[w].loaded.stopRequested
    THEN worker[w].loaded.state ELSE worker[w].outcome

\* The state the worker writes at the end of a run.
FinalState(w) ==
    IF worker[w].loaded.stopRequested \/ worker[w].outcome = "cancelled"
    THEN "cancelled" ELSE worker[w].outcome

Commit(w) ==
    LET t == worker[w].task
        loaded == worker[w].loaded
    IN  /\ worker[w].pc = "finishing"
        /\ row' = [row EXCEPT ![t] =
                     Flush(@, loaded, [loaded EXCEPT !.state = FinalState(w)])]
        /\ worker' = [worker EXCEPT ![w] = [IdleWorker(t) EXCEPT !.pc = "acking"]]
        /\ UNCHANGED <<messages, request, stopFiles, grants, starts,
                       staleWrite, redeliveries, crashes>>

\* task_acks_late: the message is acknowledged when the task function is done.
Ack(w) ==
    /\ worker[w].pc = "acking"
    /\ worker' = [worker EXCEPT ![w] = IdleWorker(@.task)]
    /\ UNCHANGED <<row, messages, request, stopFiles, grants, starts,
                   staleWrite, redeliveries, crashes>>

\* Bug: the task of a dead worker is made startable again.
CrashAndReset(w) ==
    /\ worker[w].pc # "idle"
    /\ crashes < MaxCrashes
    /\ crashes' = crashes + 1
    /\ messages' = [messages EXCEPT ![worker[w].task] = @ + 1]
    /\ row' = [row EXCEPT ![worker[w].task].state = "created"]
    /\ worker' = [worker EXCEPT ![w] = IdleWorker(@.task)]
    /\ UNCHANGED <<request, stopFiles, grants, starts, staleWrite, redeliveries>>

\* A worker process dies: its unacknowledged message becomes deliverable again.
Crash(w) ==
    /\ worker[w].pc # "idle"
    /\ crashes < MaxCrashes
    /\ crashes' = crashes + 1
    /\ messages' = [messages EXCEPT ![worker[w].task] = @ + 1]
    /\ worker' = [worker EXCEPT ![w] = IdleWorker(@.task)]
    /\ UNCHANGED <<row, request, stopFiles, grants, starts, staleWrite,
                   redeliveries>>

\* The final commit raises, and so does the commit of the exception handler:
\* the task function ends without having written the row.
AbandonCommit(w) ==
    /\ worker[w].pc = "finishing"
    /\ crashes < MaxCrashes
    /\ crashes' = crashes + 1
    /\ worker' = [worker EXCEPT ![w] = [IdleWorker(@.task) EXCEPT !.pc = "acking"]]
    /\ UNCHANGED <<row, messages, request, stopFiles, grants, starts,
                   staleWrite, redeliveries>>

\* The broker restores a message that is still being worked on
\* (visibility_timeout elapsed).
Redeliver(w) ==
    /\ worker[w].pc # "idle"
    /\ redeliveries < MaxRedeliveries
    /\ redeliveries' = redeliveries + 1
    /\ messages' = [messages EXCEPT ![worker[w].task] = @ + 1]
    /\ UNCHANGED <<row, worker, request, stopFiles, grants, starts,
                   staleWrite, crashes>>

-----------------------------------------------------------------------------
Handle(r) ==
    \/ Enqueue(r) \/ CancelQueued(r) \/ RequestStop(r) \/ SendStop(r)
    \/ Retry(r)

RunPipeline(w) ==
    \/ \E outcome \in PipelineOutcome(w) : Return(w, outcome)
    \/ ReturnAfterLostConnection(w)

Work(w) ==
    \/ \E t \in Task : Claim(w, t)
    \/ OpenSnapshot(w)
    \/ RunPipeline(w)
    \/ Commit(w)
    \/ Ack(w)

Next ==
    \/ \E r \in Request, t \in Task : Create(r, t)
    \/ \E r \in Request, t \in Task :
        \/ "cancel" \in Op /\ LoadForCancel(r, t)
        \/ "stop" \in Op /\ LoadForStop(r, t)
        \/ "retry" \in Op /\ LoadForRetry(r, t)
    \/ \E r \in Request : Handle(r)
    \/ \E w \in Worker : \/ Work(w) \/ PublishControl(w)
                          \/ Crash(w) \/ AbandonCommit(w) \/ Redeliver(w)

Spec == Init /\ [][Next]_vars

\* The handlers return, the pipeline ends (task_time_limit) and the workers
\* keep consuming every task's messages.  Users, crashes, redeliveries and the
\* publication of run control owe nothing.
Fairness ==
    /\ \A r \in Request : WF_vars(Handle(r))
    /\ \A w \in Worker :
        /\ WF_vars(OpenSnapshot(w))
        /\ WF_vars(RunPipeline(w))
        /\ WF_vars(Commit(w))
        /\ WF_vars(Ack(w))
    /\ \A t \in Task : SF_vars(\E w \in Worker : Claim(w, t))

FairSpec == Spec /\ Fairness

-----------------------------------------------------------------------------
(* Properties *)

\* A task is run at most once each time it is made startable, whatever the
\* broker redelivers and whatever crashes (run_recovery_task's conditional
\* UPDATE; "only the message that wins created -> policy_running may run").
ClaimedOncePerGrant ==
    \A t \in Task :
        starts[t] + (IF row[t].state = "created" THEN 1 ELSE 0) <= grants[t]

\* What a handler that passed its early returns has read: the reason why an
\* up-to-date write is always a legal transition.
AcceptedOnWhatWasRead ==
    \A r \in Request : request[r].pc = "decide" =>
        request[r].seen.state \in
            CASE request[r].op = "cancel" -> {"created"}
              [] request[r].op = "stop"   -> {"policy_running", "stopping"}
              [] request[r].op = "retry"  -> Terminal

\* As long as no API handler wrote a task's state over one it had not read, at
\* most one worker is inside the pipeline for the task, and the row says so.
ExclusiveRun ==
    \A t \in Task \ staleWrite :
        /\ \A w1, w2 \in Runners(t) : w1 = w2
        /\ Runners(t) # {} => row[t].state \in {"policy_running", "stopping"}

\* As long as no handler wrote over an unread state, only a retry takes a task
\* out of a terminal state: neither a late worker nor a late stop request
\* reopens it.
TerminalIsFinal ==
    [][\A t \in Task :
        (row[t].state \in Terminal /\ row'[t].state # row[t].state
            /\ t \notin staleWrite')
        => row'[t].state = "created"]_vars

\* A claimed task comes to an end, unless its worker was lost (nothing resets
\* policy_running afterwards) or a handler overwrote its row.
RunsEnd ==
    \A t \in Task : row[t].state \in {"policy_running", "stopping"}
        ~> (row[t].state \in Terminal \/ t \in staleWrite \/ crashes > 0)

\* The claim is the abstract claim token.
Claims == INSTANCE ClaimToken WITH
    Job <- Task,
    granted <- [t \in Task |-> row[t].state = "created"]
ClaimsSpec == Claims!Spec
=============================================================================

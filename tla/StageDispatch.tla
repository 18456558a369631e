---------------------------- MODULE StageDispatch ----------------------------
(***************************************************************************)
(* The stage dispatch table of the data automation pipeline.  A stage run  *)
(* (a recovery task, a data sync run, a workflow run or an SM4 batch job)  *)
(* is committed together with a dispatch record; dispatchers - the         *)
(* scheduler thread and every API call that ends with                      *)
(* dispatch_pending_stage_tasks - turn pending records into Celery         *)
(* messages, at least once; executors claim the run with a conditional     *)
(* UPDATE and ignore every further message.                                *)
(*                                                                         *)
(* A record is written by whoever holds it in memory, by primary key and   *)
(* without looking at the row again: a dispatcher that was slow to send,   *)
(* or that reconciled from an old read, overwrites what others wrote.      *)
(***************************************************************************)
EXTENDS Integers, FiniteSets

CONSTANTS
    Target,          \* stage runs, each with its dispatch record
    Dispatcher,      \* concurrent calls of dispatch_pending_stage_tasks
    Executor,        \* Celery worker slots
    MaxFaults,       \* bound: broker errors, dispatcher crashes, sends slower than
                     \* two minutes, redeliveries, reservations timed out
    MaxCrashes       \* bound: executor crashes

ASSUME DispatchAssumption ==
    /\ MaxFaults \in Nat
    /\ MaxCrashes \in Nat

VARIABLES
    sm4,         \* the stage runs registered as SM4 batch jobs (target_type)
    record,      \* record[t]: status of t's dispatch record
    target,      \* target[t]: state of the stage run itself
    messages,    \* messages[t]: deliverable messages that name t
    dispatcher,  \* the dispatchers
    executor,    \* the executors
    grants,      \* times t was made startable
    starts,      \* times t was started
    returning,   \* SM4 jobs about to be written back to queued
    overtaken,   \* SM4 jobs so written although they had gone on meanwhile
    faults, crashes

returns == <<returning, overtaken>>
vars == <<sm4, record, target, messages, dispatcher, executor, grants, starts,
          returns, faults, crashes>>

-----------------------------------------------------------------------------
Settled == {"succeeded", "failed"}

\* _TERMINAL_DISPATCH_STATES are the two settled ones.
Status == {"none", "pending", "dispatching", "dispatched", "running"} \cup Settled

\* queued stands for a created recovery task and a queued run; reserved is the
\* state in which an SM4 job waits for its worker.
TargetState == {"absent", "queued", "reserved", "running"} \cup Settled

\* Bug: a reserved job is reported as running.
StatusOfReserved(s) ==
    CASE s \in {"absent", "queued"}    -> "none"
      [] s \in {"reserved", "running"} -> "running"
      [] OTHER                         -> s

\* _target_dispatch_state: what the run says about its record; "none" while the
\* run has nothing to say.
StatusOf(s) ==
    CASE s \in Settled      -> s
      [] s = "running"      -> "running"
      [] s = "reserved"     -> "dispatched"
      [] OTHER              -> "none"

\* reconciling: about to commit the status it derived from the run;
\* sending: has claimed the record; recording: about to commit the outcome.
DispatcherSlot ==
    [pc : {"idle", "reconciling", "sending", "recording"},
     for : Target, status : Status]
ExecutorSlot == [pc : {"idle", "running", "acking"}, for : Target]

TypeOK ==
    /\ record \in [Target -> Status]
    /\ target \in [Target -> TargetState]
    /\ messages \in [Target -> Nat]
    /\ dispatcher \in [Dispatcher -> DispatcherSlot]
    /\ executor \in [Executor -> ExecutorSlot]
    /\ grants \in [Target -> Nat]
    /\ starts \in [Target -> Nat]
    /\ sm4 \subseteq Target
    /\ returning \subseteq sm4
    /\ overtaken \subseteq sm4
    /\ faults \in Nat
    /\ crashes \in Nat

Init ==
    /\ sm4 = {}
    /\ record = [t \in Target |-> "none"]
    /\ target = [t \in Target |-> "absent"]
    /\ messages = [t \in Target |-> 0]
    /\ \E t \in Target :
        /\ dispatcher = [d \in Dispatcher |->
                           [pc |-> "idle", for |-> t, status |-> "none"]]
        /\ executor = [e \in Executor |-> [pc |-> "idle", for |-> t]]
    /\ grants = [t \in Target |-> 0]
    /\ starts = [t \in Target |-> 0]
    /\ returning = {}
    /\ overtaken = {}
    /\ faults = 0
    /\ crashes = 0

Fault == faults < MaxFaults /\ faults' = faults + 1

-----------------------------------------------------------------------------
\* _queue_restore, the sync stage, _queue_standardization and
\* _submit_security_encryption: the run and its record in one transaction.
Register(t) ==
    /\ target[t] = "absent"
    /\ \E kind \in {{}, {t}} : sm4' = sm4 \cup kind
    /\ target' = [target EXCEPT ![t] = "queued"]
    /\ record' = [record EXCEPT ![t] = "pending"]
    /\ grants' = [grants EXCEPT ![t] = @ + 1]
    /\ UNCHANGED <<messages, dispatcher, executor, starts, faults, crashes, returns>>

\* A recovery task may be cancelled through its own API before it starts.
CancelTarget(t) ==
    /\ t \notin sm4
    /\ target[t] = "queued"
    /\ target' = [target EXCEPT ![t] = "failed"]
    /\ UNCHANGED <<sm4, record, messages, dispatcher, executor, grants, starts,
                   faults, crashes, returns>>

-----------------------------------------------------------------------------
(* dispatch_pending_stage_tasks *)

Holding(t) == {d \in Dispatcher : dispatcher[d].pc \in {"sending", "recording"}
                                  /\ dispatcher[d].for = t}

\* dispatching records older than two minutes become pending again: the
\* dispatcher that claimed it has crashed, or (a fault) it is only slow.
ResetStale(t) ==
    /\ record[t] = "dispatching"
    /\ \/ Holding(t) = {} /\ UNCHANGED faults
       \/ Holding(t) # {} /\ Fault
    /\ record' = [record EXCEPT ![t] = "pending"]
    /\ UNCHANGED <<sm4, target, messages, dispatcher, executor, grants, starts, crashes, returns>>

Become(d, pc, t, status) ==
    dispatcher' = [dispatcher EXCEPT ![d] = [pc |-> pc, for |-> t, status |-> status]]

\* Bug: only records that were not sent yet are reconciled.
ReadUnsentForReconcile(d, t) ==
    /\ dispatcher[d].pc = "idle"
    /\ record[t] \in {"pending", "dispatching"}
    /\ StatusOf(target[t]) # "none"
    /\ Become(d, "reconciling", t, StatusOf(target[t]))
    /\ UNCHANGED <<sm4, record, target, messages, executor, grants, starts, faults, crashes, returns>>

\* _reconcile_stage_dispatches reads the record and the run, ...
ReadForReconcile(d, t) ==
    /\ dispatcher[d].pc = "idle"
    /\ record[t] \notin Settled \cup {"none"}
    /\ StatusOf(target[t]) \notin {"none", record[t]}
    /\ Become(d, "reconciling", t, StatusOf(target[t]))
    /\ UNCHANGED <<sm4, record, target, messages, executor, grants, starts, faults, crashes, returns>>

\* ... and the status it derived is committed at the end of the pass.
WriteReconciled(d) ==
    LET t == dispatcher[d].for IN
    /\ dispatcher[d].pc = "reconciling"
    /\ record' = [record EXCEPT ![t] = dispatcher[d].status]
    /\ Become(d, "idle", t, "none")
    /\ UNCHANGED <<sm4, target, messages, executor, grants, starts, faults, crashes, returns>>

\* The conditional UPDATE pending -> dispatching.
Claim(d, t) ==
    /\ dispatcher[d].pc = "idle"
    /\ record[t] = "pending"
    /\ record' = [record EXCEPT ![t] = "dispatching"]
    /\ Become(d, "sending", t, "none")
    /\ UNCHANGED <<sm4, target, messages, executor, grants, starts, faults, crashes, returns>>

\* Bug: a record whose message could not be sent is taken for dispatched.
SendAndForget(d) ==
    LET t == dispatcher[d].for IN
    /\ dispatcher[d].pc = "sending"
    /\ t \notin sm4
    /\ \/ messages' = [messages EXCEPT ![t] = @ + 1] /\ UNCHANGED faults
       \/ UNCHANGED messages /\ Fault
    /\ Become(d, "recording", t, "dispatched")
    /\ UNCHANGED <<sm4, record, target, executor, grants, starts, crashes, returns>>

\* send_task: the message is queued, or send_task raises - before or after
\* the broker took the message.
Send(d) ==
    LET t == dispatcher[d].for IN
    /\ dispatcher[d].pc = "sending"
    /\ t \notin sm4
    /\ \/ /\ messages' = [messages EXCEPT ![t] = @ + 1]
          /\ Become(d, "recording", t, "dispatched")
          /\ UNCHANGED faults
       \/ /\ Fault
          /\ \/ messages' = [messages EXCEPT ![t] = @ + 1]
             \/ UNCHANGED messages
          /\ Become(d, "recording", t, "pending")
    /\ UNCHANGED <<sm4, record, target, executor, grants, starts, crashes, returns>>

\* An SM4 job that fits the concurrency limits is reserved and its own message
\* is sent.  A crash leaves it reserved without a message; an error, be it after
\* the message was sent, has it written back to queued.
Reserve(t) ==
    /\ t \in sm4
    /\ target[t] = "queued"
    /\ target' = [target EXCEPT ![t] = "reserved"]
    /\ \/ messages' = [messages EXCEPT ![t] = @ + 1] /\ UNCHANGED <<returning, faults>>
       \/ UNCHANGED <<messages, returning>> /\ Fault
       \/ /\ messages' = [messages EXCEPT ![t] = @ + 1]
          /\ returning' = returning \cup {t}
          /\ Fault

\* An SM4 record calls dispatch_queued_sm4_jobs_once instead, then reads the
\* job: without news of it the record waits another 30 seconds.
SendSm4(d) ==
    LET t == dispatcher[d].for
        News(s) == IF StatusOf(s) = "none" THEN "pending" ELSE StatusOf(s)
    IN  /\ dispatcher[d].pc = "sending"
        /\ t \in sm4
        /\ Reserve(t) \/ UNCHANGED <<target, messages, returning, faults>>
        /\ Become(d, "recording", t, News(target'[t]))
        /\ UNCHANGED <<sm4, record, executor, grants, starts, overtaken, crashes>>

\* The outcome is committed whatever the record has become.
Record(d) ==
    LET t == dispatcher[d].for IN
    /\ dispatcher[d].pc = "recording"
    /\ record' = [record EXCEPT ![t] = dispatcher[d].status]
    /\ Become(d, "idle", t, "none")
    /\ UNCHANGED <<sm4, target, messages, executor, grants, starts, faults, crashes, returns>>

\* The process of a dispatcher is restarted.
CrashDispatcher(d) ==
    /\ dispatcher[d].pc # "idle"
    /\ Fault
    /\ Become(d, "idle", dispatcher[d].for, "none")
    /\ UNCHANGED <<sm4, record, target, messages, executor, grants, starts, crashes, returns>>

-----------------------------------------------------------------------------
(* The SM4 scheduler and the executors *)

\* The SM4 scheduler dispatches queued jobs on its own as well.
ReserveSm4(t) ==
    /\ Reserve(t)
    /\ UNCHANGED <<sm4, record, dispatcher, executor, grants, starts, overtaken, crashes>>

\* A reservation older than ten minutes is read, or any reservation when the
\* service starts; it is a fault when the job's message is still under way.
ReadExpired(t) ==
    /\ target[t] = "reserved"
    /\ t \notin returning
    /\ \/ messages[t] = 0 /\ UNCHANGED faults
       \/ messages[t] > 0 /\ Fault
    /\ returning' = returning \cup {t}
    /\ UNCHANGED <<sm4, record, target, messages, dispatcher, executor, grants,
                   starts, overtaken, crashes>>

\* The job is written back to queued by primary key.  Over a job that a worker
\* has claimed in the meantime this hands it out once more.
ReturnToQueue(t) ==
    /\ t \in returning
    /\ returning' = returning \ {t}
    /\ target' = [target EXCEPT ![t] = "queued"]
    /\ IF target[t] \in {"queued", "reserved"}
       THEN UNCHANGED <<grants, overtaken>>
       ELSE /\ grants' = [grants EXCEPT ![t] = @ + 1]
            /\ overtaken' = overtaken \cup {t}
    /\ UNCHANGED <<sm4, record, messages, dispatcher, executor, starts, faults, crashes>>

\* Bug: every run that has not ended is taken.
StartableUnlessEnded(t) == target[t] \notin Settled

Startable(t) == target[t] = IF t \in sm4 THEN "reserved" ELSE "queued"

\* The conditional UPDATE of the executor; a message that finds the run in any
\* other state is acknowledged and nothing else happens.
Start(e, t) ==
    /\ executor[e].pc = "idle"
    /\ messages[t] > 0
    /\ messages' = [messages EXCEPT ![t] = @ - 1]
    /\ IF Startable(t)
       THEN /\ target' = [target EXCEPT ![t] = "running"]
            /\ starts' = [starts EXCEPT ![t] = @ + 1]
            /\ executor' = [executor EXCEPT ![e] = [pc |-> "running", for |-> t]]
       ELSE /\ executor' = [executor EXCEPT ![e] = [pc |-> "acking", for |-> t]]
            /\ UNCHANGED <<target, starts>>
    /\ UNCHANGED <<sm4, record, dispatcher, grants, faults, crashes, returns>>

\* The run ends; partial counts as failed here.
Finish(e) ==
    /\ executor[e].pc = "running"
    /\ \E outcome \in Settled :
        target' = [target EXCEPT ![executor[e].for] = outcome]
    /\ executor' = [executor EXCEPT ![e].pc = "acking"]
    /\ UNCHANGED <<sm4, record, messages, dispatcher, grants, starts, faults, crashes, returns>>

Ack(e) ==
    /\ executor[e].pc = "acking"
    /\ executor' = [executor EXCEPT ![e].pc = "idle"]
    /\ UNCHANGED <<sm4, record, target, messages, dispatcher, grants, starts, faults,
                   crashes, returns>>

\* The broker restores the unacknowledged message of a worker that died, or of
\* one that takes longer than visibility_timeout.
CrashExecutor(e) ==
    /\ executor[e].pc # "idle"
    /\ crashes < MaxCrashes
    /\ crashes' = crashes + 1
    /\ messages' = [messages EXCEPT ![executor[e].for] = @ + 1]
    /\ executor' = [executor EXCEPT ![e].pc = "idle"]
    /\ UNCHANGED <<sm4, record, target, dispatcher, grants, starts, faults, returns>>

Redeliver(e) ==
    /\ executor[e].pc # "idle"
    /\ Fault
    /\ messages' = [messages EXCEPT ![executor[e].for] = @ + 1]
    /\ UNCHANGED <<sm4, record, target, dispatcher, executor, grants, starts, crashes, returns>>

-----------------------------------------------------------------------------
Deliver(t) == \E e \in Executor : Start(e, t)
DispatchStep(d) == WriteReconciled(d) \/ Send(d) \/ SendSm4(d) \/ Record(d)
ReconcileOrClaim(t) == \E d \in Dispatcher : ReadForReconcile(d, t) \/ Claim(d, t)

Next ==
    \/ \E t \in Target : \/ Register(t) \/ CancelTarget(t) \/ ResetStale(t)
                          \/ ReconcileOrClaim(t)
                          \/ ReserveSm4(t) \/ ReadExpired(t) \/ ReturnToQueue(t)
                          \/ Deliver(t)
    \/ \E d \in Dispatcher : DispatchStep(d) \/ CrashDispatcher(d)
    \/ \E e \in Executor : Finish(e) \/ Ack(e) \/ CrashExecutor(e) \/ Redeliver(e)

Spec == Init /\ [][Next]_vars

\* The automation scheduler and the SM4 scheduler tick every 30 seconds, a
\* dispatcher that started a record gets to its end, and the workers consume
\* the queue and finish what they run.
Fairness ==
    /\ \A t \in Target :
        /\ WF_vars(Holding(t) = {} /\ ResetStale(t))
        /\ SF_vars(ReconcileOrClaim(t))
        /\ WF_vars(ReserveSm4(t))
        /\ WF_vars(messages[t] = 0 /\ ReadExpired(t))
        /\ WF_vars(ReturnToQueue(t))
        /\ SF_vars(Deliver(t))
    /\ \A d \in Dispatcher : WF_vars(DispatchStep(d))
    /\ \A e \in Executor : WF_vars(Finish(e)) /\ WF_vars(Ack(e))

FairSpec == Spec /\ Fairness

-----------------------------------------------------------------------------
(* Properties *)

Inside(t) == {e \in Executor : executor[e].pc = "running" /\ executor[e].for = t}

\* Whatever is sent twice, redelivered or reset, at most one executor is inside
\* a run, and only a running run has one; SM4 jobs that were written back to
\* queued over a later state are set aside.
OneExecutor ==
    \A t \in Target \ overtaken :
        /\ \A e1, e2 \in Inside(t) : e1 = e2
        /\ Inside(t) # {} => target[t] = "running"

\* What is said of a run: by its record, and by the dispatchers about to write it.
Said(t) == {dispatcher[d].status : d \in {x \in Dispatcher : dispatcher[x].for = t}}
News(t) == {record[t]} \cup Said(t)

\* The record never announces more than what happened to the run, and neither
\* does a dispatcher that is about to write it: running is said of a run that
\* was started, succeeded and failed of a run that ended so.
NoFalseNews ==
    \A t \in Target \ overtaken :
        /\ "running" \in News(t) => starts[t] > 0
        /\ \A s \in Settled : s \in News(t) => target[t] = s

\* Dispatching twice must not start twice: the conditional UPDATE of the
\* executor consumes the one grant of the run.
Claims == INSTANCE ClaimToken WITH
    Job <- Target,
    granted <- [t \in Target |-> target[t] = "queued" \/ target[t] = "reserved"]
ClaimsSpec == Claims!Spec

\* A run that waits for its executor is never forgotten: somebody still has to
\* send it, or its message is under way.
Forgotten(t) ==
    /\ t \notin sm4
    /\ target[t] = "queued"
    /\ record[t] \notin {"pending", "dispatching"}
    /\ messages[t] = 0
NothingForgotten == \A t \in Target : ~ Forgotten(t)

\* A dispatched stage run is executed to the end, whatever the broker, the
\* dispatchers and the timeouts do, as long as no executor crashes.
RunsFinish ==
    \A t \in Target : target[t] # "absent" ~> (target[t] \in Settled \/ crashes > 0)

\* The record finally agrees with the run and stays so, although slow
\* dispatchers may overwrite it in the meantime.
RecordSettles ==
    \A t \in Target :
        target[t] \in Settled ~> [](record[t] = target[t]) \/ t \in overtaken
=============================================================================

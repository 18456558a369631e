---------------------------- MODULE ChangeTrigger ----------------------------
(***************************************************************************)
(* A data change trigger: probes compare what a metric is with the value   *)
(* the downstream workflow last processed (the applied watermark), and a   *)
(* change starts a workflow run that carries it.  Only the success of that *)
(* run moves the watermark.                                                *)
(*                                                                         *)
(* Probes hold the row with SELECT ... FOR UPDATE while they query Doris;  *)
(* everybody else - the end of a run, pause, resume, rebuild, publish,     *)
(* offline - reads the row without a lock and commits the columns it       *)
(* changed once the lock is free.  A dispatch is a sequence of             *)
(* transactions (reserve, create the run, send it, look back) that a       *)
(* restart can cut anywhere.                                               *)
(***************************************************************************)
EXTENDS Integers, Sequences, FiniteSets

CONSTANTS
    Value,        \* values of the monitored metric
    NoValue,      \* NULL
    Scheduler,    \* scheduler threads
    Request,      \* manual probes in progress at once
    Admin,        \* pause, resume, rebuild, publish, offline in progress at once
    Executor,     \* worker slots of the workflow queue
    Config,       \* first_run_policy and overlap_policy of the triggers
    Threshold,    \* consecutive_matches
    QueueLimit,   \* watermarks kept in pending_queue (100 in the code)
    MaxRuns,      \* bound: workflow runs that matter at once
    Bound         \* bounds, for each configuration, on changes of the metric,
                  \* requests of users, and faults: failed probes, closed
                  \* windows, refusals, failed sends and runs, crashes

ASSUME TriggerAssumption ==
    /\ Value # {} /\ NoValue \notin Value
    /\ Executor \cap (Scheduler \cup Request) = {}   \* another process
    /\ "nobody" \notin Scheduler \cup Request \cup Admin \cup Executor
    /\ Config \subseteq [first : {"baseline_only", "manual_confirm", "run"},
                         overlap : {"merge", "queue", "skip"}]
    /\ Threshold \in Nat \ {0}
    /\ QueueLimit \in Nat \ {0}
    /\ MaxRuns \in Nat
    /\ Bound \in [Config -> [{"changes", "requests", "faults"} -> Nat]]

VARIABLES
    config,    \* those of this trigger
    source,    \* what the metric is in Doris
    row,       \* the change_trigger_states row
    lock,      \* the actor that holds the row FOR UPDATE
    runs,      \* workflow runs that carry a change
    messages,  \* data_platform.workflow_run messages
    actor,     \* what everybody is doing
    online,    \* the workflow version is online
    history,   \* what happened: see below
    count      \* the bounded events so far

vars == <<config, source, row, lock, runs, messages, actor, online, history, count>>

-----------------------------------------------------------------------------
RunId == 1 .. MaxRuns
NoRun == 0
Prober == Scheduler \cup Request
Actor == Prober \cup Admin \cup Executor
Nobody == "nobody"

\* pending_window, pending_debounce, pending_retry, probe_failed and
\* waiting_baseline_confirm are one state: no guard tells them apart.
TriggerState == {"active", "paused", "retired", "dispatching", "running", "waiting"}

\* next_probe_at is a time or NULL: scheduled.  observed_value is only shown.
Row == [enabled : BOOLEAN, state : TriggerState,
        applied : Value \cup {NoValue}, pending : Value \cup {NoValue},
        queue : Seq(Value), run : RunId \cup {NoRun},
        matches : 0 .. Threshold, scheduled : BOOLEAN]

\* absent: the id is planned, no row is committed.  partial counts as failed.
RunStatus == {"absent", "queued", "running", "succeeded", "failed"}
Active == {"queued", "running"}
Run == [status : RunStatus, value : Value \cup {NoValue}]

\* A run that has ended and that nobody waits for or looks at any more.
Forgotten == [status |-> "absent", value |-> NoValue]

\* The columns a transaction has changed since it read the row; retimed: it has
\* stored a new time in next_probe_at, whether there was one or not.
Delta(old, new, retimed) ==
    LET changed == {c \in DOMAIN old : new[c] # old[c]}
        timed == IF retimed /\ new.scheduled THEN {"scheduled"} ELSE {}
    IN [c \in changed \cup timed |-> new[c]]
Stored(change, r) == [c \in DOMAIN r |-> IF c \in DOMAIN change THEN change[c] ELSE r[c]]

\* pc "capture", "rebuild": the row in hand is seen.  pc "writing": change maps
\* the columns to commit to their values (effect is for the other tables), the
\* actor goes on at then, and enabled and scheduled are what it has read.
ActorSlot(s) ==
    /\ s.pc \in {"idle", "due", "capture", "mark", "start", "insert", "send",
                "failing", "raised", "sent", "rebuild", "running", "writing"}
    /\ s.run \in RunId \cup {NoRun}
    /\ s.seen \in Row
    /\ s.effect \in {"none", "succeeded", "failed", "online", "offline", "pause", "resume"}
    /\ s.then \in {"idle", "raised"}
    /\ DOMAIN s.change \subseteq DOMAIN row /\ Stored(s.change, row) \in Row
    /\ s.enabled \in BOOLEAN /\ s.scheduled \in BOOLEAN

NewRow == [enabled |-> TRUE, state |-> "active", applied |-> NoValue,
           pending |-> NoValue, queue |-> <<>>, run |-> NoRun, matches |-> 0,
           scheduled |-> TRUE]
Idle == [pc |-> "idle", run |-> NoRun, seen |-> NewRow, effect |-> "none",
         then |-> "idle", change |-> <<>>, enabled |-> TRUE, scheduled |-> TRUE]

TypeOK ==
    /\ config \in Config
    /\ source \in Value
    /\ row \in Row /\ Len(row.queue) <= QueueLimit
    /\ lock \in Prober \cup {Nobody}
    /\ runs \in [RunId -> Run]
    /\ messages \subseteq RunId
    /\ \A a \in Actor : ActorSlot(actor[a])
    /\ online \in BOOLEAN
    /\ history \in [paused : BOOLEAN, disturbed : BOOLEAN, interrupted : BOOLEAN]
    /\ count \in [changes : Nat, requests : Nat, faults : Nat]

Init ==
    /\ config \in Config
    /\ source = CHOOSE v \in Value : TRUE   \* values are interchangeable
    /\ row = NewRow
    /\ lock = Nobody
    /\ runs = [r \in RunId |-> Forgotten]
    /\ messages = {}
    /\ actor = [a \in Actor |-> Idle]
    /\ online = TRUE
    /\ history = [paused |-> FALSE, disturbed |-> FALSE, interrupted |-> FALSE]
    /\ count = [changes |-> 0, requests |-> 0, faults |-> 0]

-----------------------------------------------------------------------------
(* What the operations do to the row they have read.                       *)

Retired(r) == [r EXCEPT !.enabled = FALSE, !.state = "retired", !.scheduled = FALSE]
\* Bug: a trigger is enabled without being scheduled.
EnabledOnly(r) == [r EXCEPT !.enabled = TRUE, !.state = "active"]

Enabled(r) == [r EXCEPT !.enabled = TRUE, !.state = "active", !.scheduled = TRUE]
Paused(r) == [r EXCEPT !.enabled = FALSE, !.state = "paused", !.scheduled = FALSE]

\* synchronize_change_triggers: only a retired trigger is enabled again.
Synchronized(r) ==
    LET s == IF r.state = "retired" THEN Enabled(r) ELSE r
    IN [s EXCEPT !.scheduled = s.enabled]

\* Bug: the run stays the one the row waits for.
AdvancedStillWaiting(r, value) ==
    [r EXCEPT !.applied = value, !.pending = NoValue,
              !.state = IF r.enabled THEN "active" ELSE "paused"]

\* Bug: the newest value is applied, whatever the run has processed.
AdvancedToPending(r, value) ==
    [r EXCEPT !.applied = r.pending, !.pending = NoValue, !.run = NoRun,
              !.state = IF r.enabled THEN "active" ELSE "paused"]

\* Changes are left to process when the run that carried value has succeeded.
More(r, value) == r.pending # value \/ r.queue # <<>>

\* finalize_change_trigger_run for the run the row waits for.
Advanced(r, value) ==
    LET rest == IF r.pending = value THEN NoValue ELSE r.pending
        pop == rest = NoValue /\ r.queue # <<>>
        left == IF pop THEN Head(r.queue) ELSE rest
    IN [r EXCEPT !.applied = value,
                 !.pending = left,
                 !.queue = IF pop THEN Tail(@) ELSE @,
                 !.run = NoRun,
                 !.state = IF ~r.enabled THEN "paused"
                           ELSE IF left = NoValue THEN "active" ELSE "waiting",
                 !.scheduled = r.enabled /\ (@ \/ More(r, value))]
Kept(r) == [r EXCEPT !.run = NoRun,
                     !.state = IF r.enabled THEN "waiting" ELSE "paused",
                     !.scheduled = r.enabled]
Finalized(r, status, value) ==
    IF status = "succeeded" THEN Advanced(r, value) ELSE Kept(r)

\* _reconcile_pending_run
Reconciled(r) ==
    IF r.run = NoRun THEN r
    ELSE LET run == runs[r.run]
         IN IF run.status \in Active THEN r
            ELSE IF run.status = "absent"
            THEN [r EXCEPT !.run = NoRun, !.state = "waiting"]
            ELSE Finalized(r, run.status, run.value)

\* The operator "changed" of _compare; the others compare numbers.
Matched(old, new) == old # NoValue /\ new # old

Overlapped(r, v) ==
    CASE config.overlap = "skip" -> r
      [] config.overlap = "queue" ->
            LET q == IF \E i \in DOMAIN r.queue : r.queue[i] = v
                     THEN r.queue ELSE Append(r.queue, v)
            IN [r EXCEPT !.queue = IF Len(q) > QueueLimit THEN Tail(q) ELSE q]
      [] config.overlap = "merge" -> [r EXCEPT !.pending = v]

Free(r) ==
    /\ row.run # r /\ r \notin messages
    /\ runs[r].status \notin Active
    /\ \A a \in Actor : r \notin {actor[a].run, actor[a].seen.run}
NewRun == CHOOSE r \in RunId : Free(r)

\* An outcome: the row to commit, the run to start, whether a change has to
\* wait for the execution window or the minimum interval.
Stay(r) == [row |-> r, run |-> NoRun, waits |-> FALSE]
Wait(r) == [row |-> [r EXCEPT !.state = "waiting"], run |-> NoRun, waits |-> TRUE]
Start(r, id) == [row |-> [r EXCEPT !.run = id, !.state = "dispatching"],
                 run |-> id, waits |-> FALSE]

\* _probe_and_maybe_run from the captured value v on.
Decided(r, v) ==
    LET seen == [r EXCEPT !.scheduled = TRUE,
                          !.matches = IF ~Matched(r.applied, v) THEN 0
                                      ELSE IF @ < Threshold THEN @ + 1 ELSE @]
        owed == r.applied = NoValue \/ (r.pending # NoValue /\ r.run = NoRun)
        n == IF owed THEN [seen EXCEPT !.matches = Threshold] ELSE seen
    IN IF r.applied = NoValue /\ config.first = "baseline_only"
       THEN {Stay([seen EXCEPT !.applied = v, !.state = "active"])}
       ELSE IF r.applied = NoValue /\ config.first = "manual_confirm"
       THEN {Stay([seen EXCEPT !.state = "waiting"])}
       ELSE IF n.matches < Threshold THEN {Stay(n)}
       ELSE IF n.run # NoRun THEN {Stay(Overlapped(n, v))}
       ELSE LET p == [n EXCEPT !.pending = v]
            IN {Wait(p), Start(p, NewRun)}

-----------------------------------------------------------------------------
At(a, pc) == actor[a].pc = pc
Goto(a, pc) == actor' = [actor EXCEPT ![a] = [Idle EXCEPT !.pc = pc, !.run = actor[a].run]]
Done(a) == actor' = [actor EXCEPT ![a] = Idle]
Left(event) == count[event] < Bound[config][event]
Tick(event) == count' = [count EXCEPT ![event] = @ + 1]
Unlocked == lock = Nobody

\* A transaction that has read the row and will store next.
Write(a, next, retimed, effect, then) ==
    actor' = [actor EXCEPT ![a] =
        [@ EXCEPT !.pc = "writing", !.change = Delta(row, next, retimed),
                  !.effect = effect, !.then = then, !.enabled = row.enabled,
                  !.scheduled = row.scheduled]]

\* Between two readings nobody can tell when the metric changed, so it only
\* changes while somebody is about to read it.
ChangeSource ==
    /\ Left("changes")
    /\ \E a \in Actor : At(a, "capture") \/ At(a, "rebuild")
    /\ source' \in Value \ {source}
    /\ Tick("changes")
    /\ UNCHANGED <<config, row, lock, runs, messages, actor, online, history>>

(* Probes *)

\* run_due_change_triggers picks the trigger, skipping a locked row ...
Due(a) ==
    /\ At(a, "idle") /\ Unlocked
    /\ row.enabled /\ row.scheduled
    /\ Goto(a, "due")
    /\ UNCHANGED <<config, source, row, lock, runs, messages, online, history, count>>

\* ... and probe_change_trigger_now does so on request.
AskProbe(a) ==
    /\ At(a, "idle") /\ Left("requests")
    /\ Goto(a, "due")
    /\ Tick("requests")
    /\ UNCHANGED <<config, source, row, lock, runs, messages, online, history>>

\* Bug: a trigger that is being dispatched is probed.
ProbeAlways(a) ==
    /\ At(a, "due") /\ Unlocked
    /\ \E r \in RunId : Free(r)
    /\ lock' = a
    /\ actor' = [actor EXCEPT ![a] = [Idle EXCEPT !.pc = "capture", !.seen = Reconciled(row)]]
    /\ UNCHANGED <<config, source, row, runs, messages, online, history, count>>

Probe(a) ==
    /\ At(a, "due") /\ Unlocked
    /\ \/ /\ a \in Scheduler
          /\ ~row.enabled \/ row.state = "retired"
          /\ row' = Retired(row)
          /\ history' = [history EXCEPT !.disturbed = @ \/ row.state = "dispatching"]
          /\ Done(a)
          /\ UNCHANGED lock
       \/ /\ a \in Request \/ (row.enabled /\ row.state # "retired")
          /\ row.state = "dispatching"
          /\ Done(a)
          /\ UNCHANGED <<row, lock, history>>
       \/ /\ a \in Request \/ (row.enabled /\ row.state # "retired")
          /\ row.state # "dispatching"
          /\ \E r \in RunId : Free(r)      \* bound: MaxRuns
          /\ lock' = a
          /\ actor' = [actor EXCEPT ![a] =
                [Idle EXCEPT !.pc = "capture", !.seen = Reconciled(row)]]
          /\ UNCHANGED <<row, history>>
    /\ UNCHANGED <<config, source, runs, messages, online, count>>

\* The query of _capture_values fails: rollback, and _mark_probe_failure for
\* the probes of the scheduler.
CaptureFails(a) ==
    /\ At(a, "capture") /\ Left("faults")
    /\ lock' = Nobody
    /\ IF a \in Scheduler THEN Goto(a, "mark") ELSE Done(a)
    /\ Tick("faults")
    /\ UNCHANGED <<config, source, row, runs, messages, online, history>>

MarkFailure(a) ==
    /\ At(a, "mark")
    /\ Write(a, IF ~row.enabled \/ row.state = "retired" THEN Retired(row)
                ELSE [row EXCEPT !.state = "waiting", !.scheduled = TRUE],
             TRUE, "none", "idle")
    /\ UNCHANGED <<config, source, row, lock, runs, messages, online, history, count>>

Observe(a) ==
    /\ At(a, "capture")
    /\ \E d \in Decided(actor[a].seen, source) :
        /\ row' = d.row
        /\ d.waits => Left("faults")
        /\ count' = [count EXCEPT !.faults = IF d.waits THEN @ + 1 ELSE @]
        /\ IF d.run = NoRun
           THEN Done(a) /\ UNCHANGED runs
           ELSE /\ actor' = [actor EXCEPT ![a] =
                        [Idle EXCEPT !.pc = "start", !.run = d.run]]
                /\ runs' = [runs EXCEPT ![d.run] =
                        [status |-> "absent", value |-> d.row.pending]]
    /\ lock' = Nobody
    /\ UNCHANGED <<config, source, messages, online, history>>

(* The dispatch: run_version and what follows it *)

Busy == \E r \in RunId : runs[r].status \in Active

\* prepare_workflow_run refuses a version that is offline or has an active
\* run; a fault stands for its other refusals.
StartRefused(a) ==
    /\ At(a, "start")
    /\ \/ (~online \/ Busy) /\ UNCHANGED count
       \/ online /\ ~Busy /\ Left("faults") /\ Tick("faults")
    /\ Goto(a, "raised")
    /\ UNCHANGED <<config, source, row, lock, runs, messages, online, history>>

StartRun(a) ==
    /\ At(a, "start") /\ online /\ ~Busy
    /\ Goto(a, "insert")
    /\ UNCHANGED <<config, source, row, lock, runs, messages, online, history, count>>

InsertRun(a) ==
    /\ At(a, "insert")
    /\ runs' = [runs EXCEPT ![actor[a].run].status = "queued"]
    /\ Goto(a, "send")
    /\ UNCHANGED <<config, source, row, lock, messages, online, history, count>>

Send(a) ==
    /\ At(a, "send")
    /\ messages' = messages \cup {actor[a].run}
    /\ Goto(a, "sent")
    /\ UNCHANGED <<config, source, row, lock, runs, online, history, count>>

\* send_task raises, whether the broker took the message or not.
SendFails(a) ==
    /\ At(a, "send") /\ Left("faults")
    /\ messages' \in {messages, messages \cup {actor[a].run}}
    /\ Goto(a, "failing")
    /\ Tick("faults")
    /\ UNCHANGED <<config, source, row, lock, runs, online, history>>

\* run_version marks the run failed by primary key, whatever it is by now.
FailRun(a) ==
    /\ At(a, "failing")
    /\ Write(a, IF row.run = actor[a].run THEN Kept(row) ELSE row,
             row.run = actor[a].run, "failed", "raised")
    /\ UNCHANGED <<config, source, row, lock, runs, messages, online, history, count>>

\* Bug: the trigger is left in dispatching.
DispatchFailedQuietly(a) ==
    /\ At(a, "raised")
    /\ Write(a, [row EXCEPT !.run = NoRun], FALSE, "none", "idle")
    /\ UNCHANGED <<config, source, row, lock, runs, messages, online, history, count>>

\* The except branch of _probe_and_maybe_run.
DispatchFailed(a) ==
    /\ At(a, "raised")
    /\ Write(a, [row EXCEPT !.run = NoRun, !.state = "waiting"], FALSE, "none", "idle")
    /\ UNCHANGED <<config, source, row, lock, runs, messages, online, history, count>>

LookBack(a) ==
    /\ At(a, "sent")
    /\ Write(a, IF row.run = actor[a].run /\ runs[actor[a].run].status \in Active
                THEN [row EXCEPT !.state = "running"] ELSE row, FALSE, "none", "idle")
    /\ UNCHANGED <<config, source, row, lock, runs, messages, online, history, count>>

(* Workers *)

\* _execute_run claims by a conditional UPDATE; a duplicate is ignored.
Claim(e, r) ==
    /\ At(e, "idle") /\ r \in messages
    /\ messages' = messages \ {r}
    /\ IF runs[r].status = "queued"
       THEN /\ runs' = [runs EXCEPT ![r].status = "running"]
            /\ actor' = [actor EXCEPT ![e] = [Idle EXCEPT !.pc = "running", !.run = r]]
       ELSE UNCHANGED <<runs, actor>>
    /\ UNCHANGED <<config, source, row, lock, online, history, count>>

\* The end of the run and finalize_change_trigger_run are one transaction.
EndRun(e, status) ==
    /\ At(e, "running")
    /\ status = "failed" => Left("faults")
    /\ count' = [count EXCEPT !.faults = IF status = "failed" THEN @ + 1 ELSE @]
    /\ LET value == runs[actor[e].run].value
           mine == row.run = actor[e].run
       IN Write(e, IF mine THEN Finalized(row, status, value) ELSE row,
                mine /\ (status = "succeeded" => More(row, value)), status, "idle")
    /\ UNCHANGED <<config, source, row, lock, runs, messages, online, history>>

(* Requests *)

Ask(a, next, retimed, effect) ==
    /\ At(a, "idle") /\ Left("requests")
    /\ Write(a, next, retimed, effect, "idle")
    /\ Tick("requests")
    /\ UNCHANGED <<config, source, row, lock, runs, messages, online, history>>

\* update_change_trigger_state, set_change_trigger_task_enabled
Pause(a) == Ask(a, Paused(row), FALSE, "pause")
Resume(a) == Ask(a, Enabled(row), TRUE, "resume")
\* offline_version, archive_workflow; publish_version
Offline(a) == Ask(a, Retired(row), FALSE, "offline")
Publish(a) == Ask(a, Synchronized(row), FALSE, "online")

\* rebuild_change_trigger_baseline, up to the query ...
AskRebuild(a) ==
    /\ At(a, "idle") /\ Left("requests")
    /\ Reconciled(row).run = NoRun
    /\ actor' = [actor EXCEPT ![a] =
            [Idle EXCEPT !.pc = "rebuild", !.seen = row]]
    /\ Tick("requests")
    /\ UNCHANGED <<config, source, row, lock, runs, messages, online, history>>

\* ... and after it.
Rebuild(a) ==
    /\ At(a, "rebuild")
    /\ LET old == actor[a].seen
           new == [old EXCEPT !.applied = source, !.pending = NoValue, !.queue = <<>>,
                              !.run = NoRun, !.matches = 0, !.state = "active",
                              !.scheduled = TRUE]
       IN actor' = [actor EXCEPT ![a] =
            [Idle EXCEPT !.pc = "writing", !.change = Delta(old, new, TRUE),
                     !.enabled = old.enabled, !.scheduled = old.scheduled]]
    /\ UNCHANGED <<config, source, row, lock, runs, messages, online, history, count>>

(* Commits and failures *)

\* A write to a trigger that waits for the run of somebody else, or that was
\* enabled or disabled since it was read, or that leaves next_probe_at as it was
\* read, although it was cleared since (publish: "next_probe_at or now").
Overwrites(a) ==
    /\ Stored(actor[a].change, row) # row
    /\ \/ row.run # NoRun /\ actor[a].run # row.run
       \/ row.enabled # actor[a].enabled
       \/ /\ "scheduled" \notin DOMAIN actor[a].change
          /\ actor[a].scheduled /\ ~row.scheduled

Flush(a) ==
    /\ At(a, "writing") /\ Unlocked
    /\ row' = Stored(actor[a].change, row)
    /\ runs' = IF actor[a].effect \in {"succeeded", "failed"}
               THEN [runs EXCEPT ![actor[a].run] =
                        IF row'.run # actor[a].run
                           /\ \A b \in Actor \ {a} : actor[b].run # actor[a].run
                        THEN Forgotten ELSE [@ EXCEPT !.status = actor[a].effect]]
               ELSE runs
    /\ online' = CASE actor[a].effect = "online" -> TRUE
                   [] actor[a].effect = "offline" -> FALSE
                   [] OTHER -> online
    /\ history' = [history EXCEPT
            !.paused = CASE actor[a].effect = "pause" -> TRUE
                         [] actor[a].effect = "resume" -> FALSE
                         [] OTHER -> @,
            !.disturbed = @ \/ Overwrites(a)]
    /\ IF actor[a].then = "idle" THEN Done(a) ELSE Goto(a, actor[a].then)
    /\ UNCHANGED <<config, source, lock, messages, count>>

\* A dispatch that a restart would cut short.
Dispatching(a) ==
    \/ actor[a].pc \in {"start", "insert", "send", "failing", "raised"}
    \/ actor[a].pc = "writing" /\ a \in Prober /\ actor[a].run # NoRun

\* The API process dies and starts again: transactions are rolled back, and
\* backfill_data_platform_release_metadata synchronizes the online versions.
Restart ==
    /\ Left("faults")
    /\ lock' = Nobody
    /\ actor' = [a \in Actor |-> IF a \in Executor THEN actor[a] ELSE Idle]
    /\ row' = IF online THEN Synchronized(row) ELSE row
    /\ history' = [history EXCEPT !.interrupted = @ \/ \E a \in Prober : Dispatching(a)]
    /\ Tick("faults")
    /\ UNCHANGED <<config, source, runs, messages, online>>

\* A worker dies; its message is delivered again and found to be a duplicate.
CrashWorker(e) ==
    /\ e \in Executor /\ actor[e].run # NoRun
    /\ Left("faults")
    /\ messages' = messages \cup {actor[e].run}
    /\ Done(e)
    /\ history' = [history EXCEPT !.interrupted = TRUE]
    /\ Tick("faults")
    /\ UNCHANGED <<config, source, row, lock, runs, online>>

-----------------------------------------------------------------------------
Handler(a) ==
    \/ /\ a \in Prober
       /\ \/ Probe(a) \/ CaptureFails(a) \/ MarkFailure(a) \/ Observe(a)
          \/ StartRefused(a) \/ StartRun(a) \/ InsertRun(a) \/ Send(a) \/ SendFails(a)
          \/ FailRun(a) \/ DispatchFailed(a) \/ LookBack(a)
    \/ a \in Executor /\ \E status \in {"succeeded", "failed"} : EndRun(a, status)
    \/ a \in Admin /\ Rebuild(a)
    \/ Flush(a)

Next ==
    \/ ChangeSource
    \/ \E a \in Scheduler : Due(a)
    \/ \E a \in Request : AskProbe(a)
    \/ \E a \in Admin : Pause(a) \/ Resume(a) \/ Offline(a) \/ Publish(a) \/ AskRebuild(a)
    \/ \E e \in Executor, r \in RunId : Claim(e, r)
    \/ \E a \in Actor : Handler(a)
    \/ \E e \in Executor : CrashWorker(e)
    \/ Restart

Spec == Init /\ [][Next]_vars

\* What began goes on to its end: the lock of the row is free again and again
\* only, but InnoDB grants it in order (SF).  The scheduler comes back every
\* 30 s, and a free worker consumes the queue.
FairSpec ==
    /\ Spec
    /\ \A a \in Scheduler : WF_vars(Due(a))
    /\ \A a \in Actor : SF_vars(Handler(a))
    /\ \A e \in Executor : WF_vars(\E r \in RunId : Claim(e, r))

-----------------------------------------------------------------------------
(* history.disturbed: a write overtook a dispatch, or stored what it had    *)
(* derived from an enabled flag or a next_probe_at that was no longer the   *)
(* one in the row.  The code does not exclude these races; the properties   *)
(* say what holds as long as none has happened.                             *)

(* The watermark moves only to a value that a run of the workflow has just  *)
(* processed successfully, or to a baseline somebody captured: not to the   *)
(* newest value, not by a run that failed, not twice by finalize_change_    *)
(* trigger_run and _reconcile_pending_run, which both see the same run.     *)
WatermarkEarned ==
    [][row'.applied # row.applied =>
        \/ \E r \in RunId :
            /\ runs[r].value = row'.applied
            /\ \/ runs[r].status = "succeeded"
               \/ \E e \in Executor : actor[e].run = r /\ actor[e].effect = "succeeded"
        \/ row.applied = NoValue
        \/ \E a \in Admin : At(a, "writing") /\ ~At(a, "writing")']_vars

(* A change that a run carries is kept in pending_value until the run has   *)
(* succeeded (finalize_change_trigger_run), so that a failure finds it.     *)
InFlightKept == row.run # NoRun /\ ~history.disturbed => row.pending # NoValue

(* One active run per trigger: _probe_and_maybe_run dispatches under the    *)
(* row lock, and a change observed meanwhile waits for the end of the run.  *)
OneRunAtATime ==
    ~history.disturbed =>
        Cardinality({r \in RunId : runs[r].status \in Active}) <= 1

(* run_due_change_triggers finds every enabled trigger again, whatever run, *)
(* request or restart wrote next_probe_at last.                             *)
EnabledIsScheduled == row.enabled /\ ~history.disturbed => row.scheduled

(* The three together: what runs, what it carries and what is yet to come.  *)
RunsGuarded == InFlightKept /\ OneRunAtATime /\ EnabledIsScheduled

(* Once the metric rests, the watermark catches up with it, whatever was    *)
(* merged, queued, skipped, refused or failed on the way.  Three things     *)
(* keep a trigger from it: nobody confirmed a baseline, a dispatch or a run *)
(* was cut short, or a write disturbed it.                                  *)
Watching ==
    /\ row.enabled /\ online
    /\ ~history.interrupted /\ ~history.disturbed
    /\ ~(row.applied = NoValue /\ config.first = "manual_confirm")
CatchesUp == <>[](Watching => row.applied = source)
==============================================================================

--------------------------- MODULE AutomationBatch ---------------------------
(***************************************************************************)
(* The batches of a data automation pipeline: a dump group is restored,    *)
(* synchronised, standardised and encrypted, each stage by a run of its    *)
(* own.  The scheduler advances every batch from the state of its run;     *)
(* users scan, resume, submit, activate and match batches at the same      *)
(* time.                                                                   *)
(*                                                                         *)
(* Nobody locks a batch.  Each operation loads the row and the run it      *)
(* points to (Load), computes the new row, and commits the columns it      *)
(* changed together with at most one new stage run and its dispatch record *)
(* (Commit).  How a registered run is dispatched and executed is the       *)
(* subject of StageDispatch; here a run just starts and ends.              *)
(***************************************************************************)
EXTENDS Integers, Sequences

CONSTANTS
    Batch,          \* dump groups of one pipeline
    Scheduler,      \* batches the scheduler thread holds in memory at once
    Request,        \* API requests in progress at once
    Op,             \* the requests users send
    SyncBound,      \* the pipeline has a data sync component ...
    WorkflowBound,  \* ... and a standardisation workflow version
    EncryptionOn,   \* sm4_task_definition_id and auto_encryption_enabled
    AccessOn,       \* security_access_enabled
    MaxRequests     \* bound: API requests; between two of them a batch takes
                    \* finitely many steps, so nothing else needs a bound

ASSUME BatchAssumption ==
    /\ Op \subseteq {"scan", "resume", "submit", "activate", "generate", "match"}
    /\ {SyncBound, WorkflowBound, EncryptionOn, AccessOn} \subseteq BOOLEAN
    /\ MaxRequests \in Nat

VARIABLES
    row,      \* the data_automation_batches rows
    runs,     \* the stage runs, in the order they were registered
    actor,    \* the operations in progress
    protected, \* batches that carry a frozen ods_protected snapshot
    requests  \* API requests received

vars == <<row, runs, actor, protected, requests>>

-----------------------------------------------------------------------------
Stage == {"restore", "sync", "standard", "encrypt"}
Ended == {"succeeded", "failed"}

\* _TERMINAL_BATCH_STATES that the code ever writes.
TerminalState == {"completed", "blocked", "failed"}
BatchState == TerminalState \cup
    {"absent", "stabilizing", "discovered", "restore_queued", "restoring",
     "restored", "asset_registered", "sync_queued", "syncing", "raw_ready",
     "standardize_queued", "standardizing", "standard_ready", "encryption_ready",
     "encrypting", "security_access_active", "path_matched",
     "awaiting_confirmation"}

\* run[s] is the batch's current run of stage s (restore_task_id, sync_run_id,
\* standard_run_id, encryption_batch_id), 0 when there is none.
Row == [state : BatchState, resume : BatchState \cup {"none"}, run : [Stage -> Nat]]
NoRow == [state |-> "absent", resume |-> "none", run |-> [s \in Stage |-> 0]]

RunState == {"queued", "running"} \cup Ended
Run == [batch : Batch, stage : Stage, state : RunState]

\* What an operation in progress has read: the row, the state of the run the
\* row points to, and whether the workflow version has an active run.
ActorSlot ==
    [op : {"idle", "advance", "scan"} \cup
          {"resume", "submit", "activate", "generate", "match"},
     batch : Batch, seen : Row, run : RunState \cup {"none"}, busy : BOOLEAN]

Actor == Scheduler \cup Request

TypeOK ==
    /\ row \in [Batch -> Row]
    /\ runs \in Seq(Run)
    /\ actor \in [Actor -> ActorSlot]
    /\ protected \subseteq Batch
    /\ requests \in Nat

Idle(b) == [op |-> "idle", batch |-> b, seen |-> NoRow, run |-> "none", busy |-> FALSE]

Init ==
    /\ row = [b \in Batch |-> NoRow]
    /\ runs = <<>>
    /\ \E b \in Batch : actor = [a \in Actor |-> Idle(b)]
    /\ protected = {}
    /\ requests = 0

-----------------------------------------------------------------------------
(* What an operation does to the row it has loaded.  Each operator is the  *)
(* set of outcomes [row, prepare, raised]: the new row, the stage whose    *)
(* run is registered in the same transaction, and whether an exception     *)
(* ended the handler.                                                      *)

Outcome(r, stage) == [row |-> r, prepare |-> stage, raised |-> FALSE]
Just(r) == Outcome(r, "none")
In(r, state) == [r EXCEPT !.state = state]
Stop(r, state, stage) == Just([r EXCEPT !.state = state, !.resume = stage])

\* advance_batches: an exception stores the stage the batch had reached in
\* memory by then, without rolling back what the handler had already set.
Raise(r) ==
    [row |-> [r EXCEPT !.state = "failed",
                       !.resume = IF @ = "none" THEN r.state ELSE @],
     prepare |-> "none", raised |-> TRUE]

\* prepare_workflow_run refuses a version with an active run; any other error
\* of _queue_standardization ends the same way.
QueueStandardization(r, busy) ==
    {Raise(r)} \cup
        IF busy THEN {} ELSE {Outcome(In(r, "standardize_queued"), "standard")}

\* While the run is queued the state tells whether its record was dispatched.
Waiting(r, run, queued, executing) ==
    {Just(In(r, executing))} \cup
        IF run = "queued" THEN {Just(In(r, queued))} ELSE {}

AfterRestore(r) ==
    {Stop(r, "blocked", "asset_registered")} \cup
        IF SyncBound
        THEN {Outcome(In(r, "sync_queued"), "sync"), Raise(In(r, "restored"))}
        ELSE {Just(In(r, "raw_ready"))}

\* Bug: the snapshot of the batch is not looked at.
AfterSyncUnprotected(r, b, busy) == {Raise(r)} \cup QueueStandardization(In(r, "raw_ready"), busy)

\* The batch of a frozen snapshot is validated and encrypted before any SQL.
AfterSync(r, b, busy) ==
    {Raise(r)} \cup
        IF b \in protected
        THEN {Just(In(r, "encryption_ready")), Raise(In(r, "raw_ready"))}
        ELSE IF WorkflowBound
        THEN QueueStandardization(In(r, "raw_ready"), busy)
        ELSE {Just(In(r, "raw_ready"))}

\* An unprotected batch looks for standard assets with fields to encrypt: none,
\* exactly one, or too many; one is refused while its access plan is not ready.
AfterStandard(r, b) ==
    {Raise(r)} \cup
        IF b \in protected THEN {Just(In(r, "completed"))}
        ELSE {Just(In(r, "standard_ready"))} \cup
             IF EncryptionOn
             THEN {Just(In(r, "encryption_ready")), Stop(r, "blocked", "standard_ready"),
                   Raise(In(r, "standard_ready"))}
             ELSE {}

\* Bug: every encrypted batch is taken for complete.
CompleteEncryptionAtOnce(r, b, run, busy) ==
    CASE run \in {"queued", "running"} -> {Just(r)}
      [] run = "failed"    -> {Stop(r, "failed", "encryption_ready")}
      [] run = "succeeded" -> {Just(In(r, "completed"))}

\* _complete_security_encryption, which does not look at the batch's state.
CompleteEncryption(r, b, run, busy) ==
    CASE run \in {"queued", "running"} -> {Just(r)}
      [] run = "failed" ->
           {Stop(r, "failed", IF b \in protected THEN "encryption_ready" ELSE "standard_ready")}
      [] run = "succeeded" ->
           {Raise(r)} \cup
               IF b \in protected
               THEN QueueStandardization(In(r, "security_access_active"), busy)
               ELSE {Just(In(r, "completed"))}

\* Bug: a stage is only looked at until its run is reported as executing.
StageOfQueued(r) ==
    CASE r.state = "restore_queued"     -> "restore"
      [] r.state = "sync_queued"        -> "sync"
      [] r.state = "standardize_queued" -> "standard"
      [] r.state = "encrypting"         -> "encrypt"
      [] OTHER                          -> "none"

\* The stage whose run decides how a batch goes on.
StageOf(r) ==
    LET stage == CASE r.state \in {"restore_queued", "restoring"}       -> "restore"
                   [] r.state \in {"sync_queued", "syncing"}            -> "sync"
                   [] r.state \in {"standardize_queued", "standardizing"} -> "standard"
                   [] r.state = "encrypting"                            -> "encrypt"
                   [] OTHER                                             -> "none"
    IN  IF stage = "none" THEN "none" ELSE IF r.run[stage] = 0 THEN "none" ELSE stage

\* _advance_one.
Advanced(r, b, run, busy) ==
    LET stage == StageOf(r)
        active == run \in {"queued", "running"}
    IN  CASE stage = "restore" /\ active -> Waiting(r, run, "restore_queued", "restoring")
          [] stage = "restore" /\ run = "failed" -> {Stop(r, "failed", "restore_queued")}
          [] stage = "restore" /\ run = "succeeded" -> AfterRestore(r)
          [] stage = "sync" /\ active -> Waiting(r, run, "sync_queued", "syncing")
          [] stage = "sync" /\ run = "failed" -> {Stop(r, "failed", "sync_queued")}
          [] stage = "sync" /\ run = "succeeded" -> AfterSync(r, b, busy)
          [] stage = "standard" /\ active ->
               Waiting(r, run, "standardize_queued", "standardizing")
          [] stage = "standard" /\ run = "failed" -> {Stop(r, "failed", "standardize_queued")}
          [] stage = "standard" /\ run = "succeeded" -> AfterStandard(r, b)
          [] stage = "encrypt" -> CompleteEncryption(r, b, run, busy)
          [] r.state = "encryption_ready" ->
               {Raise(r), Outcome(In(r, "encrypting"), "encrypt")}
          [] r.state = "standard_ready" -> {Just(In(r, "completed"))}
          [] OTHER -> {Just(r)}

\* scan_pipeline on a group whose files are stable: restored at once, or left
\* for a person to start.
Scanned(r) ==
    {Outcome([r EXCEPT !.state = "restore_queued", !.resume = "none"], "restore"),
     Just(In(r, "discovered"))}

\* resume_batch accepts a batch in any state.
Resumed(r, busy) ==
    LET from == IF r.resume = "none" THEN r.state ELSE r.resume
        Again(state, stage) ==
            {Outcome([r EXCEPT !.state = state, !.resume = "none"], stage)}
    IN  CASE from \in {"restore_queued", "restoring", "discovered"} ->
               Again("restore_queued", "restore")
          [] from \in {"sync_queued", "syncing"} -> Again("sync_queued", "sync")
          [] from \in {"standardize_queued", "standardizing"} ->
               IF busy THEN {} ELSE Again("standardize_queued", "standard")
          [] OTHER -> {Just([r EXCEPT !.state = from, !.resume = "none"])}

\* An API handler that raises commits nothing, so it is not a step.
Outcomes(a) ==
    LET x == actor[a]
        Committed(outcomes) == {o \in outcomes : ~ o.raised}
    IN  CASE x.op = "advance"  -> Advanced(x.seen, x.batch, x.run, x.busy)
          [] x.op = "scan"     -> Scanned(x.seen)
          [] x.op = "resume"   -> Resumed(x.seen, x.busy)
          [] x.op = "submit"   -> {Outcome(In(x.seen, "encrypting"), "encrypt")}
          [] x.op = "activate" ->
               Committed(CompleteEncryption(x.seen, x.batch, x.run, x.busy))
          [] x.op = "generate" -> {Just(In(x.seen, "encryption_ready"))}
          [] x.op = "match"    ->
               {Just(In(x.seen, s)) : s \in {"path_matched", "awaiting_confirmation", "blocked"}}

-----------------------------------------------------------------------------
(* The operations *)

\* A scan finds a new dump group; the unique key on pipeline and fingerprint
\* lets one of several scans insert it.  Whether a security snapshot is active
\* at that moment decides its flow for good.
Discover(b) ==
    /\ row[b].state = "absent"
    /\ row' = [row EXCEPT ![b].state = "stabilizing"]
    /\ \E frozen \in {{}, {b}} : protected' = protected \cup frozen
    /\ UNCHANGED <<runs, actor, requests>>

Ops(a) == IF a \in Scheduler THEN {"advance", "scan"} ELSE Op

Accepts(op, r) ==
    CASE op = "advance"  -> r.state \notin TerminalState
      [] op = "scan"     -> r.state = "stabilizing"
      [] op = "submit"   -> AccessOn /\ r.state = "encryption_ready"
      [] op = "activate" -> r.run["encrypt"] # 0
      [] op = "generate" -> r.state = "standard_ready"
      [] OTHER           -> TRUE    \* resume, match

StateOfRun(i) == IF i = 0 THEN "none" ELSE runs[i].state
WorkflowBusy ==
    \E i \in DOMAIN runs : /\ runs[i].stage = "standard"
                           /\ runs[i].state \in {"queued", "running"}

\* The operation reads the row and, in the same transaction, the run.
Load(a, op, b) ==
    LET stage == IF op = "activate" THEN "encrypt" ELSE StageOf(row[b])
    IN  /\ actor[a].op = "idle"
        /\ row[b].state # "absent"
        /\ Accepts(op, row[b])
        /\ actor' = [actor EXCEPT ![a] =
             [op |-> op, batch |-> b, seen |-> row[b],
              run |-> IF stage = "none" THEN "none" ELSE StateOfRun(row[b].run[stage]),
              busy |-> WorkflowBusy]]
        /\ requests' = IF a \in Request THEN requests + 1 ELSE requests
        /\ a \in Request => requests < MaxRequests
        /\ UNCHANGED <<row, runs, protected>>

\* The columns the session changed since it loaded them.
Flush(current, seen, new) ==
    [state  |-> IF new.state = seen.state THEN current.state ELSE new.state,
     resume |-> IF new.resume = seen.resume THEN current.resume ELSE new.resume,
     run    |-> [s \in Stage |-> IF new.run[s] = seen.run[s] THEN current.run[s]
                                 ELSE new.run[s]]]

Commit(a) ==
    LET b == actor[a].batch IN
    /\ actor[a].op # "idle"
    /\ \E o \in Outcomes(a) :
        LET new == IF o.prepare = "none" THEN o.row
                   ELSE [o.row EXCEPT !.run[o.prepare] = Len(runs) + 1]
        IN  /\ runs' = IF o.prepare = "none" THEN runs
                       ELSE Append(runs, [batch |-> b, stage |-> o.prepare,
                                          state |-> "queued"])
            /\ row' = [row EXCEPT ![b] = Flush(@, actor[a].seen, new)]
    /\ actor' = [actor EXCEPT ![a] = Idle(b)]
    /\ UNCHANGED <<protected, requests>>

\* The handler raises, or has nothing to commit.
Abandon(a) ==
    /\ actor[a].op # "idle"
    /\ Outcomes(a) = {}
    /\ actor' = [actor EXCEPT ![a] = Idle(@.batch)]
    /\ UNCHANGED <<row, runs, protected, requests>>

\* StageDispatch: a registered run is started at most once; a recovery task may
\* end (cancelled) without having started.
StartRun(i) ==
    /\ runs[i].state = "queued"
    /\ runs' = [runs EXCEPT ![i].state = "running"]
    /\ UNCHANGED <<row, actor, protected, requests>>

EndRun(i) ==
    /\ \/ runs[i].state = "running" /\ \E s \in Ended : runs' = [runs EXCEPT ![i].state = s]
       \/ /\ runs[i].state = "queued" /\ runs[i].stage = "restore"
          /\ runs' = [runs EXCEPT ![i].state = "failed"]
    /\ UNCHANGED <<row, actor, protected, requests>>

-----------------------------------------------------------------------------
Execute == \E i \in DOMAIN runs : StartRun(i) \/ EndRun(i)

Next ==
    \/ \E b \in Batch : Discover(b)
    \/ \E a \in Actor : \E op \in Ops(a), b \in Batch : Load(a, op, b)
    \/ \E a \in Actor : Commit(a) \/ Abandon(a)
    \/ Execute

Spec == Init /\ [][Next]_vars

\* The scheduler comes back every 30 seconds to every batch, an operation gets
\* to its end, and runs are executed (StageDispatch: RunsFinish).
Fairness ==
    /\ \A a \in Actor : WF_vars(Commit(a) \/ Abandon(a))
    /\ \A a \in Scheduler, b \in Batch :
        SF_vars(Load(a, "advance", b)) /\ SF_vars(Load(a, "scan", b))
    /\ WF_vars(Execute)

FairSpec == Spec /\ Fairness

-----------------------------------------------------------------------------
(* Properties *)

Succeeded(b, stage) ==
    \E i \in DOMAIN runs : runs[i] = [batch |-> b, stage |-> stage, state |-> "succeeded"]

\* No stage is started before what it consumes was produced, and the SQL of a
\* protected batch never before its ODS data is encrypted - whatever is scanned,
\* resumed, activated or submitted at the same time.
Requires(b, stage) ==
    CASE stage = "restore"  -> {}
      [] stage = "sync"     -> {"restore"}
      [] stage = "standard" -> IF b \in protected THEN {"sync", "encrypt"} ELSE {"sync"}
      [] stage = "encrypt"  -> IF b \in protected THEN {"sync"} ELSE {"standard"}
StageOrder ==
    \A i \in DOMAIN runs : \A s \in Requires(runs[i].batch, runs[i].stage) :
        \E j \in 1..(i - 1) :
            runs[j] = [batch |-> runs[i].batch, stage |-> s, state |-> "succeeded"]

\* A completed batch was standardised, and encrypted when it is protected.
CompletedIsComplete ==
    \A b \in Batch : row[b].state = "completed" =>
        /\ Succeeded(b, "standard")
        /\ b \in protected => Succeeded(b, "encrypt")

\* A batch that left the hands of people ends, or comes back to them; "a rerun
\* continues with the unfinished stage" (PRD 7) says it of resumed batches too.
WithPeople == TerminalState \cup {"absent", "discovered", "path_matched", "awaiting_confirmation"}
FlowSettles ==
    \A b \in Batch : row[b].state \notin WithPeople ~> row[b].state \in WithPeople

=============================================================================

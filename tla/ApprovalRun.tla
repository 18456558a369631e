------------------------------ MODULE ApprovalRun ------------------------------
(***************************************************************************)
(* Approval flow authorization (services/approval_authorization.py): runs  *)
(* that read the open applications of the approval system and work each of *)
(* them off, step by step, in Doris, in Youdata and in the approval system *)
(* itself.                                                                 *)
(*                                                                         *)
(* One configuration.  Runs are started by the watching thread of the API  *)
(* process, by a manual scan, or as a full run; nothing recovers the run   *)
(* of a process that died.  What a later scan knows of an application is   *)
(* what the step log says of it.                                           *)
(*                                                                         *)
(* A call outside may fail, or work and still be answered with an error.   *)
(* The reading steps of an application (detail, department mapping, data   *)
(* list, schemas) are one step; the row of a step test is left out.        *)
(***************************************************************************)
EXTENDS Naturals, FiniteSets

CONSTANTS
    Flows,     \* applications 1 .. Flows, in the order of getMyTodoList
    Poison,    \* those that always fail in a reading step
    MaxItems,  \* auto_watch_max_items_per_scan
    Update,    \* update_audit_status_after_success
    Manual,    \* sessions of manual runs
    Watcher,   \* the session of the watching thread
    MaxManual, \* bound: manual scans and full runs
    MaxTests,  \* bound: step tests
    MaxFaults  \* bound: failing calls and crashes

\* What AuthorizationWork assumes.
ApprovalRunAssumption ==
    /\ Flows \in Nat \ {0} /\ Poison \subseteq 1 .. Flows
    /\ MaxItems \in Nat \ {0} /\ Update \in BOOLEAN
    /\ Watcher \notin Manual
    /\ MaxManual \in Nat /\ MaxTests \in Nat /\ MaxFaults \in Nat

VARIABLES
    slot,    \* the executors: _run_full_sync with its row and its state
    stuck,   \* a row is running, its process gone
    done,    \* done[f]: steps of application f that have taken effect outside
    log,     \* log[f]: steps with a "success" entry in the step log
    tested,  \* applications a step test has touched
    manual, tests, faults

vars == <<slot, stuck, done, log, tested, manual, tests, faults>>

Flow == 1 .. Flows
NoFlow == 0
Slot == Manual \cup {Watcher}

\* The steps with an effect outside, in the order of _run_one_apply_flow.
Steps == <<"auth_info_insert", "internal_grant", "api_add", "import_permissions",
           "audit_status_update">>
Prepare == 0
Import == 4
Status == 5
Step == 1 .. Status

\* took: the applications of the run; met: another run was active meanwhile.
Idle == [pc |-> "idle", kind |-> "none", left |-> {}, took |-> {}, cur |-> NoFlow,
         step |-> Prepare, good |-> 0, bad |-> 0, met |-> FALSE, state |-> "none"]

TypeOK ==
    /\ slot \in [Slot -> [pc : {"idle", "checked", "login", "flow", "call", "log"},
                          kind : {"none", "watch", "full"},
                          left : SUBSET Flow, took : SUBSET Flow, cur : Flow \cup {NoFlow},
                          step : {Prepare} \cup Step, good : 0 .. Flows, bad : 0 .. Flows,
                          met : BOOLEAN,
                          state : {"none", "running", "success", "failed", "partial_failed"}]]
    /\ \A s \in Slot : slot[s].cur # NoFlow => slot[s].cur \in slot[s].took \ slot[s].left
    /\ stuck \in BOOLEAN
    /\ done \in [Flow -> SUBSET Step] /\ log \in [Flow -> SUBSET Step]
    /\ tested \subseteq Flow
    /\ manual \in 0 .. MaxManual /\ tests \in 0 .. MaxTests /\ faults \in 0 .. MaxFaults

Init ==
    /\ slot = [s \in Slot |-> Idle] /\ stuck = FALSE
    /\ done = [f \in Flow |-> {}] /\ log = [f \in Flow |-> {}]
    /\ tested = {}
    /\ manual = 0 /\ tests = 0 /\ faults = 0

Fault == faults < MaxFaults /\ faults' = faults + 1
Counters == <<manual, tests, faults>>

-----------------------------------------------------------------------------
(* Starting runs. *)

Running(s) == slot[s].pc \notin {"idle", "checked"}

\* _has_running_config_run, and the same query in create_auto_watch_run.
HasRunningRun == stuck \/ \E s \in Slot : Running(s)

\* _run_auto_watch_due_configs, create_auto_watch_run: the query ...
CheckRunning(s) ==
    /\ slot[s].pc = "idle" /\ ~HasRunningRun
    /\ slot' = [slot EXCEPT ![s] = [Idle EXCEPT !.pc = "checked", !.state = slot[s].state,
                                                !.took = slot[s].took]]
    /\ IF s = Watcher THEN UNCHANGED manual ELSE manual < MaxManual /\ manual' = manual + 1
    /\ UNCHANGED <<stuck, done, log, tested, tests, faults>>

\* Others are active: both sides remember it.
Started(s, kind) ==
    LET others == {o \in Slot \ {s} : Running(o)} IN
    [o \in Slot |->
        IF o = s THEN [Idle EXCEPT !.pc = "login", !.kind = kind, !.state = "running",
                                   !.met = others # {}]
        ELSE IF o \in others THEN [slot[o] EXCEPT !.met = TRUE] ELSE slot[o]]

\* ... and the insertion, committed without a lock.
InsertWatchRun(s) ==
    /\ slot[s].pc = "checked"
    /\ slot' = Started(s, "watch")
    /\ UNCHANGED <<stuck, done, log, tested, Counters>>

\* create_full_run looks for nobody.
CreateFullRun(s) ==
    /\ slot[s].pc = "idle" /\ manual < MaxManual /\ manual' = manual + 1
    /\ slot' = Started(s, "full")
    /\ UNCHANGED <<stuck, done, log, tested, tests, faults>>

-----------------------------------------------------------------------------
(* _run_full_sync. *)

Goto(s, changes) == slot' = [slot EXCEPT ![s] = changes]

\* getMyTodoList has what the approval system has not settled.
Todo == {f \in Flow : Status \notin done[f]}

\* A variant that takes one application too few.
ItemsBefore(S, n) == {f \in S : Cardinality({g \in S : g <= f}) < n}

\* apply_flow_ids[:max_items]
FirstItems(S, n) == {f \in S : Cardinality({g \in S : g < f}) < n}

\* login and todo_list
ReadTodo(s) ==
    LET x == slot[s]
        items == IF x.kind = "watch" THEN FirstItems(Todo, MaxItems) ELSE Todo IN
    /\ x.pc = "login"
    /\ Goto(s, [x EXCEPT !.pc = "flow", !.left = items, !.took = items])
    /\ UNCHANGED <<stuck, done, log, tested, Counters>>

\* login or todo_list raises: the run has failed.
ReadTodoFails(s) ==
    /\ slot[s].pc = "login" /\ Fault
    /\ Goto(s, [slot[s] EXCEPT !.pc = "idle", !.state = "failed", !.took = {}])
    /\ UNCHANGED <<stuck, done, log, tested, manual, tests>>

Next1(S) == CHOOSE f \in S : \A g \in S : f <= g

\* A variant that takes the log of any earlier step for the import.
GrantSucceeded(f) == log[f] # {}

\* A variant that does not look at the log.
ImportUnknown(f) == FALSE

\* apply_flow_status_updated, apply_flow_import_succeeded
StatusUpdated(f) == Status \in log[f]
ImportSucceeded(f) == Import \in log[f]

\* The loop over the applications: one to skip, ...
SkipFlow(s) ==
    LET x == slot[s] IN
    /\ x.pc = "flow" /\ x.left # {} /\ x.kind = "watch" /\ StatusUpdated(Next1(x.left))
    /\ Goto(s, [x EXCEPT !.left = @ \ {Next1(@)}])
    /\ UNCHANGED <<stuck, done, log, tested, Counters>>

\* ... one whose status alone is missing, or one to work off.
BeginFlow(s) ==
    LET x == slot[s]
        f == Next1(x.left) IN
    /\ x.pc = "flow" /\ x.left # {} /\ ~(x.kind = "watch" /\ StatusUpdated(f))
    /\ Goto(s, [x EXCEPT !.pc = "call", !.left = @ \ {f}, !.cur = f,
                         !.step = IF x.kind = "watch" /\ ImportSucceeded(f) THEN Status ELSE Prepare])
    /\ UNCHANGED <<stuck, done, log, tested, Counters>>

NextFlow(x, field) ==
    IF field = "good" THEN [x EXCEPT !.pc = "flow", !.cur = NoFlow, !.good = @ + 1]
                      ELSE [x EXCEPT !.pc = "flow", !.cur = NoFlow, !.bad = @ + 1]

\* The reading steps: detail, department_mapping, data_list, table_schema_lookup.
PrepareFlow(s) ==
    LET x == slot[s] IN
    /\ x.pc = "call" /\ x.step = Prepare
    /\ Goto(s, IF x.cur \in Poison THEN NextFlow(x, "bad") ELSE [x EXCEPT !.step = 1])
    /\ UNCHANGED <<stuck, done, log, tested, Counters>>

TakesEffect(f, i) == done' = [done EXCEPT ![f] = @ \cup {i}]

\* The call of one of the steps succeeds; its log entry is the next commit.
CallStep(s) ==
    LET x == slot[s] IN
    /\ x.pc = "call" /\ x.step # Prepare
    /\ TakesEffect(x.cur, x.step)
    /\ Goto(s, [x EXCEPT !.pc = "log"])
    /\ UNCHANGED <<stuck, log, tested, Counters>>

\* The application is over with this step.
LastStep(x) == x.step = Status \/ (x.step = Import /\ ~Update)

LogStep(s) ==
    LET x == slot[s] IN
    /\ x.pc = "log"
    /\ log' = [log EXCEPT ![x.cur] = @ \cup {x.step}]
    /\ Goto(s, IF LastStep(x) THEN NextFlow(x, "good")
                              ELSE [x EXCEPT !.pc = "call", !.step = @ + 1])
    /\ UNCHANGED <<stuck, done, tested, Counters>>

\* The call raises, with or without effect, or the entry cannot be written:
\* "failed" is logged and the next application is taken.
StepFails(s) ==
    LET x == slot[s] IN
    /\ x.pc \in {"call", "log"} /\ Fault
    /\ \/ x.pc = "call" /\ x.step # Prepare /\ TakesEffect(x.cur, x.step)
       \/ UNCHANGED done
    /\ Goto(s, NextFlow(x, "bad"))
    /\ UNCHANGED <<stuck, log, tested, manual, tests>>

\* A variant that counts what was done only.
OutcomeGood(x) == IF x.good > 0 THEN "success" ELSE "failed"

Outcome(x) ==
    IF x.bad = 0 THEN "success" ELSE IF x.good = 0 THEN "failed" ELSE "partial_failed"

EndRun(s) ==
    LET x == slot[s] IN
    /\ x.pc = "flow" /\ x.left = {}
    /\ Goto(s, [Idle EXCEPT !.state = Outcome(x), !.took = x.took])
    /\ UNCHANGED <<stuck, done, log, tested, Counters>>

-----------------------------------------------------------------------------
(* Step tests, crashes. *)

\* test_step: one step of one application, whatever was done before.
TestStep(f, i) ==
    /\ tests < MaxTests /\ tests' = tests + 1
    /\ TakesEffect(f, i)
    /\ log' = [log EXCEPT ![f] = @ \cup {i}]
    /\ tested' = tested \cup {f}
    /\ UNCHANGED <<slot, stuck, manual, faults>>

\* The API process ends: its thread and its requests are gone, the rows stay.
Crash ==
    /\ Fault
    /\ stuck' = HasRunningRun
    /\ slot' = [s \in Slot |-> Idle]
    /\ UNCHANGED <<done, log, tested, manual, tests>>

-----------------------------------------------------------------------------
Execute(s) ==
    \/ InsertWatchRun(s) \/ ReadTodo(s) \/ SkipFlow(s) \/ BeginFlow(s) \/ PrepareFlow(s)
    \/ CallStep(s) \/ LogStep(s) \/ EndRun(s)

Next ==
    \/ \E s \in Slot : CheckRunning(s) \/ Execute(s) \/ ReadTodoFails(s) \/ StepFails(s)
    \/ \E s \in Manual : CreateFullRun(s)
    \/ \E f \in Flow, i \in Step : TestStep(f, i)
    \/ Crash

Spec == Init /\ [][Next]_vars

\* The thread looks every minute, and a run that has begun goes on.
FairSpec == Spec /\ WF_vars(CheckRunning(Watcher)) /\ \A s \in Slot : WF_vars(Execute(s))

-----------------------------------------------------------------------------
(* Properties. *)

\* An application is settled in the approval system only after everything it
\* asks for was done in Doris and in Youdata.  (A step test logs its step like a
\* run, so an application that was tested is taken for further than it is.)
StatusEarned ==
    \A f \in Flow : f \notin tested /\ Status \in done[f] => done[f] = Step

\* Once an import is on record, whatever failed after it, a scan does not repeat
\* it (PRD 3.7: only the status is to be retried), unless another run that it
\* met recorded it behind its back.
NotRepeated ==
    \A s \in Slot :
        /\ slot[s].kind = "watch" /\ slot[s].pc = "call" /\ slot[s].step = Import
        /\ Import \in log[slot[s].cur]
        => slot[s].met \/ slot[s].cur \in tested

\* A run that is recorded as successful has settled every application it took.
SuccessIsComplete ==
    Update => \A s \in Slot : slot[s].state = "success" =>
                  \A f \in slot[s].took : Status \in done[f]

\* What a run, its log and the approval system say of an import is earned.
ImportsEarned == StatusEarned /\ NotRepeated /\ SuccessIsComplete

\* The watching thread gets every application settled, after failures too, as
\* long as fewer applications are beyond help than a scan takes; only a run
\* whose process died stops it.
FlowsServed ==
    Update /\ Cardinality(Poison) < MaxItems =>
        \A f \in Flow \ Poison : <>(Status \in done[f] \/ stuck)
=============================================================================

---------------------------- MODULE AssistantBatch ----------------------------
(***************************************************************************)
(* The assistant: a plan freezes a dump file and what the four stages of a *)
(* pipeline will do with it; an administrator confirms it, which creates a *)
(* batch; and every scheduler advances the batch, stage by stage.          *)
(*                                                                         *)
(* Before a stage is submitted the batch is claimed: its state goes from   *)
(* the one the scheduler has loaded to "submitting", in one conditional    *)
(* UPDATE.  A submission whose outcome is not known leaves it there for    *)
(* good.  All other writes are unconditional, from a copy of the row that  *)
(* may be old by then.  What the jobs do is the matter of RecoveryTask,    *)
(* DataSync, WorkflowRun and Sm4Batch; here they start and end.            *)
(***************************************************************************)
EXTENDS Naturals, Sequences, FiniteSets

CONSTANTS
    Plan,         \* the plans of one pipeline
    File,         \* dump groups in the template's directory
    Scheduler,    \* scheduler threads: one for each API process
    MaxResumes,   \* bound: resumes
    MaxEdits,     \* bound: edits of the saved tasks, replaced files
    MaxFaults     \* bound: failures other than those of the jobs

AssistantAssumption ==
    /\ Plan \subseteq Nat /\ IsFiniteSet(Plan) /\ IsFiniteSet(Scheduler)
    /\ MaxResumes \in Nat /\ MaxEdits \in Nat /\ MaxFaults \in Nat

VARIABLES
    saved,    \* the revision of the task saved for each stage
    online,   \* the workflow version is online
    content,  \* what listing a file gives: sizes and times
    plan,     \* AssistantPlan
    asking,   \* the confirmations that have read but not committed
    batch,    \* the DataAutomationBatch of a plan
    jobs,     \* the tasks and runs submitted for a batch, oldest first
    held,     \* the batch a scheduler works on, as it has loaded it
    resumes,  \* resumes of a batch
    edits, faults

vars == <<saved, online, content, plan, asking, batch, jobs, held, resumes, edits, faults>>

Stage == {"restore", "sync", "standard", "encryption"}
Ready == [restore |-> "waiting_file", sync |-> "sync_ready",
          standard |-> "standard_ready", encryption |-> "encryption_ready"]
Submitting == [restore |-> "submitting_restore", sync |-> "submitting_sync",
               standard |-> "submitting_standard", encryption |-> "submitting_encryption"]
Working == [restore |-> "restore_queued", sync |-> "sync_queued",
            standard |-> "standardize_queued", encryption |-> "encrypting"]
After == [restore |-> Ready["sync"], sync |-> Ready["standard"],
          standard |-> Ready["encryption"], encryption |-> "completed"]
States(f) == {f[s] : s \in Stage}
Terminal == {"completed", "failed"}

NoPlan == [state |-> "absent"]
NoBatch == [state |-> "absent"]
Free == [at |-> "free"]
Row == [state : States(Ready) \cup States(Submitting) \cup States(Working) \cup Terminal,
        resume : {"none"} \cup Stage \cup States(Ready) \cup {"completed"},
        job : [Stage -> Nat]]
Job == [stage : Stage, scope : Nat, state : {"active", "succeeded", "failed"}]

TypeOK ==
    /\ saved \in [Stage -> Nat] /\ online \in BOOLEAN /\ content \in [File -> Nat]
    /\ plan \in [Plan -> {NoPlan} \cup [state : {"draft", "confirmed"}, file : File, print : Nat, scope : [Stage -> Nat]]]
    /\ asking \subseteq Plan /\ batch \in [Plan -> {NoBatch} \cup Row] /\ jobs \in [Plan -> Seq(Job)]
    /\ held \in [Scheduler -> {Free} \cup
           [at : {"loaded", "claimed", "submitted"}, plan : Plan, row : Row, template : Nat, job : Nat]]
    /\ resumes \in [Plan -> Nat] /\ edits \in 0 .. MaxEdits /\ faults \in 0 .. MaxFaults

Init ==
    /\ saved = [s \in Stage |-> 1] /\ online = TRUE /\ content = [f \in File |-> 1]
    /\ plan = [p \in Plan |-> NoPlan] /\ asking = {} /\ batch = [p \in Plan |-> NoBatch]
    /\ jobs = [p \in Plan |-> <<>>] /\ held = [c \in Scheduler |-> Free]
    /\ resumes = [p \in Plan |-> 0] /\ edits = 0 /\ faults = 0

Fail == faults < MaxFaults /\ faults' = faults + 1

-----------------------------------------------------------------------------
(* The saved tasks and the files change.  Before the first plan that makes *)
(* no difference.                                                          *)

Edit == edits < MaxEdits /\ edits' = edits + 1 /\ \E p \in Plan : plan[p] # NoPlan

EditTask(s) ==
    /\ Edit
    /\ saved' = [saved EXCEPT ![s] = @ + 1]
    /\ UNCHANGED <<online, content, plan, asking, batch, jobs, held, resumes, faults>>

ReplaceFile(f) ==
    /\ Edit
    /\ content' = [content EXCEPT ![f] = @ + 1]
    /\ UNCHANGED <<saved, online, plan, asking, batch, jobs, held, resumes, faults>>

TakeOffline ==
    /\ Edit
    /\ online /\ online' = FALSE
    /\ UNCHANGED <<saved, content, plan, asking, batch, jobs, held, resumes, faults>>

-----------------------------------------------------------------------------
(* Plans.                                                                  *)

PreparePlan(p, f) ==
    /\ plan[p] = NoPlan /\ \A q \in Plan : q < p => plan[q] # NoPlan
    /\ online
    /\ plan' = [plan EXCEPT ![p] = [state |-> "draft", file |-> f, print |-> content[f], scope |-> saved]]
    /\ UNCHANGED <<saved, online, content, asking, batch, jobs, held, resumes, edits, faults>>

\* Nothing that has been planned has changed.
StillValid(p) == online /\ plan[p].scope = saved /\ plan[p].print = content[plan[p].file]

InFlight(p) == batch[p] # NoBatch /\ batch[p].state \notin Terminal
SameSource(p, q) == batch[q] # NoBatch /\ plan[q].file = plan[p].file /\ plan[q].print = plan[p].print

\* confirm_plan locks the plan; what it reads after that, the batches of the
\* pipeline too, is the database at this moment.
BeginConfirm(p) ==
    /\ plan[p].state = "draft" /\ p \notin asking /\ StillValid(p)
    /\ \A q \in Plan : ~InFlight(q) /\ ~SameSource(p, q)
    /\ asking' = asking \cup {p}
    /\ UNCHANGED <<saved, online, content, plan, batch, jobs, held, resumes, edits, faults>>

\* The pipeline's lock is waited for and held up to the commit.  Of the two
\* conditions on other batches the unique key alone is tested again here.
CommitConfirm(p) ==
    /\ p \in asking /\ \A q \in Plan : ~SameSource(p, q)
    /\ batch' = [batch EXCEPT ![p] = [state |-> Ready["restore"], resume |-> "none", job |-> [s \in Stage |-> 0]]]
    /\ plan' = [plan EXCEPT ![p].state = "confirmed"]
    /\ asking' = asking \ {p}
    /\ UNCHANGED <<saved, online, content, jobs, held, resumes, edits, faults>>

RefuseConfirm(p) ==
    /\ p \in asking /\ \E q \in Plan : SameSource(p, q)
    /\ asking' = asking \ {p}
    /\ UNCHANGED <<saved, online, content, plan, batch, jobs, held, resumes, edits, faults>>

-----------------------------------------------------------------------------
(* The schedulers: advance_batches, advance.                               *)

\* A submitting batch is loaded too, and left as it is.
Load(c, p) ==
    /\ held[c] = Free /\ InFlight(p) /\ batch[p].state \notin States(Submitting)
    /\ held' = [held EXCEPT ![c] = [at |-> "loaded", plan |-> p, row |-> batch[p], template |-> saved["restore"], job |-> 0]]
    /\ UNCHANGED <<saved, online, content, plan, asking, batch, jobs, resumes, edits, faults>>

IsAt(c, at, f, s) == held[c].at = at /\ held[c].row.state = f[s]
JobOf(c, s) == jobs[held[c].plan][held[c].row.job[s]]
Leave(c) == held' = [held EXCEPT ![c] = Free]

\* The conditional UPDATE of _claim.
ClaimableAnyway(c) == TRUE
Claimable(c) == batch[held[c].plan].state = held[c].row.state

\* _failed and the handler of advance_batches write over whatever is there.
Failed(p, resume) == [batch EXCEPT ![p].state = "failed", ![p].resume = resume]
Raise(c, at) ==
    LET h == held[c]
    IN  batch' = Failed(h.plan, IF h.row.resume # "none" THEN h.row.resume ELSE at)

\* The template, loaded with the batch, or the file is not the confirmed one.
Sound(h) ==
    /\ plan[h.plan].scope["restore"] = h.template
    /\ plan[h.plan].print = content[plan[h.plan].file]
\* ... or the directory cannot be listed.
Block(c) ==
    /\ IsAt(c, "loaded", Ready, "restore")
    /\ IF Sound(held[c]) THEN Fail ELSE UNCHANGED faults
    /\ Raise(c, Ready["restore"]) /\ Leave(c)
    /\ UNCHANGED <<saved, online, content, plan, asking, jobs, resumes, edits>>

Withdraw(c) ==
    /\ IsAt(c, "loaded", Ready, "standard") /\ ~online
    /\ batch' = Failed(held[c].plan, "standard") /\ Leave(c)
    /\ UNCHANGED <<saved, online, content, plan, asking, jobs, resumes, edits, faults>>

Claim(c, s) ==
    LET p == held[c].plan
        row == [batch[p] EXCEPT !.state = Submitting[s]]
    IN  /\ IsAt(c, "loaded", Ready, s)
        /\ s = "restore" => Sound(held[c])
        /\ s = "standard" => online
        /\ IF Claimable(c)
           THEN batch' = [batch EXCEPT ![p] = row] /\ held' = [held EXCEPT ![c].at = "claimed", ![c].row = row]
           ELSE UNCHANGED batch /\ Leave(c)
        /\ UNCHANGED <<saved, online, content, plan, asking, jobs, resumes, edits, faults>>

Scope(h, s) == IF s = "restore" THEN h.template ELSE plan[h.plan].scope[s]

\* The job exists.  A restore and its batch are committed together; the id of
\* a workflow run has been committed before it; the others' is not yet.
Submit(c, s) ==
    LET p == held[c].plan
        job == Len(jobs[p]) + 1
    IN  /\ IsAt(c, "claimed", Submitting, s)
        /\ jobs' = [jobs EXCEPT ![p] = Append(@, [stage |-> s, scope |-> Scope(held[c], s), state |-> "active"])]
        /\ batch' = CASE s = "restore" ->
                           [batch EXCEPT ![p] = [state |-> Working[s], resume |-> "none", job |-> [@.job EXCEPT ![s] = job]]]
                      [] s = "standard" -> [batch EXCEPT ![p].job[s] = job]
                      [] OTHER -> batch
        /\ held' = [held EXCEPT ![c].at = "submitted", ![c].job = job]
        /\ UNCHANGED <<saved, online, content, plan, asking, resumes, edits, faults>>

\* The stage's handler ends well: the id and the state are written.
Record(c, s) ==
    LET p == held[c].plan
    IN  /\ IsAt(c, "submitted", Submitting, s)
        /\ batch' = IF s = "restore" THEN batch
                    ELSE [batch EXCEPT ![p].state = Working[s], ![p].job[s] = held[c].job]
        /\ Leave(c)
        /\ UNCHANGED <<saved, online, content, plan, asking, jobs, resumes, edits, faults>>

\* The submission raises, before or after the job has come into being.
LoseAnswer(c, s) ==
    LET p == held[c].plan
    IN  /\ \/ IsAt(c, "claimed", Submitting, s)
           \/ IsAt(c, "submitted", Submitting, s)
        /\ Fail
        /\ batch' = IF s = "restore" THEN [batch EXCEPT ![p].state = Submitting[s]] ELSE batch
        /\ Leave(c)
        /\ UNCHANGED <<saved, online, content, plan, asking, jobs, resumes, edits>>

StillActive(c, s) ==
    /\ IsAt(c, "loaded", Working, s) /\ JobOf(c, s).state = "active"
    /\ Leave(c)
    /\ UNCHANGED <<saved, online, content, plan, asking, batch, jobs, resumes, edits, faults>>

\* A restore that does not tell its schema counts as failed.
StageFailed(c, s) ==
    /\ IsAt(c, "loaded", Working, s) /\ JobOf(c, s).state = "failed"
    /\ batch' = Failed(held[c].plan, s) /\ Leave(c)
    /\ UNCHANGED <<saved, online, content, plan, asking, jobs, resumes, edits, faults>>

SucceededWhenEnded(job) == job.state # "active"
Succeeded(job) == job.state = "succeeded"
StageSucceeded(c, s) ==
    LET p == held[c].plan
    IN  /\ IsAt(c, "loaded", Working, s) /\ Succeeded(JobOf(c, s))
        /\ batch' = IF Claimable(c) THEN [batch EXCEPT ![p].state = After[s]] ELSE batch
        /\ Leave(c)
        /\ UNCHANGED <<saved, online, content, plan, asking, jobs, resumes, edits, faults>>

\* The assets of the stage cannot be recorded, after the claim.
RecordingFails(c, s) ==
    /\ s # "restore" /\ IsAt(c, "loaded", Working, s) /\ Succeeded(JobOf(c, s)) /\ Claimable(c)
    /\ Fail /\ Raise(c, After[s]) /\ Leave(c)
    /\ UNCHANGED <<saved, online, content, plan, asking, jobs, resumes, edits>>

Crash(c) ==
    /\ held[c] # Free /\ Fail /\ Leave(c)
    /\ UNCHANGED <<saved, online, content, plan, asking, batch, jobs, resumes, edits>>

-----------------------------------------------------------------------------
JobEnds(p, i, state) ==
    /\ jobs[p][i].state = "active"
    /\ jobs' = [jobs EXCEPT ![p][i].state = state]
    /\ UNCHANGED <<saved, online, content, plan, asking, batch, held, resumes, edits, faults>>

\* An administrator has looked at the partial writes.  resume_from_stage stays.
Resume(p) ==
    /\ batch[p].state = "failed" /\ batch[p].resume \in Stage
    /\ \A q \in Plan : resumes[q] < MaxResumes
    /\ batch' = [batch EXCEPT ![p].state = Ready[batch[p].resume]]
    /\ resumes' = [resumes EXCEPT ![p] = @ + 1]
    /\ UNCHANGED <<saved, online, content, plan, asking, jobs, held, edits, faults>>

-----------------------------------------------------------------------------
Advance(c) ==
    \/ \E p \in Plan : Load(c, p)
    \/ Block(c) \/ Withdraw(c) \/ Crash(c)
    \/ \E s \in Stage :
          \/ Claim(c, s) \/ Submit(c, s) \/ Record(c, s) \/ LoseAnswer(c, s)
          \/ StillActive(c, s) \/ StageFailed(c, s) \/ StageSucceeded(c, s) \/ RecordingFails(c, s)

Next ==
    \/ \E s \in Stage : EditTask(s)
    \/ \E f \in File : ReplaceFile(f)
    \/ TakeOffline
    \/ \E p \in Plan :
          \/ \E f \in File : PreparePlan(p, f)
          \/ BeginConfirm(p) \/ CommitConfirm(p) \/ RefuseConfirm(p) \/ Resume(p)
          \/ \E i \in 1 .. Len(jobs[p]), state \in {"succeeded", "failed"} : JobEnds(p, i, state)
    \/ \E c \in Scheduler : Advance(c)

Spec == Init /\ [][Next]_vars

-----------------------------------------------------------------------------
(* Properties.                                                             *)

Previous == [sync |-> "restore", standard |-> "sync", encryption |-> "standard"]
JobsOf(p, s) == {i \in 1 .. Len(jobs[p]) : jobs[p][i].stage = s}

\* A stage is submitted once, and once more for each resume that an
\* administrator has acknowledged: whatever crashes, whichever answers are
\* lost and however many schedulers work from old copies of the batch.
NotRepeated == \A p \in Plan, s \in Stage : Cardinality(JobsOf(p, s)) <= 1 + resumes[p]

\* No stage is submitted before a job of the stage above it has succeeded.
UpstreamSucceeded ==
    \A p \in Plan : \A i \in 1 .. Len(jobs[p]) :
        jobs[p][i].stage # "restore" =>
            \E j \in 1 .. i - 1 : jobs[p][j].stage = Previous[jobs[p][i].stage] /\ jobs[p][j].state = "succeeded"

\* Every job works from what was confirmed, whenever the saved tasks change.
ScopeConfirmed ==
    \A p \in Plan : \A i \in 1 .. Len(jobs[p]) : jobs[p][i].scope = plan[p].scope[jobs[p][i].stage]

\* The three of them: a stage runs once, in its turn and as it was confirmed.
StagesAsConfirmed == NotRepeated /\ UpstreamSucceeded /\ ScopeConfirmed

\* "Serialize plans using this route": a pipeline has one batch in flight.
OneInFlight == Cardinality({p \in Plan : InFlight(p)}) <= 1
=============================================================================

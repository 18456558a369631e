-------------------------------- MODULE DorisJob --------------------------------
(***************************************************************************)
(* Background jobs on Doris that no claim protects: SM3 masking of a table *)
(* (services/doris_sm3_mapping.py), copying a query of Oracle into a table *)
(* (doris_sql_etl.py), exporting a query into a file (query_export.py).  A *)
(* request inserts the row of the job and sends a message; a worker that   *)
(* receives it executes the job and acknowledges the message at the end,   *)
(* so that the message of a worker that dies, or takes longer than the     *)
(* visibility timeout, comes back.                                         *)
(*                                                                         *)
(* The masking jobs are of one table, the ETL runs of one task, so of one  *)
(* target table.  What a table or file holds is a sequence of blocks of    *)
(* rows.  A step is its check for a cancellation and its statement; a      *)
(* statement that fails has no effect.  The mapping tables, which a        *)
(* repetition leaves as they are, the list of masked tables and what is    *)
(* only shown are left out.                                                *)
(***************************************************************************)
EXTENDS Naturals, SequencesExt

CONSTANTS
    NJobs,      \* jobs 1 .. NJobs
    Kinds,      \* the kinds the jobs may have: a set of functions of the jobs, with
                \* masking jobs or ETL runs, whose tables are different ones
    Workers,
    MaxCopies,  \* bound: copies of a message
    MaxEvents   \* bound: cancellations, failing statements and enqueues, crashes,
                \* redeliveries

Jobs == 1 .. NJobs
Mask == {"replace", "suffix"}
Etl == {"truncate", "append"}
Kind == Mask \cup Etl \cup {"export"}

DorisJobAssumption ==
    /\ NJobs \in Nat \ {0} /\ Kinds \subseteq [Jobs -> Kind]
    /\ \A k \in Kinds : \A i, j \in Jobs : ~(k[i] \in Mask /\ k[j] \in Etl)
    /\ MaxCopies \in Nat \ {0} /\ MaxEvents \in Nat

VARIABLES
    kind,    \* kind[j]: the kind of job j
    job,     \* the rows: [state, cancel]
    api,     \* api[j]: how far the request that submits job j is
    canc,    \* canc[j]: the state a request to cancel job j has read
    queue,   \* queue[j]: copies of the message of job j at the broker
    slot,    \* the executions
    table,   \* Doris: what each table holds
    file,    \* file[j]: the finished file of an export
    part,    \* part[j]: the file behind the name of its unfinished one
    mark,    \* history: what has happened to job j
    events

vars == <<kind, job, api, canc, queue, slot, table, file, part, mark, events>>

\* The table that is masked, or loaded; table j is the one named after job j:
\* the backup (replace_original) or the masked table (create_suffixed).
Source == 0
Names == {Source} \cup Jobs
NoTable == <<"none">>
NoFile == <<"none">>
NoOne == "nobody"

\* The rows of a query, fetched in two blocks.
Result == <<"first", "second">>

\* SM3 of every value of the columns.
Sm3 == [plain |-> "masked", masked |-> "twice", twice |-> "twice"]
Masked(rows) == [i \in DOMAIN rows |-> Sm3[rows[i]]]

Terminal == {"succeeded", "failed", "cancelled", "expired"}
RunningStates == {"queued", "running", "cancelling"}

Idle == [pc |-> "idle", job |-> 0, seen |-> FALSE, src |-> NoTable, renamed |-> FALSE,
         created |-> FALSE, out |-> <<>>]

\* shared: an execution has overlapped with one of another job on the same table;
\* twin: two executions of the job have overlapped;
\* touched: a statement has changed its tables; spared: it was cancelled before that;
\* overtaken: a cancellation was written over its end; abandoned: its worker died;
\* revoked: the workers were told to drop its message;
\* nameless: the worker or the repair of a renamed table has failed.
Marks == {"shared", "twin", "touched", "spared", "overtaken", "abandoned", "revoked",
          "nameless"}
Mark(j, ms) == mark' = [mark EXCEPT ![j] = @ \cup ms]

Pc == {"idle", "start", "prepare", "rename", "create", "fill", "verify",
       "finish", "failing", "restored", "claim", "open", "fetch", "progress",
       "ack"}

TypeOK ==
    /\ kind \in Kinds
    /\ job \in [Jobs -> [state : {"none"} \cup RunningStates \cup Terminal,
                         cancel : BOOLEAN]]
    /\ api \in [Jobs -> {"idle", "checked", "inserted", "done", "refused"}]
    /\ canc \in [Jobs -> {"none", "queued", "active", "over"}]
    /\ queue \in [Jobs -> 0 .. MaxCopies]
    /\ \A w \in Workers :
          /\ slot[w].pc \in Pc /\ slot[w].job \in Jobs \cup {0}
          /\ (slot[w].pc = "idle") <=> (slot[w] = Idle)
          /\ slot[w].created => slot[w].src # NoTable
          /\ (slot[w].renamed => kind[slot[w].job] = "replace")
    /\ table \in [Names -> {NoTable} \cup Seq({"plain", "masked", "twice", "first", "second"})]
    /\ \A j \in Jobs : file[j] # NoFile => kind[j] = "export"
    /\ part \in [Jobs -> Workers \cup {NoOne}]
    /\ mark \in [Jobs -> SUBSET Marks]
    /\ events \in 0 .. MaxEvents

Init ==
    /\ kind \in Kinds
    /\ job = [j \in Jobs |-> [state |-> "none", cancel |-> FALSE]]
    /\ api = [j \in Jobs |-> "idle"] /\ canc = [j \in Jobs |-> "none"]
    /\ queue = [j \in Jobs |-> 0]
    /\ slot = [w \in Workers |-> Idle]
    /\ table = [n \in Names |-> IF n # Source THEN NoTable
                                ELSE IF kind[1] \in Mask THEN <<"plain">> ELSE <<>>]
    /\ file = [j \in Jobs |-> NoFile] /\ part = [j \in Jobs |-> NoOne]
    /\ mark = [j \in Jobs |-> {}] /\ events = 0

Event == events < MaxEvents /\ events' = events + 1
Files == <<file, part>>

-----------------------------------------------------------------------------
(* The requests. *)

\* _find_running_same_table_job: only masking jobs look for one another.
Check(j) ==
    /\ api[j] = "idle" /\ kind[j] \in Mask
    /\ \A k \in Jobs : job[k].state \notin RunningStates
    /\ api' = [api EXCEPT ![j] = "checked"]
    /\ UNCHANGED <<kind, job, canc, queue, slot, table, Files, mark, events>>

\* The row is committed as queued ...
Inserted(j, before) ==
    /\ api[j] = before
    /\ job' = [job EXCEPT ![j].state = "queued"]
    /\ api' = [api EXCEPT ![j] = "inserted"]
    /\ UNCHANGED <<kind, canc, queue, slot, table, Files, mark, events>>

InsertMask(j) == kind[j] \in Mask /\ Inserted(j, "checked")
InsertEtl(j) == kind[j] \in Etl /\ Inserted(j, "idle")
InsertExport(j) == kind[j] = "export" /\ Inserted(j, "idle")

\* ... before the message is sent.
Enqueue(j) ==
    /\ api[j] = "inserted"
    /\ queue' = [queue EXCEPT ![j] = @ + 1] /\ api' = [api EXCEPT ![j] = "done"]
    /\ UNCHANGED <<kind, job, canc, slot, table, Files, mark, events>>

\* The broker cannot be reached: the row stays queued.
EnqueueFails(j) ==
    /\ api[j] = "inserted" /\ Event /\ api' = [api EXCEPT ![j] = "refused"]
    /\ UNCHANGED <<kind, job, canc, queue, slot, table, Files, mark>>

\* A cancellation reads the state ...
CancelRead(j, states, marks) ==
    /\ canc[j] = "none" /\ job[j].state \in states /\ Event
    /\ canc' = [canc EXCEPT ![j] = IF job[j].state = "queued" THEN "queued" ELSE "active"]
    /\ Mark(j, marks)
    /\ UNCHANGED <<kind, job, api, queue, slot, table, Files>>

CancelMask(j) ==
    kind[j] \in Mask /\ CancelRead(j, RunningStates, IF api[j] = "done" THEN {"revoked"} ELSE {})
CancelExport(j) == kind[j] = "export" /\ CancelRead(j, {"queued", "running"}, {})

\* ... and writes what follows from it.
CancelWrite(j) ==
    /\ canc[j] \in {"queued", "active"}
    /\ job' = [job EXCEPT ![j] =
                 [state |-> IF kind[j] = "export" \/ canc[j] = "queued" THEN "cancelled"
                            ELSE "cancelling",
                  cancel |-> kind[j] \in Mask]]
    /\ canc' = [canc EXCEPT ![j] = "over"]
    /\ Mark(j, (IF job[j].state \in Terminal THEN {"overtaken"} ELSE {})
               \cup (IF "touched" \in mark[j] THEN {} ELSE {"spared"}))
    /\ UNCHANGED <<kind, api, queue, slot, table, Files, events>>

\* Between the two the workers are told to drop the message (revoke).
Discard(j) ==
    /\ "revoked" \in mark[j] /\ queue[j] > 0
    /\ queue' = [queue EXCEPT ![j] = @ - 1]
    /\ UNCHANGED <<kind, job, api, canc, slot, table, Files, mark, events>>

-----------------------------------------------------------------------------
(* Deliveries. *)

Active(w) == slot[w].pc # "idle"
OnTable(j, k) == kind[j] # "export" /\ kind[k] # "export"

\* A worker, the first one that is free, receives the message and loads the row.  An
\* export that is not queued is ignored.
Free == CHOOSE w \in Workers : ~Active(w)

Receive(j) ==
    LET w == Free
        twins == \E v \in Workers : Active(v) /\ slot[v].job = j
        others == {slot[v].job : v \in {x \in Workers : Active(x) /\ slot[x].job # j
                                                        /\ OnTable(slot[x].job, j)}}
    IN
    /\ queue[j] > 0 /\ \E v \in Workers : ~Active(v)
    /\ queue' = [queue EXCEPT ![j] = @ - 1]
    /\ IF kind[j] = "export" /\ job[j].state # "queued" THEN UNCHANGED <<slot, mark>>
       ELSE /\ slot' = [slot EXCEPT ![w] =
                          [Idle EXCEPT !.pc = IF kind[j] = "export" THEN "claim" ELSE "start",
                                       !.job = j, !.seen = job[j].cancel]]
            /\ mark' = [k \in Jobs |-> mark[k]
                  \cup (IF k \in others \/ (k = j /\ others # {}) THEN {"shared"} ELSE {})
                  \cup (IF k = j /\ twins THEN {"twin"} ELSE {})]
    /\ UNCHANGED <<kind, job, api, canc, table, Files, events>>

\* acks_late, visibility_timeout: the message of an execution comes back while the
\* execution goes on ...
Redeliver(w) ==
    /\ Active(w) /\ queue[slot[w].job] < MaxCopies /\ Event
    /\ queue' = [queue EXCEPT ![slot[w].job] = @ + 1]
    /\ UNCHANGED <<kind, job, api, canc, slot, table, Files, mark>>

\* ... or when its worker is gone.
Crash(w) ==
    LET j == slot[w].job IN
    /\ Active(w) /\ queue[j] < MaxCopies /\ Event
    /\ queue' = [queue EXCEPT ![j] = @ + 1]
    /\ slot' = [slot EXCEPT ![w] = Idle]
    /\ Mark(j, {"abandoned"} \cup IF slot[w].renamed THEN {"nameless"} ELSE {})
    /\ UNCHANGED <<kind, job, api, canc, table, Files>>

At(w, pc, k) == slot[w].pc = pc /\ kind[slot[w].job] \in k
Goto(w, pc) == slot' = [slot EXCEPT ![w].pc = pc]
Becomes(j, state) == job' = [job EXCEPT ![j].state = state]
Rest == <<kind, api, canc, queue, Files>>

Ack(w) ==
    /\ slot[w].pc = "ack" /\ slot' = [slot EXCEPT ![w] = Idle]
    /\ UNCHANGED <<kind, job, api, canc, queue, table, Files, mark, events>>

-----------------------------------------------------------------------------
(* run_sm3_mapping_job. *)

\* Whatever the state of the row is by now, unless a cancellation was loaded with
\* it, it becomes running.
StartMask(w) ==
    LET j == slot[w].job IN
    /\ At(w, "start", Mask)
    /\ IF slot[w].seen
       THEN Becomes(j, "cancelled") /\ Goto(w, "ack")
       ELSE Becomes(j, "running") /\ Goto(w, "prepare")
    /\ UNCHANGED <<Rest, table, mark, events>>

MaskSteps == {"prepare", "rename", "create", "fill", "verify"}
AtStep(w) == \E pc \in MaskSteps : At(w, pc, Mask)

\* _check_cancel, with the row read again.
CancelledLoaded(w) == slot[w].seen
Cancelled(w) == job[slot[w].job].cancel

StopMask(w) ==
    /\ AtStep(w) /\ Cancelled(w)
    /\ Becomes(slot[w].job, "cancelled") /\ Goto(w, "ack")
    /\ UNCHANGED <<Rest, table, mark, events>>

\* Where the rows come from, and where they go.
From(w) == IF slot[w].renamed THEN slot[w].job ELSE Source
Output(j) == IF kind[j] = "replace" THEN Source ELSE j
Exists(n) == table[n] # NoTable

\* A step: it goes on when it can be done, and fails otherwise.
MaskStep(w, pc, possible, done) ==
    LET j == slot[w].job IN
    /\ At(w, pc, Mask) /\ ~Cancelled(w)
    /\ IF possible THEN done ELSE Goto(w, "failing") /\ UNCHANGED table
    /\ IF table' # table THEN Mark(j, {"touched"}) ELSE UNCHANGED mark
    /\ UNCHANGED <<Rest, job, events>>

\* Steps 1 to 3: the table is there, the name of the new one is free; its rows are
\* counted and its values entered in the mapping tables.
Prepare(w) ==
    LET j == slot[w].job IN
    MaskStep(w, "prepare", Exists(Source) /\ ~Exists(j),
        /\ slot' = [slot EXCEPT ![w].src = table[Source],
                                ![w].pc = IF kind[j] = "replace" THEN "rename" ELSE "create"]
        /\ UNCHANGED table)

\* Step 4: ALTER TABLE source RENAME backup.
Rename(w) ==
    LET j == slot[w].job IN
    MaskStep(w, "rename", Exists(Source) /\ ~Exists(j),
        /\ table' = [table EXCEPT ![j] = table[Source], ![Source] = NoTable]
        /\ slot' = [slot EXCEPT ![w].renamed = TRUE, ![w].pc = "create"])

\* Step 5: the masked table, from the DDL of the source.
CreateTable(w) ==
    MaskStep(w, "create", Exists(From(w)) /\ ~Exists(Output(slot[w].job)),
        /\ table' = [table EXCEPT ![Output(slot[w].job)] = <<>>]
        /\ slot' = [slot EXCEPT ![w].created = TRUE, ![w].pc = "fill"])

\* Step 6: INSERT INTO masked SELECT SM3(...) FROM source.
Fill(w) ==
    LET n == Output(slot[w].job) IN
    MaskStep(w, "fill", Exists(From(w)) /\ Exists(n),
        /\ table' = [table EXCEPT ![n] = @ \o Masked(table[From(w)])]
        /\ Goto(w, "verify"))

\* Steps 7 and 8: the same number of rows; the relations of the fields, the audit.
Verify(w) ==
    LET n == Output(slot[w].job) IN
    MaskStep(w, "verify", Exists(n) /\ Len(table[n]) = Len(slot[w].src),
        Goto(w, "finish") /\ UNCHANGED table)

\* The statement of a step fails, because of a fault or because the cancellation
\* has killed it.
StepFails(w) ==
    /\ AtStep(w)
    /\ IF job[slot[w].job].state = "cancelling" THEN UNCHANGED events ELSE Event
    /\ Goto(w, "failing")
    /\ UNCHANGED <<Rest, job, table, mark>>

\* _finish_job.
FinishLost(w, state) == UNCHANGED job /\ Goto(w, "ack")
Finish(w, state) == Becomes(slot[w].job, state) /\ Goto(w, "ack")

FinishMask(w) ==
    /\ At(w, "finish", Mask) /\ Finish(w, "succeeded")
    /\ UNCHANGED <<Rest, table, mark, events>>

\* The except branch: a renamed source gets its name back if nothing else has it
\* (_try_rollback_rename, which may fail itself).
GivesBackCreated(w) ==
    slot[w].renamed /\ slot[w].created /\ ~Exists(Source) /\ Exists(slot[w].job)
GivesBack(w) ==
    slot[w].renamed /\ ~slot[w].created /\ ~Exists(Source) /\ Exists(slot[w].job)

FailMask(w) ==
    LET j == slot[w].job IN
    /\ At(w, "failing", Mask)
    /\ IF job[j].cancel THEN Finish(w, "cancelled") /\ UNCHANGED <<table, mark, events>>
       ELSE /\ Goto(w, "restored") /\ UNCHANGED job
            /\ IF GivesBack(w)
               THEN \/ table' = [table EXCEPT ![Source] = table[j], ![j] = NoTable]
                       /\ UNCHANGED <<mark, events>>
                    \/ Event /\ Mark(j, {"nameless"}) /\ UNCHANGED table
               ELSE UNCHANGED <<table, mark, events>>
    /\ UNCHANGED Rest

FailedMask(w) ==
    /\ slot[w].pc = "restored" /\ Finish(w, "failed")
    /\ UNCHANGED <<Rest, table, mark, events>>

-----------------------------------------------------------------------------
(* run_doris_sql_etl. *)

StartEtl(w) ==
    /\ At(w, "start", Etl) /\ Becomes(slot[w].job, "running") /\ Goto(w, "prepare")
    /\ UNCHANGED <<Rest, table, mark, events>>

\* _prepare_doris_target: truncate_insert and drop_create_insert empty the table.
TargetKept(k) == table[Source]
Target(k) == IF k = "truncate" THEN <<>> ELSE table[Source]

PrepareTarget(w) ==
    /\ At(w, "prepare", Etl)
    /\ table' = [table EXCEPT ![Source] = Target(kind[slot[w].job])]
    /\ Goto(w, "fetch")
    /\ UNCHANGED <<Rest, job, mark, events>>

\* A block of rows is fetched from Oracle and inserted, committed at once.
InsertBatch(w) ==
    LET n == Len(slot[w].out) IN
    /\ At(w, "fetch", Etl) /\ n < Len(Result)
    /\ table' = [table EXCEPT ![Source] = Append(@, Result[n + 1])]
    /\ slot' = [slot EXCEPT ![w].out = Append(@, Result[n + 1])]
    /\ UNCHANGED <<Rest, job, mark, events>>

FinishEtl(w) ==
    /\ At(w, "fetch", Etl) /\ Len(slot[w].out) = Len(Result)
    /\ Becomes(slot[w].job, "succeeded") /\ Goto(w, "ack")
    /\ UNCHANGED <<Rest, table, mark, events>>

FailEtl(w) ==
    /\ At(w, "prepare", Etl) \/ At(w, "fetch", Etl)
    /\ Event
    /\ Becomes(slot[w].job, "failed") /\ Goto(w, "ack")
    /\ UNCHANGED <<Rest, table, mark>>

-----------------------------------------------------------------------------
(* run_query_export. *)

Others == <<kind, api, canc, queue, table>>

\* The state that was loaded as queued is overwritten.
Claim(w) ==
    /\ slot[w].pc = "claim" /\ Becomes(slot[w].job, "running") /\ Goto(w, "open")
    /\ UNCHANGED <<Others, Files, mark, events>>

\* _write_export: a partial file that is there is removed, its own one opened.
Open(w) ==
    /\ slot[w].pc = "open"
    /\ part' = [part EXCEPT ![slot[w].job] = w] /\ Goto(w, "fetch")
    /\ UNCHANGED <<Others, job, file, mark, events>>

FetchBlock(w) ==
    LET n == Len(slot[w].out) IN
    /\ At(w, "fetch", {"export"}) /\ n < Len(Result)
    /\ slot' = [slot EXCEPT ![w].out = Append(@, Result[n + 1]), ![w].pc = "progress"]
    /\ UNCHANGED <<Others, job, Files, mark, events>>

\* _record_progress looks whether the job was cancelled.
Progress(w) ==
    LET j == slot[w].job IN
    /\ slot[w].pc = "progress"
    /\ IF job[j].state = "cancelled"
       THEN part' = [part EXCEPT ![j] = NoOne] /\ Goto(w, "ack")
       ELSE Goto(w, "fetch") /\ UNCHANGED part
    /\ UNCHANGED <<Others, job, file, mark, events>>

\* The partial file gets its name, if it is still there.
WrittenBy(v) == IF Active(v) THEN slot[v].out ELSE <<>>

Publish(w) ==
    LET j == slot[w].job IN
    /\ At(w, "fetch", {"export"}) /\ Len(slot[w].out) = Len(Result)
    /\ IF part[j] = NoOne THEN Goto(w, "failing") /\ UNCHANGED Files
       ELSE /\ file' = [file EXCEPT ![j] = WrittenBy(part[j])]
            /\ part' = [part EXCEPT ![j] = NoOne] /\ Goto(w, "finish")
    /\ UNCHANGED <<Others, job, mark, events>>

FinishExport(w) ==
    /\ At(w, "finish", {"export"}) /\ Becomes(slot[w].job, "succeeded") /\ Goto(w, "ack")
    /\ UNCHANGED <<Others, Files, mark, events>>

\* No space, a failing query.
ExportBreaks(w) ==
    /\ slot[w].pc = "open" \/ At(w, "fetch", {"export"})
    /\ Event
    /\ part' = [part EXCEPT ![slot[w].job] = NoOne] /\ Goto(w, "failing")
    /\ UNCHANGED <<Others, job, file, mark>>

FailExport(w) ==
    /\ At(w, "failing", {"export"}) /\ Becomes(slot[w].job, "failed") /\ Goto(w, "ack")
    /\ UNCHANGED <<Others, Files, mark, events>>

\* cleanup_expired_query_exports, and a download that finds the file expired.
Expire(j) ==
    /\ kind[j] = "export" /\ job[j].state = "succeeded"
    /\ Becomes(j, "expired") /\ file' = [file EXCEPT ![j] = NoFile]
    /\ UNCHANGED <<kind, api, canc, queue, slot, table, part, mark, events>>

-----------------------------------------------------------------------------
Request(j) ==
    \/ Check(j) \/ InsertMask(j) \/ InsertEtl(j) \/ InsertExport(j) \/ Enqueue(j)
    \/ CancelWrite(j)

Cancel(j) == CancelMask(j) \/ CancelExport(j) \/ Discard(j)

MaskWork(w) ==
    \/ StartMask(w) \/ StopMask(w) \/ Prepare(w) \/ Rename(w) \/ CreateTable(w) \/ Fill(w)
    \/ Verify(w) \/ FinishMask(w) \/ FailMask(w)
    \/ FailedMask(w)

EtlWork(w) == StartEtl(w) \/ PrepareTarget(w) \/ InsertBatch(w) \/ FinishEtl(w)

ExportWork(w) ==
    \/ Claim(w) \/ Open(w) \/ FetchBlock(w) \/ Progress(w) \/ Publish(w) \/ FinishExport(w)
    \/ FailExport(w)

Work(w) == MaskWork(w) \/ EtlWork(w) \/ ExportWork(w) \/ Ack(w)

Faults(w) == StepFails(w) \/ FailEtl(w) \/ ExportBreaks(w) \/ Redeliver(w) \/ Crash(w)

Next ==
    \/ \E j \in Jobs : Request(j) \/ Receive(j) \/ EnqueueFails(j) \/ Cancel(j) \/ Expire(j)
    \/ \E w \in Workers : Work(w) \/ Faults(w)

Spec == Init /\ [][Next]_vars

\* Requests and executions go on, and a free worker takes a message up: each job has
\* its turn.
FairSpec ==
    /\ Spec
    /\ \A j \in Jobs : WF_vars(Request(j)) /\ WF_vars(Receive(j))
    /\ \A w \in Workers : WF_vars(Work(w))

-----------------------------------------------------------------------------
(* Properties. *)

\* A job is about to succeed: what it has written is the image of what it has read.
\* The backup of a masked table holds what was there when the job began.
Right(w) ==
    LET j == slot[w].job
        k == kind[j]
    IN  CASE k = "replace" -> /\ table[j] = slot[w].src
                              /\ table[Source] = Masked(slot[w].src)
          [] k = "suffix" -> /\ table[Source] = slot[w].src
                             /\ table[j] = Masked(slot[w].src)
          [] k = "truncate" -> table[Source] = Result
          [] k = "append" -> IsSuffix(Result, table[Source])
          [] k = "export" -> file[j] = Result

Finishing(w) ==
    slot[w].pc = "finish" \/ (At(w, "fetch", Etl) /\ Len(slot[w].out) = Len(Result))

\* As long as no other job works on the table.  A masking job is repeated, and
\* executed by two workers at a time, without harm; the others are not made for that.
Faithful ==
    \A w \in Workers :
        (/\ Finishing(w)
         /\ "shared" \notin mark[slot[w].job]
         /\ kind[slot[w].job] \in Mask \/ "twin" \notin mark[slot[w].job])
        => Right(w)

\* When all is quiet the source table is there under its name, whatever step of
\* whatever job has failed, unless a job was cancelled between the renaming and the
\* creation of its table, or the worker or the repair failed there.
TableKept ==
    (\A w \in Workers : ~Active(w)) /\ ~Exists(Source)
        => \E j \in Jobs : Exists(j) /\ (job[j].cancel \/ "nameless" \in mark[j])

\* A masking job that is cancelled before its first statement never has one, though
\* a worker may have loaded it before and overwrites its state.
CancelHolds ==
    \A j \in Jobs : "spared" \in mark[j] /\ kind[j] \in Mask => "touched" \notin mark[j]

\* What jobs say of themselves is so, and what they work on stays usable.
JobsFaithful == Faithful /\ TableKept /\ CancelHolds

\* Every job whose message was sent ends for good, but for an export whose worker died
\* and a masking job whose cancellation came too late, or had its message dropped
\* after its worker died.
Unended ==
    \E j \in Jobs :
        /\ api[j] = "done" /\ job[j].state \notin Terminal
        /\ ~(kind[j] = "export" /\ "abandoned" \in mark[j])
        /\ ~(job[j].cancel /\ mark[j] \cap {"overtaken", "abandoned"} # {})
JobsEnd == <>[]~Unended
=============================================================================

--------------------------- MODULE MetadataOutbox ---------------------------
(***************************************************************************)
(* What the lineage catalog holds is copied into OpenMetadata:             *)
(* services/openmetadata.py and the Celery task openmetadata.sync_outbox,  *)
(* with the functions of services/data_automation.py that write assets and *)
(* lineage edges and then enqueue a snapshot.                              *)
(*                                                                         *)
(* The row of the outbox stands for five minutes (its key is made of the   *)
(* scope, which is one here, and of the time): whoever commits in them     *)
(* finds the same row, and sends a message only when the row is new or has *)
(* not gone well.  A message is taken again when its worker dies, and the  *)
(* worker sends another one when its pass failed.  Rows are read without a *)
(* lock and written from the copy that was read, as SQLAlchemy does: only  *)
(* the columns that the session has changed.                               *)
(*                                                                         *)
(* An asset is its name: columns and descriptions are left out, and the    *)
(* catalog is smaller than the 500 assets of a snapshot.                   *)
(***************************************************************************)
EXTENDS Integers, FiniteSets

CONSTANTS
    Asset,
    Edge,         \* bound: the edges that requests create, as pairs of assets
    Event,        \* OpenLineage events, as records [in, out] of the names they speak of
    Writer,       \* requests and schedulers that write the catalog
    Worker,
    MaxAttempts,  \* attempts after which a row is failed; five in the code
    MaxBucket,    \* bound: the last five minutes
    MaxOps,       \* bound: commits to the catalog
    MaxOutages    \* bound: calls that fail, processes that die and changes of the settings

MetadataOutboxAssumption ==
    /\ MaxAttempts \in Nat /\ MaxBucket \in Nat /\ MaxOps \in Nat /\ MaxOutages \in Nat

VARIABLES
    assets, edges, events,  \* the catalog
    known, linked,          \* the tables and the lineage in OpenMetadata
    enabled,                \* openmetadata_sync_enabled, with the token
    now,                    \* int(timestamp // 300)
    outbox,                 \* the row of every five minutes
    queue,                  \* messages that no worker has, for every row
    writer, pass,           \* the processes
    ops, outages

catalog == <<assets, edges, events>>
remote == <<known, linked>>
vars == <<catalog, remote, enabled, now, outbox, queue, writer, pass, ops, outages>>

Bucket == 0 .. MaxBucket
Status == {"pending", "running", "succeeded", "failed", "deferred"}

\* attempts and error (last_error is set) are columns; assets and edges are
\* history: what the catalog held when the row was inserted.
NoRow == [status |-> "none", attempts |-> 0, error |-> FALSE, assets |-> {}, edges |-> {}]
Columns(row) == [status |-> row.status, attempts |-> row.attempts, error |-> row.error]
NoCopy == Columns(NoRow)

NoWriter == [pc |-> "idle", bucket |-> 0, copy |-> NoCopy, event |-> {}, edges |-> {}]
NoPass == [pc |-> "idle", bucket |-> 0, copy |-> NoCopy, assets |-> {}, edges |-> {},
           ready |-> FALSE, ids |-> {}, failed |-> FALSE]

TypeOK ==
    /\ assets \subseteq Asset /\ edges \subseteq assets \X assets /\ events \subseteq Event
    /\ known \subseteq assets /\ linked \subseteq edges /\ enabled \in BOOLEAN /\ now \in Bucket
    /\ \A b \in Bucket : outbox[b].status \in Status \cup {"none"} /\ outbox[b].attempts \in 0 .. MaxAttempts + MaxOutages + MaxOps
    /\ queue \in [Bucket -> Nat]
    /\ \A w \in Writer : writer[w].pc \in {"idle", "ingest", "enqueue", "insert", "send"}
    /\ \A w \in Worker : pass[w].pc \in {"idle", "begin", "project", "hierarchy", "tables"}

\* OpenMetadata may have been set up after some assets were registered.
Init ==
    /\ assets \in SUBSET Asset /\ edges = {} /\ events = {} /\ known = {} /\ linked = {}
    /\ enabled = TRUE /\ now = 0
    /\ outbox = [b \in Bucket |-> NoRow] /\ queue = [b \in Bucket |-> 0]
    /\ writer = [w \in Writer |-> NoWriter] /\ pass = [w \in Worker |-> NoPass]
    /\ ops = 0 /\ outages = 0

Outage == outages < MaxOutages /\ outages' = outages + 1

\* A session writes the columns in which the row it holds differs from what it read.
Flush(row, copy, new) ==
    [row EXCEPT !.status = IF new.status = copy.status THEN @ ELSE new.status,
                !.attempts = IF new.attempts = copy.attempts THEN @ ELSE new.attempts,
                !.error = IF new.error = copy.error THEN @ ELSE new.error]

-----------------------------------------------------------------------------
(* The writers: a commit to the catalog, and enqueue_snapshot after it. *)

Commits(w) == /\ writer[w].pc = "idle" /\ ops < MaxOps
              /\ ops' = ops + 1
              /\ writer' = [writer EXCEPT ![w].pc = "enqueue"]
              /\ UNCHANGED <<remote, enabled, now, outbox, queue, pass, outages>>

register_asset(w, a) ==
    /\ Commits(w)
    /\ assets' = assets \cup {a}
    /\ UNCHANGED <<edges, events>>

create_lineage_edge(w, e) ==
    /\ {e[1], e[2]} \subseteq assets
    /\ Commits(w)
    /\ edges' = edges \cup {e}
    /\ UNCHANGED <<assets, events>>

\* The event is looked up, its names are matched with the assets there are, and
\* edges are made of those that are not there yet.
ReadEvent(w, event) ==
    /\ writer[w].pc = "idle" /\ ops < MaxOps
    /\ event \notin events
    /\ writer' = [writer EXCEPT ![w].pc = "ingest", ![w].event = {event},
                                ![w].edges = (event.in \cap assets) \X (event.out \cap assets)]
    /\ ops' = ops + 1
    /\ UNCHANGED <<catalog, remote, enabled, now, outbox, queue, pass, outages>>

\* The key of the event is unique: of two requests with the same one, the later fails.
ingest_openlineage_event(w) ==
    /\ writer[w].pc = "ingest"
    /\ IF writer[w].event \subseteq events
       THEN /\ writer' = [writer EXCEPT ![w] = NoWriter]
            /\ UNCHANGED catalog
       ELSE /\ events' = events \cup writer[w].event
            /\ edges' = edges \cup writer[w].edges
            /\ writer' = [writer EXCEPT ![w] = [NoWriter EXCEPT !.pc = "enqueue"]]
            /\ UNCHANGED assets
    /\ UNCHANGED <<remote, enabled, now, outbox, queue, pass, ops, outages>>

\* A row that is there is sent again when it is failed or deferred, or has an error.
Unsettled(row) == row.status \in {"failed", "deferred"} \/ row.error

enqueue_snapshot(w) ==
    /\ writer[w].pc = "enqueue"
    /\ LET row == outbox[now] IN
       writer' = [writer EXCEPT ![w] =
           CASE ~enabled -> NoWriter
             [] enabled /\ row.status = "none" -> [NoWriter EXCEPT !.pc = "insert", !.bucket = now]
             [] enabled /\ row.status # "none" /\ Unsettled(row) ->
                  [NoWriter EXCEPT !.pc = "send", !.bucket = now, !.copy = Columns(row)]
             [] OTHER -> NoWriter]
    /\ UNCHANGED <<catalog, remote, enabled, now, outbox, queue, pass, ops, outages>>

\* Two writers that found no row both send: the one whose key is taken reads the
\* row of the other, and has made up its mind before.
Insert(w) ==
    LET b == writer[w].bucket
        new == [NoRow EXCEPT !.status = "pending", !.assets = assets, !.edges = edges]
        row == IF outbox[b].status = "none" THEN new ELSE outbox[b]
    IN
    /\ writer[w].pc = "insert"
    /\ outbox' = [outbox EXCEPT ![b] = row]
    /\ writer' = [writer EXCEPT ![w].pc = "send", ![w].copy = Columns(row)]
    /\ UNCHANGED <<catalog, remote, enabled, now, queue, pass, ops, outages>>

Send(w) ==
    /\ writer[w].pc = "send"
    /\ queue' = [queue EXCEPT ![writer[w].bucket] = @ + 1]
    /\ writer' = [writer EXCEPT ![w] = NoWriter]
    /\ UNCHANGED <<catalog, remote, enabled, now, outbox, pass, ops, outages>>

\* The call ends with an error, whether the broker has the message or not.
SendFails(w) ==
    LET b == writer[w].bucket IN
    /\ writer[w].pc = "send" /\ Outage
    /\ outbox' = [outbox EXCEPT ![b] = Flush(@, writer[w].copy, [writer[w].copy EXCEPT !.status = "pending", !.error = TRUE])]
    /\ \E n \in {0, 1} : queue' = [queue EXCEPT ![b] = @ + n]
    /\ writer' = [writer EXCEPT ![w] = NoWriter]
    /\ UNCHANGED <<catalog, remote, enabled, now, pass, ops>>

-----------------------------------------------------------------------------
(* The passes: run_outbox_item and sync_snapshot. *)

Passing == UNCHANGED <<catalog, enabled, now, writer, ops>>
In(w, pc) == pass[w].pc = pc
Ends(w) == pass' = [pass EXCEPT ![w] = NoPass]

run_outbox_item(w, b) ==
    /\ In(w, "idle") /\ queue[b] > 0
    /\ queue' = [queue EXCEPT ![b] = @ - 1]
    /\ IF outbox[b].status = "succeeded" THEN UNCHANGED pass
       ELSE pass' = [pass EXCEPT ![w].pc = "begin", ![w].bucket = b, ![w].copy = Columns(outbox[b])]
    /\ UNCHANGED <<remote, outbox, outages>> /\ Passing

BeginPass(w) ==
    LET copy == pass[w].copy
        new == [copy EXCEPT !.status = "running", !.attempts = @ + 1]
    IN
    /\ In(w, "begin")
    /\ outbox' = [outbox EXCEPT ![pass[w].bucket] = Flush(@, copy, new)]
    /\ pass' = [pass EXCEPT ![w].pc = "project", ![w].copy = new]
    /\ UNCHANGED <<remote, queue, outages>> /\ Passing

\* What the row becomes, and whether the worker sends the message again.
Retries(w) == pass[w].copy.attempts < MaxAttempts
Settle(w, result) ==
    LET retry == result = "failed" /\ Retries(w)
        status == CASE result = "failed" /\ retry -> "pending" [] result = "failed" /\ ~retry -> "failed" [] OTHER -> result
        new == [pass[w].copy EXCEPT !.status = status, !.error = result # "succeeded"]
        b == pass[w].bucket
    IN
    /\ outbox' = [outbox EXCEPT ![b] = Flush(@, pass[w].copy, new)]
    /\ queue' = IF retry THEN [queue EXCEPT ![b] = @ + 1] ELSE queue
    /\ Ends(w)

openmetadata_lineage_projection(w) ==
    /\ In(w, "project")
    /\ IF enabled
       THEN /\ pass' = [pass EXCEPT ![w].pc = "hierarchy", ![w].assets = assets, ![w].edges = edges]
            /\ UNCHANGED <<outbox, queue>>
       ELSE Settle(w, "deferred")
    /\ UNCHANGED <<remote, outages>> /\ Passing

\* Services, databases and schemas, with the tags: when one fails, no table is put.
EnsureHierarchy(w) ==
    /\ In(w, "hierarchy")
    /\ \/ pass' = [pass EXCEPT ![w].pc = "tables", ![w].ready = TRUE] /\ UNCHANGED outages
       \/ pass' = [pass EXCEPT ![w].pc = "tables", ![w].failed = TRUE] /\ Outage
    /\ UNCHANGED <<remote, outbox, queue>> /\ Passing

PutTable(w, a) ==
    /\ In(w, "tables") /\ a \in pass[w].assets
    /\ \/ /\ pass[w].ready
          /\ known' = known \cup {a}
          /\ pass' = [pass EXCEPT ![w].assets = @ \ {a}, ![w].ids = @ \cup {a}]
          /\ UNCHANGED outages
       \/ /\ ~pass[w].ready /\ UNCHANGED <<known, outages>>
          /\ pass' = [pass EXCEPT ![w].assets = @ \ {a}, ![w].failed = TRUE]
       \/ /\ pass[w].ready /\ Outage /\ UNCHANGED known
          /\ pass' = [pass EXCEPT ![w].assets = @ \ {a}, ![w].failed = TRUE]
    /\ UNCHANGED <<linked, outbox, queue>> /\ Passing

\* An end of the edge that the pass has not put is looked up by its name.
PutLineage(w, e) ==
    LET found == {a \in {e[1], e[2]} : a \in pass[w].ids \cup known} IN
    /\ In(w, "tables") /\ pass[w].assets = {} /\ e \in pass[w].edges
    /\ \/ /\ found = {e[1], e[2]}
          /\ linked' = linked \cup {e}
          /\ pass' = [pass EXCEPT ![w].edges = @ \ {e}, ![w].ids = @ \cup found]
          /\ UNCHANGED outages
       \/ /\ found # {e[1], e[2]} /\ UNCHANGED <<linked, outages>>
          /\ pass' = [pass EXCEPT ![w].edges = @ \ {e}, ![w].failed = TRUE]
       \/ /\ found = {e[1], e[2]} /\ Outage /\ UNCHANGED linked
          /\ pass' = [pass EXCEPT ![w].edges = @ \ {e}, ![w].failed = TRUE]
    /\ UNCHANGED <<known, outbox, queue>> /\ Passing

\* A form that Outcome must not have: only the hierarchy counts.
OutcomeWhenReady(w) == IF pass[w].ready THEN "succeeded" ELSE "failed"

Outcome(w) == IF pass[w].failed THEN "failed" ELSE "succeeded"
EndPass(w) ==
    /\ In(w, "tables") /\ pass[w].assets = {} /\ pass[w].edges = {}
    /\ Settle(w, Outcome(w))
    /\ UNCHANGED <<remote, outages>> /\ Passing

-----------------------------------------------------------------------------
\* The message of a worker that dies is delivered again.
WorkerDies(w) ==
    /\ pass[w].pc # "idle" /\ Outage
    /\ queue' = [queue EXCEPT ![pass[w].bucket] = @ + 1]
    /\ Ends(w)
    /\ UNCHANGED <<remote, outbox>> /\ Passing

WriterDies(w) ==
    /\ writer[w].pc # "idle" /\ Outage
    /\ writer' = [writer EXCEPT ![w] = NoWriter]
    /\ UNCHANGED <<catalog, remote, enabled, now, outbox, queue, pass, ops>>

Configure ==
    /\ Outage /\ enabled' = ~enabled
    /\ UNCHANGED <<catalog, remote, now, outbox, queue, writer, pass, ops>>

Tick ==
    /\ now < MaxBucket /\ now' = now + 1
    /\ UNCHANGED <<catalog, remote, enabled, outbox, queue, writer, pass, ops, outages>>

Next ==
    \/ \E w \in Writer :
         \/ \E a \in Asset : register_asset(w, a)
         \/ \E e \in Edge : create_lineage_edge(w, e)
         \/ \E event \in Event : ReadEvent(w, event)
         \/ ingest_openlineage_event(w) \/ enqueue_snapshot(w) \/ Insert(w)
         \/ Send(w) \/ SendFails(w) \/ WriterDies(w)
    \/ \E w \in Worker :
         \/ \E b \in Bucket : run_outbox_item(w, b)
         \/ BeginPass(w) \/ openmetadata_lineage_projection(w) \/ EnsureHierarchy(w)
         \/ \E a \in Asset : PutTable(w, a)
         \/ \E e \in pass[w].edges : PutLineage(w, e)
         \/ EndPass(w) \/ WorkerDies(w)
    \/ Configure \/ Tick

Spec == Init /\ [][Next]_vars

-----------------------------------------------------------------------------
\* A row that has succeeded stands for a copy that was made: every table and
\* every edge the catalog held when the row was inserted is in OpenMetadata,
\* whatever passes overlapped, died, failed in part or were delivered again.
SnapshotComplete ==
    \A b \in Bucket : outbox[b].status = "succeeded" =>
        outbox[b].assets \subseteq known /\ outbox[b].edges \subseteq linked
=============================================================================

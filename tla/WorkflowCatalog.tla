--------------------------- MODULE WorkflowCatalog ---------------------------
(***************************************************************************)
(* The definitions behind the workflows of the data platform: one task     *)
(* definition, a workflow (and the copy made of it) and the versions that  *)
(* run the task.  A node of a version carries the snapshot of the task     *)
(* that was frozen when the version was saved or submitted; publishing     *)
(* puts one production version of the workflow online.                     *)
(*                                                                         *)
(* kind says what the task is: a Doris SQL task, its workflow being a SQL  *)
(* collection; an SM4 task definition; or a standalone change trigger,     *)
(* whose system workflow is published with it.                             *)
(*                                                                         *)
(* Every request is one database session: it reads at its first statement  *)
(* (REPEATABLE READ), decides, and at commit the ORM writes the columns    *)
(* it has changed, over whatever the row has become since.  So a request   *)
(* is two steps here, Begin and Commit.                                    *)
(*                                                                         *)
(* Versions are numbered in the order of their insertion, which stands for *)
(* version_no.  A change of schedule that leaves it enabled is left out:   *)
(* next only says whether next_run_at is set.                              *)
(***************************************************************************)
EXTENDS Integers, FiniteSets, Sequences

CONSTANTS
    Kinds,        \* the kinds of task to start from
    Version,      \* rows of data_platform_workflow_versions: 1 .. n
    Session,      \* request slots
    MaxEdits,     \* bound: updates of the task
    MaxRequests,  \* bound: requests
    MaxRestarts   \* bound: restarts of the API

WorkflowCatalogAssumption ==
    /\ Kinds \subseteq {"sql", "sm4", "trigger"} /\ IsFiniteSet(Session)
    /\ IsFiniteSet(Version) /\ Version = 1 .. Cardinality(Version) /\ Session \subseteq Nat
    /\ MaxEdits \in Nat /\ MaxRequests \in Nat /\ MaxRestarts \in Nat

VARIABLES
    kind,
    task,      \* DataPlatformNode or DorisSm4TaskDefinition
    wf,        \* status of the workflow and of its copy
    ver,       \* DataPlatformWorkflowVersion rows
    recorded,  \* DorisSm4TaskDefinitionRevision: the body of a revision
    sess,      \* the open requests
    crossed,   \* ghost: requests that committed over a change they had not read
    requests, restarts

vars == <<kind, task, wf, ver, recorded, sess, crossed, requests, restarts>>

Revision == 1 .. MaxEdits + 1

\* What the nodes of a version hold: nothing, the task without a snapshot,
\* or the snapshot of it (at stands for the updated_at of a SQL task).
NoNodes == [rev |-> -1, body |-> -1, at |-> 0]
Bare == [rev |-> 0, body |-> 0, at |-> 0]
Snapshot == [rev : Revision, body : Revision, at : 0 .. MaxEdits]
Nodes == Snapshot \cup {NoNodes, Bare}

\* rel: the nodes release_snapshot was built from.  mon: the trigger state
\* of the monitor node.
NoRel == [rev |-> -2, body |-> -2, at |-> 0]
Content == [body : -2 .. MaxEdits + 1, at : 0 .. MaxEdits]
Row == [wf : 0 .. 2, channel : {"none", "dev", "prod"},
        status : {"none", "draft", "submitted", "online", "offline"},
        snap : Nodes, rel : Nodes \cup {NoRel}, hash : Content,
        sched : BOOLEAN, next : BOOLEAN,
        mon : {"none", "on", "paused", "retired"}]

NewRow == -1
NoVersion == 0
Task == [live : {"active", "disabled", "gone"}, rev : Revision, at : 0 .. MaxEdits,
         config : [body : Revision, ptr : Version \cup {NoVersion, NewRow}, sys : 0 .. 2]]
Workflow == 1 .. 2

\* What a version executes, as _execution_content_hash tells it apart: names
\* and revisions are ignored.
Hash(nodes) == [body |-> nodes.body, at |-> nodes.at]

NoRow == [wf |-> 0, channel |-> "none", status |-> "none", snap |-> NoNodes,
          rel |-> NoRel, hash |-> Hash(NoRel), sched |-> FALSE, next |-> FALSE,
          mon |-> "none"]
NewVersion(w, channel, nodes, sched) ==
    [NoRow EXCEPT !.wf = w, !.channel = channel, !.snap = nodes, !.rel = nodes,
                  !.status = IF channel = "dev" THEN "draft" ELSE "submitted",
                  !.hash = Hash(nodes), !.sched = sched]
\* A production version of a release without snapshots: what it references
\* was never frozen, and the backfill of the startup has skipped it.
Legacy == [NewVersion(1, "prod", Bare, FALSE)
             EXCEPT !.status = "online", !.rel = NoRel, !.hash = Hash(NoRel)]

Db == [task |-> task, wf |-> wf, ver |-> ver]
Tables == [task : Task, wf : [Workflow -> {"none", "active", "archived", "system"}],
           ver : [Version -> Row]]
Op == {"edit", "delete", "create", "update", "submit", "publish", "offline",
       "archive", "copy", "deploy", "enable", "test"}
Idle == [op |-> "idle"]

TypeOK ==
    /\ kind \in Kinds
    /\ Db \in Tables
    /\ recorded \in [Revision -> Revision \cup {0}]
    /\ sess \in [Session -> {Idle} \cup
            [op : {"between"}, v : Version, want : Content] \cup
            [op : Op, v : Version \cup {NoVersion}, read : Tables, new : Tables,
             add : Row, chain : BOOLEAN, want : Content]]
    /\ crossed \subseteq Op
    /\ requests \in 0 .. MaxRequests /\ restarts \in 0 .. MaxRestarts

Fresh(t) == [rev |-> t.rev, body |-> t.config.body, at |-> t.at]
Void == Hash(NoRel)
Saved(channel) == NewVersion(1, channel, Fresh(task), FALSE)

Init ==
    /\ kind \in Kinds
    /\ task = [live |-> "active", rev |-> 1, at |-> 0,
               config |-> [body |-> 1, ptr |-> NoVersion, sys |-> 0]]
    /\ wf = [w \in Workflow |-> IF w = 1 /\ kind # "trigger" THEN "active" ELSE "none"]
    /\ LET rows == CASE kind = "sql" -> <<Saved("dev"), Saved("prod")>>
                      [] kind = "sm4" -> <<Legacy>>
                      [] kind = "trigger" -> <<>>
       IN  ver = [v \in Version |-> IF v <= Len(rows) THEN rows[v] ELSE NoRow]
    /\ recorded = [r \in Revision |-> IF r = 1 /\ kind = "sm4" THEN 1 ELSE 0]
    /\ sess = [s \in Session |-> Idle]
    /\ crossed = {} /\ requests = 0 /\ restarts = 0

-----------------------------------------------------------------------------
(* A request: what it has read, and what it will have written.             *)

Used == {v \in Version : ver[v].channel # "none"}
Adding == {s \in Session : sess[s].op \in Op /\ sess[s].add # NoRow}
RoomForRow == Cardinality(Version \ Used) > Cardinality(Adding)

Request(s, op, v, new, add, chain, want) ==
    /\ add = NoRow \/ RoomForRow
    /\ sess' = [sess EXCEPT ![s] = [op |-> op, v |-> v, read |-> Db, new |-> new,
                                    add |-> add, chain |-> chain, want |-> want]]

\* Sessions are alike: a request takes the first free one.
Free(s) ==
    /\ sess[s] = Idle /\ requests < MaxRequests
    /\ \A t \in Session : t < s => sess[t] # Idle

Begin(s, op, v, new, add) ==
    /\ Free(s)
    /\ requests' = requests + 1
    /\ Request(s, op, v, new, add, FALSE, Void)
    /\ UNCHANGED <<kind, task, wf, ver, recorded, crossed, restarts>>

\* The node of a version that is being saved.  preserve: a snapshot stays.
Freezable == task.live = "active"
FrozenAnew(nodes, preserve) == IF nodes = NoNodes THEN nodes ELSE Fresh(task)
Frozen(nodes, preserve) ==
    IF nodes = NoNodes \/ (preserve /\ nodes.rev > 0) THEN nodes ELSE Fresh(task)
CanFreeze(nodes) == nodes = Bare => Freezable

\* What a client may send: no nodes, the task just chosen, or nodes it has
\* read from some version.
Sent == {NoNodes, Bare} \cup {ver[v].snap : v \in Used}

\* _freeze_existing_production_references: before an SM4 task changes, the
\* production versions that hold no snapshot of it get one.
Pinned(v) ==
    IF kind = "sm4" /\ ver[v].channel = "prod" /\ ver[v].snap = Bare
    THEN [ver[v] EXCEPT !.snap = Fresh(task)] ELSE ver[v]

\* update_node, update_sm4_task_definition.  The config column of a trigger
\* holds what it monitors, its system workflow and the version published.
EditTask(s) ==
    \E body \in Revision, renames \in BOOLEAN, live \in {"active", "disabled"} :
        LET changed == renames \/ body # task.config.body
        IN  /\ task.live # "gone" /\ task.rev <= MaxEdits /\ task.at < MaxEdits
            /\ changed \/ (live # task.live)
            /\ kind = "sm4" => live = "active"
            /\ Begin(s, "edit", NoVersion,
                     [Db EXCEPT !.task = [live |-> live,
                                          rev |-> IF changed THEN task.rev + 1 ELSE task.rev,
                                          at |-> IF kind = "sql" THEN task.at + 1 ELSE 0,
                                          config |-> [task.config EXCEPT !.body = body]],
                                !.ver = [v \in Version |-> Pinned(v)]],
                     NoRow)

\* retire_change_triggers: the monitor of a version that goes.
Retired(row) == IF row.mon = "none" THEN row ELSE [row EXCEPT !.mon = "retired"]

\* delete_node, archive_sm4_task_definition
DeleteTask(s) ==
    /\ task.live # "gone"
    /\ Begin(s, "delete", NoVersion,
             [task |-> [task EXCEPT !.live = "gone"],
              wf |-> [w \in Workflow |-> IF w = task.config.sys THEN "archived" ELSE wf[w]],
              ver |-> [v \in Version |->
                         IF v = task.config.ptr THEN Retired(ver[v]) ELSE Pinned(v)]],
             NoRow)

\* The schedule of a version is enabled by an update later on.
CreateVersion(s) ==
    \E w \in Workflow, channel \in {"dev", "prod"}, nodes \in Sent :
        /\ kind # "trigger" /\ wf[w] # "none"
        /\ CanFreeze(nodes)
        /\ Begin(s, "create", NoVersion, Db,
                 NewVersion(w, channel, Frozen(nodes, TRUE), FALSE))

\* next_run_at of a version whose schedule is changed.
Rescheduled(row, sched) ==
    [row EXCEPT !.sched = sched, !.next = IF row.status = "online" THEN sched ELSE row.next]

RebuiltRelease(row) == [row EXCEPT !.rel = row.snap]
Rebuilt(row) == [row EXCEPT !.rel = row.snap, !.hash = Hash(row.snap)]

\* An online version takes schedule fields only.
UpdateVersion(s) ==
    \E v \in Used, sched \in BOOLEAN, nodes \in Sent :
        LET design == ver[v].snap # nodes
            saved == IF design THEN [ver[v] EXCEPT !.snap = Frozen(nodes, TRUE)] ELSE ver[v]
        IN  /\ kind # "trigger"
            /\ design \/ sched # ver[v].sched
            /\ ~(ver[v].status = "online" /\ design)
            /\ design => CanFreeze(nodes)
            /\ Begin(s, "update", v,
                     [Db EXCEPT !.ver[v] = Rebuilt(Rescheduled(saved, sched))], NoRow)

\* update_doris_sql_collection: the nodes of the newest development version
\* are built anew from the tasks the collection lists.
LatestDev(w) == {v \in Used : /\ ver[v].wf = w /\ ver[v].channel = "dev"
                              /\ \A u \in Used : u > v => ~(ver[u].wf = w /\ ver[u].channel = "dev")}
UpdateCollection(s) ==
    \E v \in LatestDev(1), nodes \in {NoNodes, Bare} :
        /\ kind = "sql" /\ wf[1] # "archived"
        /\ CanFreeze(nodes)
        /\ Begin(s, "update", v,
                 [Db EXCEPT !.ver[v] = Rebuilt([ver[v] EXCEPT !.snap = Frozen(nodes, FALSE)])],
                 NoRow)

\* submit_version.  A production version that runs the same content is
\* taken instead of a new one.
SameContent(w, hash) ==
    {v \in Used : ver[v].wf = w /\ ver[v].channel = "prod" /\ ver[v].hash = hash}
NewestIn(set) == CHOOSE v \in set : \A u \in set : u <= v

Submitted(s, v, chain) ==
    LET nodes == Frozen(ver[v].snap, TRUE)
        same == SameContent(ver[v].wf, Hash(nodes))
    IN  /\ CanFreeze(ver[v].snap)
        /\ Request(s, "submit", IF same = {} THEN NoVersion ELSE NewestIn(same), Db,
                   IF same = {} THEN NewVersion(ver[v].wf, "prod", nodes, ver[v].sched) ELSE NoRow,
                   chain, Hash(nodes))

SubmitVersion(s) ==
    \E v \in Used :
        /\ kind # "trigger" /\ Free(s)
        /\ Submitted(s, v, FALSE)
        /\ requests' = requests + 1
        /\ UNCHANGED <<kind, task, wf, ver, recorded, crossed, restarts>>

\* publish_doris_sql_collection: submits the development version and, in a
\* session of its own, publishes the version it was given.
PublishCollection(s) ==
    \E v \in LatestDev(1) :
        /\ kind = "sql" /\ Free(s)
        /\ wf[1] # "archived" /\ ver[v].snap # NoNodes
        /\ Submitted(s, v, TRUE)
        /\ requests' = requests + 1
        /\ UNCHANGED <<kind, task, wf, ver, recorded, crossed, restarts>>

Down(row) == Retired([row EXCEPT !.status = "offline", !.sched = FALSE, !.next = FALSE])

\* publish_version: the other online versions of the workflow go offline.
PublishedOver(v) ==
    [u \in Version |->
        CASE u = v -> [ver[u] EXCEPT !.status = "online", !.next = ver[u].sched]
          [] u < v /\ ver[u].wf = ver[v].wf /\ ver[u].status = "online" -> Down(ver[u])
          [] OTHER -> ver[u]]
Published(v) ==
    [u \in Version |->
        CASE u = v -> [ver[u] EXCEPT !.status = "online", !.next = ver[u].sched]
          [] u # v /\ ver[u].wf = ver[v].wf /\ ver[u].status = "online" -> Down(ver[u])
          [] OTHER -> ver[u]]

Publishable(v) == ver[v].channel = "prod" /\ ver[v].snap # NoNodes

PublishVersion(s) ==
    \E v \in Used :
        /\ kind # "trigger" /\ Publishable(v)
        /\ Begin(s, "publish", v, [Db EXCEPT !.ver = Published(v)], NoRow)

PublishSubmitted(s) ==
    /\ sess[s].op = "between" /\ Publishable(sess[s].v)
    /\ Request(s, "publish", sess[s].v, [Db EXCEPT !.ver = Published(sess[s].v)], NoRow,
               TRUE, sess[s].want)
    /\ UNCHANGED <<kind, task, wf, ver, recorded, crossed, requests, restarts>>

PublishRefused(s) ==
    /\ sess[s].op = "between" /\ ~Publishable(sess[s].v)
    /\ sess' = [sess EXCEPT ![s] = Idle]
    /\ UNCHANGED <<kind, task, wf, ver, recorded, crossed, requests, restarts>>

OfflineVersion(s) ==
    \E v \in Used :
        /\ kind # "trigger"
        /\ Begin(s, "offline", v, [Db EXCEPT !.ver[v] = Down(ver[v])], NoRow)

\* archive_workflow, archive_doris_sql_collection
ArchiveWorkflow(s) ==
    \E w \in Workflow :
        /\ kind # "trigger" /\ wf[w] = "active"
        /\ Begin(s, "archive", NoVersion,
                 [Db EXCEPT !.wf[w] = "archived",
                            !.ver = [v \in Version |->
                                CASE ver[v].wf = w /\ ver[v].status = "online" -> Down(ver[v])
                                  [] ver[v].wf = w /\ ver[v].status # "online" ->
                                        Retired([ver[v] EXCEPT !.sched = FALSE, !.next = FALSE])
                                  [] OTHER -> ver[v]]],
                 NoRow)

\* copy_workflow takes the newest development version, or the newest of
\* production; a task that is gone leaves the node without a snapshot.
CopyWorkflow(s) ==
    LET own == {v \in Used : ver[v].wf = 1}
        source == IF LatestDev(1) # {} THEN LatestDev(1)
                  ELSE IF own = {} THEN {} ELSE {NewestIn(own)}
        Copied(v) == IF ver[v].snap # NoNodes /\ ~Freezable THEN Bare
                     ELSE Frozen(ver[v].snap, FALSE)
    IN  /\ kind # "trigger" /\ wf[1] # "archived" /\ wf[2] = "none"
        /\ \A t \in Session \ {s} : sess[t].op # "copy"
        /\ \E add \in IF source = {} THEN {NoRow}
                      ELSE {NewVersion(2, "dev", Copied(v), FALSE) : v \in source} :
               Begin(s, "copy", NoVersion, [Db EXCEPT !.wf[2] = "active"], add)

\* _ensure_trigger_system_workflow: a request that creates the workflow adds a
\* row of its own.
SystemWorkflow(s) ==
    CASE task.config.sys # 0 -> task.config.sys
      [] task.config.sys = 0 /\ wf[s] = "none" -> s
      [] OTHER -> CHOOSE w \in Workflow : w # s
WithSystem(s) == IF task.config.sys = 0 THEN [wf EXCEPT ![SystemWorkflow(s)] = "system"] ELSE wf

\* publish_change_trigger_task
DeployTrigger(s) ==
    LET old == task.config.ptr
        enabled == old # NoVersion /\ ver[old].mon = "on"
    IN  /\ kind = "trigger" /\ task.live = "active"
        /\ Begin(s, "deploy", NoVersion,
                 [task |-> [task EXCEPT !.config.ptr = NewRow, !.config.sys = SystemWorkflow(s)],
                  wf |-> WithSystem(s),
                  ver |-> [v \in Version |->
                             IF v = old THEN Retired([ver[v] EXCEPT !.status = "offline"])
                             ELSE ver[v]]],
                 [NewVersion(SystemWorkflow(s), "prod", Fresh(task), FALSE)
                    EXCEPT !.status = "online", !.mon = IF enabled THEN "on" ELSE "paused"])

\* set_change_trigger_task_enabled
EnableTrigger(s) ==
    \E mon \in {"on", "paused"} :
        /\ kind = "trigger" /\ task.live = "active" /\ task.config.ptr # NoVersion
        /\ Begin(s, "enable", task.config.ptr, [Db EXCEPT !.ver[task.config.ptr].mon = mon], NoRow)

\* run_change_trigger_task_once, up to the run it submits.
TestTrigger(s) ==
    /\ kind = "trigger" /\ task.live = "active"
    /\ Begin(s, "test", NoVersion,
             [Db EXCEPT !.wf = WithSystem(s), !.task.config.sys = SystemWorkflow(s)],
             NewVersion(SystemWorkflow(s), "dev", Fresh(task), FALSE))

-----------------------------------------------------------------------------
(* The commit of a request.                                                *)

\* The columns the request has changed, over the row as it is now.
Merged(now, read, new) == [c \in DOMAIN now |-> IF new[c] = read[c] THEN now[c] ELSE new[c]]

Slot == CHOOSE v \in Version \ Used : \A u \in Version \ Used : v <= u

MergedTask(q) ==
    LET t == Merged(task, q.read.task, q.new.task)
    IN  IF t.config.ptr = NewRow THEN [t EXCEPT !.config.ptr = Slot] ELSE t

MergedVer(q) ==
    [v \in Version |-> IF q.add # NoRow /\ v = Slot THEN q.add
                       ELSE Merged(ver[v], q.read.ver[v], q.new.ver[v])]

\* The revision table has one row per revision: an edit that reaches a
\* revision another one has recorded since fails as a whole.
Bumps(q) == q.new.task.rev # q.read.task.rev
RecordableAlways(q) == TRUE
Recordable(q) == (kind = "sm4" /\ Bumps(q)) => recorded[q.new.task.rev] = 0
\* A task row that was deleted takes no update.
Writable(q) == (kind # "sm4" /\ task.live = "gone") => q.new.task = q.read.task \/ q.op = "delete"

Overtaken(q) == q.read # Db

\* After the submit of a collection the same request goes on to publish.  An
\* update of that version ends what the request is owed.
After(s, q) ==
    LET got == IF q.v = NoVersion THEN Slot ELSE q.v
        next == IF q.op = "submit" /\ q.chain
                THEN [op |-> "between", v |-> got, want |-> q.want] ELSE Idle
        Owed(t) == IF /\ q.op = "update" /\ sess[t].op \in {"between", "publish"}
                      /\ sess[t].v = q.v
                   THEN [sess[t] EXCEPT !.want = Void] ELSE sess[t]
    IN  [t \in Session |-> IF t = s THEN next ELSE Owed(t)]

Commit(s) ==
    LET q == sess[s]
    IN  /\ q.op \in Op /\ Recordable(q) /\ Writable(q)
        /\ task' = MergedTask(q)
        /\ wf' = Merged(wf, q.read.wf, q.new.wf)
        /\ ver' = MergedVer(q)
        /\ recorded' = IF kind = "sm4" /\ Bumps(q)
                       THEN [recorded EXCEPT ![q.new.task.rev] = q.new.task.config.body]
                       ELSE recorded
        /\ sess' = After(s, q)
        /\ crossed' = IF Overtaken(q) THEN crossed \cup {q.op} ELSE crossed
        /\ UNCHANGED <<kind, requests, restarts>>

CommitFails(s) ==
    /\ sess[s].op \in Op /\ ~(Recordable(sess[s]) /\ Writable(sess[s]))
    /\ sess' = [sess EXCEPT ![s] = Idle]
    /\ UNCHANGED <<kind, task, wf, ver, recorded, crossed, requests, restarts>>

\* backfill_data_platform_release_metadata, at the startup of the API.  A
\* version whose backfill raises is left as it is.
Backfilled(row) ==
    LET nodes == IF row.snap = NoNodes \/ (row.snap.rev <= 0 /\ ~Freezable) THEN row.snap
                 ELSE Frozen(row.snap, TRUE)
        rel == IF row.rel = NoRel THEN nodes ELSE row.rel
    IN  [row EXCEPT !.snap = nodes, !.rel = rel, !.hash = Hash(rel)]

Restart ==
    /\ restarts < MaxRestarts
    /\ restarts' = restarts + 1
    /\ \E raises \in {{}, {1}} :
           ver' = [v \in Version |-> IF v \in Used \ raises THEN Backfilled(ver[v]) ELSE ver[v]]
    /\ sess' = [s \in Session |-> Idle]
    /\ UNCHANGED <<kind, task, wf, recorded, crossed, requests>>

Serve(s) ==
    \/ EditTask(s) \/ DeleteTask(s) \/ CreateVersion(s) \/ UpdateVersion(s)
    \/ UpdateCollection(s) \/ SubmitVersion(s) \/ PublishCollection(s)
    \/ PublishVersion(s) \/ PublishSubmitted(s) \/ PublishRefused(s)
    \/ OfflineVersion(s) \/ ArchiveWorkflow(s) \/ CopyWorkflow(s)
    \/ DeployTrigger(s) \/ EnableTrigger(s) \/ TestTrigger(s)
    \/ Commit(s) \/ CommitFails(s)

Next == Restart \/ \E s \in Session : Serve(s)

Spec == Init /\ [][Next]_vars

-----------------------------------------------------------------------------
(* Properties.                                                             *)

Online(v) == ver[v].status = "online"
Undisturbed(ops) == ops \cap crossed = {}
Ends(s) == sess[s] # Idle /\ sess'[s] = Idle

\* What a version executes: the frozen snapshot, or, for an SM4 node without
\* one, the definition as it is now (_execute_node).
Runs(v) == IF ver[v].snap = Bare /\ kind = "sm4" THEN task.config.body ELSE ver[v].snap.body

\* A request that had read a version as it was before: a design update that
\* read it while it was not online (update_version checks the status it has
\* read), or an edit or deletion of an SM4 task that read it without its
\* snapshot and gives it one, over the snapshot it has got since.
LateFor(q, v) ==
    \/ q.op = "update" /\ q.v = v /\ q.read.ver[v].status # "online"
    \/ /\ q.op \in {"edit", "delete"} /\ kind = "sm4"
       /\ q.read.ver[v].snap = Bare /\ ver[v].snap # Bare

\* While a version is online nothing changes what it executes: no edit or
\* deletion of the task, no restart, no other request, but one that is late.
FrozenStep ==
    \A v \in Version :
        Online(v) /\ Online(v)' /\ Runs(v)' # Runs(v) =>
            \E s \in Session : Ends(s) /\ sess[s].op # "between" /\ LateFor(sess[s], v)

\* A workflow has one version online at most, unless a publication committed
\* over changes it had not read: publish_version takes the versions offline
\* that it has seen online, without a lock on the workflow.
OneOnline ==
    kind # "trigger" /\ Undisturbed({"publish"}) =>
        \A u, v \in Version : Online(u) /\ Online(v) /\ ver[u].wf = ver[v].wf => u = v

\* The revision a snapshot of an SM4 task names is the content recorded for
\* that revision, whatever edits overlap: the unique constraint of the
\* revision table makes the later of two edits fail.
RevisionRecorded ==
    kind = "sm4" =>
        /\ recorded[task.rev] = task.config.body
        /\ \A v \in Version : ver[v].snap.rev > 0 => recorded[ver[v].snap.rev] = ver[v].snap.body

\* The version that the publication of a collection puts online executes what
\* the development version held when it was submitted, although it may be an
\* older version found by its content hash.
ServedStep ==
    \A s \in Session :
        /\ sess[s].op = "publish" /\ sess[s].chain /\ Ends(s)
        /\ sess[s].want # Void /\ restarts' = restarts
        /\ crossed' \cap {"submit", "publish", "update"} = {}
        => ver'[sess[s].v].status = "online" /\ Hash(ver'[sess[s].v].snap) = sess[s].want

\* Of the versions of a standalone trigger only the one it points at is probed,
\* and none once the trigger is deleted, as long as the requests that write the
\* trigger do not overlap: an update that had read the trigger before it was
\* published writes the old pointer back with the whole config column.
OneMonitor ==
    Undisturbed({"edit", "deploy", "enable", "delete", "test"}) =>
        \A v \in Version : ver[v].mon = "on" => task.live # "gone" /\ v = task.config.ptr

\* What starts runs for a workflow by itself is one version at most: the
\* online one, by its schedule, or the monitored one, by its trigger.
OneStarts == OneOnline /\ OneMonitor
=============================================================================

------------------------------ MODULE ApiFlow ------------------------------
(***************************************************************************)
(* The API orchestration centre (services/api_orchestration.py and its     *)
(* API): connectors and SQL APIs that users define, a workflow of them     *)
(* that is edited, published and run, and the Celery worker that executes  *)
(* a run node by node, with branches.                                      *)
(*                                                                         *)
(* One workflow.  Left out: the requests themselves, templates and their   *)
(* rendering, authentication, the summaries of the node runs, the order in *)
(* which nodes that are ready together run, which is left open here.       *)
(***************************************************************************)
EXTENDS Naturals, FiniteSets

CONSTANTS
    Flows,      \* the graphs users try to save
    Items,      \* the connectors and SQL APIs
    Workers,    \* the worker processes
    MaxEdits,   \* bound: the changes of items and of the workflow
    MaxRuns,    \* bound: the runs
    MaxFaults   \* bound: failed calls, failed sends and crashes

(***************************************************************************)
(* item: each connector or SQL API: its version, and whether it is         *)
(* enabled, disabled or deleted.  flow: the workflow: what is edited, its  *)
(* revision and status, and what is published.  publisher: a request that  *)
(* has read what it will publish.  run: the runs.  queue: for each run,    *)
(* its messages.  work: what each worker holds of the run it executes.     *)
(* calls: ghost, for each submission the versions of the items called.     *)
(***************************************************************************)
VARIABLES item, flow, publisher, run, queue, work, calls, edits, faults

vars == <<item, flow, publisher, run, queue, work, calls, edits, faults>>

(***************************************************************************)
(* A workflow: nodes, their types, the item they call, the nodes a mapping *)
(* reads, the mappings that are lenient about missing values, and edges    *)
(* with a branch.                                                          *)
(***************************************************************************)
CallTypes == {"http", "sql_api"}
Incoming(g, n) == {e \in g.edges : e.target = n}
Outgoing(g, n) == {e \in g.edges : e.source = n}
Used(g) == {g.item[n] : n \in {m \in g.nodes : g.type[m] \in CallTypes}}

\* The nodes that the edges lead to from the nodes S, and S itself.
RECURSIVE Closure(_, _)
Closure(edges, S) ==
    LET next == S \cup {e.target : e \in {f \in edges : f.source \in S}}
    IN  IF next = S THEN S ELSE Closure(edges, next)

ValidateGraph(g) ==
    LET starts == {n \in g.nodes : g.type[n] = "start"}
    IN  /\ Cardinality(starts) = 1
        /\ \E n \in g.nodes : g.type[n] = "end"
        /\ \A e, f \in g.edges : e # f => <<e.source, e.target>> # <<f.source, f.target>>
        /\ \A n \in g.nodes : n \notin Closure(g.edges, {e.target : e \in Outgoing(g, n)})
        /\ Closure(g.edges, starts) = g.nodes
        /\ \A n \in g.nodes : g.type[n] = "start" => Incoming(g, n) = {}
        /\ \A n \in g.nodes : g.type[n] = "end" => Outgoing(g, n) = {}

Validated == {g \in Flows : ValidateGraph(g)}

(***************************************************************************)
(* The edges taken out of a node: those of the branch a condition chooses, *)
(* its default ones where it has none, and all of any other node.          *)
(***************************************************************************)
SelectedOutgoingEdges(g, n, matched) ==
    LET of(branch) == {e \in Outgoing(g, n) : e.branch = branch}
        chosen == of(IF matched THEN "true" ELSE "false")
    IN  IF g.type[n] # "condition" THEN Outgoing(g, n)
        ELSE IF chosen # {} THEN chosen ELSE of("default")

(***************************************************************************)
(* A node is decided once all edges into it are: it is ready if one was    *)
(* taken, and skipped otherwise, with the edges out of it.  plan: what a   *)
(* worker holds: the nodes still pending, those that are ready, were run   *)
(* or skipped, and the edges taken and not taken.                          *)
(***************************************************************************)
Plan(g) == [pending |-> g.nodes, ready |-> {}, skipped |-> {}, ran |-> {}, taken |-> {}, dead |-> {}]
Decidable(g, plan) == {n \in plan.pending : Incoming(g, n) \subseteq plan.taken \cup plan.dead}

ReadyByAll(g, plan, n) == Incoming(g, n) \subseteq plan.taken

Ready(g, plan, n) == Incoming(g, n) = {} \/ Incoming(g, n) \cap plan.taken # {}

ResolveNode(g, plan, n) ==
    IF Ready(g, plan, n)
    THEN [plan EXCEPT !.pending = @ \ {n}, !.ready = @ \cup {n}]
    ELSE [plan EXCEPT !.pending = @ \ {n}, !.skipped = @ \cup {n}, !.dead = @ \cup Outgoing(g, n)]

(***************************************************************************)
(* The state.  A snapshot is a graph and the versions of its items.        *)
(***************************************************************************)
NoSnapshot == [graph |-> 0]
NoWork == [run |-> 0]
Runs == 1 .. MaxRuns
RunStates == {"pending", "running", "succeeded", "failed"}
Ended == {"succeeded", "failed"}
NoRun == [state |-> "none"]

Init ==
    /\ item = [i \in Items |-> [version |-> 1, state |-> "enabled"]]
    /\ \E g \in Validated : flow = [graph |-> g, revision |-> 1, status |-> "draft", published |-> NoSnapshot]
    /\ publisher = NoSnapshot
    /\ run = [r \in Runs |-> NoRun]
    /\ queue = [r \in Runs |-> 0]
    /\ work = [w \in Workers |-> NoWork]
    /\ calls = [r \in Runs |-> {}]
    /\ edits = 0
    /\ faults = 0

Fault == faults < MaxFaults /\ faults' = faults + 1
Edit == edits < MaxEdits /\ edits' = edits + 1

(***************************************************************************)
(* The definitions.  An item that the edited workflow uses is not deleted; *)
(* what is published, and what is running, is not asked.                   *)
(***************************************************************************)
Usable(i) == item[i].state = "enabled"

SaveItem(i) ==
    /\ Edit
    /\ item[i].state # "deleted"
    /\ \E state \in {"enabled", "disabled"} : item' = [item EXCEPT ![i] = [version |-> @.version + 1, state |-> state]]
    /\ UNCHANGED <<flow, publisher, run, queue, work, calls, faults>>

DeleteItem(i) ==
    /\ Edit
    /\ item[i].state # "deleted" /\ i \notin Used(flow.graph)
    /\ item' = [item EXCEPT ![i].state = "deleted"]
    /\ UNCHANGED <<flow, publisher, run, queue, work, calls, faults>>

SaveWorkflow(g) ==
    /\ Edit
    /\ g \in Validated /\ flow.status # "deleted"
    /\ flow' = [flow EXCEPT !.graph = g, !.revision = @ + 1, !.status = "draft"]
    /\ UNCHANGED <<item, publisher, run, queue, work, calls, faults>>

\* The runs of the workflow stay, and those that go on are not stopped.
DeleteWorkflow ==
    /\ Edit
    /\ flow.status # "deleted" /\ flow' = [flow EXCEPT !.status = "deleted"]
    /\ UNCHANGED <<item, publisher, run, queue, work, calls, faults>>

\* The items' definitions are copied into the snapshot, so that later changes do not reach it.
\* A publication that would publish once more what is published is left out.
Snapshot == [graph |-> flow.graph, version |-> [i \in Used(flow.graph) |-> item[i].version]]
PublishWorkflow ==
    \/ /\ publisher = NoSnapshot
       /\ \A i \in Used(flow.graph) : Usable(i)
       /\ flow.status = "draft" \/ (flow.status = "published" /\ Snapshot # flow.published)
       /\ publisher' = Snapshot
       /\ UNCHANGED <<item, flow, run, queue, work, calls, edits, faults>>
    \/ /\ publisher # NoSnapshot
       /\ flow' = IF flow.status = "deleted" THEN flow
                   ELSE [flow EXCEPT !.published = publisher, !.status = "published"]
       /\ publisher' = NoSnapshot
       /\ UNCHANGED <<item, run, queue, work, calls, edits, faults>>

(***************************************************************************)
(* A run is stored and sent; where that fails, the run fails.  root: the   *)
(* submission that a retry repeats, with the snapshot of that one.         *)
(***************************************************************************)
SubmitRun(snapshot, revision, root) ==
    LET r == CHOOSE q \in Runs : run[q] = NoRun /\ \A p \in Runs : run[p] = NoRun => q <= p
        new(s) == [state |-> s, snapshot |-> snapshot, revision |-> revision,
                   context |-> {}, root |-> IF root = 0 THEN r ELSE root]
    IN  /\ \E q \in Runs : run[q] = NoRun
        /\ \/ run' = [run EXCEPT ![r] = new("pending")] /\ queue' = [queue EXCEPT ![r] = 1] /\ UNCHANGED faults
           \/ run' = [run EXCEPT ![r] = new("failed")] /\ Fault /\ UNCHANGED queue
        /\ UNCHANGED <<item, flow, publisher, work, calls, edits>>

SubmitWorkflowRun == flow.status = "published" /\ SubmitRun(flow.published, flow.revision, 0)

RetryAsPublished(r) ==
    /\ run[r].state \in Ended /\ flow.status # "deleted"
    /\ SubmitRun(flow.published, run[r].revision, run[r].root)

RetryRun(r) ==
    /\ run[r].state \in Ended /\ flow.status # "deleted"
    /\ SubmitRun(run[r].snapshot, run[r].revision, run[r].root)

(***************************************************************************)
(* A worker executes the run of a message, in whatever state the run is:   *)
(* a message delivered again starts it over, with the context it left.     *)
(***************************************************************************)
Start(w, r) ==
    /\ queue' = [queue EXCEPT ![r] = @ - 1]
    /\ run' = [run EXCEPT ![r].state = "running"]
    /\ work' = [work EXCEPT ![w] = [run |-> r, plan |-> Plan(run[r].snapshot.graph)]]
    /\ UNCHANGED <<item, flow, publisher, calls, edits, faults>>

BeginPendingRun(w, r) ==
    /\ work[w] = NoWork /\ queue[r] > 0
    /\ \/ run[r].state = "pending" /\ Start(w, r)
       \/ run[r].state # "pending" /\ queue' = [queue EXCEPT ![r] = @ - 1]
          /\ UNCHANGED <<item, flow, publisher, run, work, calls, edits, faults>>

BeginRun(w, r) == work[w] = NoWork /\ queue[r] > 0 /\ Start(w, r)

(***************************************************************************)
(* The execution: it decides what can be decided, one node after another,  *)
(* then runs a ready node, and ends when no node is ready.                 *)
(***************************************************************************)
Graph(w) == run[work[w].run].snapshot.graph
Version(w, i) == run[work[w].run].snapshot.version[i]

\* The output of node n is in the context, the edges out of it are decided, others may be.
NodeSucceeds(w, n, matched) ==
    /\ run' = [run EXCEPT ![work[w].run].context = @ \cup {n}]
    /\ LET sel == SelectedOutgoingEdges(Graph(w), n, matched)
       IN  work' = [work EXCEPT ![w].plan =
               [@ EXCEPT !.ready = @ \ {n}, !.ran = @ \cup {n},
                         !.taken = @ \cup sel, !.dead = @ \cup (Outgoing(Graph(w), n) \ sel)]]

RunFails(w) ==
    /\ run' = [run EXCEPT ![work[w].run].state = "failed"]
    /\ work' = [work EXCEPT ![w] = NoWork]

\* An item that is gone or disabled by now stops the run, whatever was published.
Invoke(w, n) ==
    LET i == Graph(w).item[n]
    IN  IF Usable(i)
        THEN /\ calls' = [calls EXCEPT ![run[work[w].run].root] = @ \cup {<<i, Version(w, i)>>}]
             /\ \/ NodeSucceeds(w, n, FALSE) /\ UNCHANGED faults
                \/ Fault /\ RunFails(w)
        ELSE RunFails(w) /\ UNCHANGED <<calls, faults>>

\* A request answered with another status or value than the expected one counts as failed.
HttpNode(w, n) == Graph(w).type[n] = "http" /\ Invoke(w, n)

SqlApiNode(w, n) == Graph(w).type[n] = "sql_api" /\ Invoke(w, n)

ReadsFound(w, n) == Graph(w).reads[n] \subseteq run[work[w].run].context

\* Where a path has no value the mapping fails, unless it is to give null.
MappingNode(w, n) ==
    /\ Graph(w).type[n] = "mapping"
    /\ IF ReadsFound(w, n) \/ n \in Graph(w).lenient THEN NodeSucceeds(w, n, FALSE) ELSE RunFails(w)
    /\ UNCHANGED <<calls, faults>>

ConditionNode(w, n) ==
    /\ Graph(w).type[n] = "condition"
    /\ \E matched \in BOOLEAN : NodeSucceeds(w, n, matched)
    /\ UNCHANGED <<calls, faults>>

EdgeNode(w, n) == Graph(w).type[n] \in {"start", "end"} /\ NodeSucceeds(w, n, FALSE) /\ UNCHANGED <<calls, faults>>

Undecided(w) == Decidable(Graph(w), work[w].plan)

DecideNode(w) ==
    /\ work[w] # NoWork /\ Undecided(w) # {}
    /\ LET n == CHOOSE x \in Undecided(w) : TRUE
       IN  work' = [work EXCEPT ![w].plan = ResolveNode(Graph(w), @, n)]
    /\ UNCHANGED <<item, flow, publisher, run, queue, calls, edits, faults>>

ExecuteNode(w) ==
    /\ work[w] # NoWork /\ Undecided(w) = {}
    /\ \E n \in work[w].plan.ready :
           HttpNode(w, n) \/ SqlApiNode(w, n) \/ MappingNode(w, n) \/ ConditionNode(w, n) \/ EdgeNode(w, n)
    /\ UNCHANGED <<item, flow, publisher, queue, edits>>

EndRun(w) ==
    /\ work[w] # NoWork /\ Undecided(w) = {} /\ work[w].plan.ready = {}
    /\ run' = [run EXCEPT ![work[w].run].state = IF work[w].plan.pending = {} THEN "succeeded" ELSE "failed"]
    /\ work' = [work EXCEPT ![w] = NoWork]
    /\ UNCHANGED <<item, flow, publisher, queue, calls, edits, faults>>

\* The message of a worker that dies is delivered again.
Crash(w) ==
    /\ work[w] # NoWork
    /\ Fault
    /\ queue' = [queue EXCEPT ![work[w].run] = @ + 1]
    /\ work' = [work EXCEPT ![w] = NoWork]
    /\ UNCHANGED <<item, flow, publisher, run, calls, edits>>

WorkerStep(w) == DecideNode(w) \/ ExecuteNode(w) \/ EndRun(w) \/ \E r \in Runs : BeginRun(w, r)

Next ==
    \/ \E i \in Items : SaveItem(i) \/ DeleteItem(i)
    \/ \E g \in Flows : SaveWorkflow(g)
    \/ DeleteWorkflow \/ PublishWorkflow \/ SubmitWorkflowRun
    \/ \E r \in Runs : RetryRun(r)
    \/ \E w \in Workers : WorkerStep(w) \/ Crash(w)

Spec == Init /\ [][Next]_vars

\* Celery delivers every message, and a worker goes on with what it has begun.
FairSpec == Spec /\ \A w \in Workers : WF_vars(WorkerStep(w))

-----------------------------------------------------------------------------
(***************************************************************************)
(* The types of the state: the tables of the centre, the messages and what *)
(* the workers hold.                                                       *)
(***************************************************************************)
Frozen(p) == p.graph \in Validated /\ p.version \in [Used(p.graph) -> Nat]

TypeOK ==
    /\ \A i \in Items : item[i].version \in Nat /\ item[i].state \in {"enabled", "disabled", "deleted"}
    /\ flow.graph \in Validated /\ flow.revision \in Nat /\ flow.status \in {"draft", "published", "deleted"}
    /\ \A p \in {flow.published, publisher} \ {NoSnapshot} : Frozen(p)
    /\ \A r \in Runs : run[r] # NoRun =>
           run[r].state \in RunStates /\ Frozen(run[r].snapshot) /\ run[r].root \in Runs
           /\ run[r].context \subseteq run[r].snapshot.graph.nodes
    /\ queue \in [Runs -> Nat]
    /\ \A w \in Workers : work[w] # NoWork => run[work[w].run] # NoRun
    /\ calls \in [Runs -> SUBSET (Items \X Nat)]

(***************************************************************************)
(* When no node is ready any more, those that ran are exactly those that   *)
(* the taken edges lead to from the start, every other node was skipped,   *)
(* and none is left undecided (_resolve_ready_nodes, execute_run).         *)
(***************************************************************************)
LedTo(g, plan) ==
    Closure(plan.taken, {n \in g.nodes : g.type[n] = "start"})

BranchesFollowed ==
    \A w \in Workers :
        work[w] # NoWork /\ Undecided(w) = {} /\ work[w].plan.ready = {} =>
            LET plan == work[w].plan
            IN  plan.pending = {} /\ plan.ran = LedTo(Graph(w), plan) /\ plan.skipped = Graph(w).nodes \ plan.ran

(***************************************************************************)
(* Whatever is edited or published meanwhile, a submission and all its     *)
(* retries call an item in one version only (_publish_workflow freezes it, *)
(* _retry_run repeats the snapshot).                                       *)
(***************************************************************************)
OneVersionCalled == \A r \in Runs : \A c, d \in calls[r] : c[1] = d[1] => c[2] = d[2]

(***************************************************************************)
(* A run that was sent ends, also when the worker that began it dies: the  *)
(* message delivered again is not refused for the state of the run.        *)
(***************************************************************************)
Waiting(r) == queue[r] > 0 \/ run[r].state = "running"

RunsEnd == []<>~\E r \in Runs : Waiting(r)
=============================================================================

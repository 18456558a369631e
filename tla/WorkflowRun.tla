----------------------------- MODULE WorkflowRun -----------------------------
(***************************************************************************)
(* The runs of a workflow version of the data platform: how a run is       *)
(* created and sent, claimed by a worker, and walked through node by node. *)
(*                                                                         *)
(* The graph algorithms of the code (validation, topological order, branch *)
(* of a trigger) are operators; a run applies them to the release it was   *)
(* created for, whatever valid release that is.  What a run does to the    *)
(* change trigger that started it is in ChangeTrigger.                     *)
(***************************************************************************)
EXTENDS Integers, Sequences, FiniteSets, SequencesExt

CONSTANTS
    Node,       \* node keys, ordered as the code sorts them
    NoNode,     \* no trigger
    Release,    \* releases: the order of the nodes, their types, the edges
    Starter,    \* requests, schedulers and triggers that start runs
    Executor,   \* worker slots
    MaxRuns,    \* bound: runs of a version
    Bound,      \* bound: runs of a version with the release
    MaxFaults   \* bound: failed sends, redeliveries, crashes, lost connections

ASSUME WorkflowAssumption ==
    /\ Node \subseteq Int /\ IsFiniteSet(Node) /\ NoNode \notin Node
    /\ Release \subseteq [order : Seq(Node), edges : SUBSET (Node \X Node),
                          type : [Node -> {"trigger", "job", "plain"}]]
    /\ \A r \in Release :
          IsInjective(r.order) /\ r.edges \subseteq Range(r.order) \X Range(r.order)
    /\ MaxRuns \in Nat /\ Bound \in [Release -> 0 .. MaxRuns] /\ MaxFaults \in Nat

-----------------------------------------------------------------------------
(* Graphs.  A "job" is an SM3 or SM4 task that is submitted and waited     *)
(* for; the other nodes (SQL, sync, manual) are done in the worker.        *)

Upstream(r, n) == {m \in Node : <<m, n>> \in r.edges}
Downstream(r, n) == {m \in Node : <<n, m>> \in r.edges}
Nodes(r) == Range(r.order)
Triggers(r) == {n \in Nodes(r) : r.type[n] = "trigger"}

\* sorted
Ascending(S) ==
    [i \in 1 .. Cardinality(S) |-> CHOOSE m \in S : Cardinality({k \in S : k <= m}) = i]

\* _topological_order: a queue of the nodes without unplaced upstream nodes.
Place(r, s) ==
    IF s.ready = <<>> THEN s
    ELSE LET n == Head(s.ready)
             left == [m \in Node |-> s.left[m] \ {n}]
             freed == {m \in Downstream(r, n) :
                         left[m] = {} /\ ~Contains(s.ready, m) /\ ~Contains(s.placed, m)}
         IN [ready |-> Tail(s.ready) \o Ascending(freed),
             left |-> left,
             placed |-> Append(s.placed, n)]
\* The nodes without upstream nodes, as they are listed.
Starting(r) ==
    LET first == Ascending({i \in DOMAIN r.order : Upstream(r, r.order[i]) = {}})
    IN [ready |-> [i \in DOMAIN first |-> r.order[first[i]]],
        left |-> [n \in Node |-> Upstream(r, n)],
        placed |-> <<>>]
Placing(r) ==
    LET place[i \in 0 .. Len(r.order)] ==
            IF i = 0 THEN Starting(r) ELSE Place(r, place[i - 1])
    IN place[Len(r.order)]

\* _validate_workflow_graph, _validate_change_trigger_graph; standalone
\* triggers, which have no edges, are left out.
Valid(r) ==
    /\ \A n \in Nodes(r) : n \notin Upstream(r, n)
    /\ Len(r.order) > 1 => \A n \in Nodes(r) : Upstream(r, n) \cup Downstream(r, n) # {}
    /\ Len(Placing(r).placed) = Len(r.order)
    /\ \A t \in Triggers(r) : Upstream(r, t) = {} /\ Downstream(r, t) # {}
ValidRelease == {r \in Release : Valid(r)}

\* Bug: nodes are executed as they are listed.
OrderListed == [r \in ValidRelease |-> r.order]
Order == [r \in ValidRelease |-> Placing(r).placed]

\* _reachable_nodes
Branch ==
    [r \in ValidRelease |-> [n \in Node |->
        LET reach[i \in 0 .. Len(r.order)] ==
                IF i = 0 THEN {n}
                ELSE LET known == reach[i - 1]
                     IN known \cup {m \in Node : Upstream(r, m) \cap known # {}}
        IN reach[Len(r.order)]]]

-----------------------------------------------------------------------------
VARIABLES
    release,   \* the release of the version
    runs,      \* its runs, with their node runs
    messages,  \* data_platform.workflow_run messages
    starter,   \* run_version calls under way
    executor,  \* worker slots
    job,       \* the SM3 or SM4 task of a node, if it was submitted
    history,   \* runs lost by a process, doubted by their starter, and races
    faults     \* faults so far

vars == <<release, runs, messages, starter, executor, job, history, faults>>

RunId == 1 .. MaxRuns
NoRun == 0
Active == {"queued", "running"}
Ended == {"succeeded", "partial", "failed"}
NodeEnded == {"succeeded", "failed", "skipped"}

\* manual: by users, the scheduler, the assistant or a data automation batch.
Kind == {"manual", "data_change", "trigger_test"}
Run == [status : Active \cup Ended \cup {"absent"}, kind : Kind,
        trigger : Node \cup {NoNode},
        node : [Node -> Active \cup NodeEnded \cup {"absent"}]]
NoRunYet == [status |-> "absent", kind |-> "manual", trigger |-> NoNode,
             node |-> [n \in Node |-> "absent"]]

StarterSlot == [pc : {"idle", "insert", "send", "failing"}, run : RunId \cup {NoRun},
                kind : Kind, trigger : Node \cup {NoNode}]
Resting == [pc |-> "idle", run |-> NoRun, kind |-> "manual", trigger |-> NoNode]

\* at: the position in the order of the node in hand.
ExecutorSlot == [pc : {"idle", "loop", "decide", "perform", "wait"},
                 run : RunId \cup {NoRun}, at : 1 .. Cardinality(Node) + 1]
Idle == [pc |-> "idle", run |-> NoRun, at |-> 1]

TypeOK ==
    /\ release \in ValidRelease
    /\ runs \in [RunId -> Run]
    /\ messages \subseteq RunId
    /\ starter \in [Starter -> StarterSlot]
    /\ executor \in [Executor -> ExecutorSlot]
    /\ job \in [RunId -> [Node -> {"none", "active", "succeeded", "failed"}]]
    /\ history \in [lost : SUBSET RunId, doubted : SUBSET RunId, raced : BOOLEAN]
    /\ faults \in Nat

Init ==
    /\ release \in ValidRelease
    /\ runs = [r \in RunId |-> NoRunYet]
    /\ messages = {}
    /\ starter = [s \in Starter |-> Resting]
    /\ executor = [e \in Executor |-> Idle]
    /\ job = [r \in RunId |-> [n \in Node |-> "none"]]
    /\ history = [lost |-> {}, doubted |-> {}, raced |-> FALSE]
    /\ faults = 0

Fault == faults < MaxFaults /\ faults' = faults + 1

-----------------------------------------------------------------------------
(* run_version *)

\* Bug: a run that waits for a worker is forgotten.
BusyRunning == \E r \in RunId : runs[r].status = "running"
Busy == \E r \in RunId : runs[r].status \in Active

\* prepare_workflow_run: the checks ...
Check(s, kind, trigger) ==
    /\ starter[s].pc = "idle" /\ ~Busy
    /\ IF kind = "data_change" THEN trigger \in Triggers(release) ELSE trigger = NoNode
    /\ kind = "trigger_test" => Triggers(release) # {}
    /\ Bound[release] >
          Cardinality({r \in RunId : runs[r].status # "absent"})
          + Cardinality({t \in Starter : starter[t].pc = "insert"})
    /\ starter' = [starter EXCEPT ![s] =
            [pc |-> "insert", run |-> NoRun, kind |-> kind, trigger |-> trigger]]
    /\ history' = [history EXCEPT !.raced =
            @ \/ \E t \in Starter : starter[t].pc = "insert"]
    /\ UNCHANGED <<release, runs, messages, executor, job, faults>>

\* ... and the insert.
Insert(s) ==
    /\ starter[s].pc = "insert"
    /\ \E r \in RunId :
        /\ runs[r].status = "absent" /\ \A q \in 1 .. r - 1 : runs[q].status # "absent"
        /\ runs' = [runs EXCEPT ![r] = [@ EXCEPT !.status = "queued",
                !.kind = starter[s].kind, !.trigger = starter[s].trigger]]
        /\ starter' = [starter EXCEPT ![s].pc = "send", ![s].run = r]
    /\ UNCHANGED <<release, messages, executor, job, history, faults>>

Send(s) ==
    /\ starter[s].pc = "send"
    /\ messages' = messages \cup {starter[s].run}
    /\ starter' = [starter EXCEPT ![s] = Resting]
    /\ UNCHANGED <<release, runs, executor, job, history, faults>>

\* send_task raises, whether the broker took the message or not ...
SendFails(s) ==
    /\ starter[s].pc = "send" /\ Fault
    /\ messages' \in {messages, messages \cup {starter[s].run}}
    /\ starter' = [starter EXCEPT ![s].pc = "failing"]
    /\ history' = [history EXCEPT !.doubted = @ \cup {starter[s].run}]
    /\ UNCHANGED <<release, runs, executor, job>>

\* ... and the run is marked failed by primary key.
MarkFailed(s) ==
    /\ starter[s].pc = "failing"
    /\ runs' = [runs EXCEPT ![starter[s].run].status = "failed"]
    /\ starter' = [starter EXCEPT ![s] = Resting]
    /\ UNCHANGED <<release, messages, executor, job, history, faults>>

\* The process of the starter dies.
Vanish(s) ==
    /\ starter[s].pc # "idle" /\ Fault
    /\ starter' = [starter EXCEPT ![s] = Resting]
    /\ history' = [history EXCEPT !.lost = @ \cup ({starter[s].run} \ {NoRun})]
    /\ UNCHANGED <<release, runs, messages, executor, job>>

-----------------------------------------------------------------------------
(* _execute_run *)

\* A conditional UPDATE; a duplicate delivery is ignored.
Claim(e, r) ==
    /\ executor[e].pc = "idle" /\ r \in messages
    /\ messages' = messages \ {r}
    /\ IF runs[r].status = "queued"
       THEN /\ runs' = [runs EXCEPT ![r].status = "running"]
            /\ executor' = [executor EXCEPT ![e] = [pc |-> "loop", run |-> r, at |-> 1]]
       ELSE UNCHANGED <<runs, executor>>
    /\ UNCHANGED <<release, starter, job, history, faults>>

RunOf(e) == runs[executor[e].run]
NodeOf(e) == Order[release][executor[e].at]

Become(e, status) ==
    runs' = [runs EXCEPT ![executor[e].run].node[NodeOf(e)] = status]
Goto(e, pc) == executor' = [executor EXCEPT ![e].pc = pc]
NextNode(e) == executor' = [executor EXCEPT ![e].pc = "loop", ![e].at = @ + 1]

Enter(e) ==
    /\ executor[e].pc = "loop" /\ executor[e].at <= Len(release.order)
    /\ Become(e, "queued") /\ Goto(e, "decide")
    /\ UNCHANGED <<release, messages, starter, job, history, faults>>

\* What a run executes.
Selected(run) ==
    IF run.kind = "data_change" THEN Branch[release][run.trigger] ELSE Nodes(release)

\* Bug: a trigger that did not fire blocks what it shares with one that did.
NeededAll(run, n) == Upstream(release, n)

\* Upstream nodes that have to succeed: not the triggers that did not fire.
Needed(run, n) ==
    {m \in Upstream(release, n) :
        ~(run.kind = "data_change" /\ m \in Triggers(release) /\ m # run.trigger)}
Blocked(run, n) == \E m \in Needed(run, n) : run.node[m] # "succeeded"

Decide(e) ==
    /\ executor[e].pc = "decide"
    /\ LET n == NodeOf(e)
           run == RunOf(e)
       IN  \/ /\ n \notin Selected(run) \/ Blocked(run, n)
              /\ ~(run.kind = "trigger_test" /\ n \in Triggers(release))
              /\ Become(e, "skipped") /\ NextNode(e)
           \/ /\ run.kind = "trigger_test" /\ n \in Triggers(release)
              /\ Become(e, "succeeded") /\ NextNode(e)
           \/ /\ n \in Selected(run) /\ ~Blocked(run, n)
              /\ ~(run.kind = "trigger_test" /\ n \in Triggers(release))
              /\ Become(e, "running") /\ Goto(e, "perform")
    /\ UNCHANGED <<release, messages, starter, job, history, faults>>

\* _execute_node, for a node that is done here or cannot be submitted.
Perform(e, outcome) ==
    /\ executor[e].pc = "perform"
    /\ release.type[NodeOf(e)] = "job" => outcome = "failed"
    /\ release.type[NodeOf(e)] = "trigger" => outcome = "succeeded"
    /\ Become(e, outcome) /\ NextNode(e)
    /\ UNCHANGED <<release, messages, starter, job, history, faults>>

Submit(e) ==
    /\ executor[e].pc = "perform" /\ release.type[NodeOf(e)] = "job"
    /\ job' = [job EXCEPT ![executor[e].run][NodeOf(e)] = "active"]
    /\ Goto(e, "wait")
    /\ UNCHANGED <<release, runs, messages, starter, history, faults>>

\* The SM3 or SM4 task ends; partial, stopped and cancelled count as failed.
JobEnds(r, n, outcome) ==
    /\ job[r][n] = "active"
    /\ job' = [job EXCEPT ![r][n] = outcome]
    /\ UNCHANGED <<release, runs, messages, starter, executor, history, faults>>

\* Bug: a task that ended is a task that succeeded.
WaitForEnd(e) ==
    /\ executor[e].pc = "wait"
    /\ job[executor[e].run][NodeOf(e)] # "active"
    /\ Become(e, "succeeded") /\ NextNode(e)
    /\ UNCHANGED <<release, messages, starter, job, history, faults>>

\* _wait_for_sm3_task, _wait_for_sm4_batch: a timeout leaves the task behind.
Wait(e) ==
    /\ executor[e].pc = "wait"
    /\ LET status == job[executor[e].run][NodeOf(e)]
       IN Become(e, IF status = "active" THEN "failed" ELSE status)
    /\ NextNode(e)
    /\ UNCHANGED <<release, messages, starter, job, history, faults>>

Outcome(run) ==
    LET has(status) == \E n \in Node : run.node[n] = status
    IN IF has("failed") THEN IF has("succeeded") THEN "partial" ELSE "failed"
       ELSE IF has("skipped") /\ run.kind # "data_change" THEN "partial"
       ELSE "succeeded"

End(e) ==
    /\ executor[e].pc = "loop" /\ executor[e].at > Len(release.order)
    /\ runs' = [runs EXCEPT ![executor[e].run].status = Outcome(RunOf(e))]
    /\ executor' = [executor EXCEPT ![e] = Idle]
    /\ UNCHANGED <<release, messages, starter, job, history, faults>>

\* The loop raises (the system database is away): the run and its active nodes
\* are marked failed, or the handler fails as well and nothing is recorded.
Break(e) ==
    /\ executor[e].pc # "idle" /\ Fault
    /\ LET r == executor[e].run
           closed == [n \in Node |-> IF runs[r].node[n] \in Active THEN "failed"
                                     ELSE runs[r].node[n]]
       IN \/ /\ runs' = [runs EXCEPT ![r] = [@ EXCEPT !.status = "failed", !.node = closed]]
             /\ UNCHANGED history
          \/ /\ history' = [history EXCEPT !.lost = @ \cup {r}]
             /\ UNCHANGED runs
    /\ executor' = [executor EXCEPT ![e] = Idle]
    /\ UNCHANGED <<release, messages, starter, job>>

\* A worker dies: its message, not acknowledged, is delivered again.
Crash(e) ==
    /\ executor[e].pc # "idle" /\ Fault
    /\ messages' = messages \cup {executor[e].run}
    /\ history' = [history EXCEPT !.lost = @ \cup {executor[e].run}]
    /\ executor' = [executor EXCEPT ![e] = Idle]
    /\ UNCHANGED <<release, runs, starter, job>>

\* The run outlasts the visibility timeout: its message is delivered again.
Redeliver(e) ==
    /\ executor[e].pc # "idle" /\ Fault
    /\ messages' = messages \cup {executor[e].run}
    /\ UNCHANGED <<release, runs, starter, executor, job, history>>

-----------------------------------------------------------------------------
Work(e) ==
    \/ Enter(e) \/ Decide(e) \/ Submit(e) \/ Wait(e) \/ End(e)
    \/ \E outcome \in {"succeeded", "failed"} : Perform(e, outcome)

Next ==
    \/ \E s \in Starter :
        \/ \E kind \in Kind, trigger \in Node \cup {NoNode} : Check(s, kind, trigger)
        \/ Insert(s) \/ Send(s) \/ SendFails(s) \/ MarkFailed(s) \/ Vanish(s)
    \/ \E e \in Executor :
        \/ \E r \in RunId : Claim(e, r)
        \/ Work(e) \/ Break(e) \/ Crash(e) \/ Redeliver(e)
    \/ \E r \in RunId, n \in Node, outcome \in {"succeeded", "failed"} : JobEnds(r, n, outcome)

Spec == Init /\ [][Next]_vars

\* A handler goes on to its end, a worker that is free consumes the queue (SF:
\* another worker may be faster each time), and goes on with the run it has;
\* nothing is assumed about the tasks it waits for.
FairSpec ==
    /\ Spec
    /\ \A s \in Starter : WF_vars(Insert(s) \/ Send(s) \/ MarkFailed(s))
    /\ \A e \in Executor : WF_vars(Work(e))
    /\ \A r \in RunId : SF_vars(\E e \in Executor : Claim(e, r))

-----------------------------------------------------------------------------
(* Upstream nodes come first, and only they decide: a node that is executed *)
(* has had the success of all it needs, and a node is skipped because it is *)
(* outside of the branch or something it needs has ended without success -  *)
(* never because its turn came too early.                                   *)
NodesFollowUpstream ==
    \A r \in RunId : LET run == runs[r] IN \A n \in Node :
        /\ run.node[n] \in {"running", "succeeded"} => ~Blocked(run, n)
        /\ run.node[n] = "skipped" =>
              \/ n \notin Selected(run)
              \/ \E m \in Needed(run, n) : run.node[m] \in NodeEnded \ {"succeeded"}

(* A succeeded run has done its work: every node, or for a change every     *)
(* node of the branch, but those that depend on a node outside of it other *)
(* than a trigger.                                                          *)
SucceededIsComplete ==
    \A r \in RunId : LET run == runs[r] IN
        run.status = "succeeded" =>
            \A n \in Selected(run) :
                \/ run.node[n] = "succeeded"
                \/ run.kind = "data_change"
                   /\ \E m \in Nodes(release) \ (Selected(run) \cup Triggers(release)) :
                         n \in Branch[release][m]

(* Runs follow the graph of the release: in order, and to its end.          *)
RunsFollowRelease == NodesFollowUpstream /\ SucceededIsComplete

(* The status of a node run or of a run that has ended never changes, in    *)
(* spite of duplicates, crashes and late answers - except for a run whose   *)
(* starter was told that the send had failed.                               *)
EndedIsFinal ==
    [][\A r \in RunId :
        /\ \A n \in Node : runs[r].node[n] \in NodeEnded =>
              runs'[r].node[n] = runs[r].node[n]
        /\ runs[r].status \in Ended /\ r \notin history.doubted =>
              runs'[r].status = runs[r].status]_vars

(* One run of a version at a time, unless two starters passed the check     *)
(* before either inserted, or a starter was told that the send had failed.  *)
OneRunPerVersion ==
    ~history.raced /\ history.doubted = {} =>
        Cardinality({r \in RunId : runs[r].status \in Active
                                  \/ \E e \in Executor : executor[e].run = r}) <= 1

(* Every run ends for good, whatever the tasks of its nodes do, unless its  *)
(* starter or its worker is lost.                                           *)
RunsEnd == <>[]~\E r \in RunId \ history.lost : runs[r].status \in Active
==============================================================================

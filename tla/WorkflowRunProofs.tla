-------------------------- MODULE WorkflowRunProofs --------------------------
(***************************************************************************)
(* Proofs about the data platform.                                         *)
(*                                                                         *)
(* WorkflowRun, for any number of starters, workers, runs and faults and   *)
(* any set of releases: type correctness, that a version has one run at a  *)
(* time (OneRunPerVersion), that runs follow the graph of their release    *)
(* (RunsFollowRelease), and that what has ended is final (EndedIsFinal).   *)
(* First comes who holds which run, then the graph operators, for any      *)
(* valid release: the topological order has every node once, after its     *)
(* upstream nodes (OrderIs), and a part of a branch that is fed from       *)
(* outside of it is reached from there (OutsideReaches).  Both are by      *)
(* induction on the steps of a function over 0 .. N, as the existence of a *)
(* least element of a set (AllNat).  Then come the nodes of a run.         *)
(*                                                                         *)
(* WorkflowCatalog, for any requests, versions and restarts: what starts   *)
(* by itself, and what is online stays what was published.  Sm4Schedule,   *)
(* for any schedules and requests: each time starts one batch at most.     *)
(***************************************************************************)
EXTENDS PlatformWork, FiniteSetTheorems, WellFoundedInduction, TLAPS

\* A starter that goes on after its insert has a run; one that marks it as
\* failed has doubted it before.
StarterInv(s) ==
    /\ starter[s].pc \in {"send", "failing"} =>
          starter[s].run \in RunId /\ runs[starter[s].run].status # "absent"
    /\ starter[s].pc = "failing" => starter[s].run \in history.doubted

\* A worker that is busy has a claimed run, which only a doubting starter ends
\* before the worker does, and no two workers have the same.
ExecutorInv(e) ==
    /\ executor[e].pc = "idle" <=> executor[e].run = NoRun
    /\ executor[e].run # NoRun =>
          /\ runs[executor[e].run].status \notin {"absent", "queued"}
          /\ executor[e].run \notin history.doubted => runs[executor[e].run].status = "running"
    /\ executor[e].at <= Len(release.order) + 1
    /\ executor[e].pc \in {"decide", "perform", "wait"} => executor[e].at <= Len(release.order)

\* It waits for a task that it has submitted.
WaitInv(e) ==
    executor[e].pc = "wait" /\ NodeOf(e) \in Node => job[executor[e].run][NodeOf(e)] # "none"
OwnRun ==
    \A e, f \in Executor : executor[e].run = executor[f].run /\ executor[e].run # NoRun => e = f

\* As long as no two starters were past the check at once, no run is active
\* when one of them inserts.
RaceInv ==
    ~history.raced =>
        /\ \A s, t \in Starter : starter[s].pc = "insert" /\ starter[t].pc = "insert" => s = t
        /\ \A s \in Starter : starter[s].pc = "insert" => ~Busy
        /\ \A q, r \in RunId : runs[q].status \in Active /\ runs[r].status \in Active => q = r

IInv ==
    /\ \A s \in Starter : StarterInv(s)
    /\ \A e \in Executor : ExecutorInv(e)
    /\ \A e \in Executor : WaitInv(e)
    /\ OwnRun
    /\ RaceInv

-----------------------------------------------------------------------------
(* Constants and records.  The records are edited only here.               *)

LEMMA Releases ==
    /\ IsFiniteSet(Node) /\ Cardinality(Node) \in Nat /\ MaxRuns \in Nat /\ MaxFaults \in Nat
    /\ \A r \in ValidRelease :
          /\ r.order \in Seq(Node) /\ IsInjective(r.order)
          /\ r.type \in [Node -> {"trigger", "job", "plain"}]
<1>1. IsFiniteSet(Node) /\ MaxRuns \in Nat /\ MaxFaults \in Nat
  BY WorkflowAssumption
<1>2. Cardinality(Node) \in Nat
  BY <1>1, FS_CardinalityType
<1>3. ValidRelease \subseteq Release
  BY DEF ValidRelease
<1>4. \A r \in Release : IsInjective(r.order)
  BY WorkflowAssumption
<1>5. \A r \in Release : r \in [order : Seq(Node), edges : SUBSET (Node \X Node),
                               type : [Node -> {"trigger", "job", "plain"}]]
  BY WorkflowAssumption
<1> QED
  BY <1>1, <1>2, <1>3, <1>4, <1>5

\* The order of a release has no more places than there are nodes.
LEMMA OrderFits == \A r \in ValidRelease : Len(r.order) \in 0 .. Cardinality(Node)
<1> SUFFICES ASSUME NEW r \in ValidRelease
             PROVE  Len(r.order) \in Nat /\ Len(r.order) <= Cardinality(Node)
  BY Releases
<1>1. r.order \in Seq(Node) /\ IsInjective(r.order)
  BY Releases
<1>2. Len(r.order) \in Nat /\ DOMAIN r.order = 1 .. Len(r.order)
  BY <1>1
<1>3. r.order \in Injection(1 .. Len(r.order), Node)
  BY <1>1, <1>2 DEF IsInjective, Injection
<1>4. Cardinality(1 .. Len(r.order)) = Len(r.order)
  BY <1>2, FS_Interval
<1>5. Cardinality(1 .. Len(r.order)) <= Cardinality(Node)
  BY <1>3, Releases, FS_Injection
<1> QED
  BY <1>2, <1>4, <1>5

LEMMA RunFields ==
    /\ NoRunYet \in Run /\ NoRunYet.status = "absent"
    /\ \A x \in Run : /\ x.status \in Active \cup Ended \cup {"absent"}
                      /\ x.node \in [Node -> Active \cup NodeEnded \cup {"absent"}]
BY DEF NoRunYet, Run, Active, Kind

Status == Active \cup Ended \cup {"absent"}
NodeStatus == Active \cup NodeEnded \cup {"absent"}

Queued(x, k, t) == [x EXCEPT !.status = "queued", !.kind = k, !.trigger = t]

LEMMA RunEdits ==
    /\ \A x \in Run, st \in Status : [x EXCEPT !.status = st] \in Run
    /\ \A x \in Run, st \in Status, f \in [Node -> NodeStatus] :
          [x EXCEPT !.status = st, !.node = f] \in Run
    /\ \A x \in Run, f \in [Node -> NodeStatus] : [x EXCEPT !.node = f] \in Run
BY DEF Run, Status, NodeStatus

LEMMA StatusEdits ==
    /\ \A x \in Run, st \in Status : [x EXCEPT !.status = st].status = st
    /\ \A x \in Run, st \in Status, f \in [Node -> NodeStatus] :
          [x EXCEPT !.status = st, !.node = f].status = st
    /\ \A x \in Run, f \in [Node -> NodeStatus] : [x EXCEPT !.node = f].status = x.status
BY DEF Run, Status, NodeStatus

LEMMA QueuedFields ==
    \A x \in Run, k \in Kind, t \in Node \cup {NoNode} :
        Queued(x, k, t) \in Run /\ Queued(x, k, t).status = "queued"
BY DEF Queued, Run, Active

StarterPc == {"idle", "insert", "send", "failing"}
LEMMA StarterEdits ==
    /\ Resting \in StarterSlot /\ Resting.pc = "idle"
    /\ \A x \in StarterSlot : /\ x.pc \in StarterPc /\ x.run \in RunId \cup {NoRun}
                              /\ x.kind \in Kind /\ x.trigger \in Node \cup {NoNode}
    /\ \A k \in Kind, t \in Node \cup {NoNode} :
          [pc |-> "insert", run |-> NoRun, kind |-> k, trigger |-> t] \in StarterSlot
    /\ \A x \in StarterSlot, r \in RunId :
          /\ [x EXCEPT !.pc = "send", !.run = r] \in StarterSlot
          /\ [x EXCEPT !.pc = "send", !.run = r].pc = "send"
          /\ [x EXCEPT !.pc = "send", !.run = r].run = r
    /\ \A x \in StarterSlot :
          /\ [x EXCEPT !.pc = "failing"] \in StarterSlot
          /\ [x EXCEPT !.pc = "failing"].pc = "failing"
          /\ [x EXCEPT !.pc = "failing"].run = x.run
BY DEF Resting, StarterSlot, StarterPc, Kind

ExecutorPc == {"idle", "loop", "decide", "perform", "wait"}
At == 1 .. Cardinality(Node) + 1
LEMMA ExecutorEdits ==
    /\ Idle \in ExecutorSlot /\ Idle.pc = "idle" /\ Idle.run = NoRun /\ Idle.at = 1
    /\ \A x \in ExecutorSlot : x.pc \in ExecutorPc /\ x.run \in RunId \cup {NoRun} /\ x.at \in At
    /\ \A r \in RunId : [pc |-> "loop", run |-> r, at |-> 1] \in ExecutorSlot
    /\ \A x \in ExecutorSlot, pc \in ExecutorPc :
          /\ [x EXCEPT !.pc = pc] \in ExecutorSlot
          /\ [x EXCEPT !.pc = pc].pc = pc
          /\ [x EXCEPT !.pc = pc].run = x.run /\ [x EXCEPT !.pc = pc].at = x.at
    /\ \A x \in ExecutorSlot : [x EXCEPT !.pc = "loop", !.at = @ + 1].pc = "loop"
    /\ \A x \in ExecutorSlot : x.at + 1 \in At =>
          /\ [x EXCEPT !.pc = "loop", !.at = @ + 1] \in ExecutorSlot
          /\ [x EXCEPT !.pc = "loop", !.at = @ + 1].pc = "loop"
          /\ [x EXCEPT !.pc = "loop", !.at = @ + 1].run = x.run
          /\ [x EXCEPT !.pc = "loop", !.at = @ + 1].at = x.at + 1
<1>1. 1 \in At
  BY Releases DEF At
<1> QED
  BY <1>1 DEF Idle, ExecutorSlot, ExecutorPc, At

LEMMA IdleFields == Idle.pc = "idle" /\ Idle.run = NoRun /\ Idle.at = 1
BY DEF Idle

LEMMA NoRunIsNone == NoRun \notin RunId
BY DEF NoRun, RunId

-----------------------------------------------------------------------------
(* What the steps have in common.                                          *)

Steady == UNCHANGED <<release, starter, history>>

\* The inserts are not touched by who works on a run.
LEMMA StatusKept ==
    ASSUME TypeOK, IInv, Steady, \A r \in RunId : runs'[r].status = runs[r].status
    PROVE  (\A s \in Starter : StarterInv(s)') /\ RaceInv'
BY DEF TypeOK, IInv, Steady, StarterInv, RaceInv, Busy

LEMMA WaitKept ==
    ASSUME NEW e \in Executor, WaitInv(e), UNCHANGED <<release, executor, job>>
    PROVE  WaitInv(e)'
<1>1. release' = release /\ executor' = executor /\ job' = job
  OBVIOUS
<1> QED
  BY <1>1 DEF WaitInv, NodeOf

\* A worker goes on with its run.
LEMMA GoesOn ==
    ASSUME TypeOK, IInv, Steady, NEW e \in Executor, NEW x \in ExecutorSlot,
           \A r \in RunId : runs'[r].status = runs[r].status,
           executor' = [executor EXCEPT ![e] = x],
           executor[e].pc # "idle", x.pc # "idle", x.run = executor[e].run,
           x.at <= Len(release.order) + 1,
           x.pc \in {"decide", "perform", "wait"} => x.at <= Len(release.order),
           \A r \in RunId, n \in Node : job[r][n] # "none" => job'[r][n] # "none",
           x.pc = "wait" /\ Order[release][x.at] \in Node =>
              job'[x.run][Order[release][x.at]] # "none"
    PROVE  executor' \in [Executor -> ExecutorSlot] /\ IInv'
<1>1. /\ executor' \in [Executor -> ExecutorSlot]
      /\ \A f \in Executor : executor'[f] = IF f = e THEN x ELSE executor[f]
  BY DEF TypeOK
<1>2. \A f \in Executor : executor'[f].run = executor[f].run
  BY <1>1
<1>3. OwnRun'
  BY <1>2 DEF IInv, OwnRun
<1>4. \A f \in Executor : executor[f].run \in RunId \cup {NoRun}
  BY ExecutorEdits DEF TypeOK
<1>5. ASSUME NEW f \in Executor PROVE ExecutorInv(f)'
  <2>1. ExecutorInv(f) /\ ExecutorInv(e)
    BY DEF IInv
  <2>2. executor[f].run # NoRun => runs'[executor[f].run].status = runs[executor[f].run].status
    BY <1>4
  <2>3. executor'[f].pc = "idle" <=> executor[f].pc = "idle"
    BY <1>1
  <2>4. /\ executor'[f].at <= Len(release.order) + 1
        /\ executor'[f].pc \in {"decide", "perform", "wait"} => executor'[f].at <= Len(release.order)
    BY <1>1, <2>1 DEF ExecutorInv
  <2> QED
    BY <1>2, <2>1, <2>2, <2>3, <2>4 DEF ExecutorInv, Steady
<1>6. ASSUME NEW f \in Executor PROVE WaitInv(f)'
  <2>1. release' = release
    BY DEF Steady
  <2>2. CASE f = e
    BY <1>1, <2>1, <2>2 DEF WaitInv, NodeOf
  <2>3. CASE f # e
    <3>1. WaitInv(f) /\ executor'[f] = executor[f] /\ ExecutorInv(f)
      BY <1>1, <2>3 DEF IInv
    <3>2. executor[f].pc = "wait" => executor[f].run \in RunId
      BY <1>4, <3>1 DEF ExecutorInv
    <3> QED
      BY <2>1, <3>1, <3>2 DEF WaitInv, NodeOf
  <2> QED
    BY <2>2, <2>3
<1> QED
  BY <1>1, <1>3, <1>5, <1>6, StatusKept DEF IInv

\* A worker leaves its run, with whatever outcome.
LEMMA Leaves ==
    ASSUME TypeOK, IInv, NEW e \in Executor, executor[e].pc # "idle",
           UNCHANGED <<release, starter, job>>,
           history'.doubted = history.doubted, history'.raced = history.raced,
           executor' = [executor EXCEPT ![e] = Idle],
           \A r \in RunId :
              \/ runs'[r].status = runs[r].status
              \/ r = executor[e].run /\ runs'[r].status \in Ended
    PROVE  executor' \in [Executor -> ExecutorSlot] /\ IInv'
<1>1. /\ executor' \in [Executor -> ExecutorSlot]
      /\ \A f \in Executor : executor'[f] = IF f = e THEN Idle ELSE executor[f]
  BY ExecutorEdits DEF TypeOK
<1>2. \A r \in RunId : /\ runs'[r].status \in Active => runs[r].status \in Active
                       /\ runs[r].status # "absent" => runs'[r].status # "absent"
  BY DEF Active, Ended
<1>0. release' = release /\ starter' = starter /\ job' = job
  OBVIOUS
<1>3. ASSUME NEW s \in Starter PROVE StarterInv(s)'
  <2>1. StarterInv(s)
    BY DEF IInv
  <2> QED
    BY <1>0, <1>2, <2>1 DEF StarterInv
<1>4. RaceInv'
  <2>1. Busy' => Busy
    BY <1>2 DEF Busy
  <2>2. RaceInv
    BY DEF IInv
  <2> QED
    BY <1>0, <1>2, <2>1, <2>2 DEF RaceInv
<1>5. OwnRun'
  BY <1>1, IdleFields DEF IInv, OwnRun
<1>6. ASSUME NEW f \in Executor PROVE ExecutorInv(f)'
  <2>1. CASE f = e
    <3>1. Len(release.order) \in Nat
      BY OrderFits, Releases DEF TypeOK
    <3>2. executor'[f] = Idle
      BY <1>1, <2>1
    <3>3. Idle.pc = "idle" /\ Idle.run = NoRun /\ Idle.at = 1
      BY ExecutorEdits
    <3> QED
      BY <1>0, <3>1, <3>2, <3>3 DEF ExecutorInv
  <2>2. CASE f # e
    <3>1. ExecutorInv(f) /\ ExecutorInv(e) /\ executor'[f] = executor[f]
      BY <1>1, <2>2 DEF IInv
    <3>2. executor[f].run \in RunId \cup {NoRun}
      BY ExecutorEdits DEF TypeOK
    <3>3. executor[f].run # NoRun => executor[f].run # executor[e].run
      BY <2>2 DEF IInv, OwnRun
    <3>4. executor[f].run # NoRun => runs'[executor[f].run].status = runs[executor[f].run].status
      BY <3>2, <3>3
    <3> QED
      BY <3>1, <3>4 DEF ExecutorInv
  <2> QED
    BY <2>1, <2>2
<1>7. ASSUME NEW f \in Executor PROVE WaitInv(f)'
  <2>1. WaitInv(f) /\ Idle.pc = "idle"
    BY ExecutorEdits DEF IInv
  <2> QED
    BY <1>0, <1>1, <2>1 DEF WaitInv, NodeOf
<1> QED
  BY <1>1, <1>3, <1>4, <1>5, <1>6, <1>7 DEF IInv

\* A starter moves without touching a run.
LEMMA StarterMoves ==
    ASSUME TypeOK, IInv, NEW s \in Starter, NEW x \in StarterSlot,
           UNCHANGED <<release, runs, executor, job>>, history'.raced = history.raced,
           history.doubted \subseteq history'.doubted,
           starter' = [starter EXCEPT ![s] = x], x.pc \in {"idle", "failing"},
           x.pc = "failing" =>
              /\ starter[s].pc \in {"send", "failing"} /\ x.run = starter[s].run
              /\ x.run \in history'.doubted
    PROVE  starter' \in [Starter -> StarterSlot] /\ IInv'
<1>1. /\ starter' \in [Starter -> StarterSlot]
      /\ \A t \in Starter : starter'[t] = IF t = s THEN x ELSE starter[t]
  BY DEF TypeOK
<1>2. ASSUME NEW t \in Starter PROVE StarterInv(t)'
  BY <1>1 DEF IInv, StarterInv
<1>3. ASSUME NEW e \in Executor PROVE ExecutorInv(e)'
  BY DEF IInv, ExecutorInv
<1>4. OwnRun'
  BY DEF IInv, OwnRun
<1>5. RaceInv'
  BY <1>1 DEF IInv, RaceInv, Busy
<1>6. ASSUME NEW e \in Executor PROVE WaitInv(e)'
  BY WaitKept DEF IInv
<1> QED
  BY <1>1, <1>2, <1>3, <1>4, <1>5, <1>6 DEF IInv

-----------------------------------------------------------------------------
(* Starters.                                                               *)

LEMMA CheckStep ==
    ASSUME TypeOK, IInv, NEW s \in Starter, NEW k \in Kind, NEW trigger \in Node \cup {NoNode},
           Check(s, k, trigger)
    PROVE  (TypeOK /\ IInv)'
<1> DEFINE x == [pc |-> "insert", run |-> NoRun, kind |-> k, trigger |-> trigger]
<1>1. /\ starter' = [starter EXCEPT ![s] = x] /\ x \in StarterSlot /\ x.pc = "insert"
      /\ UNCHANGED <<release, runs, messages, executor, job, faults>> /\ ~Busy
      /\ history' = [history EXCEPT !.raced = @ \/ \E t \in Starter : starter[t].pc = "insert"]
  BY StarterEdits DEF Check
<1> HIDE DEF x
<1>2. /\ starter' \in [Starter -> StarterSlot]
      /\ \A t \in Starter : starter'[t] = IF t = s THEN x ELSE starter[t]
  BY <1>1 DEF TypeOK
<1>3. /\ history' \in [lost : SUBSET RunId, doubted : SUBSET RunId, raced : BOOLEAN]
      /\ history'.doubted = history.doubted
      /\ ~history'.raced => ~history.raced /\ \A t \in Starter : starter[t].pc # "insert"
  BY <1>1 DEF TypeOK
<1>4. TypeOK'
  BY <1>1, <1>2, <1>3 DEF TypeOK
<1>5. ASSUME NEW t \in Starter PROVE StarterInv(t)'
  <2>1. StarterInv(t)
    BY DEF IInv
  <2> QED
    BY <1>1, <1>2, <1>3, <2>1 DEF StarterInv
<1>6. ASSUME NEW e \in Executor PROVE ExecutorInv(e)'
  BY <1>1, <1>3 DEF IInv, ExecutorInv
<1>7. OwnRun'
  BY <1>1 DEF IInv, OwnRun
<1>8. RaceInv'
  <2>1. RaceInv /\ ~Busy'
    BY <1>1 DEF IInv, Busy
  <2> QED
    BY <1>1, <1>2, <1>3, <2>1 DEF RaceInv
<1>9. ASSUME NEW e \in Executor PROVE WaitInv(e)'
  BY <1>1, WaitKept DEF IInv
<1> QED
  BY <1>4, <1>5, <1>6, <1>7, <1>8, <1>9 DEF IInv

LEMMA InsertStep ==
    ASSUME TypeOK, IInv, NEW s \in Starter, Insert(s)
    PROVE  (TypeOK /\ IInv)'
<1>1. PICK r \in RunId :
        /\ starter[s].pc = "insert" /\ runs[r].status = "absent"
        /\ runs' = [runs EXCEPT ![r] = [@ EXCEPT !.status = "queued",
                !.kind = starter[s].kind, !.trigger = starter[s].trigger]]
        /\ starter' = [starter EXCEPT ![s].pc = "send", ![s].run = r]
        /\ UNCHANGED <<release, messages, executor, job, history, faults>>
  BY DEF Insert
<1>2. runs[r] \in Run /\ starter[s] \in StarterSlot
  BY DEF TypeOK
<1>3. PICK x \in Run : /\ runs' = [runs EXCEPT ![r] = x] /\ x.status = "queued"
  <2>1. starter[s].kind \in Kind /\ starter[s].trigger \in Node \cup {NoNode}
    BY <1>2, StarterEdits
  <2> DEFINE z == Queued(runs[r], starter[s].kind, starter[s].trigger)
  <2>2. z \in Run /\ z.status = "queued"
    BY <1>2, <2>1, QueuedFields
  <2>3. runs' = [runs EXCEPT ![r] = z]
    BY <1>1 DEF Queued
  <2> HIDE DEF z
  <2> QED
    BY <2>2, <2>3
<1>4. PICK y \in StarterSlot : /\ starter' = [starter EXCEPT ![s] = y]
                               /\ y.pc = "send" /\ y.run = r
  <2> DEFINE z == [starter[s] EXCEPT !.pc = "send", !.run = r]
  <2>1. z \in StarterSlot /\ z.pc = "send" /\ z.run = r
    BY <1>2, StarterEdits
  <2>2. starter' = [starter EXCEPT ![s] = z]
    BY <1>1 DEF TypeOK
  <2> HIDE DEF z
  <2> QED
    BY <2>1, <2>2
<1>5. /\ runs' \in [RunId -> Run]
      /\ \A q \in RunId : runs'[q] = IF q = r THEN x ELSE runs[q]
  BY <1>3 DEF TypeOK
<1>6. /\ starter' \in [Starter -> StarterSlot]
      /\ \A t \in Starter : starter'[t] = IF t = s THEN y ELSE starter[t]
  BY <1>4 DEF TypeOK
<1>7. TypeOK'
  BY <1>1, <1>5, <1>6 DEF TypeOK
<1>8. \A q \in RunId : runs[q].status # "absent" => q # r /\ runs'[q] = runs[q]
  BY <1>1, <1>5
<1>9. ASSUME NEW t \in Starter PROVE StarterInv(t)'
  <2>1. StarterInv(t)
    BY DEF IInv
  <2>2. CASE t = s
    BY <1>1, <1>3, <1>4, <1>5, <1>6, <2>2 DEF StarterInv
  <2>3. CASE t # s
    BY <1>1, <1>6, <1>8, <2>1, <2>3 DEF StarterInv
  <2> QED
    BY <2>2, <2>3
<1>10. ASSUME NEW e \in Executor PROVE ExecutorInv(e)'
  <2>1. ExecutorInv(e) /\ executor[e].run \in RunId \cup {NoRun}
    BY ExecutorEdits DEF IInv, TypeOK
  <2>2. executor[e].run # NoRun => runs'[executor[e].run] = runs[executor[e].run]
    BY <1>8, <2>1 DEF ExecutorInv
  <2> QED
    BY <1>1, <2>1, <2>2 DEF ExecutorInv
<1>11. OwnRun'
  BY <1>1 DEF IInv, OwnRun
<1>12. RaceInv'
  <2>1. SUFFICES ASSUME ~history.raced
                 PROVE  /\ \A t \in Starter : starter'[t].pc # "insert"
                        /\ \A q \in RunId : runs'[q].status \in Active => q = r
    BY <1>1 DEF RaceInv
  <2>2. \A q \in RunId : runs[q].status \notin Active
    BY <1>1, <2>1 DEF IInv, RaceInv, Busy
  <2>3. \A t \in Starter : starter[t].pc = "insert" => t = s
    BY <1>1, <2>1 DEF IInv, RaceInv
  <2> QED
    BY <1>4, <1>5, <1>6, <2>2, <2>3
<1>13. ASSUME NEW e \in Executor PROVE WaitInv(e)'
  BY <1>1, WaitKept DEF IInv
<1> QED
  BY <1>7, <1>9, <1>10, <1>11, <1>12, <1>13 DEF IInv

LEMMA SendStep ==
    ASSUME TypeOK, IInv, NEW s \in Starter, Send(s) \/ SendFails(s) \/ Vanish(s)
    PROVE  (TypeOK /\ IInv)'
<1>1. /\ starter[s] \in StarterSlot /\ starter[s].run \in RunId \cup {NoRun}
      /\ starter[s].pc = "send" => starter[s].run \in RunId
  BY StarterEdits DEF TypeOK, IInv, StarterInv
<1>2. PICK x \in StarterSlot :
        /\ starter' = [starter EXCEPT ![s] = x] /\ x.pc \in {"idle", "failing"}
        /\ x.pc = "failing" => /\ starter[s].pc = "send" /\ x.run = starter[s].run
                               /\ history'.doubted = history.doubted \cup {x.run}
  <2>1. CASE Send(s) \/ Vanish(s)
    BY <2>1, StarterEdits DEF Send, Vanish
  <2>2. CASE SendFails(s)
    <3> DEFINE y == [starter[s] EXCEPT !.pc = "failing"]
    <3>1. y \in StarterSlot /\ y.pc = "failing" /\ y.run = starter[s].run
      BY <1>1, StarterEdits
    <3>2. starter' = [starter EXCEPT ![s] = y]
      BY <2>2 DEF SendFails
    <3>3. /\ starter[s].pc = "send"
          /\ history'.doubted = history.doubted \cup {starter[s].run}
      BY <2>2 DEF SendFails, TypeOK
    <3> HIDE DEF y
    <3> QED
      BY <3>1, <3>2, <3>3
  <2> QED
    BY <2>1, <2>2
<1>3. /\ UNCHANGED <<release, runs, executor, job>> /\ messages' \subseteq RunId
      /\ history' \in [lost : SUBSET RunId, doubted : SUBSET RunId, raced : BOOLEAN]
      /\ history'.raced = history.raced /\ history.doubted \subseteq history'.doubted
      /\ faults' \in Nat
  <2>1. CASE Send(s)
    BY <1>1, <2>1 DEF Send, TypeOK
  <2>2. CASE SendFails(s)
    BY SMTT(60), <1>1, <2>2 DEF SendFails, Fault, TypeOK
  <2>3. CASE Vanish(s)
    <3>1. {starter[s].run} \ {NoRun} \subseteq RunId
      BY <1>1
    <3>2. /\ UNCHANGED <<release, runs, executor, job, messages>> /\ faults' = faults + 1
          /\ history' = [history EXCEPT !.lost = @ \cup ({starter[s].run} \ {NoRun})]
      BY <2>3 DEF Vanish, Fault
    <3> QED
      BY <3>1, <3>2 DEF TypeOK
  <2> QED
    BY <2>1, <2>2, <2>3
<1>4. starter' \in [Starter -> StarterSlot] /\ IInv'
  <2>1. x.pc = "failing" =>
          /\ starter[s].pc \in {"send", "failing"} /\ x.run = starter[s].run
          /\ x.run \in history'.doubted
    BY <1>2
  <2>2. UNCHANGED <<release, runs, executor, job>>
    BY <1>3
  <2> QED
    BY <1>2, <1>3, <2>1, <2>2, StarterMoves
<1> QED
  BY <1>3, <1>4 DEF TypeOK

LEMMA MarkFailedStep ==
    ASSUME TypeOK, IInv, NEW s \in Starter, MarkFailed(s)
    PROVE  (TypeOK /\ IInv)'
<1>1. /\ starter[s].pc = "failing" /\ starter[s].run \in RunId
      /\ starter[s].run \in history.doubted
      /\ starter' = [starter EXCEPT ![s] = Resting]
      /\ UNCHANGED <<release, messages, executor, job, history, faults>>
  BY DEF MarkFailed, IInv, StarterInv
<1>2. PICK x \in Run :
        runs' = [runs EXCEPT ![starter[s].run] = x] /\ x.status = "failed"
  <2>1. runs[starter[s].run] \in Run /\ "failed" \in Status
    BY <1>1 DEF TypeOK, Status, Ended
  <2> DEFINE z == [runs[starter[s].run] EXCEPT !.status = "failed"]
  <2>2. z \in Run /\ z.status = "failed"
    BY <2>1, RunEdits, StatusEdits
  <2>3. runs' = [runs EXCEPT ![starter[s].run] = z]
    BY <1>1 DEF MarkFailed, TypeOK
  <2> HIDE DEF z
  <2> QED
    BY <2>2, <2>3
<1>3. /\ runs' \in [RunId -> Run]
      /\ \A r \in RunId : runs'[r] = IF r = starter[s].run THEN x ELSE runs[r]
  BY <1>1, <1>2 DEF TypeOK
<1>4. /\ starter' \in [Starter -> StarterSlot]
      /\ \A t \in Starter : starter'[t] = IF t = s THEN Resting ELSE starter[t]
  BY <1>1, StarterEdits DEF TypeOK
<1>5. /\ \A r \in RunId : runs'[r].status \in Active => runs[r].status \in Active
      /\ \A r \in RunId : runs[r].status # "absent" => runs'[r].status # "absent"
  BY <1>2, <1>3 DEF Active
<1>6. TypeOK'
  BY <1>1, <1>3, <1>4 DEF TypeOK
<1>7. ASSUME NEW t \in Starter PROVE StarterInv(t)'
  <2>1. StarterInv(t) /\ Resting.pc = "idle"
    BY StarterEdits DEF IInv
  <2> QED
    BY <1>1, <1>4, <1>5, <2>1 DEF StarterInv
<1>8. ASSUME NEW e \in Executor PROVE ExecutorInv(e)'
  <2>1. ExecutorInv(e) /\ executor[e].run \in RunId \cup {NoRun}
    BY ExecutorEdits DEF IInv, TypeOK
  <2>2. executor[e].run # NoRun =>
          /\ runs'[executor[e].run].status \notin {"absent", "queued"}
          /\ executor[e].run \notin history.doubted =>
                runs'[executor[e].run] = runs[executor[e].run]
    BY <1>1, <1>2, <1>3, <2>1 DEF ExecutorInv
  <2> QED
    BY <1>1, <2>1, <2>2 DEF ExecutorInv
<1>9. OwnRun'
  BY <1>1 DEF IInv, OwnRun
<1>10. RaceInv'
  <2>1. RaceInv /\ (Busy' => Busy) /\ Resting.pc = "idle"
    BY <1>5, StarterEdits DEF IInv, Busy
  <2> QED
    BY <1>1, <1>4, <1>5, <2>1 DEF RaceInv
<1>11. ASSUME NEW e \in Executor PROVE WaitInv(e)'
  BY <1>1, WaitKept DEF IInv
<1> QED
  BY <1>6, <1>7, <1>8, <1>9, <1>10, <1>11 DEF IInv

-----------------------------------------------------------------------------
(* Workers.                                                                *)

LEMMA ClaimStep ==
    ASSUME TypeOK, IInv, NEW e \in Executor, NEW r \in RunId, Claim(e, r)
    PROVE  (TypeOK /\ IInv)'
<1>1. /\ executor[e].pc = "idle" /\ messages' = messages \ {r}
      /\ UNCHANGED <<release, starter, job, history, faults>>
  BY DEF Claim
<1>2. CASE runs[r].status # "queued"
  <2>1. UNCHANGED <<runs, executor>>
    BY <1>2 DEF Claim
  <2>2. TypeOK'
    BY <1>1, <2>1 DEF TypeOK
  <2>3. (\A s \in Starter : StarterInv(s)') /\ RaceInv'
    BY <1>1, <2>1, StatusKept DEF Steady
  <2>4. OwnRun' /\ \A f \in Executor : ExecutorInv(f)'
    BY <1>1, <2>1 DEF IInv, OwnRun, ExecutorInv
  <2>5. ASSUME NEW f \in Executor PROVE WaitInv(f)'
    BY <1>1, <2>1, WaitKept DEF IInv
  <2> QED
    BY <2>2, <2>3, <2>4, <2>5 DEF IInv
<1>3. CASE runs[r].status = "queued"
  <2> DEFINE y == [pc |-> "loop", run |-> r, at |-> 1]
  <2>1. PICK x \in Run : runs' = [runs EXCEPT ![r] = x] /\ x.status = "running"
    <3>1. runs[r] \in Run /\ "running" \in Status
      BY DEF TypeOK, Status, Active
    <3> DEFINE z == [runs[r] EXCEPT !.status = "running"]
    <3>2. z \in Run /\ z.status = "running"
      BY <3>1, RunEdits, StatusEdits
    <3>3. runs' = [runs EXCEPT ![r] = z]
      BY <1>3 DEF Claim, TypeOK
    <3> HIDE DEF z
    <3> QED
      BY <3>2, <3>3
  <2>2. executor' = [executor EXCEPT ![e] = y] /\ y \in ExecutorSlot
    BY <1>3, ExecutorEdits DEF Claim
  <2>3. y.pc = "loop" /\ y.run = r /\ y.at = 1
    OBVIOUS
  <2> HIDE DEF y
  <2>4. /\ runs' \in [RunId -> Run]
        /\ \A q \in RunId : runs'[q] = IF q = r THEN x ELSE runs[q]
    BY <2>1 DEF TypeOK
  <2>5. /\ executor' \in [Executor -> ExecutorSlot]
        /\ \A f \in Executor : executor'[f] = IF f = e THEN y ELSE executor[f]
    BY <2>2 DEF TypeOK
  <2>6. TypeOK'
    BY <1>1, <2>4, <2>5 DEF TypeOK
  <2>7. /\ \A q \in RunId : runs'[q].status \in Active => runs[q].status \in Active
        /\ \A q \in RunId : runs[q].status # "absent" => runs'[q].status # "absent"
    BY <1>3, <2>1, <2>4 DEF Active
  <2>8. \A f \in Executor : executor[f].run # r
    BY <1>3, NoRunIsNone DEF IInv, ExecutorInv
  <2>9. ASSUME NEW s \in Starter PROVE StarterInv(s)'
    <3>1. StarterInv(s)
      BY DEF IInv
    <3> QED
      BY <1>1, <2>7, <3>1 DEF StarterInv
  <2>10. ASSUME NEW f \in Executor PROVE ExecutorInv(f)'
    <3>1. CASE f = e
      <4>1. Len(release.order) \in Nat
        BY OrderFits, Releases DEF TypeOK
      <4>2. executor'[f] = y /\ runs'[r] = x /\ r # NoRun
        BY <2>4, <2>5, <3>1, NoRunIsNone
      <4> QED
        BY <1>1, <2>1, <2>3, <4>1, <4>2 DEF ExecutorInv
    <3>2. CASE f # e
      <4>1. ExecutorInv(f) /\ executor'[f] = executor[f]
        BY <2>5, <3>2 DEF IInv
      <4>2. executor[f].run \in RunId \cup {NoRun}
        BY ExecutorEdits DEF TypeOK
      <4>3. executor[f].run # NoRun => runs'[executor[f].run] = runs[executor[f].run]
        BY <2>4, <2>8, <4>2
      <4> QED
        BY <1>1, <4>1, <4>3 DEF ExecutorInv
    <3> QED
      BY <3>1, <3>2
  <2>11. OwnRun'
    BY <2>3, <2>5, <2>8 DEF IInv, OwnRun
  <2>12. RaceInv'
    <3>1. RaceInv /\ (Busy' => Busy)
      BY <2>7 DEF IInv, Busy
    <3> QED
      BY <1>1, <2>7, <3>1 DEF RaceInv
  <2>13. ASSUME NEW f \in Executor PROVE WaitInv(f)'
    <3>1. WaitInv(f) /\ release' = release /\ job' = job
      BY <1>1 DEF IInv
    <3> QED
      BY <2>3, <2>5, <3>1 DEF WaitInv, NodeOf
  <2> QED
    BY <2>6, <2>9, <2>10, <2>11, <2>12, <2>13 DEF IInv
<1> QED
  BY <1>2, <1>3

\* Writing the status of a node leaves the status of the runs alone.
LEMMA BecomeKeeps ==
    ASSUME TypeOK, NEW e \in Executor, NEW st, executor[e].run \in RunId, Become(e, st),
           NodeOf(e) \in Node => st \in NodeStatus
    PROVE  /\ runs' \in [RunId -> Run]
           /\ \A r \in RunId : runs'[r].status = runs[r].status
<1> DEFINE r == executor[e].run
           f == [runs[r].node EXCEPT ![NodeOf(e)] = st]
           z == [runs[r] EXCEPT !.node = f]
<1>1. runs[r] \in Run /\ runs[r].node \in [Node -> NodeStatus]
  BY RunFields DEF TypeOK, NodeStatus
<1>2. f \in [Node -> NodeStatus]
  BY <1>1
<1>3. runs' = [runs EXCEPT ![r] = z]
  BY <1>1 DEF Become, TypeOK
<1>4. z \in Run /\ z.status = runs[r].status
  BY <1>1, <1>2, RunEdits, StatusEdits
<1> HIDE DEF z, f
<1> QED
  BY <1>3, <1>4 DEF TypeOK

\* What a node of the run in hand can become is a status.
LEMMA WorkStatus ==
    ASSUME TypeOK, NEW e \in Executor, NEW n \in Node, executor[e].run \in RunId
    PROVE  job[executor[e].run][n] \in {"none", "active", "succeeded", "failed"}
BY DEF TypeOK

LEMMA WorkStep ==
    ASSUME TypeOK, IInv, NEW e \in Executor, Work(e)
    PROVE  (TypeOK /\ IInv)'
<1> DEFINE x == executor[e]
<1>0. x \in ExecutorSlot /\ ExecutorInv(e) /\ WaitInv(e)
  BY DEF TypeOK, IInv
<1>1. x.pc \in ExecutorPc /\ x.run \in RunId \cup {NoRun} /\ x.at \in At /\ x.at \in Nat
  <2>1. x.pc \in ExecutorPc /\ x.run \in RunId \cup {NoRun} /\ x.at \in At
    BY <1>0, ExecutorEdits
  <2> QED
    BY <2>1 DEF At
<1>2. x.pc # "idle" => x.run \in RunId
  BY <1>0, <1>1 DEF ExecutorInv
<1>3. Len(release.order) \in Nat /\ Len(release.order) <= Cardinality(Node)
  BY OrderFits, Releases DEF TypeOK
<1>4. CASE End(e)
  <2>1. /\ x.pc = "loop" /\ executor' = [executor EXCEPT ![e] = Idle]
        /\ UNCHANGED <<release, messages, starter, job, history, faults>>
    BY <1>4 DEF End
  <2>2. PICK st \in Ended : runs' = [runs EXCEPT ![x.run].status = st]
    <3>1. Outcome(RunOf(e)) \in Ended
      BY DEF Outcome, Ended
    <3> QED
      BY <1>4, <3>1 DEF End
  <2>3. x.run \in RunId /\ runs[x.run] \in Run /\ st \in Status
    BY <1>2, <2>1 DEF TypeOK, Status
  <2> DEFINE z == [runs[x.run] EXCEPT !.status = st]
  <2>4. z \in Run /\ z.status = st
    BY <2>3, RunEdits, StatusEdits
  <2>5. runs' = [runs EXCEPT ![x.run] = z]
    BY <2>2, <2>3 DEF TypeOK
  <2> HIDE DEF z
  <2>6. runs' \in [RunId -> Run] /\ \A r \in RunId : runs'[r] = IF r = x.run THEN z ELSE runs[r]
    BY <2>3, <2>4, <2>5 DEF TypeOK
  <2>7. executor' \in [Executor -> ExecutorSlot] /\ IInv'
    BY <2>1, <2>4, <2>6, Leaves
  <2> QED
    BY <2>1, <2>6, <2>7 DEF TypeOK
<1>5. CASE ~End(e)
  <2>1. /\ UNCHANGED <<release, messages, starter, history, faults>>
        /\ x.pc # "idle" /\ x.run \in RunId
    BY <1>2, <1>5 DEF Work, Enter, Decide, Submit, Wait, Perform
  <2>2. PICK y \in ExecutorSlot :
          /\ executor' = [executor EXCEPT ![e] = y] /\ y.run = x.run
          /\ \/ Goto(e, y.pc) /\ y.pc \in {"decide", "perform", "wait"} /\ y.at = x.at
             \/ NextNode(e) /\ x.pc # "loop" /\ y.pc = "loop" /\ y.at = x.at + 1
    <3>1. /\ x.pc # "loop" => x.at <= Len(release.order)
          /\ Enter(e) => x.at <= Len(release.order)
      BY <1>0, <1>1, <2>1 DEF ExecutorInv, Enter, ExecutorPc
    <3>2. CASE \E pc \in {"decide", "perform", "wait"} : Goto(e, pc)
      <4>1. PICK pc \in {"decide", "perform", "wait"} : Goto(e, pc)
        BY <3>2
      <4> DEFINE z == [x EXCEPT !.pc = pc]
      <4>2. pc \in ExecutorPc /\ pc # "idle"
        BY <4>1 DEF ExecutorPc
      <4>3. z \in ExecutorSlot /\ z.pc = pc /\ z.run = x.run /\ z.at = x.at
        BY <1>0, <4>2, ExecutorEdits
      <4>4. executor' = [executor EXCEPT ![e] = z]
        BY <4>1 DEF Goto, TypeOK
      <4> HIDE DEF z
      <4> QED
        BY <4>1, <4>3, <4>4
    <3>3. CASE NextNode(e) /\ x.pc # "loop"
      <4> DEFINE z == [x EXCEPT !.pc = "loop", !.at = @ + 1]
      <4>1. x.at + 1 \in At
        BY <1>1, <1>3, <3>1, <3>3, Releases DEF At
      <4>2. z \in ExecutorSlot /\ z.pc = "loop" /\ z.run = x.run /\ z.at = x.at + 1
        BY <1>0, <4>1, ExecutorEdits
      <4>3. executor' = [executor EXCEPT ![e] = z]
        BY <3>3 DEF NextNode, TypeOK
      <4> HIDE DEF z
      <4> QED
        BY <3>3, <4>2, <4>3
    <3>4. \/ \E pc \in {"decide", "perform", "wait"} : Goto(e, pc)
          \/ NextNode(e) /\ x.pc # "loop"
      BY <1>5 DEF Work, Enter, Decide, Submit, Wait, Perform
    <3> QED
      BY <3>2, <3>3, <3>4
  <2>3. /\ y.pc # "idle" /\ y.at <= Len(release.order) + 1
        /\ y.pc \in {"decide", "perform", "wait"} => y.at <= Len(release.order)
    <3>1. CASE y.pc # "loop"
      <4>1. y.at = x.at /\ y.pc \in {"decide", "perform", "wait"}
        BY <2>2, <3>1
      <4>2. Goto(e, y.pc) => x.at <= Len(release.order)
        BY <1>0, <1>1, <1>5, <2>1 DEF Work, Enter, Decide, Submit, Wait, Perform, ExecutorInv, ExecutorPc
      <4> QED
        BY <1>1, <1>3, <2>2, <3>1, <4>1, <4>2
    <3>2. CASE y.pc = "loop"
      <4>1. y.at = x.at + 1 /\ x.pc \in {"decide", "perform", "wait"}
        BY <1>1, <2>1, <2>2, <3>2 DEF ExecutorPc
      <4> QED
        BY <1>0, <1>1, <1>3, <3>2, <4>1 DEF ExecutorInv
    <3> QED
      BY <3>1, <3>2
  <2>4. runs' \in [RunId -> Run] /\ \A r \in RunId : runs'[r].status = runs[r].status
    <3>1. CASE UNCHANGED runs
      BY <3>1 DEF TypeOK
    <3>2. CASE \E st : Become(e, st) /\ (NodeOf(e) \in Node => st \in NodeStatus)
      BY <2>1, <3>2, BecomeKeeps
    <3>3. {"queued", "skipped", "succeeded", "running", "failed"} \subseteq NodeStatus
      BY DEF NodeStatus, Active, NodeEnded
    <3>4. CASE Wait(e)
      <4> DEFINE status == job[x.run][NodeOf(e)]
                 st == IF status = "active" THEN "failed" ELSE status
      <4>1. Become(e, st) /\ x.pc = "wait"
        BY <3>4 DEF Wait
      <4>2. NodeOf(e) \in Node => status \in {"active", "succeeded", "failed"}
        BY <1>0, <2>1, <4>1, WorkStatus DEF WaitInv
      <4>3. NodeOf(e) \in Node => st \in NodeStatus
        BY <3>3, <4>2
      <4> HIDE DEF st
      <4> QED
        BY <3>2, <4>1, <4>3
    <3> QED
      BY <1>5, <3>1, <3>2, <3>3, <3>4 DEF Work, Enter, Decide, Submit, Perform
  <2>5. \/ UNCHANGED job /\ (y.pc = "wait" => x.pc = "wait")
        \/ job' = [job EXCEPT ![x.run][NodeOf(e)] = "active"]
    <3>1. executor'[e] = y
      BY <2>2 DEF TypeOK
    <3>2. ASSUME NEW pc \in ExecutorPc, Goto(e, pc) PROVE y.pc = pc
      <4> DEFINE z == [x EXCEPT !.pc = pc]
      <4>1. executor'[e] = z
        BY <3>2 DEF Goto, TypeOK
      <4>2. z.pc = pc
        BY <1>0, ExecutorEdits
      <4> QED
        BY <3>1, <4>1, <4>2
    <3>3. ASSUME NextNode(e) PROVE y.pc = "loop"
      <4> DEFINE z == [x EXCEPT !.pc = "loop", !.at = @ + 1]
      <4>1. executor'[e] = z
        BY <3>3 DEF NextNode, TypeOK
      <4>2. z.pc = "loop"
        BY <1>0, ExecutorEdits
      <4> QED
        BY <3>1, <4>1, <4>2
    <3>4. CASE Submit(e)
      BY <3>4 DEF Submit
    <3>5. CASE ~Submit(e)
      <4>1. UNCHANGED job /\ (Goto(e, "decide") \/ Goto(e, "perform") \/ NextNode(e))
        BY <1>5, <3>5 DEF Work, Enter, Decide, Wait, Perform
      <4>2. {"decide", "perform"} \subseteq ExecutorPc
        BY DEF ExecutorPc
      <4> QED
        BY <3>2, <3>3, <4>1, <4>2
    <3> QED
      BY <3>4, <3>5
  <2>6. /\ job' \in [RunId -> [Node -> {"none", "active", "succeeded", "failed"}]]
        /\ \A r \in RunId, n \in Node :
              job'[r][n] = job[r][n] \/ job'[r][n] = "active"
        /\ y.pc = "wait" /\ NodeOf(e) \in Node => job'[x.run][NodeOf(e)] # "none"
    <3>1. CASE UNCHANGED job /\ (y.pc = "wait" => x.pc = "wait")
      <4>1. job' = job /\ job \in [RunId -> [Node -> {"none", "active", "succeeded", "failed"}]]
        BY <3>1 DEF TypeOK
      <4> QED
        BY <1>0, <2>1, <3>1, <4>1 DEF WaitInv
    <3>2. CASE job' = [job EXCEPT ![x.run][NodeOf(e)] = "active"]
      <4> DEFINE f == [job[x.run] EXCEPT ![NodeOf(e)] = "active"]
      <4>1. job[x.run] \in [Node -> {"none", "active", "succeeded", "failed"}]
        BY <2>1 DEF TypeOK
      <4>2. /\ f \in [Node -> {"none", "active", "succeeded", "failed"}]
            /\ \A n \in Node : f[n] = IF n = NodeOf(e) THEN "active" ELSE job[x.run][n]
        BY <4>1
      <4>3. job' = [job EXCEPT ![x.run] = f]
        BY <2>1, <3>2 DEF TypeOK
      <4> HIDE DEF f
      <4>4. /\ job' \in [RunId -> [Node -> {"none", "active", "succeeded", "failed"}]]
            /\ \A r \in RunId : job'[r] = IF r = x.run THEN f ELSE job[r]
        BY <4>2, <4>3 DEF TypeOK
      <4> QED
        BY <2>1, <4>2, <4>4
    <3> QED
      BY <2>5, <3>1, <3>2
  <2>7. executor' \in [Executor -> ExecutorSlot] /\ IInv'
    <3>1. y.pc = "wait" /\ Order[release][y.at] \in Node =>
             job'[y.run][Order[release][y.at]] # "none"
      <4>1. y.pc = "wait" => y.at = x.at
        BY <2>2
      <4> QED
        BY <2>2, <2>6, <4>1 DEF NodeOf
    <3>2. \A r \in RunId, n \in Node : job[r][n] # "none" => job'[r][n] # "none"
      BY <2>6
    <3>3. Steady /\ executor[e].pc # "idle" /\ y.run = executor[e].run
      BY <2>1, <2>2 DEF Steady
    <3> QED
      BY <2>2, <2>3, <2>4, <3>1, <3>2, <3>3, GoesOn
  <2> QED
    BY <2>1, <2>4, <2>6, <2>7 DEF TypeOK
<1> QED
  BY <1>4, <1>5

-----------------------------------------------------------------------------
(* Failures, and the tasks that runs wait for.                             *)

LEMMA BreakStep ==
    ASSUME TypeOK, IInv, NEW e \in Executor, Break(e) \/ Crash(e) \/ Redeliver(e)
    PROVE  (TypeOK /\ IInv)'
<1> DEFINE r == executor[e].run
<1>1. /\ r \in RunId \cup {NoRun} /\ executor[e].pc # "idle" /\ ExecutorInv(e)
      /\ UNCHANGED <<release, starter, job>> /\ faults' = faults + 1
  BY ExecutorEdits DEF TypeOK, IInv, Break, Crash, Redeliver, Fault
<1>2. r \in RunId
  BY <1>1 DEF ExecutorInv
<1>3. /\ history' \in [lost : SUBSET RunId, doubted : SUBSET RunId, raced : BOOLEAN]
      /\ history'.doubted = history.doubted /\ history'.raced = history.raced
      /\ messages' \subseteq RunId
  <2>1. history' = history \/ history' = [history EXCEPT !.lost = @ \cup {r}]
    BY DEF Break, Crash, Redeliver
  <2>2. messages' = messages \/ messages' = messages \cup {r}
    BY DEF Break, Crash, Redeliver
  <2> QED
    BY <1>2, <2>1, <2>2 DEF TypeOK
<1>4. CASE Redeliver(e)
  <2>1. UNCHANGED <<release, runs, starter, executor, job, history>>
    BY <1>4 DEF Redeliver
  <2>2. (\A s \in Starter : StarterInv(s)') /\ RaceInv'
    BY <2>1, StatusKept DEF Steady
  <2>3. OwnRun' /\ \A f \in Executor : ExecutorInv(f)'
    BY <2>1 DEF IInv, OwnRun, ExecutorInv
  <2>4. ASSUME NEW f \in Executor PROVE WaitInv(f)'
    BY <2>1, WaitKept DEF IInv
  <2> QED
    BY <1>1, <1>3, <2>1, <2>2, <2>3, <2>4 DEF IInv, TypeOK
<1>5. CASE Break(e) \/ Crash(e)
  <2>1. executor' = [executor EXCEPT ![e] = Idle]
    BY <1>5 DEF Break, Crash
  <2> DEFINE f == [n \in Node |-> IF runs[r].node[n] \in Active THEN "failed" ELSE runs[r].node[n]]
             z == [runs[r] EXCEPT !.status = "failed", !.node = f]
  <2>2. z \in Run /\ z.status = "failed"
    <3>1. runs[r] \in Run /\ "failed" \in Status
      BY <1>2 DEF TypeOK, Status, Ended
    <3>2. runs[r].node \in [Node -> NodeStatus] /\ "failed" \in NodeStatus
      BY <3>1, RunFields DEF NodeStatus, NodeEnded
    <3>3. f \in [Node -> NodeStatus]
      BY <3>2
    <3> HIDE DEF f
    <3> QED
      BY ZenonT(60), <3>1, <3>3, RunEdits, StatusEdits
  <2>3. runs' = runs \/ runs' = [runs EXCEPT ![r] = z]
    BY <1>5 DEF Break, Crash
  <2> HIDE DEF z
  <2>4. /\ runs' \in [RunId -> Run]
        /\ \A q \in RunId : \/ runs'[q] = runs[q]
                            \/ q = r /\ runs'[q] = z
    BY <1>2, <2>2, <2>3 DEF TypeOK
  <2>5. \A q \in RunId : \/ runs'[q].status = runs[q].status
                         \/ q = r /\ runs'[q].status \in Ended
    BY <2>2, <2>4 DEF Ended
  <2>6. executor' \in [Executor -> ExecutorSlot] /\ IInv'
    BY <1>1, <1>3, <2>1, <2>5, Leaves
  <2> QED
    BY <1>1, <1>3, <2>4, <2>6 DEF TypeOK
<1> QED
  BY <1>4, <1>5

LEMMA JobEndsStep ==
    ASSUME TypeOK, IInv, NEW r \in RunId, NEW n \in Node,
           NEW outcome \in {"succeeded", "failed"}, JobEnds(r, n, outcome)
    PROVE  (TypeOK /\ IInv)'
<1>1. /\ job' = [job EXCEPT ![r][n] = outcome]
      /\ UNCHANGED <<release, runs, messages, starter, executor, history, faults>>
  BY DEF JobEnds
<1>2. /\ job' \in [RunId -> [Node -> {"none", "active", "succeeded", "failed"}]]
      /\ \A q \in RunId, m \in Node : job'[q][m] = job[q][m] \/ job'[q][m] = outcome
  BY <1>1 DEF TypeOK
<1>3. TypeOK'
  BY <1>1, <1>2 DEF TypeOK
<1>4. (\A s \in Starter : StarterInv(s)') /\ RaceInv'
  BY <1>1, StatusKept DEF Steady
<1>5. OwnRun' /\ \A f \in Executor : ExecutorInv(f)'
  BY <1>1 DEF IInv, OwnRun, ExecutorInv
<1>6. ASSUME NEW e \in Executor PROVE WaitInv(e)'
  <2>1. /\ WaitInv(e) /\ ExecutorInv(e) /\ executor[e].run \in RunId \cup {NoRun}
        /\ executor' = executor /\ release' = release
    BY <1>1, ExecutorEdits DEF IInv, TypeOK
  <2>2. executor[e].pc = "wait" => executor[e].run \in RunId
    BY <2>1 DEF ExecutorInv
  <2> QED
    BY <1>2, <2>1, <2>2 DEF WaitInv, NodeOf
<1> QED
  BY <1>3, <1>4, <1>5, <1>6 DEF IInv

-----------------------------------------------------------------------------
(* What holds of every run.                                                *)

LEMMA InitInv == Init => TypeOK /\ IInv
<1> SUFFICES ASSUME Init PROVE TypeOK /\ IInv
  OBVIOUS
<1>1. /\ release \in ValidRelease /\ messages = {} /\ faults = 0
      /\ runs = [r \in RunId |-> NoRunYet] /\ starter = [s \in Starter |-> Resting]
      /\ executor = [e \in Executor |-> Idle]
      /\ job = [r \in RunId |-> [n \in Node |-> "none"]]
      /\ history = [lost |-> {}, doubted |-> {}, raced |-> FALSE]
  BY DEF Init
<1>2. NoRunYet \in Run /\ Resting \in StarterSlot /\ Idle \in ExecutorSlot
  BY RunFields, StarterEdits, ExecutorEdits
<1>3. TypeOK
  BY <1>1, <1>2 DEF TypeOK
<1>4. /\ \A r \in RunId : runs[r].status = "absent"
      /\ \A s \in Starter : starter[s].pc = "idle"
      /\ \A e \in Executor : executor[e] = Idle
  BY <1>1, RunFields, StarterEdits
<1>5. Len(release.order) \in Nat
  BY <1>1, Releases, OrderFits
<1>6. IInv
  BY <1>4, <1>5, IdleFields
     DEF IInv, StarterInv, ExecutorInv, WaitInv, OwnRun, RaceInv, Active
<1> QED
  BY <1>3, <1>6

LEMMA StepInv == TypeOK /\ IInv /\ [Next]_vars => (TypeOK /\ IInv)'
<1> SUFFICES ASSUME TypeOK, IInv, [Next]_vars PROVE (TypeOK /\ IInv)'
  OBVIOUS
<1>1. CASE \E s \in Starter :
             \/ \E k \in Kind, trigger \in Node \cup {NoNode} : Check(s, k, trigger)
             \/ Insert(s) \/ Send(s) \/ SendFails(s) \/ MarkFailed(s) \/ Vanish(s)
  BY <1>1, CheckStep, InsertStep, SendStep, MarkFailedStep
<1>2. CASE \E e \in Executor :
             \/ \E r \in RunId : Claim(e, r)
             \/ Work(e) \/ Break(e) \/ Crash(e) \/ Redeliver(e)
  BY <1>2, ClaimStep, WorkStep, BreakStep
<1>3. CASE \E r \in RunId, n \in Node, outcome \in {"succeeded", "failed"} :
             JobEnds(r, n, outcome)
  BY <1>3, JobEndsStep
<1>4. CASE UNCHANGED vars
  <2>1. UNCHANGED <<release, runs, messages, starter, executor, job, history, faults>>
    BY <1>4 DEF vars
  <2>2. TypeOK'
    BY <2>1 DEF TypeOK
  <2>3. (\A s \in Starter : StarterInv(s)') /\ RaceInv'
    BY <2>1, StatusKept DEF Steady
  <2>4. OwnRun' /\ \A f \in Executor : ExecutorInv(f)'
    BY <2>1 DEF IInv, OwnRun, ExecutorInv
  <2>5. ASSUME NEW f \in Executor PROVE WaitInv(f)'
    BY <2>1, WaitKept DEF IInv
  <2> QED
    BY <2>2, <2>3, <2>4, <2>5 DEF IInv
<1> QED
  BY <1>1, <1>2, <1>3, <1>4 DEF Next

(* The inductive invariant: what starters and workers in the middle of      *)
(* prepare_workflow_run, run_version and _execute_run hold is still so in   *)
(* the database, and no two of them hold the same run.                      *)
THEOREM Inductive == Spec => [](TypeOK /\ IInv)
<1>1. Init => TypeOK /\ IInv
  BY InitInv
<1>2. TypeOK /\ IInv /\ [Next]_vars => (TypeOK /\ IInv)'
  BY StepInv
<1> QED
  BY <1>1, <1>2, PTL DEF Spec

(* Every variable keeps its type: the runs and their node runs, the messages *)
(* and the slots of starters and workers; no worker gets past the end of the *)
(* order (DataPlatformWorkflowRun, _execute_run).                            *)
THEOREM TypeCorrect == Spec => []TypeOK
BY Inductive, PTL

LEMMA AtMostOne ==
    ASSUME NEW S, \A x, y \in S : x = y
    PROVE  Cardinality(S) <= 1
<1>1. CASE S = {}
  BY <1>1, FS_EmptySet
<1>2. CASE S # {}
  <2>1. PICK x \in S : TRUE
    BY <1>2
  <2>2. S = {x}
    BY <2>1
  <2> QED
    BY <2>2, FS_Singleton
<1> QED
  BY <1>1, <1>2

(* A version has one run at a time, queued, running or in the hands of a     *)
(* worker, unless two starters were past the check at once or one of them    *)
(* was told that the send had failed (prepare_workflow_run, _execute_run).   *)
THEOREM OneRun == Spec => []OneRunPerVersion
<1>1. TypeOK /\ IInv => OneRunPerVersion
  <2> SUFFICES ASSUME TypeOK, IInv, ~history.raced, history.doubted = {}
               PROVE  Cardinality({r \in RunId : \/ runs[r].status \in Active
                                                \/ \E e \in Executor : executor[e].run = r}) <= 1
    BY DEF OneRunPerVersion
  <2> DEFINE S == {r \in RunId : \/ runs[r].status \in Active
                                \/ \E e \in Executor : executor[e].run = r}
  <2>1. ASSUME NEW r \in S PROVE r \in RunId /\ runs[r].status \in Active
    <3>1. CASE runs[r].status \in Active
      BY <3>1
    <3>2. ASSUME NEW e \in Executor, executor[e].run = r PROVE runs[r].status = "running"
      BY <3>2, NoRunIsNone DEF IInv, ExecutorInv
    <3> QED
      BY <3>1, <3>2 DEF Active
  <2>2. \A q, r \in S : q = r
    BY <2>1 DEF IInv, RaceInv
  <2> HIDE DEF S
  <2>3. Cardinality(S) <= 1
    BY <2>2, AtMostOne
  <2> QED
    BY <2>3 DEF S
<1> QED
  BY <1>1, Inductive, PTL

\* A worker writes to no run but its own.
LEMMA WorkerWrites ==
    ASSUME NEW e \in Executor, TypeOK, Work(e) \/ Break(e) \/ Crash(e) \/ Redeliver(e)
    PROVE  /\ UNCHANGED runs \/ executor[e].pc # "idle"
           /\ \A r \in RunId \ {executor[e].run} : runs'[r] = runs[r]
<1>1. CASE Work(e)
  BY SMTT(60), <1>1 DEF TypeOK, Work, Enter, Decide, Perform, Submit, Wait, End, Become
<1>2. CASE Break(e) \/ Crash(e) \/ Redeliver(e)
  BY <1>2 DEF TypeOK, Break, Crash, Redeliver
<1> QED
  BY <1>1, <1>2

\* The outcome of a run is not written by who is not at it.
LEMMA StepOutcome ==
    TypeOK /\ IInv /\ [Next]_vars =>
        \A r \in RunId : runs[r].status \in Ended /\ r \notin history.doubted =>
            runs'[r].status = runs[r].status
<1> SUFFICES ASSUME TypeOK, IInv, [Next]_vars, NEW r \in RunId,
                    runs[r].status \in Ended, r \notin history.doubted
             PROVE  runs'[r] = runs[r]
  OBVIOUS
<1>1. CASE \E s \in Starter :
             \/ \E k \in Kind, trigger \in Node \cup {NoNode} : Check(s, k, trigger)
             \/ Send(s) \/ SendFails(s) \/ Vanish(s)
  BY <1>1 DEF Check, Send, SendFails, Vanish
<1>2. ASSUME NEW s \in Starter, Insert(s) PROVE runs'[r] = runs[r]
  <2>1. runs[r].status # "absent"
    BY DEF Ended
  <2> QED
    BY <1>2, <2>1 DEF Insert, TypeOK
<1>3. ASSUME NEW s \in Starter, MarkFailed(s) PROVE runs'[r] = runs[r]
  <2>1. starter[s].run \in history.doubted
    BY <1>3 DEF MarkFailed, IInv, StarterInv
  <2> QED
    BY <1>3, <2>1 DEF MarkFailed, TypeOK
<1>4. ASSUME NEW e \in Executor, NEW q \in RunId, Claim(e, q) PROVE runs'[r] = runs[r]
  <2>1. runs[r].status # "queued"
    BY DEF Ended
  <2> QED
    BY <1>4, <2>1 DEF Claim, TypeOK
<1>5. ASSUME NEW e \in Executor, Work(e) \/ Break(e) \/ Crash(e) \/ Redeliver(e)
      PROVE  runs'[r] = runs[r]
  <2>1. executor[e].run # r
    BY NoRunIsNone DEF IInv, ExecutorInv, Ended
  <2> QED
    BY <1>5, <2>1, WorkerWrites
<1>6. CASE \E q \in RunId, n \in Node, outcome \in {"succeeded", "failed"} :
             JobEnds(q, n, outcome)
  BY <1>6 DEF JobEnds
<1> QED
  BY <1>1, <1>2, <1>3, <1>4, <1>5, <1>6 DEF Next, vars

-----------------------------------------------------------------------------
(* Natural numbers.                                                        *)

LEMMA Least == \E R : IsWellFoundedOn(R, Nat) /\ \A x, y \in Nat : y < x => <<y, x>> \in R
<1> DEFINE R == OpToRel(<, Nat)
<1>1. IsWellFoundedOn(R, Nat)
  BY NatLessThanWellFounded
<1>2. \A x, y \in Nat : y < x => <<y, x>> \in R
  BY DEF OpToRel
<1> HIDE DEF R
<1> QED
  BY <1>1, <1>2

LEMMA LeastNat == ASSUME NEW T, T \subseteq Nat, T # {} PROVE \E x \in T : \A y \in T : x <= y
<1>1. PICK R : IsWellFoundedOn(R, Nat) /\ \A x, y \in Nat : y < x => <<y, x>> \in R
  BY Least
<1>2. PICK x \in T : \A y \in T : ~(<<y, x>> \in R)
  BY <1>1, WFMin
<1>3. ASSUME NEW y \in T PROVE  x <= y
  <2>1. x \in Nat /\ y \in Nat
    OBVIOUS
  <2>2. ~(y < x)
    BY <1>1, <1>2, <2>1
  <2> QED
    BY <2>1, <2>2
<1> QED
  BY <1>3

\* Induction over a set of natural numbers.
LEMMA AllNat ==
    ASSUME NEW T, 0 \in T, \A n \in Nat : n \in T => n + 1 \in T
    PROVE  Nat \subseteq T
<1> SUFFICES ASSUME ~(Nat \subseteq T) PROVE FALSE
  OBVIOUS
<1> DEFINE S == Nat \ T
<1>1. S \subseteq Nat /\ S # {}
  OBVIOUS
<1> HIDE DEF S
<1>2. PICK x \in S : \A y \in S : x <= y
  BY <1>1, LeastNat
<1>3. x \in Nat /\ x \notin T
  BY <1>2 DEF S
<1>4. x - 1 \in Nat
  BY <1>3
<1>5. x - 1 \notin S
  BY <1>2, <1>3, <1>4
<1>6. x - 1 \in T
  BY <1>4, <1>5 DEF S
<1> QED
  BY <1>3, <1>4, <1>6

-----------------------------------------------------------------------------
(* Sorting.                                                                *)
Rank(S) == [m \in S |-> Cardinality({k \in S : k <= m})]

LEMMA RankIsBijective ==
    ASSUME NEW S, S \subseteq Int, IsFiniteSet(S)
    PROVE  /\ Cardinality(S) \in Nat
           /\ Rank(S) \in Injection(S, 1 .. Cardinality(S))
           /\ Rank(S) \in Surjection(S, 1 .. Cardinality(S))
<1> DEFINE N == Cardinality(S)
           Upto(m) == {k \in S : k <= m}
<1>1. N \in Nat
  BY FS_CardinalityType
<1>2. ASSUME NEW m \in S PROVE IsFiniteSet(Upto(m)) /\ Cardinality(Upto(m)) \in 1 .. N
  <2>1. Upto(m) \in SUBSET S /\ m \in Upto(m)
    OBVIOUS
  <2>2. IsFiniteSet(Upto(m)) /\ Cardinality(Upto(m)) <= N
    BY <2>1, FS_Subset
  <2>3. Cardinality(Upto(m)) \in Nat
    BY <2>2, FS_CardinalityType
  <2>4. Cardinality(Upto(m)) # 0
    BY <2>1, <2>2, FS_EmptySet
  <2> HIDE DEF Upto, N
  <2> QED
    BY <1>1, <2>2, <2>3, <2>4
<1>3. ASSUME NEW m \in S, NEW n \in S, m < n PROVE Cardinality(Upto(m)) # Cardinality(Upto(n))
  <2>1. Upto(m) \in SUBSET Upto(n)
    <3>1. \A k \in S : k \in Int
      OBVIOUS
    <3>2. \A k \in S : k <= m => k <= n
      BY <1>3, <3>1
    <3> QED
      BY <3>2
  <2>2. n \in Upto(n) /\ n \notin Upto(m)
    BY <1>3
  <2>3. IsFiniteSet(Upto(n))
    BY <1>2
  <2> HIDE DEF Upto
  <2>4. Cardinality(Upto(n)) = Cardinality(Upto(m)) => Upto(n) = Upto(m)
    BY <2>1, <2>3, FS_Subset
  <2> QED
    BY <2>2, <2>4
<1>4. \A m \in S : Rank(S)[m] = Cardinality(Upto(m))
  BY DEF Rank
<1>5. Rank(S) \in [S -> 1 .. N]
  BY <1>2 DEF Rank
<1>6. ASSUME NEW m \in S, NEW n \in S, m # n PROVE Rank(S)[m] # Rank(S)[n]
  <2>1. m < n \/ n < m
    BY <1>6
  <2> QED
    BY <1>3, <1>4, <2>1
<1>7. Rank(S) \in Injection(S, 1 .. N)
  BY <1>5, <1>6 DEF Injection, IsInjective
<1>8. IsFiniteSet(1 .. N) /\ Cardinality(1 .. N) = N
  BY <1>1, FS_Interval
<1>9. Rank(S) \in Surjection(S, 1 .. N)
  BY <1>7, <1>8, FS_Injection
<1> QED
  BY <1>1, <1>7, <1>9

LEMMA AscendingIs ==
    ASSUME NEW S, S \subseteq Int, IsFiniteSet(S)
    PROVE  /\ Ascending(S) \in Seq(S)
           /\ IsInjective(Ascending(S))
           /\ Range(Ascending(S)) = S
<1> DEFINE N == Cardinality(S)
<1>1. /\ N \in Nat /\ Rank(S) \in Injection(S, 1 .. N)
      /\ Rank(S) \in Surjection(S, 1 .. N)
  BY RankIsBijective
<1>2. Rank(S) \in [S -> 1 .. N]
  BY <1>1 DEF Injection
<1>3. \A i \in 1 .. N : \E m \in S : Rank(S)[m] = i
  BY <1>1 DEF Surjection
<1>4. \A i \in 1 .. N : \E m \in S : Cardinality({k \in S : k <= m}) = i
  BY <1>3 DEF Rank
<1>5. \A i \in 1 .. N : /\ Ascending(S)[i] \in S
                       /\ Rank(S)[Ascending(S)[i]] = i
  <2> SUFFICES ASSUME NEW i \in 1 .. N
               PROVE  Ascending(S)[i] \in S /\ Rank(S)[Ascending(S)[i]] = i
    OBVIOUS
  <2>1. Ascending(S)[i] = CHOOSE m \in S : Cardinality({k \in S : k <= m}) = i
    BY DEF Ascending
  <2>2. /\ Ascending(S)[i] \in S
        /\ Cardinality({k \in S : k <= Ascending(S)[i]}) = i
    BY <1>4, <2>1
  <2> QED
    BY <2>2 DEF Rank
<1>0. DOMAIN Ascending(S) = 1 .. N /\ Ascending(S) = [i \in 1 .. N |-> Ascending(S)[i]]
  BY SMTT(60) DEF Ascending
<1> HIDE DEF N
<1>6. Ascending(S) \in [1 .. N -> S]
  BY <1>0, <1>5
<1>7. Ascending(S) \in Seq(S)
  BY <1>1, <1>6
<1>8. IsInjective(Ascending(S))
  BY <1>5, <1>6 DEF IsInjective
<1>9. ASSUME NEW m \in S PROVE \E i \in 1 .. N : Ascending(S)[i] = m
  <2>1. Rank(S)[m] \in 1 .. N
    BY <1>2
  <2>2. Rank(S)[Ascending(S)[Rank(S)[m]]] = Rank(S)[m] /\ Ascending(S)[Rank(S)[m]] \in S
    BY <1>5, <2>1
  <2>3. Ascending(S)[Rank(S)[m]] = m
    BY <1>1, <2>2 DEF Injection, IsInjective
  <2> QED
    BY <2>1, <2>3
<1>10. Range(Ascending(S)) = S
  BY <1>6, <1>9 DEF Range
<1> QED
  BY <1>7, <1>8, <1>10

-----------------------------------------------------------------------------
(* The topological order.                                                  *)

LEMMA ReleaseFacts ==
    ASSUME NEW r \in ValidRelease
    PROVE  /\ r.order \in Seq(Node) /\ Len(r.order) \in Nat /\ DOMAIN r.order = 1 .. Len(r.order)
           /\ IsInjective(r.order)
           /\ Nodes(r) \subseteq Node /\ IsFiniteSet(Node) /\ Node \subseteq Int
           /\ r.edges \subseteq Nodes(r) \X Nodes(r)
           /\ Valid(r)
<1>1. r \in Release /\ Valid(r)
  BY DEF ValidRelease
<1>2. IsInjective(r.order) /\ r.edges \subseteq Range(r.order) \X Range(r.order)
  BY <1>1, WorkflowAssumption
<1>3. r \in [order : Seq(Node), edges : SUBSET (Node \X Node), type : [Node -> {"trigger", "job", "plain"}]]
  BY <1>1, WorkflowAssumption
<1>4. r.order \in Seq(Node)
  BY <1>3
<1>5. Nodes(r) \subseteq Node
  BY <1>4 DEF Nodes, Range
<1> QED
  BY <1>1, <1>2, <1>4, <1>5, WorkflowAssumption DEF Nodes

\* What has been placed, what is ready and what is left.
PlacedInv(r, s) ==
    /\ s.ready \in Seq(Nodes(r)) /\ s.placed \in Seq(Nodes(r))
    /\ \A m \in Node : s.left[m] = Upstream(r, m) \ Range(s.placed)
    /\ IsInjective(s.ready) /\ IsInjective(s.placed)
    /\ \A m \in Range(s.ready) : m \notin Range(s.placed) /\ Upstream(r, m) \subseteq Range(s.placed)
    /\ \A k \in 1 .. Len(s.placed) : \A m \in Upstream(r, s.placed[k]) : \E j \in 1 .. k - 1 : s.placed[j] = m

LEMMA StartingIs ==
    ASSUME NEW r \in ValidRelease
    PROVE  PlacedInv(r, Starting(r))
<1> DEFINE S == {i \in DOMAIN r.order : Upstream(r, r.order[i]) = {}}
           a == Ascending(S)
           q == [i \in DOMAIN a |-> r.order[a[i]]]
           N == Len(r.order)
<1>1. /\ r.order \in Seq(Node) /\ N \in Nat /\ DOMAIN r.order = 1 .. N /\ IsInjective(r.order)
  BY ReleaseFacts
<1>2. S \subseteq 1 .. N /\ IsFiniteSet(1 .. N)
  BY <1>1, FS_Interval
<1>3. IsFiniteSet(S) /\ S \subseteq Int
  BY <1>2, FS_Subset
<1> HIDE DEF N
<1>4. a \in Seq(S) /\ IsInjective(a) /\ Range(a) = S
  <2> HIDE DEF S
  <2> QED
    BY <1>3, AscendingIs
<1>5. Starting(r) = [ready |-> q, left |-> [n \in Node |-> Upstream(r, n)], placed |-> <<>>]
  BY DEF Starting
<1>6. \A i \in S : r.order[i] \in Nodes(r) /\ Upstream(r, r.order[i]) = {}
  BY DEF Nodes, Range
<1>7. \A i, j \in S : r.order[i] = r.order[j] => i = j
  BY <1>1 DEF IsInjective
<1> HIDE DEF S, a
<1>8. Len(a) \in Nat /\ DOMAIN a = 1 .. Len(a) /\ \A i \in DOMAIN a : a[i] \in S
  BY <1>4
<1>9. q \in Seq(Nodes(r)) /\ DOMAIN q = DOMAIN a /\ \A i \in DOMAIN a : q[i] = r.order[a[i]]
  <2>1. q \in [1 .. Len(a) -> Nodes(r)]
    BY <1>6, <1>8
  <2> QED
    BY <1>8, <2>1
<1>10. IsInjective(q)
  BY <1>4, <1>7, <1>8, <1>9 DEF IsInjective
<1>11. \A m \in Range(q) : Upstream(r, m) = {}
  BY <1>6, <1>8, <1>9 DEF Range
<1> HIDE DEF q
<1>12. /\ <<>> \in Seq(Nodes(r)) /\ Len(<<>>) = 0
       /\ Range(<<>>) = {} /\ IsInjective(<<>>)
  BY DEF Range, IsInjective
<1> QED
  BY <1>5, <1>9, <1>10, <1>11, <1>12 DEF PlacedInv

LEMMA ConcatIs ==
    ASSUME NEW S, NEW s \in Seq(S), NEW t \in Seq(S)
    PROVE  /\ s \o t \in Seq(S) /\ Len(s \o t) = Len(s) + Len(t) /\ Len(s) \in Nat
           /\ \A i \in 1 .. Len(s) + Len(t) : (s \o t)[i] = IF i <= Len(s) THEN s[i] ELSE t[i - Len(s)]
OBVIOUS

LEMMA PlaceIs ==
    ASSUME NEW r \in ValidRelease, NEW s, PlacedInv(r, s)
    PROVE  PlacedInv(r, Place(r, s))
<1>1. CASE s.ready = <<>>
  BY <1>1 DEF Place
<1>2. CASE s.ready # <<>>
  <2> DEFINE n == Head(s.ready)
             left == [m \in Node |-> s.left[m] \ {n}]
             freed == {m \in Downstream(r, n) :
                         left[m] = {} /\ ~Contains(s.ready, m) /\ ~Contains(s.placed, m)}
             a == Ascending(freed)
             rest == Tail(s.ready)
             ready == rest \o a
             placed == Append(s.placed, n)
  <2>0. /\ s.ready \in Seq(Nodes(r)) /\ s.placed \in Seq(Nodes(r))
        /\ \A m \in Node : s.left[m] = Upstream(r, m) \ Range(s.placed)
        /\ IsInjective(s.ready) /\ IsInjective(s.placed)
    BY DEF PlacedInv
  <2>00. \A m \in Range(s.ready) :
            m \notin Range(s.placed) /\ Upstream(r, m) \subseteq Range(s.placed)
    BY DEF PlacedInv
  <2>01. \A k \in 1 .. Len(s.placed) : \A m \in Upstream(r, s.placed[k]) :
            \E j \in 1 .. k - 1 : s.placed[j] = m
    BY DEF PlacedInv
  <2>02. Nodes(r) \subseteq Node /\ IsFiniteSet(Node) /\ Node \subseteq Int
         /\ r.edges \subseteq Nodes(r) \X Nodes(r)
    BY ReleaseFacts
  <2>1. Place(r, s) = [ready |-> ready, left |-> left, placed |-> placed]
    BY <1>2 DEF Place
  <2>2. /\ n = s.ready[1] /\ n \in Nodes(r) /\ rest \in Seq(Nodes(r))
        /\ Len(s.ready) \in Nat \ {0} /\ Len(rest) = Len(s.ready) - 1
        /\ \A i \in 1 .. Len(rest) : rest[i] = s.ready[i + 1]
    BY <1>2, <2>0
  <2>3. freed \subseteq Nodes(r) /\ IsFiniteSet(freed) /\ freed \subseteq Int
    <3>1. freed \subseteq Node /\ freed \subseteq Nodes(r)
      BY <2>02 DEF Downstream
    <3> HIDE DEF freed
    <3> QED
      BY <3>1, <2>02, FS_Subset
  <2>4. a \in Seq(freed) /\ IsInjective(a) /\ Range(a) = freed
    <3> HIDE DEF freed
    <3> QED
      BY <2>3, AscendingIs
  <2>5. \A m \in freed : left[m] = {} /\ m \notin Range(s.ready) /\ m \notin Range(s.placed)
    <3>1. \A m \in freed : left[m] = {} /\ ~Contains(s.ready, m) /\ ~Contains(s.placed, m)
      OBVIOUS
    <3> HIDE DEF freed, left
    <3>2. /\ DOMAIN s.ready = 1 .. Len(s.ready)
          /\ DOMAIN s.placed = 1 .. Len(s.placed)
      BY <2>0
    <3> QED
      BY <3>1, <3>2 DEF Contains, Range
  <2>6. \A m \in Node : left[m] = (Upstream(r, m) \ Range(s.placed)) \ {n}
    BY <2>0
  <2>7. n \in Range(s.ready)
    BY <2>2, <2>0 DEF Range
  <2> HIDE DEF n, left, freed, a, rest
  <2>8. /\ placed \in Seq(Nodes(r)) /\ Len(placed) = Len(s.placed) + 1 /\ Len(s.placed) \in Nat
        /\ \A i \in 1 .. Len(s.placed) : placed[i] = s.placed[i]
        /\ placed[Len(placed)] = n
    BY <2>0, <2>2
  <2>9. /\ a \in Seq(Nodes(r)) /\ Len(a) \in Nat /\ \A i \in 1 .. Len(a) : a[i] \in freed
        /\ DOMAIN a = 1 .. Len(a)
    <3>1. Len(a) \in Nat /\ DOMAIN a = 1 .. Len(a) /\ \A i \in 1 .. Len(a) : a[i] \in freed
      BY <2>4
    <3>2. \A i \in 1 .. Len(a) : a[i] \in Nodes(r)
      BY <2>3, <3>1
    <3>3. a = [i \in 1 .. Len(a) |-> a[i]]
      BY <2>4, <3>1
    <3>4. a \in [1 .. Len(a) -> Nodes(r)]
      BY <3>2, <3>3
    <3> QED
      BY <3>1, <3>4
  <2>10. /\ ready \in Seq(Nodes(r)) /\ Len(ready) = Len(rest) + Len(a) /\ Len(rest) \in Nat
         /\ \A i \in 1 .. Len(rest) : ready[i] = rest[i]
         /\ \A i \in 1 .. Len(ready) :
               i > Len(rest) => i - Len(rest) \in 1 .. Len(a) /\ ready[i] = a[i - Len(rest)]
    <3>1. ready \in Seq(Nodes(r)) /\ Len(ready) = Len(rest) + Len(a) /\ Len(rest) \in Nat
      BY <2>2, <2>9, ConcatIs
    <3>2. \A i \in 1 .. Len(rest) + Len(a) :
             ready[i] = IF i <= Len(rest) THEN rest[i] ELSE a[i - Len(rest)]
      BY <2>2, <2>9, ConcatIs
    <3> HIDE DEF ready
    <3> QED
      BY <2>9, <3>1, <3>2
  <2> HIDE DEF ready, placed
  <2>11. Range(placed) = Range(s.placed) \cup {n}
    <3>1. DOMAIN placed = 1 .. Len(placed) /\ DOMAIN s.placed = 1 .. Len(s.placed)
      BY <2>0, <2>8
    <3>2. Range(placed) \subseteq Range(s.placed) \cup {n}
      <4> SUFFICES ASSUME NEW i \in 1 .. Len(placed) PROVE placed[i] \in Range(s.placed) \cup {n}
        BY <3>1 DEF Range
      <4>1. i \in 1 .. Len(s.placed) \/ i = Len(placed)
        BY <2>8
      <4> QED
        BY <2>8, <3>1, <4>1 DEF Range
    <3>3. n \in Range(placed)
      BY <2>8, <3>1 DEF Range
    <3>4. \A i \in 1 .. Len(s.placed) : s.placed[i] \in Range(placed)
      BY <2>8, <3>1 DEF Range
    <3>5. Range(s.placed) \subseteq Range(placed)
      BY <3>1, <3>4 DEF Range
    <3> QED
      BY <3>2, <3>3, <3>5
  <2>12. IsInjective(placed)
    <3>1. DOMAIN placed = 1 .. Len(placed) /\ DOMAIN s.placed = 1 .. Len(s.placed)
      BY <2>0, <2>8
    <3>2. \A i \in 1 .. Len(s.placed) : placed[i] # n
      BY <2>00, <2>7, <2>8, <3>1 DEF Range
    <3>3. ASSUME NEW i \in DOMAIN placed, NEW j \in DOMAIN placed, placed[i] = placed[j]
          PROVE  i = j
      <4>1. /\ i \in 1 .. Len(s.placed) \/ i = Len(placed)
            /\ j \in 1 .. Len(s.placed) \/ j = Len(placed)
        BY <2>8, <3>1
      <4>2. CASE i \in 1 .. Len(s.placed) /\ j \in 1 .. Len(s.placed)
        BY <2>0, <2>8, <3>1, <3>3, <4>2 DEF IsInjective
      <4>3. CASE i = Len(placed) \/ j = Len(placed)
        BY <2>8, <3>2, <3>3, <4>1, <4>3
      <4> QED
        BY <4>1, <4>2, <4>3
    <3> QED
      BY <3>3 DEF IsInjective
  <2>121. /\ DOMAIN s.ready = 1 .. Len(s.ready)
          /\ \A i, j \in 1 .. Len(s.ready) : s.ready[i] = s.ready[j] => i = j
          /\ \A i \in 1 .. Len(s.ready) : s.ready[i] \in Range(s.ready)
    <3>1. DOMAIN s.ready = 1 .. Len(s.ready)
      BY <2>0
    <3> QED
      BY <2>0, <3>1, Zenon DEF IsInjective, Range
  <2>122. ASSUME NEW i \in 1 .. Len(rest)
          PROVE  i + 1 \in 1 .. Len(s.ready) /\ 1 \in 1 .. Len(s.ready) /\ i + 1 # 1 /\ i \in Int
    <3>1. Len(rest) = Len(s.ready) - 1 /\ Len(s.ready) \in Nat \ {0}
      BY <2>2
    <3> QED
      BY <3>1
  <2>13. \A i \in 1 .. Len(rest) : rest[i] \in Range(s.ready) /\ rest[i] # n
    <3>1. ASSUME NEW i \in 1 .. Len(rest) PROVE rest[i] \in Range(s.ready) /\ rest[i] # n
      <4>1. rest[i] = s.ready[i + 1] /\ n = s.ready[1]
        BY <2>2
      <4> QED
        BY <2>121, <2>122, <4>1, Zenon
    <3> QED
      BY <3>1
  <2>14. \A i, j \in 1 .. Len(rest) : rest[i] = rest[j] => i = j
    <3>1. ASSUME NEW i \in 1 .. Len(rest), NEW j \in 1 .. Len(rest), rest[i] = rest[j] PROVE i = j
      <4>1. s.ready[i + 1] = s.ready[j + 1]
        BY <2>2, <3>1, Zenon
      <4>2. i + 1 = j + 1
        BY <2>121, <2>122, <4>1, Zenon
      <4> QED
        BY <2>122, <4>2
    <3> QED
      BY <3>1
  <2>15. DOMAIN ready = 1 .. Len(ready)
    BY <2>10
  <2>16. IsInjective(ready)
    <3>1. ASSUME NEW i \in 1 .. Len(ready), NEW j \in 1 .. Len(ready), ready[i] = ready[j]
          PROVE  i = j
      <4>1. CASE i <= Len(rest) /\ j <= Len(rest)
        BY <2>10, <2>14, <3>1, <4>1
      <4>2. CASE i <= Len(rest) /\ j > Len(rest)
        BY <2>5, <2>9, <2>10, <2>13, <3>1, <4>2
      <4>3. CASE i > Len(rest) /\ j <= Len(rest)
        BY <2>5, <2>9, <2>10, <2>13, <3>1, <4>3
      <4>4. CASE i > Len(rest) /\ j > Len(rest)
        <5>1. \A k, l \in 1 .. Len(a) : a[k] = a[l] => k = l
          BY <2>4, <2>9, Zenon DEF IsInjective
        <5>2. /\ i - Len(rest) \in 1 .. Len(a) /\ ready[i] = a[i - Len(rest)]
              /\ j - Len(rest) \in 1 .. Len(a) /\ ready[j] = a[j - Len(rest)]
          BY <2>10, <4>4
        <5>3. i - Len(rest) = j - Len(rest)
          BY <3>1, <5>1, <5>2, Zenon
        <5> QED
          BY <2>10, <5>3
      <4> QED
        BY <2>10, <4>1, <4>2, <4>3, <4>4
    <3> QED
      BY <2>15, <3>1 DEF IsInjective
  <2>17. ASSUME NEW m \in Range(ready)
         PROVE  m \notin Range(placed) /\ Upstream(r, m) \subseteq Range(placed)
    <3>1. PICK i \in 1 .. Len(ready) : ready[i] = m
      BY <2>15 DEF Range
    <3>2. CASE i <= Len(rest)
      BY <2>00, <2>10, <2>11, <2>13, <3>1, <3>2
    <3>3. CASE i > Len(rest)
      <4>1. m \in freed
        BY <2>9, <2>10, <3>1, <3>3
      <4>2. m \in Node /\ m # n
        BY <2>02, <2>3, <2>5, <2>7, <4>1
      <4> QED
        BY <2>5, <2>6, <2>11, <4>1, <4>2
    <3> QED
      BY <2>10, <3>1, <3>2, <3>3
  <2>18. ASSUME NEW k \in 1 .. Len(placed), NEW m \in Upstream(r, placed[k])
         PROVE  \E j \in 1 .. k - 1 : placed[j] = m
    <3>1. CASE k \in 1 .. Len(s.placed)
      <4>1. PICK j \in 1 .. k - 1 : s.placed[j] = m
        BY <2>01, <2>8, <2>18, <3>1
      <4> QED
        BY <2>8, <3>1, <4>1
    <3>2. CASE k = Len(placed)
      <4>1. m \in Range(s.placed)
        BY <2>00, <2>7, <2>8, <2>18, <3>2
      <4>2. PICK j \in 1 .. Len(s.placed) : s.placed[j] = m
        BY <2>0, <4>1 DEF Range
      <4> QED
        BY <2>8, <3>2, <4>2
    <3> QED
      BY <2>8, <3>1, <3>2
  <2>19. \A m \in Node : left[m] = Upstream(r, m) \ Range(placed)
    BY <2>6, <2>11
  <2>20. Place(r, s).ready = ready /\ Place(r, s).left = left /\ Place(r, s).placed = placed
    BY <2>1
  <2> DEFINE t == Place(r, s)
  <2>21. t.ready = ready /\ t.left = left /\ t.placed = placed
    BY <2>20
  <2> HIDE DEF t
  <2>22. PlacedInv(r, t)
    <3>1. t.ready \in Seq(Nodes(r)) /\ t.placed \in Seq(Nodes(r)) /\ IsInjective(t.ready) /\ IsInjective(t.placed)
      BY <2>8, <2>10, <2>12, <2>16, <2>21
    <3>2. \A m \in Node : t.left[m] = Upstream(r, m) \ Range(t.placed)
      BY <2>19, <2>21
    <3>3. \A m \in Range(t.ready) :
             m \notin Range(t.placed) /\ Upstream(r, m) \subseteq Range(t.placed)
      BY <2>17, <2>21
    <3>4. \A k \in 1 .. Len(t.placed) : \A m \in Upstream(r, t.placed[k]) :
             \E j \in 1 .. k - 1 : t.placed[j] = m
      BY <2>18, <2>21
    <3> QED
      BY <3>1, <3>2, <3>3, <3>4 DEF PlacedInv
  <2> QED
    BY <2>22 DEF t
<1> QED
  BY <1>1, <1>2

\* The recursion over the number of placed nodes has a solution.
PlaceUpto(r, n, g) ==
    g = [i \in 0 .. n |-> IF i = 0 THEN Starting(r) ELSE Place(r, g[i - 1])]

LEMMA PlaceExists ==
    ASSUME NEW r, NEW N \in Nat
    PROVE  \E g : PlaceUpto(r, N, g)
<1> DEFINE T == {n \in Nat : \E g : PlaceUpto(r, n, g)}
<1>1. 0 \in T
  <2> DEFINE g == [i \in 0 .. 0 |-> Starting(r)]
  <2>1. PlaceUpto(r, 0, g)
    BY DEF PlaceUpto
  <2> QED
    BY <2>1
<1>2. ASSUME NEW n \in Nat, n \in T PROVE n + 1 \in T
  <2>1. PICK g : PlaceUpto(r, n, g)
    BY <1>2
  <2> DEFINE h == [i \in 0 .. n + 1 |-> IF i <= n THEN g[i] ELSE Place(r, g[n])]
  <2>2. g = [i \in 0 .. n |-> IF i = 0 THEN Starting(r) ELSE Place(r, g[i - 1])]
    BY <2>1 DEF PlaceUpto
  <2>3. \A i \in 0 .. n : g[i] = IF i = 0 THEN Starting(r) ELSE Place(r, g[i - 1])
    BY <2>2
  <2>4. \A i \in 0 .. n + 1 : h[i] = IF i <= n THEN g[i] ELSE Place(r, g[n])
    OBVIOUS
  <2>5. DOMAIN h = 0 .. n + 1 /\ h = [i \in 0 .. n + 1 |-> h[i]]
    OBVIOUS
  <2> HIDE DEF h
  <2>6. ASSUME NEW i \in 0 .. n + 1
        PROVE  h[i] = IF i = 0 THEN Starting(r) ELSE Place(r, h[i - 1])
    <3>1. CASE i = 0
      BY <2>3, <2>4, <3>1
    <3>2. CASE i # 0 /\ i <= n
      <4>1. i \in 0 .. n /\ i - 1 \in 0 .. n + 1 /\ i - 1 <= n
        BY <3>2
      <4>2. h[i] = g[i] /\ h[i - 1] = g[i - 1]
        BY <2>4, <4>1, <3>2
      <4> QED
        BY <2>3, <3>2, <4>1, <4>2
    <3>3. CASE i = n + 1
      <4>1. i # 0 /\ ~(i <= n) /\ i - 1 = n /\ n \in 0 .. n + 1 /\ n <= n
        BY <3>3
      <4>2. h[i] = Place(r, g[n]) /\ h[n] = g[n]
        BY <2>4, <4>1
      <4> QED
        BY <4>1, <4>2
    <3> QED
      BY <3>1, <3>2, <3>3
  <2>7. PlaceUpto(r, n + 1, h)
    BY <2>5, <2>6 DEF PlaceUpto
  <2> QED
    BY <2>7
<1> HIDE DEF T
<1>3. Nat \subseteq T
  BY <1>1, <1>2, AllNat
<1> QED
  BY <1>3 DEF T

LEMMA PlacingIs ==
    ASSUME NEW r \in ValidRelease
    PROVE  PlacedInv(r, Placing(r))
<1> DEFINE N == Len(r.order)
           place == CHOOSE g : g = [i \in 0 .. N |-> IF i = 0 THEN Starting(r) ELSE Place(r, g[i - 1])]
<1>1. N \in Nat
  BY ReleaseFacts
<1>2. Placing(r) = place[N]
  BY DEF Placing
<1>3. \E g : g = [i \in 0 .. N |-> IF i = 0 THEN Starting(r) ELSE Place(r, g[i - 1])]
  BY <1>1, PlaceExists DEF PlaceUpto
<1>4. place = [i \in 0 .. N |-> IF i = 0 THEN Starting(r) ELSE Place(r, place[i - 1])]
  BY <1>3
<1> HIDE DEF place, N
<1>5. \A i \in 0 .. N : place[i] = IF i = 0 THEN Starting(r) ELSE Place(r, place[i - 1])
  BY <1>4
<1> DEFINE T == {n \in Nat : n <= N => PlacedInv(r, place[n])}
<1>6. 0 \in T
  <2>1. place[0] = Starting(r)
    BY <1>1, <1>5
  <2> QED
    BY <2>1, StartingIs
<1>7. ASSUME NEW n \in Nat, n \in T PROVE n + 1 \in T
  <2>1. SUFFICES ASSUME n + 1 <= N PROVE PlacedInv(r, place[n + 1])
    OBVIOUS
  <2>2. n + 1 \in 0 .. N /\ n + 1 # 0 /\ n <= N /\ (n + 1) - 1 = n
    BY <1>1, <2>1
  <2>3. place[n + 1] = Place(r, place[n])
    BY <1>5, <2>2
  <2>4. PlacedInv(r, place[n])
    BY <1>7, <2>2
  <2> QED
    BY <2>3, <2>4, PlaceIs
<1> HIDE DEF T
<1>8. N \in T
  BY <1>1, <1>6, <1>7, AllNat
<1>9. PlacedInv(r, place[N])
  BY <1>1, <1>8 DEF T
<1> QED
  BY <1>2, <1>9

\* The order of a valid release places every node, after those it needs.
LEMMA OrderIs ==
    ASSUME NEW r \in ValidRelease
    PROVE  /\ Order[r] \in Seq(Nodes(r)) /\ Len(Order[r]) = Len(r.order)
           /\ IsInjective(Order[r]) /\ Range(Order[r]) = Nodes(r)
           /\ \A k \in 1 .. Len(Order[r]) : \A m \in Upstream(r, Order[r][k]) :
                 \E j \in 1 .. k - 1 : Order[r][j] = m
<1> DEFINE o == Order[r]
           N == Len(r.order)
<1>1. o = Placing(r).placed
  BY DEF Order
<1>2. /\ o \in Seq(Nodes(r)) /\ IsInjective(o)
      /\ \A k \in 1 .. Len(o) : \A m \in Upstream(r, o[k]) : \E j \in 1 .. k - 1 : o[j] = m
  <2> DEFINE s == Placing(r)
  <2>1. PlacedInv(r, s)
    BY PlacingIs
  <2>2. o = s.placed
    BY <1>1
  <2> HIDE DEF s, o
  <2> QED
    BY <2>1, <2>2 DEF PlacedInv
<1>3. Len(o) = N
  BY <1>1, ReleaseFacts DEF Valid
<1>4. N \in Nat /\ IsFiniteSet(Nodes(r)) /\ Cardinality(Nodes(r)) = N
  <2>1. /\ r.order \in Seq(Node) /\ N \in Nat /\ DOMAIN r.order = 1 .. N /\ IsInjective(r.order)
        /\ Nodes(r) \subseteq Node /\ IsFiniteSet(Node)
    BY ReleaseFacts
  <2>2. r.order \in Injection(1 .. N, Nodes(r)) /\ r.order \in Surjection(1 .. N, Nodes(r))
    <3> HIDE DEF N
    <3>1. r.order \in [1 .. N -> Nodes(r)] /\ \A m \in Nodes(r) : \E i \in 1 .. N : r.order[i] = m
      BY <2>1 DEF Nodes, Range
    <3> QED
      BY <2>1, <3>1 DEF Injection, Surjection
  <2>3. IsFiniteSet(Nodes(r))
    BY <2>1, FS_Subset
  <2>4. IsFiniteSet(1 .. N) /\ Cardinality(1 .. N) = N
    BY <2>1, FS_Interval
  <2>5. Cardinality(1 .. N) = Cardinality(Nodes(r))
    BY <2>2, <2>3, FS_Injection
  <2> QED
    BY <2>1, <2>3, <2>4, <2>5
<1> HIDE DEF o, N
<1>5. o \in Injection(1 .. N, Nodes(r))
  BY <1>2, <1>3, <1>4 DEF Injection
<1>6. Cardinality(1 .. N) = Cardinality(Nodes(r))
  BY <1>4, FS_Interval
<1>7. o \in Surjection(1 .. N, Nodes(r))
  BY <1>4, <1>5, <1>6, FS_Injection
<1>8. Range(o) = Nodes(r)
  BY <1>2, <1>3, <1>7 DEF Surjection, Range
<1> QED
  BY <1>2, <1>3, <1>8 DEF o, N

-----------------------------------------------------------------------------
(* What a trigger reaches.                                                 *)

Grown(r, known) == known \cup {m \in Node : Upstream(r, m) \cap known # {}}
Reach(r, n) ==
    CHOOSE g : g = [i \in 0 .. Len(r.order) |-> IF i = 0 THEN {n} ELSE Grown(r, g[i - 1])]
ReachUpto(r, n, N, g) == g = [i \in 0 .. N |-> IF i = 0 THEN {n} ELSE Grown(r, g[i - 1])]

LEMMA ReachExists ==
    ASSUME NEW r, NEW n, NEW N \in Nat
    PROVE  \E g : ReachUpto(r, n, N, g)
<1> DEFINE T == {k \in Nat : \E g : ReachUpto(r, n, k, g)}
<1>1. 0 \in T
  <2> DEFINE g == [i \in 0 .. 0 |-> {n}]
  <2>1. ReachUpto(r, n, 0, g)
    BY DEF ReachUpto
  <2> QED
    BY <2>1
<1>2. ASSUME NEW k \in Nat, k \in T PROVE k + 1 \in T
  <2>1. PICK g : ReachUpto(r, n, k, g)
    BY <1>2
  <2> DEFINE h == [i \in 0 .. k + 1 |-> IF i <= k THEN g[i] ELSE Grown(r, g[k])]
  <2>2. g = [i \in 0 .. k |-> IF i = 0 THEN {n} ELSE Grown(r, g[i - 1])]
    BY <2>1 DEF ReachUpto
  <2>3. \A i \in 0 .. k : g[i] = IF i = 0 THEN {n} ELSE Grown(r, g[i - 1])
    BY <2>2
  <2>4. \A i \in 0 .. k + 1 : h[i] = IF i <= k THEN g[i] ELSE Grown(r, g[k])
    OBVIOUS
  <2>5. DOMAIN h = 0 .. k + 1 /\ h = [i \in 0 .. k + 1 |-> h[i]]
    OBVIOUS
  <2> HIDE DEF h
  <2>6. ASSUME NEW i \in 0 .. k + 1
        PROVE  h[i] = IF i = 0 THEN {n} ELSE Grown(r, h[i - 1])
    <3>1. CASE i = 0
      BY <2>3, <2>4, <3>1
    <3>2. CASE i # 0 /\ i <= k
      <4>1. i \in 0 .. k /\ i - 1 \in 0 .. k + 1 /\ i - 1 <= k
        BY <3>2
      <4>2. h[i] = g[i] /\ h[i - 1] = g[i - 1]
        BY <2>4, <4>1, <3>2
      <4> QED
        BY <2>3, <3>2, <4>1, <4>2
    <3>3. CASE i = k + 1
      <4>1. i # 0 /\ ~(i <= k) /\ i - 1 = k /\ k \in 0 .. k + 1 /\ k <= k
        BY <3>3
      <4>2. h[i] = Grown(r, g[k]) /\ h[k] = g[k]
        BY <2>4, <4>1
      <4> QED
        BY <4>1, <4>2
    <3> QED
      BY <3>1, <3>2, <3>3
  <2>7. ReachUpto(r, n, k + 1, h)
    BY <2>5, <2>6 DEF ReachUpto
  <2> QED
    BY <2>7
<1> HIDE DEF T
<1>3. Nat \subseteq T
  BY <1>1, <1>2, AllNat
<1> QED
  BY <1>3 DEF T

LEMMA ReachIs ==
    ASSUME NEW r \in ValidRelease, NEW n \in Node
    PROVE  /\ Branch[r][n] = Reach(r, n)[Len(r.order)]
           /\ Reach(r, n)[0] = {n}
           /\ \A i \in Nat : i + 1 <= Len(r.order) => Reach(r, n)[i + 1] = Grown(r, Reach(r, n)[i])
<1> DEFINE N == Len(r.order)
<1>1. N \in Nat
  BY ReleaseFacts
<1>2. Branch[r][n] = Reach(r, n)[N]
  BY DEF Branch, Reach, Grown
<1>3. \E g : g = [i \in 0 .. N |-> IF i = 0 THEN {n} ELSE Grown(r, g[i - 1])]
  <2> HIDE DEF N
  <2>1. \E g : ReachUpto(r, n, N, g)
    BY <1>1, ReachExists
  <2> QED
    BY <2>1 DEF ReachUpto
<1> DEFINE g == Reach(r, n)
<1>4. g = [i \in 0 .. N |-> IF i = 0 THEN {n} ELSE Grown(r, g[i - 1])]
  BY <1>3 DEF Reach
<1> HIDE DEF g, N
<1>5. \A i \in 0 .. N : g[i] = IF i = 0 THEN {n} ELSE Grown(r, g[i - 1])
  BY <1>4
<1>6. g[0] = {n}
  BY <1>1, <1>5
<1>7. ASSUME NEW i \in Nat, i + 1 <= N PROVE g[i + 1] = Grown(r, g[i])
  <2>1. i + 1 \in 0 .. N /\ i + 1 # 0 /\ (i + 1) - 1 = i
    BY <1>1, <1>7
  <2> QED
    BY <1>5, <2>1
<1> QED
  BY <1>2, <1>6, <1>7 DEF g, N

LEMMA ReachGrows ==
    ASSUME NEW r \in ValidRelease, NEW n \in Node, NEW i \in Nat, NEW j \in Nat,
           i <= j, j <= Len(r.order)
    PROVE  Reach(r, n)[i] \subseteq Reach(r, n)[j]
<1> DEFINE T == {k \in Nat : i + k <= Len(r.order) => Reach(r, n)[i] \subseteq Reach(r, n)[i + k]}
<1>0. Len(r.order) \in Nat
  BY ReleaseFacts
<1>1. 0 \in T
  OBVIOUS
<1>2. ASSUME NEW k \in Nat, k \in T PROVE k + 1 \in T
  <2>1. SUFFICES ASSUME i + (k + 1) <= Len(r.order)
                 PROVE  Reach(r, n)[i] \subseteq Reach(r, n)[i + (k + 1)]
    OBVIOUS
  <2>2. i + k \in Nat /\ (i + k) + 1 <= Len(r.order) /\ i + k <= Len(r.order) /\ i + (k + 1) = (i + k) + 1
    BY <1>0, <2>1
  <2>3. Reach(r, n)[i + (k + 1)] = Grown(r, Reach(r, n)[i + k])
    BY <2>2, ReachIs
  <2>4. Reach(r, n)[i] \subseteq Reach(r, n)[i + k]
    BY <1>2, <2>2
  <2> QED
    BY <2>3, <2>4 DEF Grown
<1> HIDE DEF T
<1>3. j - i \in T
  BY <1>1, <1>2, AllNat
<1> QED
  BY <1>3 DEF T

\* The branch of a node holds the node, and nodes of the release only.
LEMMA BranchIs ==
    ASSUME NEW r \in ValidRelease, NEW n \in Node
    PROVE  n \in Branch[r][n] /\ Branch[r][n] \subseteq Nodes(r) \cup {n}
<1> DEFINE N == Len(r.order)
<1>1. N \in Nat /\ r.edges \subseteq Nodes(r) \X Nodes(r)
  BY ReleaseFacts
<1>2. n \in Branch[r][n]
  <2>1. Reach(r, n)[0] \subseteq Reach(r, n)[N]
    BY <1>1, ReachGrows
  <2> QED
    BY <2>1, ReachIs
<1> DEFINE T == {i \in Nat : i <= N => Reach(r, n)[i] \subseteq Nodes(r) \cup {n}}
<1>3. 0 \in T
  BY ReachIs
<1>4. ASSUME NEW k \in Nat, k \in T PROVE k + 1 \in T
  <2>1. SUFFICES ASSUME k + 1 <= N PROVE Reach(r, n)[k + 1] \subseteq Nodes(r) \cup {n}
    OBVIOUS
  <2>2. Reach(r, n)[k + 1] = Grown(r, Reach(r, n)[k])
    BY <2>1, ReachIs
  <2>3. Reach(r, n)[k] \subseteq Nodes(r) \cup {n}
    BY <1>1, <1>4, <2>1
  <2>4. \A m \in Node : Upstream(r, m) # {} => m \in Nodes(r)
    BY <1>1 DEF Upstream
  <2> QED
    BY <2>2, <2>3, <2>4 DEF Grown
<1> HIDE DEF T
<1>5. N \in T
  BY <1>1, <1>3, <1>4, AllNat
<1>6. Reach(r, n)[N] \subseteq Nodes(r) \cup {n}
  BY <1>1, <1>5 DEF T
<1> QED
  BY <1>2, <1>6, ReachIs

\* When every node of a part of the branch has an upstream node in that part
\* or outside of the branch, each of them is reached from outside.
LEMMA OutsideReaches ==
    ASSUME NEW r \in ValidRelease, NEW out, NEW part, part \subseteq Nodes(r), out \subseteq Nodes(r),
           \A n \in part : \E m \in Upstream(r, n) : m \in part \cup out
    PROVE  \A n \in part : \E m \in out : n \in Branch[r][m]
<1> DEFINE o == Order[r]
           N == Len(r.order)
           Good(k) == \E m \in out : o[k] \in Reach(r, m)[k - 1]
           T == {k \in 1 .. N : o[k] \in part /\ ~Good(k)}
<1>1. /\ o \in Seq(Nodes(r)) /\ Len(o) = N /\ Range(o) = Nodes(r) /\ N \in Nat
      /\ \A k \in 1 .. N : \A m \in Upstream(r, o[k]) : \E j \in 1 .. k - 1 : o[j] = m
      /\ Nodes(r) \subseteq Node
  BY OrderIs, ReleaseFacts
<1> HIDE DEF o, N
<1>2. ASSUME NEW k \in T, \A j \in T : k <= j PROVE FALSE
  <2>1. k \in 1 .. N /\ o[k] \in part /\ ~Good(k)
    OBVIOUS
  <2>2. PICK m \in Upstream(r, o[k]) : m \in part \cup out
    BY <2>1
  <2>3. PICK j \in 1 .. k - 1 : o[j] = m
    BY <1>1, <2>1, <2>2
  <2>4. j \in 1 .. N /\ j < k /\ j \in Nat /\ k \in Nat /\ k - 1 \in Nat /\ j <= k - 1 /\ k - 1 <= N /\ 1 <= N
    BY <1>1, <2>1, <2>3
  <2>5. o[k] \in Node /\ m \in Node
    BY <1>1, <2>1, <2>2
  <2>6. CASE m \in out
    <3>1. Reach(r, m)[0 + 1] = Grown(r, Reach(r, m)[0]) /\ Reach(r, m)[0] = {m}
      BY <2>4, <2>5, ReachIs DEF N
    <3>2. o[k] \in Reach(r, m)[1]
      BY <2>2, <2>5, <3>1 DEF Grown
    <3>3. Reach(r, m)[1] \subseteq Reach(r, m)[k - 1]
      BY <2>4, <2>5, ReachGrows DEF N
    <3> QED
      BY <2>1, <2>6, <3>2, <3>3
  <2>7. CASE m \in part
    <3>1. j \notin T
      BY <1>2, <2>4
    <3>2. Good(j)
      BY <2>3, <2>4, <2>7, <3>1
    <3>3. PICK m2 \in out : o[j] \in Reach(r, m2)[j - 1]
      BY <3>2
    <3>4. m2 \in Node /\ j - 1 \in Nat /\ (j - 1) + 1 = j /\ j <= N
      BY <1>1, <2>4
    <3>5. Reach(r, m2)[j] = Grown(r, Reach(r, m2)[j - 1])
      <4>1. Reach(r, m2)[(j - 1) + 1] = Grown(r, Reach(r, m2)[j - 1])
        BY <3>4, ReachIs DEF N
      <4> QED
        BY <3>4, <4>1
    <3>6. o[k] \in Reach(r, m2)[j]
      BY <2>2, <2>3, <2>5, <3>3, <3>5 DEF Grown
    <3>7. Reach(r, m2)[j] \subseteq Reach(r, m2)[k - 1]
      BY <2>4, <3>4, ReachGrows DEF N
    <3> QED
      BY <2>1, <3>3, <3>6, <3>7
  <2> QED
    BY <2>2, <2>6, <2>7
<1>3. T = {}
  <2>1. SUFFICES ASSUME T # {} PROVE FALSE
    OBVIOUS
  <2>2. T \subseteq Nat
    OBVIOUS
  <2>3. PICK k \in T : \A j \in T : k <= j
    <3> HIDE DEF T
    <3> QED
      BY <2>1, <2>2, LeastNat
  <2> QED
    BY <1>2, <2>3
<1>4. ASSUME NEW n \in part PROVE \E m \in out : n \in Branch[r][m]
  <2>1. PICK k \in 1 .. N : o[k] = n
    BY <1>1 DEF Range
  <2>2. PICK m \in out : n \in Reach(r, m)[k - 1]
    BY <1>3, <2>1
  <2>3. k - 1 \in Nat /\ k - 1 <= N /\ m \in Node
    BY <1>1, <2>1
  <2>4. Reach(r, m)[k - 1] \subseteq Reach(r, m)[N]
    BY <1>1, <2>3, ReachGrows DEF N
  <2> QED
    BY <2>2, <2>3, <2>4, ReachIs DEF N
<1> QED
  BY <1>4

-----------------------------------------------------------------------------
(* Nodes.                                                                  *)

\* NodesFollowUpstream and SucceededIsComplete of one run.
Follows(run) ==
    \A n \in Node :
        /\ run.node[n] \in {"running", "succeeded"} => ~Blocked(run, n)
        /\ run.node[n] = "skipped" =>
              \/ n \notin Selected(run)
              \/ \E m \in Needed(run, n) : run.node[m] \in NodeEnded \ {"succeeded"}
Complete(run) ==
    \A n \in Selected(run) :
        \/ run.node[n] = "succeeded"
        \/ run.kind = "data_change"
           /\ \E m \in Nodes(release) \ (Selected(run) \cup Triggers(release)) :
                 n \in Branch[release][m]

\* A change starts a run from a trigger of the release.
FromTrigger(x) == x.kind = "data_change" => x.trigger \in Triggers(release)

\* What holds of a run: y is its record.
RunOk(y) ==
    /\ y.status \in {"absent", "queued"} => \A n \in Node : y.node[n] = "absent"
    /\ y.status # "absent" => FromTrigger(y)
    /\ Follows(y)
    /\ y.status = "succeeded" => Complete(y)

\* What the node in hand is while a worker is at it.
Expected == [loop |-> "absent", decide |-> "queued", perform |-> "running", wait |-> "running"]

\* A worker x is at a run y: the nodes before the one in hand have ended, those
\* after it are not begun.
AtWork(x, y) ==
    /\ y.status \in {"running", "failed"}
    /\ \A k \in 1 .. Len(release.order) :
          LET status == y.node[Order[release][k]]
          IN  /\ k < x.at => status \in NodeEnded
              /\ k = x.at => status = Expected[x.pc]
              /\ k > x.at => status = "absent"

NodeInv ==
    /\ \A s \in Starter : starter[s].pc = "insert" => FromTrigger(starter[s])
    /\ \A r \in RunId : RunOk(runs[r])
    /\ \A e \in Executor : executor[e].run # NoRun => AtWork(executor[e], RunOf(e))

LEMMA RunData ==
    /\ NoRunYet.node = [n \in Node |-> "absent"]
    /\ \A x \in Run, st \in Status :
          /\ [x EXCEPT !.status = st].node = x.node
          /\ [x EXCEPT !.status = st].kind = x.kind /\ [x EXCEPT !.status = st].trigger = x.trigger
    /\ \A x \in Run, st \in Status, f \in [Node -> NodeStatus] :
          /\ [x EXCEPT !.status = st, !.node = f].node = f
          /\ [x EXCEPT !.status = st, !.node = f].kind = x.kind
          /\ [x EXCEPT !.status = st, !.node = f].trigger = x.trigger
    /\ \A x \in Run, f \in [Node -> NodeStatus] :
          /\ [x EXCEPT !.node = f].node = f
          /\ [x EXCEPT !.node = f].kind = x.kind /\ [x EXCEPT !.node = f].trigger = x.trigger
    /\ \A x \in Run, k \in Kind, t \in Node \cup {NoNode} :
          /\ Queued(x, k, t).node = x.node
          /\ Queued(x, k, t).kind = k /\ Queued(x, k, t).trigger = t
BY DEF NoRunYet, Run, Status, NodeStatus, Queued

\* What a run needs does not depend on how far it is.
LEMMA SameRun ==
    ASSUME NEW x, NEW y, y.kind = x.kind, y.trigger = x.trigger
    PROVE  /\ Selected(y) = Selected(x) /\ \A n \in Node : Needed(y, n) = Needed(x, n)
           /\ FromTrigger(x) => FromTrigger(y)
           /\ y.node = x.node /\ Follows(x) => Follows(y)
           /\ y.node = x.node /\ Complete(x) => Complete(y)
<1>1. Selected(y) = Selected(x)
  BY DEF Selected
<1>2. \A n \in Node : Needed(y, n) = Needed(x, n)
  BY DEF Needed
<1>3. FromTrigger(x) => FromTrigger(y)
  BY DEF FromTrigger
<1>4. ASSUME y.node = x.node, Follows(x) PROVE Follows(y)
  BY <1>1, <1>2, <1>4 DEF Follows, Blocked
<1>5. ASSUME y.node = x.node, Complete(x) PROVE Complete(y)
  BY <1>1, <1>5 DEF Complete
<1> QED
  BY <1>1, <1>2, <1>3, <1>4, <1>5

\* The node n in hand gets another status: x becomes y.
Written(x, y, n, st) ==
    /\ y.kind = x.kind /\ y.trigger = x.trigger
    /\ \A m \in Node : y.node[m] = IF m = n THEN st ELSE x.node[m]
    /\ x.node[n] \notin NodeEnded
    /\ st \in {"running", "succeeded"} => ~Blocked(x, n)
    /\ st = "skipped" =>
          \/ n \notin Selected(x)
          \/ \E m \in Needed(x, n) : x.node[m] \in NodeEnded \ {"succeeded"}

LEMMA NodeWritten ==
    ASSUME NEW x, NEW y, NEW n \in Node, NEW st, Written(x, y, n, st), Follows(x),
           release \in ValidRelease
    PROVE  Follows(y)
<1>0. /\ y.kind = x.kind /\ y.trigger = x.trigger
      /\ \A m \in Node : y.node[m] = IF m = n THEN st ELSE x.node[m]
      /\ x.node[n] \notin NodeEnded
      /\ st \in {"running", "succeeded"} => ~Blocked(x, n)
      /\ st = "skipped" =>
            \/ n \notin Selected(x)
            \/ \E m \in Needed(x, n) : x.node[m] \in NodeEnded \ {"succeeded"}
  BY DEF Written
<1>1. Selected(y) = Selected(x) /\ \A m \in Node : Needed(y, m) = Needed(x, m)
  BY <1>0, SameRun
<1>2. n \notin Upstream(release, n)
  <2>1. CASE n \in Nodes(release)
    BY <2>1, ReleaseFacts DEF Valid
  <2>2. CASE n \notin Nodes(release)
    BY <2>2, ReleaseFacts DEF Upstream
  <2> QED
    BY <2>1, <2>2
<1>3. \A m \in Node : Needed(x, m) \subseteq Node
  BY DEF Needed, Upstream
<1>4. n \notin Needed(x, n)
  BY <1>2 DEF Needed
<1>5. ASSUME NEW m \in Node, y.node[m] \in {"running", "succeeded"} PROVE ~Blocked(y, m)
  <2>1. ~Blocked(x, m)
    <3>1. CASE m = n
      BY <1>0, <1>5, <3>1
    <3>2. CASE m # n
      BY <1>0, <1>5, <3>2 DEF Follows
    <3> QED
      BY <3>1, <3>2
  <2>2. \A k \in Needed(x, m) : k # n /\ y.node[k] = "succeeded"
    BY <1>0, <1>3, <2>1 DEF Blocked, NodeEnded
  <2> QED
    BY <1>1, <2>2 DEF Blocked
<1>6. ASSUME NEW m \in Node, y.node[m] = "skipped"
      PROVE  \/ m \notin Selected(y)
             \/ \E k \in Needed(y, m) : y.node[k] \in NodeEnded \ {"succeeded"}
  <2>1. \/ m \notin Selected(x)
        \/ \E k \in Needed(x, m) : x.node[k] \in NodeEnded \ {"succeeded"}
    <3>1. CASE m = n
      BY <1>0, <1>6, <3>1
    <3>2. CASE m # n
      BY <1>0, <1>6, <3>2 DEF Follows
    <3> QED
      BY <3>1, <3>2
  <2>2. \A k \in Needed(x, m) : x.node[k] \in NodeEnded => y.node[k] = x.node[k]
    BY <1>0, <1>3
  <2> QED
    BY <1>1, <2>1, <2>2
<1> QED
  BY <1>5, <1>6 DEF Follows

\* The nodes that are active get failed.
LEMMA NodesClosed ==
    ASSUME NEW x, NEW y, y.kind = x.kind, y.trigger = x.trigger, Follows(x),
           \A m \in Node : y.node[m] = IF x.node[m] \in Active THEN "failed" ELSE x.node[m]
    PROVE  Follows(y)
<1>1. Selected(y) = Selected(x) /\ \A m \in Node : Needed(y, m) = Needed(x, m)
  BY SameRun
<1>2. \A m \in Node : Needed(x, m) \subseteq Node
  BY DEF Needed, Upstream
<1>3. ASSUME NEW m \in Node, y.node[m] \in {"running", "succeeded"} PROVE ~Blocked(y, m)
  <2>1. x.node[m] = "succeeded"
    BY <1>3 DEF Active
  <2>2. \A k \in Needed(x, m) : x.node[k] = "succeeded"
    BY <2>1 DEF Follows, Blocked
  <2>3. \A k \in Needed(x, m) : y.node[k] = "succeeded"
    BY <1>2, <2>2 DEF Active
  <2> QED
    BY <1>1, <2>3 DEF Blocked
<1>4. ASSUME NEW m \in Node, y.node[m] = "skipped"
      PROVE  \/ m \notin Selected(y)
             \/ \E k \in Needed(y, m) : y.node[k] \in NodeEnded \ {"succeeded"}
  <2>1. x.node[m] = "skipped"
    BY <1>4
  <2>2. \/ m \notin Selected(x)
        \/ \E k \in Needed(x, m) : x.node[k] \in NodeEnded \ {"succeeded"}
    BY <2>1 DEF Follows
  <2>3. \A k \in Needed(x, m) : x.node[k] \in NodeEnded => y.node[k] = x.node[k]
    BY <1>2 DEF NodeEnded, Active
  <2> QED
    BY <1>1, <2>2, <2>3
<1> QED
  BY <1>3, <1>4 DEF Follows

\* A run that got to the end of the order without a failure is complete.
LEMMA EndIsComplete ==
    ASSUME release \in ValidRelease, NEW x \in Run, Follows(x), FromTrigger(x),
           \A n \in Nodes(release) : x.node[n] \in NodeEnded,
           Outcome(x) = "succeeded"
    PROVE  Complete(x)
<1> DEFINE S == Selected(x)
           out == Nodes(release) \ (S \cup Triggers(release))
           part == {n \in S : x.node[n] = "skipped"}
<1>0. Nodes(release) \subseteq Node
  BY ReleaseFacts
<1>1. \A n \in Node : x.node[n] # "failed"
  BY DEF Outcome
<1>2. x.kind # "data_change" => \A n \in Node : x.node[n] # "skipped"
  BY DEF Outcome
<1>3. S \subseteq Nodes(release)
  <2>1. CASE x.kind = "data_change"
    <3>1. x.trigger \in Nodes(release)
      BY <2>1 DEF FromTrigger, Triggers
    <3>2. S = Branch[release][x.trigger]
      BY <2>1 DEF Selected
    <3>3. Branch[release][x.trigger] \subseteq Nodes(release) \cup {x.trigger}
      BY <1>0, <3>1, BranchIs
    <3> QED
      BY <3>1, <3>2, <3>3
  <2>2. CASE x.kind # "data_change"
    BY <2>2 DEF Selected
  <2> QED
    BY <2>1, <2>2
<1>4. \A n \in S : x.node[n] \in {"succeeded", "skipped"}
  BY <1>0, <1>1, <1>3 DEF NodeEnded
<1>5. CASE x.kind # "data_change"
  BY <1>0, <1>2, <1>3, <1>4, <1>5 DEF Complete
<1>6. CASE x.kind = "data_change"
  <2>1. x.trigger \in S
    <3>1. x.trigger \in Node
      BY <1>0, <1>6 DEF FromTrigger, Triggers
    <3> QED
      BY <1>6, <3>1, BranchIs DEF Selected
  <2>2. ASSUME NEW n \in part PROVE \E m \in Upstream(release, n) : m \in part \cup out
    <3>1. n \in Node /\ n \in S /\ x.node[n] = "skipped"
      BY <1>0, <1>3
    <3>2. PICK m \in Needed(x, n) : x.node[m] \in NodeEnded \ {"succeeded"}
      BY <3>1 DEF Follows
    <3>3. /\ m \in Upstream(release, n) /\ m \in Node
          /\ m \in Triggers(release) => m = x.trigger
      BY <1>6, <3>2 DEF Needed, Upstream
    <3>4. x.node[m] = "skipped"
      BY <1>1, <3>2, <3>3 DEF NodeEnded
    <3>5. m \in Nodes(release)
      BY <3>3, ReleaseFacts DEF Upstream
    <3>6. m \in S \/ m \in out
      BY <2>1, <3>3, <3>5
    <3> QED
      BY <3>3, <3>4, <3>6
  <2>3. part \subseteq Nodes(release) /\ out \subseteq Nodes(release)
    BY <1>3
  <2> HIDE DEF out, part
  <2>4. \A n \in part : \E m \in out : n \in Branch[release][m]
    BY <2>2, <2>3, OutsideReaches
  <2>5. ASSUME NEW n \in S, x.node[n] # "succeeded" PROVE \E m \in out : n \in Branch[release][m]
    BY <1>4, <2>4, <2>5 DEF part
  <2> QED
    BY <1>6, <2>5 DEF Complete, out
<1> QED
  BY <1>5, <1>6

-----------------------------------------------------------------------------
(* Steps.                                                                  *)

\* A step that leaves alone, or leaves in order, every run and who is at it.
LEMMA InOrder ==
    ASSUME NodeInv, release' = release,
           \A s \in Starter : starter'[s].pc = "insert" =>
              starter'[s] = starter[s] \/ FromTrigger(starter'[s]),
           \A r \in RunId : runs'[r] = runs[r] \/ RunOk(runs'[r]),
           \A e \in Executor : executor'[e].run # NoRun =>
              \/ executor'[e] = executor[e] /\ runs'[executor[e].run] = runs[executor[e].run]
              \/ AtWork(executor'[e], runs'[executor'[e].run])
    PROVE  NodeInv'
<1>1. ASSUME NEW s \in Starter, starter'[s].pc = "insert" PROVE FromTrigger(starter[s])'
  <2>1. FromTrigger(starter'[s])
    BY <1>1 DEF NodeInv
  <2> QED
    BY <2>1 DEF FromTrigger, Triggers, Nodes
<1>2. ASSUME NEW r \in RunId PROVE RunOk(runs[r])'
  <2>1. RunOk(runs'[r])
    BY DEF NodeInv
  <2>2. FromTrigger(runs'[r]) => FromTrigger(runs[r])'
    BY DEF FromTrigger, Triggers, Nodes
  <2>3. Follows(runs'[r]) => Follows(runs[r])'
    BY DEF Follows, Selected, Blocked, Needed, Triggers, Nodes
  <2>4. Complete(runs'[r]) => Complete(runs[r])'
    BY DEF Complete, Selected, Triggers, Nodes
  <2> QED
    BY <2>1, <2>2, <2>3, <2>4 DEF RunOk
<1>3. ASSUME NEW e \in Executor, executor'[e].run # NoRun PROVE AtWork(executor[e], RunOf(e))'
  <2>1. AtWork(executor'[e], runs'[executor'[e].run])
    BY <1>3 DEF NodeInv, RunOf
  <2> QED
    BY <2>1 DEF AtWork, RunOf
<1> QED
  BY <1>1, <1>2, <1>3 DEF NodeInv

LEMMA CheckOrder ==
    ASSUME TypeOK, NodeInv, NEW s \in Starter, NEW k \in Kind,
           NEW trigger \in Node \cup {NoNode}, Check(s, k, trigger)
    PROVE  NodeInv'
<1> DEFINE x == [pc |-> "insert", run |-> NoRun, kind |-> k, trigger |-> trigger]
<1>1. /\ starter' = [starter EXCEPT ![s] = x]
      /\ release' = release /\ runs' = runs /\ executor' = executor
      /\ IF k = "data_change" THEN trigger \in Triggers(release) ELSE trigger = NoNode
  BY DEF Check
<1>2. FromTrigger(x)
  BY <1>1 DEF FromTrigger
<1> HIDE DEF x
<1>3. \A t \in Starter : starter'[t] = starter[t] \/ starter'[t] = x
  BY <1>1 DEF TypeOK
<1> QED
  BY <1>1, <1>2, <1>3, InOrder

LEMMA InsertOrder ==
    ASSUME TypeOK, IInv, NodeInv, NEW s \in Starter, Insert(s)
    PROVE  NodeInv'
<1> DEFINE k == starter[s].kind
           t == starter[s].trigger
<1>1. PICK r \in RunId :
        /\ starter[s].pc = "insert" /\ runs[r].status = "absent"
        /\ runs' = [runs EXCEPT ![r] = Queued(runs[r], k, t)]
        /\ starter' = [starter EXCEPT ![s].pc = "send", ![s].run = r]
        /\ release' = release /\ executor' = executor
  BY DEF Insert, Queued
<1>2. /\ runs[r] \in Run /\ starter[s] \in StarterSlot
      /\ k \in Kind /\ t \in Node \cup {NoNode}
  BY StarterEdits DEF TypeOK
<1> DEFINE z == Queued(runs[r], k, t)
<1>3. /\ z.status = "queued" /\ z.node = runs[r].node
      /\ z.kind = k /\ z.trigger = t
  BY <1>2, QueuedFields, RunData
<1> HIDE DEF z
<1>4. \A n \in Node : z.node[n] = "absent"
  BY <1>1, <1>3 DEF NodeInv, RunOk
<1>5. FromTrigger(starter[s])
  BY <1>1 DEF NodeInv
<1>6. RunOk(z)
  <2>1. FromTrigger(z)
    BY <1>3, <1>5 DEF FromTrigger
  <2>2. Follows(z)
    BY <1>4 DEF Follows
  <2> QED
    BY <1>3, <1>4, <2>1, <2>2 DEF RunOk
<1>7. \A q \in RunId : runs'[q] = IF q = r THEN z ELSE runs[q]
  BY <1>1 DEF TypeOK, z
<1>8. starter'[s].pc = "send" /\ \A u \in Starter \ {s} : starter'[u] = starter[u]
  BY <1>1, <1>2 DEF TypeOK, StarterSlot
<1>9. ASSUME NEW e \in Executor, executor[e].run # NoRun
      PROVE  runs'[executor[e].run] = runs[executor[e].run]
  <2>1. executor[e].run \in RunId
    BY <1>9, ExecutorEdits DEF TypeOK
  <2>2. executor[e].run # r
    BY <1>1, <1>9 DEF IInv, ExecutorInv
  <2> QED
    BY <1>7, <2>1, <2>2
<1> QED
  BY <1>1, <1>6, <1>7, <1>8, <1>9, InOrder

LEMMA SendOrder ==
    ASSUME TypeOK, NodeInv, NEW s \in Starter, Send(s) \/ SendFails(s) \/ Vanish(s)
    PROVE  NodeInv'
<1>1. release' = release /\ runs' = runs /\ executor' = executor
  BY DEF Send, SendFails, Vanish
<1>2. starter' = [starter EXCEPT ![s] = Resting] \/ starter' = [starter EXCEPT ![s].pc = "failing"]
  BY DEF Send, SendFails, Vanish
<1>3. Resting.pc = "idle" /\ [starter[s] EXCEPT !.pc = "failing"].pc = "failing"
  BY StarterEdits DEF TypeOK
<1>4. starter'[s].pc # "insert" /\ \A t \in Starter \ {s} : starter'[t] = starter[t]
  BY <1>2, <1>3 DEF TypeOK
<1> QED
  BY <1>1, <1>4, InOrder

\* A run of which only the status changes.
LEMMA StatusOrder ==
    ASSUME TypeOK, NodeInv, NEW r \in RunId, NEW st \in Status, st \notin {"absent", "queued"},
           runs[r].status # "absent", st = "succeeded" => Complete(runs[r])
    PROVE  LET z == [runs[r] EXCEPT !.status = st]
           IN  RunOk(z) /\ z.status = st /\ z.node = runs[r].node
<1> DEFINE z == [runs[r] EXCEPT !.status = st]
<1>1. runs[r] \in Run
  BY DEF TypeOK
<1>2. /\ z.status = st /\ z.node = runs[r].node
      /\ z.kind = runs[r].kind /\ z.trigger = runs[r].trigger
  BY <1>1, RunData, StatusEdits
<1> HIDE DEF z
<1>3. FromTrigger(runs[r]) /\ Follows(runs[r])
  BY DEF NodeInv, RunOk
<1>4. FromTrigger(z) /\ Follows(z) /\ (Complete(runs[r]) => Complete(z))
  BY <1>2, <1>3, SameRun
<1>5. RunOk(z)
  BY <1>2, <1>4 DEF RunOk
<1> QED
  BY <1>2, <1>5 DEF z

LEMMA MarkFailedOrder ==
    ASSUME TypeOK, IInv, NodeInv, NEW s \in Starter, MarkFailed(s)
    PROVE  NodeInv'
<1> DEFINE r == starter[s].run
           z == [runs[r] EXCEPT !.status = "failed"]
<1>1. /\ starter[s].pc = "failing" /\ r \in RunId /\ runs[r].status # "absent"
      /\ starter' = [starter EXCEPT ![s] = Resting] /\ release' = release /\ executor' = executor
  BY DEF MarkFailed, IInv, StarterInv
<1>2. RunOk(z) /\ z.status = "failed" /\ z.node = runs[r].node
  <2>1. "failed" \in Status
    BY DEF Status, Ended
  <2> QED
    BY <1>1, <2>1, StatusOrder
<1>3. runs' = [runs EXCEPT ![r] = z]
  BY <1>1 DEF MarkFailed, TypeOK
<1> HIDE DEF z
<1>4. \A q \in RunId : runs'[q] = IF q = r THEN z ELSE runs[q]
  BY <1>3 DEF TypeOK
<1>5. \A t \in Starter : starter'[t] = starter[t] \/ starter'[t].pc = "idle"
  BY <1>1, StarterEdits DEF TypeOK
<1>6. ASSUME NEW e \in Executor, executor[e].run # NoRun
      PROVE  AtWork(executor[e], runs'[executor[e].run])
  <2>1. executor[e].run \in RunId /\ AtWork(executor[e], runs[executor[e].run])
    BY <1>6, ExecutorEdits DEF TypeOK, NodeInv, RunOf
  <2>2. CASE executor[e].run = r
    BY <1>2, <1>4, <2>1, <2>2 DEF AtWork
  <2>3. CASE executor[e].run # r
    BY <1>4, <2>1, <2>3
  <2> QED
    BY <2>2, <2>3
<1> QED
  BY <1>1, <1>2, <1>4, <1>5, <1>6, InOrder

LEMMA ClaimOrder ==
    ASSUME TypeOK, IInv, NodeInv, NEW e \in Executor, NEW r \in RunId, Claim(e, r)
    PROVE  NodeInv'
<1>1. release' = release /\ starter' = starter
  BY DEF Claim
<1>2. CASE runs[r].status # "queued"
  <2>1. runs' = runs /\ executor' = executor
    BY <1>2 DEF Claim
  <2> QED
    BY <1>1, <2>1, InOrder
<1>3. CASE runs[r].status = "queued"
  <2> DEFINE y == [pc |-> "loop", run |-> r, at |-> 1]
             z == [runs[r] EXCEPT !.status = "running"]
  <2>1. RunOk(z) /\ z.status = "running" /\ z.node = runs[r].node
    <3>1. "running" \in Status
      BY DEF Status, Active
    <3> QED
      BY <1>3, <3>1, StatusOrder
  <2>2. runs' = [runs EXCEPT ![r] = z]
    BY <1>3 DEF Claim, TypeOK
  <2>3. executor' = [executor EXCEPT ![e] = y]
    BY <1>3 DEF Claim
  <2>4. y.pc = "loop" /\ y.run = r /\ y.at = 1
    OBVIOUS
  <2> HIDE DEF y, z
  <2>5. \A q \in RunId : runs'[q] = IF q = r THEN z ELSE runs[q]
    BY <2>2 DEF TypeOK
  <2>6. \A f \in Executor : executor'[f] = IF f = e THEN y ELSE executor[f]
    BY <2>3 DEF TypeOK
  <2>7. \A f \in Executor : executor[f].run # r
    BY <1>3, NoRunIsNone DEF IInv, ExecutorInv
  <2>8. AtWork(y, z)
    <3>1. \A n \in Node : z.node[n] = "absent"
      BY <1>3, <2>1 DEF NodeInv, RunOk
    <3>2. release \in ValidRelease
      BY DEF TypeOK
    <3>3. \A k \in 1 .. Len(release.order) : Order[release][k] \in Node
      BY <3>2, OrderIs, ReleaseFacts
    <3> QED
      BY <2>1, <2>4, <3>1, <3>3 DEF AtWork, Expected
  <2>9. ASSUME NEW f \in Executor, executor'[f].run # NoRun
        PROVE  \/ executor'[f] = executor[f] /\ runs'[executor[f].run] = runs[executor[f].run]
               \/ AtWork(executor'[f], runs'[executor'[f].run])
    <3>1. CASE f = e
      BY <2>4, <2>5, <2>6, <2>8, <3>1
    <3>2. CASE f # e
      <4>1. executor'[f] = executor[f] /\ executor[f].run \in RunId
        BY <2>6, <2>9, <3>2, ExecutorEdits DEF TypeOK
      <4> QED
        BY <2>5, <2>7, <4>1
    <3> QED
      BY <3>1, <3>2
  <2> QED
    BY <1>1, <2>1, <2>5, <2>9, InOrder
<1> QED
  BY <1>2, <1>3

-----------------------------------------------------------------------------
(* Workers at their nodes.                                                 *)

LEMMA GotoIs ==
    ASSUME TypeOK, NEW e \in Executor, NEW pc \in ExecutorPc, Goto(e, pc)
    PROVE  \E y \in ExecutorSlot : /\ executor' = [executor EXCEPT ![e] = y]
                                   /\ y.pc = pc /\ y.run = executor[e].run
                                   /\ y.at = executor[e].at
<1> DEFINE z == [executor[e] EXCEPT !.pc = pc]
<1>1. executor[e] \in ExecutorSlot
  BY DEF TypeOK
<1>2. z \in ExecutorSlot /\ z.pc = pc /\ z.run = executor[e].run /\ z.at = executor[e].at
  BY <1>1, ExecutorEdits
<1>3. executor' = [executor EXCEPT ![e] = z]
  BY DEF Goto, TypeOK
<1> HIDE DEF z
<1> QED
  BY <1>2, <1>3

LEMMA NextNodeIs ==
    ASSUME TypeOK, NEW e \in Executor, executor[e].at <= Len(release.order), NextNode(e)
    PROVE  \E y \in ExecutorSlot : /\ executor' = [executor EXCEPT ![e] = y]
                                   /\ y.pc = "loop" /\ y.run = executor[e].run
                                   /\ y.at = executor[e].at + 1
<1> DEFINE z == [executor[e] EXCEPT !.pc = "loop", !.at = @ + 1]
<1>1. executor[e] \in ExecutorSlot
  BY DEF TypeOK
<1>2. executor[e].at + 1 \in At
  <2>1. executor[e].at \in At
    BY <1>1, ExecutorEdits
  <2>2. Len(release.order) \in Nat /\ Len(release.order) <= Cardinality(Node)
    BY OrderFits, Releases DEF TypeOK
  <2> QED
    BY <2>1, <2>2, Releases DEF At
<1>3. z \in ExecutorSlot /\ z.pc = "loop" /\ z.run = executor[e].run /\ z.at = executor[e].at + 1
  BY <1>1, <1>2, ExecutorEdits
<1>4. executor' = [executor EXCEPT ![e] = z]
  BY DEF NextNode, TypeOK
<1> HIDE DEF z
<1> QED
  BY <1>3, <1>4

\* The node in hand.
LEMMA InHand ==
    ASSUME TypeOK, IInv, NodeInv, NEW e \in Executor, executor[e].pc # "idle"
    PROVE  /\ executor[e] \in ExecutorSlot /\ executor[e].pc \in ExecutorPc
           /\ executor[e].run \in RunId /\ executor[e].at \in Nat \ {0}
           /\ RunOf(e) \in Run /\ RunOk(RunOf(e)) /\ AtWork(executor[e], RunOf(e))
           /\ release \in ValidRelease /\ Len(release.order) \in Nat
           /\ executor[e].pc # "loop" => executor[e].at <= Len(release.order)
           /\ executor[e].at <= Len(release.order) =>
                 /\ NodeOf(e) \in Nodes(release) /\ NodeOf(e) \in Node
                 /\ RunOf(e).node[NodeOf(e)] = Expected[executor[e].pc]
                 /\ \A m \in Upstream(release, NodeOf(e)) : RunOf(e).node[m] \in NodeEnded
<1>1. executor[e] \in ExecutorSlot /\ ExecutorInv(e) /\ release \in ValidRelease
  BY DEF TypeOK, IInv
<1>2. /\ executor[e].pc \in ExecutorPc /\ executor[e].run \in RunId
      /\ executor[e].at \in At
  BY <1>1, ExecutorEdits DEF ExecutorInv
<1>3. executor[e].at \in Nat \ {0} /\ Len(release.order) \in Nat
  BY <1>1, <1>2, ReleaseFacts DEF At
<1>4. RunOf(e) \in Run /\ RunOk(RunOf(e)) /\ AtWork(executor[e], RunOf(e))
  BY <1>2, NoRunIsNone DEF RunOf, NodeInv, TypeOK
<1>5. executor[e].pc # "loop" => executor[e].at <= Len(release.order)
  BY <1>1, <1>2 DEF ExecutorInv, ExecutorPc
<1>6. ASSUME executor[e].at <= Len(release.order)
      PROVE  /\ NodeOf(e) \in Nodes(release) /\ NodeOf(e) \in Node
             /\ RunOf(e).node[NodeOf(e)] = Expected[executor[e].pc]
             /\ \A m \in Upstream(release, NodeOf(e)) : RunOf(e).node[m] \in NodeEnded
  <2> DEFINE k == executor[e].at
  <2>1. k \in 1 .. Len(release.order)
    BY <1>3, <1>6
  <2>2. /\ Order[release] \in Seq(Nodes(release)) /\ Len(Order[release]) = Len(release.order)
        /\ \A m \in Upstream(release, Order[release][k]) :
              \E j \in 1 .. k - 1 : Order[release][j] = m
        /\ Nodes(release) \subseteq Node
    BY <1>1, <2>1, OrderIs, ReleaseFacts
  <2>3. NodeOf(e) \in Nodes(release) /\ NodeOf(e) \in Node
    BY <2>1, <2>2 DEF NodeOf
  <2>4. RunOf(e).node[NodeOf(e)] = Expected[executor[e].pc]
    BY <1>4, <2>1 DEF AtWork, NodeOf
  <2>5. ASSUME NEW m \in Upstream(release, NodeOf(e)) PROVE RunOf(e).node[m] \in NodeEnded
    <3>1. PICK j \in 1 .. k - 1 : Order[release][j] = m
      BY <2>2 DEF NodeOf
    <3>2. j \in 1 .. Len(release.order) /\ j < k
      BY <2>1, <1>3
    <3> QED
      BY <1>4, <3>1, <3>2 DEF AtWork
  <2> QED
    BY <2>3, <2>4, <2>5
<1> QED
  BY <1>1, <1>2, <1>3, <1>4, <1>5, <1>6

\* A worker writes the status of the node in hand, and goes on with the node
\* or to the next one.
LEMMA Turn ==
    ASSUME TypeOK, IInv, NodeInv, NEW e \in Executor, executor[e].pc # "idle",
           executor[e].at <= Len(release.order), release' = release, starter' = starter,
           NEW st \in NodeStatus, Become(e, st),
           NEW y, executor' = [executor EXCEPT ![e] = y], y.run = executor[e].run,
           \/ y.at = executor[e].at /\ st = Expected[y.pc]
           \/ y.at = executor[e].at + 1 /\ y.pc = "loop" /\ st \in NodeEnded,
           st \in {"running", "succeeded"} => ~Blocked(RunOf(e), NodeOf(e)),
           st = "skipped" =>
              \/ NodeOf(e) \notin Selected(RunOf(e))
              \/ \E m \in Needed(RunOf(e), NodeOf(e)) :
                    RunOf(e).node[m] \in NodeEnded \ {"succeeded"}
    PROVE  NodeInv'
<1> DEFINE r == executor[e].run
           x == RunOf(e)
           n == NodeOf(e)
           f == [x.node EXCEPT ![n] = st]
           z == [x EXCEPT !.node = f]
<1>1. /\ r \in RunId /\ executor[e].at \in Nat \ {0} /\ executor[e].pc \in ExecutorPc
      /\ x \in Run /\ RunOk(x) /\ AtWork(executor[e], x) /\ x = runs[r]
      /\ release \in ValidRelease /\ Len(release.order) \in Nat
      /\ n \in Node /\ x.node[n] = Expected[executor[e].pc]
  BY InHand DEF RunOf
<1>2. x.node \in [Node -> NodeStatus]
  BY <1>1, RunFields DEF NodeStatus
<1>3. f \in [Node -> NodeStatus] /\ \A m \in Node : f[m] = IF m = n THEN st ELSE x.node[m]
  BY <1>2
<1>4. runs' = [runs EXCEPT ![r] = z]
  BY <1>1 DEF Become, TypeOK, RunOf, Run
<1> HIDE DEF f
<1>5. z.node = f /\ z.status = x.status /\ z.kind = x.kind /\ z.trigger = x.trigger
  BY <1>1, <1>3, RunData, StatusEdits
<1> HIDE DEF z, x, n, r
<1>6. x.node[n] \notin NodeEnded
  BY <1>1 DEF Expected, ExecutorPc, NodeEnded
<1>7. Follows(z)
  <2>1. /\ Follows(x)
        /\ st \in {"running", "succeeded"} => ~Blocked(x, n)
        /\ st = "skipped" => \/ n \notin Selected(x)
                             \/ \E m \in Needed(x, n) : x.node[m] \in NodeEnded \ {"succeeded"}
    BY <1>1 DEF RunOk, x, n
  <2>2. Written(x, z, n, st)
    BY <1>3, <1>5, <1>6, <2>1 DEF Written
  <2> QED
    BY <1>1, <2>1, <2>2, NodeWritten
<1>8. x.status \in {"running", "failed"}
  BY <1>1 DEF AtWork
<1>9. RunOk(z)
  BY <1>1, <1>5, <1>7, <1>8 DEF RunOk, FromTrigger
<1>10. AtWork(y, z)
  <2> DEFINE o == Order[release]
  <2>1. /\ \A k \in 1 .. Len(release.order) : o[k] \in Node
        /\ \A j, k \in 1 .. Len(release.order) : o[j] = o[k] => j = k
        /\ o[executor[e].at] = n /\ executor[e].at \in 1 .. Len(release.order)
    <3>1. /\ o \in Seq(Nodes(release)) /\ Len(o) = Len(release.order) /\ IsInjective(o)
          /\ Nodes(release) \subseteq Node
      BY <1>1, OrderIs, ReleaseFacts
    <3> QED
      BY <1>1, <3>1 DEF IsInjective, NodeOf, n
  <2> HIDE DEF o
  <2>2. ASSUME NEW k \in 1 .. Len(release.order)
        PROVE  /\ k < y.at => z.node[o[k]] \in NodeEnded
               /\ k = y.at => z.node[o[k]] = Expected[y.pc]
               /\ k > y.at => z.node[o[k]] = "absent"
    <3>1. z.node[o[k]] = IF k = executor[e].at THEN st ELSE x.node[o[k]]
      BY <1>3, <1>5, <2>1
    <3>2. /\ k < executor[e].at => x.node[o[k]] \in NodeEnded
          /\ k > executor[e].at => x.node[o[k]] = "absent"
      BY <1>1 DEF AtWork, o
    <3>3. Expected["loop"] = "absent"
      BY DEF Expected
    <3> QED
      BY <1>1, <2>1, <3>1, <3>2, <3>3
  <2> QED
    BY <1>5, <1>8, <2>2 DEF AtWork, o
<1>11. /\ \A q \in RunId : runs'[q] = IF q = r THEN z ELSE runs[q]
       /\ \A g \in Executor : executor'[g] = IF g = e THEN y ELSE executor[g]
  BY <1>1, <1>4 DEF TypeOK
<1>12. ASSUME NEW g \in Executor, executor'[g].run # NoRun
       PROVE  \/ executor'[g] = executor[g] /\ runs'[executor[g].run] = runs[executor[g].run]
              \/ AtWork(executor'[g], runs'[executor'[g].run])
  <2>1. CASE g = e
    <3>1. executor'[g] = y /\ y.run = r
      BY <1>11, <2>1 DEF r
    <3> QED
      BY <1>1, <1>10, <1>11, <3>1
  <2>2. CASE g # e
    <3>1. executor'[g] = executor[g] /\ executor[g].run \in RunId
      BY <1>11, <1>12, <2>2, ExecutorEdits DEF TypeOK
    <3>2. executor[g].run # r
      BY <2>2, <3>1, NoRunIsNone DEF IInv, OwnRun, r
    <3> QED
      BY <1>11, <3>1, <3>2
  <2> QED
    BY <2>1, <2>2
<1> QED
  BY <1>9, <1>11, <1>12, InOrder

LEMMA EnterOrder ==
    ASSUME TypeOK, IInv, NodeInv, NEW e \in Executor, Enter(e)
    PROVE  NodeInv'
<1>1. /\ executor[e].pc = "loop" /\ executor[e].at <= Len(release.order)
      /\ Become(e, "queued") /\ Goto(e, "decide") /\ release' = release /\ starter' = starter
  BY DEF Enter
<1>2. "decide" \in ExecutorPc /\ "queued" \in NodeStatus /\ Expected["decide"] = "queued"
  BY DEF ExecutorPc, NodeStatus, Active, Expected
<1>3. PICK y \in ExecutorSlot : /\ executor' = [executor EXCEPT ![e] = y]
                                /\ y.pc = "decide" /\ y.run = executor[e].run
                                /\ y.at = executor[e].at
  BY <1>1, <1>2, GotoIs
<1> QED
  BY <1>1, <1>2, <1>3, Turn

LEMMA DecideOrder ==
    ASSUME TypeOK, IInv, NodeInv, NEW e \in Executor, Decide(e)
    PROVE  NodeInv'
<1> DEFINE n == NodeOf(e)
           x == RunOf(e)
<1>1. executor[e].pc = "decide" /\ release' = release /\ starter' = starter
  BY DEF Decide
<1>2. /\ executor[e].at <= Len(release.order) /\ n \in Nodes(release) /\ n \in Node
      /\ release \in ValidRelease
      /\ \A m \in Upstream(release, n) : x.node[m] \in NodeEnded
  BY <1>1, InHand
<1>3. /\ {"skipped", "succeeded", "running"} \subseteq NodeStatus
      /\ {"skipped", "succeeded"} \subseteq NodeEnded
      /\ "perform" \in ExecutorPc /\ Expected["perform"] = "running"
  BY DEF NodeStatus, NodeEnded, Active, ExecutorPc, Expected
<1>4. CASE /\ n \notin Selected(x) \/ Blocked(x, n)
           /\ Become(e, "skipped") /\ NextNode(e)
  <2>1. \/ n \notin Selected(x)
        \/ \E m \in Needed(x, n) : x.node[m] \in NodeEnded \ {"succeeded"}
    BY <1>2, <1>4 DEF Blocked, Needed
  <2>2. PICK y \in ExecutorSlot : /\ executor' = [executor EXCEPT ![e] = y]
                                  /\ y.pc = "loop" /\ y.run = executor[e].run
                                  /\ y.at = executor[e].at + 1
    BY <1>2, <1>4, NextNodeIs
  <2> QED
    BY <1>1, <1>2, <1>3, <1>4, <2>1, <2>2, Turn
<1>5. CASE n \in Triggers(release) /\ Become(e, "succeeded") /\ NextNode(e)
  <2>1. ~Blocked(x, n)
    BY <1>2, <1>5, ReleaseFacts DEF Valid, Blocked, Needed
  <2>2. PICK y \in ExecutorSlot : /\ executor' = [executor EXCEPT ![e] = y]
                                  /\ y.pc = "loop" /\ y.run = executor[e].run
                                  /\ y.at = executor[e].at + 1
    BY <1>2, <1>5, NextNodeIs
  <2> QED
    BY <1>1, <1>2, <1>3, <1>5, <2>1, <2>2, Turn
<1>6. CASE ~Blocked(x, n) /\ Become(e, "running") /\ Goto(e, "perform")
  <2>1. PICK y \in ExecutorSlot : /\ executor' = [executor EXCEPT ![e] = y]
                                  /\ y.pc = "perform" /\ y.run = executor[e].run
                                  /\ y.at = executor[e].at
    BY <1>3, <1>6, GotoIs
  <2> QED
    BY <1>1, <1>2, <1>3, <1>6, <2>1, Turn
<1> QED
  BY <1>4, <1>5, <1>6 DEF Decide

\* A node that was running ends.
LEMMA Ends ==
    ASSUME TypeOK, IInv, NodeInv, NEW e \in Executor, executor[e].pc \in {"perform", "wait"},
           NEW st \in {"succeeded", "failed"}, Become(e, st), NextNode(e),
           release' = release, starter' = starter
    PROVE  NodeInv'
<1>1. /\ executor[e].pc # "idle" /\ executor[e].at <= Len(release.order) /\ NodeOf(e) \in Node
      /\ RunOf(e).node[NodeOf(e)] = "running" /\ RunOk(RunOf(e))
  BY InHand DEF Expected
<1>2. ~Blocked(RunOf(e), NodeOf(e))
  BY <1>1 DEF RunOk, Follows
<1>3. st \in NodeStatus /\ st \in NodeEnded /\ st # "skipped"
  BY DEF NodeStatus, NodeEnded
<1>4. PICK y \in ExecutorSlot : /\ executor' = [executor EXCEPT ![e] = y]
                                /\ y.pc = "loop" /\ y.run = executor[e].run
                                /\ y.at = executor[e].at + 1
  BY <1>1, NextNodeIs
<1> QED
  BY <1>1, <1>2, <1>3, <1>4, Turn

LEMMA WaitOrder ==
    ASSUME TypeOK, IInv, NodeInv, NEW e \in Executor, Wait(e)
    PROVE  NodeInv'
<1> DEFINE status == job[executor[e].run][NodeOf(e)]
           st == IF status = "active" THEN "failed" ELSE status
<1>1. /\ executor[e].pc = "wait" /\ Become(e, st) /\ NextNode(e)
      /\ release' = release /\ starter' = starter
  BY DEF Wait
<1>2. executor[e].run \in RunId /\ NodeOf(e) \in Node
  BY <1>1, InHand
<1>3. st \in {"succeeded", "failed"}
  <2>1. status # "none"
    BY <1>1, <1>2 DEF IInv, WaitInv
  <2> QED
    BY <1>2, <2>1, WorkStatus
<1> HIDE DEF st
<1> QED
  BY <1>1, <1>3, Ends

LEMMA SubmitOrder ==
    ASSUME TypeOK, IInv, NodeInv, NEW e \in Executor, Submit(e)
    PROVE  NodeInv'
<1>1. /\ executor[e].pc = "perform" /\ Goto(e, "wait")
      /\ release' = release /\ starter' = starter /\ runs' = runs
  BY DEF Submit
<1>2. "wait" \in ExecutorPc /\ Expected["wait"] = Expected["perform"]
  BY DEF ExecutorPc, Expected
<1>3. PICK y \in ExecutorSlot : /\ executor' = [executor EXCEPT ![e] = y]
                                /\ y.pc = "wait" /\ y.run = executor[e].run
                                /\ y.at = executor[e].at
  BY <1>1, <1>2, GotoIs
<1>4. AtWork(executor[e], RunOf(e))
  BY <1>1, InHand
<1>5. AtWork(y, runs[y.run])
  BY <1>1, <1>2, <1>3, <1>4 DEF AtWork, RunOf
<1>6. \A f \in Executor : executor'[f] = IF f = e THEN y ELSE executor[f]
  BY <1>3 DEF TypeOK
<1> QED
  BY <1>1, <1>5, <1>6, InOrder

LEMMA EndOrder ==
    ASSUME TypeOK, IInv, NodeInv, NEW e \in Executor, End(e)
    PROVE  NodeInv'
<1> DEFINE r == executor[e].run
           st == Outcome(RunOf(e))
           z == [runs[r] EXCEPT !.status = st]
<1>1. /\ executor[e].pc = "loop" /\ executor[e].at > Len(release.order)
      /\ runs' = [runs EXCEPT ![r].status = st]
      /\ executor' = [executor EXCEPT ![e] = Idle] /\ release' = release /\ starter' = starter
  BY DEF End
<1>2. /\ r \in RunId /\ RunOf(e) \in Run /\ RunOk(RunOf(e)) /\ AtWork(executor[e], RunOf(e))
      /\ release \in ValidRelease /\ executor[e].at \in Nat \ {0} /\ Len(release.order) \in Nat
  BY <1>1, InHand
<1>3. RunOf(e) = runs[r]
  BY DEF RunOf
<1>4. runs[r].status # "absent"
  BY <1>2, <1>3 DEF AtWork
<1>5. \A n \in Nodes(release) : RunOf(e).node[n] \in NodeEnded
  <2>1. TAKE n \in Nodes(release)
  <2>2. PICK k \in 1 .. Len(release.order) : Order[release][k] = n
    <3>1. /\ Order[release] \in Seq(Nodes(release)) /\ Len(Order[release]) = Len(release.order)
          /\ Range(Order[release]) = Nodes(release)
      BY <1>2, OrderIs
    <3> QED
      BY <3>1 DEF Range
  <2> QED
    BY <1>1, <1>2, <2>2 DEF AtWork
<1>6. st \in Status /\ st \notin {"absent", "queued"}
  BY DEF Outcome, Status, Ended
<1>7. st = "succeeded" => Complete(RunOf(e))
  <2>1. Follows(RunOf(e)) /\ FromTrigger(RunOf(e))
    BY <1>2, <1>3, <1>4 DEF RunOk
  <2> QED
    BY <1>2, <1>5, <2>1, EndIsComplete
<1> HIDE DEF st
<1>8. RunOk(z)
  BY <1>2, <1>3, <1>4, <1>6, <1>7, StatusOrder
<1>9. runs' = [runs EXCEPT ![r] = z]
  BY <1>1, <1>2 DEF TypeOK
<1> HIDE DEF z
<1>10. \A q \in RunId : runs'[q] = IF q = r THEN z ELSE runs[q]
  BY <1>9 DEF TypeOK
<1>11. ASSUME NEW f \in Executor, executor'[f].run # NoRun
       PROVE  executor'[f] = executor[f] /\ runs'[executor[f].run] = runs[executor[f].run]
  <2>1. f # e /\ executor'[f] = executor[f]
    BY <1>1, <1>11, IdleFields DEF TypeOK
  <2>2. executor[f] \in ExecutorSlot /\ executor[f].run # NoRun
    BY <1>11, <2>1 DEF TypeOK
  <2>3. executor[f].run \in RunId
    BY <2>2, ExecutorEdits
  <2>4. executor[f].run # r
    BY <2>1, <2>2 DEF IInv, OwnRun
  <2> QED
    BY <1>10, <2>1, <2>3, <2>4
<1> QED
  BY <1>1, <1>8, <1>10, <1>11, InOrder

LEMMA BreakOrder ==
    ASSUME TypeOK, IInv, NodeInv, NEW e \in Executor, Break(e) \/ Crash(e)
    PROVE  NodeInv'
<1> DEFINE r == executor[e].run
           f == [n \in Node |-> IF runs[r].node[n] \in Active THEN "failed" ELSE runs[r].node[n]]
           z == [runs[r] EXCEPT !.status = "failed", !.node = f]
<1>1. /\ executor[e].pc # "idle" /\ executor' = [executor EXCEPT ![e] = Idle]
      /\ release' = release /\ starter' = starter
      /\ runs' = runs \/ runs' = [runs EXCEPT ![r] = z]
  BY DEF Break, Crash
<1>2. r \in RunId /\ runs[r] \in Run /\ RunOk(runs[r]) /\ AtWork(executor[e], runs[r])
  BY <1>1, InHand DEF RunOf
<1>3. /\ f \in [Node -> NodeStatus] /\ "failed" \in Status
      /\ \A n \in Node : f[n] = IF runs[r].node[n] \in Active THEN "failed" ELSE runs[r].node[n]
  <2>1. runs[r].node \in [Node -> NodeStatus] /\ "failed" \in NodeStatus /\ "failed" \in Status
    BY <1>2, RunFields DEF NodeStatus, NodeEnded, Status, Ended
  <2> QED
    BY <2>1
<1> HIDE DEF f
<1>4. z.node = f /\ z.status = "failed" /\ z.kind = runs[r].kind /\ z.trigger = runs[r].trigger
  BY <1>2, <1>3, RunData, StatusEdits
<1> HIDE DEF z
<1>5. RunOk(z)
  <2>1. Follows(runs[r]) /\ FromTrigger(runs[r])
    BY <1>2 DEF RunOk, AtWork
  <2>2. \A n \in Node : z.node[n] = IF runs[r].node[n] \in Active THEN "failed" ELSE runs[r].node[n]
    BY <1>3, <1>4
  <2>3. Follows(z)
    BY <1>4, <2>1, <2>2, NodesClosed
  <2> QED
    BY <1>4, <2>1, <2>3 DEF RunOk, FromTrigger
<1>6. \A q \in RunId : \/ runs'[q] = runs[q]
                       \/ q = r /\ runs'[q] = z
  <2>1. CASE runs' = runs
    BY <2>1
  <2>2. CASE runs' = [runs EXCEPT ![r] = z]
    BY <1>2, <2>2 DEF TypeOK
  <2> QED
    BY <1>1, <2>1, <2>2 DEF z
<1>7. ASSUME NEW g \in Executor, executor'[g].run # NoRun
      PROVE  executor'[g] = executor[g] /\ runs'[executor[g].run] = runs[executor[g].run]
  <2>1. g # e /\ executor'[g] = executor[g]
    BY <1>1, <1>7, IdleFields DEF TypeOK
  <2>2. executor[g] \in ExecutorSlot /\ executor[g].run # NoRun
    BY <1>7, <2>1 DEF TypeOK
  <2>3. executor[g].run \in RunId
    BY <2>2, ExecutorEdits
  <2>4. executor[g].run # r
    BY <2>1, <2>2 DEF IInv, OwnRun
  <2> QED
    BY <1>6, <2>1, <2>3, <2>4
<1> QED
  BY <1>1, <1>5, <1>6, <1>7, InOrder

LEMMA InitOrder == Init => NodeInv
<1> SUFFICES ASSUME Init PROVE NodeInv
  OBVIOUS
<1>1. /\ \A r \in RunId : runs[r] = NoRunYet
      /\ \A s \in Starter : starter[s].pc = "idle"
      /\ \A e \in Executor : executor[e].run = NoRun
  BY StarterEdits, IdleFields DEF Init
<1>2. NoRunYet.status = "absent" /\ \A n \in Node : NoRunYet.node[n] = "absent"
  BY RunFields, RunData
<1>3. RunOk(NoRunYet)
  BY <1>2 DEF RunOk, Follows
<1> QED
  BY <1>1, <1>3 DEF NodeInv

LEMMA StepOrder == TypeOK /\ IInv /\ NodeInv /\ [Next]_vars => NodeInv'
<1> SUFFICES ASSUME TypeOK, IInv, NodeInv, [Next]_vars PROVE NodeInv'
  OBVIOUS
<1>1. CASE \E s \in Starter :
             \/ \E k \in Kind, trigger \in Node \cup {NoNode} : Check(s, k, trigger)
             \/ Insert(s) \/ Send(s) \/ SendFails(s) \/ MarkFailed(s) \/ Vanish(s)
  BY <1>1, CheckOrder, InsertOrder, SendOrder, MarkFailedOrder
<1>2. CASE \E e \in Executor, r \in RunId : Claim(e, r)
  BY <1>2, ClaimOrder
<1>3. ASSUME NEW e \in Executor, Work(e) PROVE NodeInv'
  <2>1. ASSUME NEW outcome \in {"succeeded", "failed"}, Perform(e, outcome) PROVE NodeInv'
    BY <2>1, Ends DEF Perform
  <2> QED
    BY <1>3, <2>1, EnterOrder, DecideOrder, SubmitOrder, WaitOrder, EndOrder DEF Work
<1>4. CASE \E e \in Executor : Break(e) \/ Crash(e)
  BY <1>4, BreakOrder
<1>5. CASE \/ \E e \in Executor : Redeliver(e)
           \/ \E r \in RunId, n \in Node, outcome \in {"succeeded", "failed"} : JobEnds(r, n, outcome)
           \/ UNCHANGED vars
  <2>1. release' = release /\ runs' = runs /\ starter' = starter /\ executor' = executor
    BY <1>5 DEF Redeliver, JobEnds, vars
  <2> QED
    BY <2>1, InOrder
<1> QED
  BY <1>1, <1>2, <1>3, <1>4, <1>5 DEF Next

(* How far a run is: who is at a run has ended the nodes before the one in   *)
(* hand, in the order of _topological_order, and has not begun the others;   *)
(* what every node has become agrees with the nodes it needs (_execute_run). *)
THEOREM NodesInOrder == Spec => []NodeInv
<1>1. Init => NodeInv
  BY InitOrder
<1>2. TypeOK /\ IInv /\ NodeInv /\ [Next]_vars => NodeInv'
  BY StepOrder
<1> QED
  BY <1>1, <1>2, Inductive, PTL DEF Spec

(* Runs follow the graph of the release, whatever it is: no node is executed *)
(* before the nodes it needs have succeeded or skipped because its turn came *)
(* too early, and a run that is recorded as succeeded has done all its work  *)
(* (_topological_order, _reachable_nodes, _execute_run).                     *)
THEOREM FollowsRelease == Spec => []RunsFollowRelease
<1>1. NodeInv => RunsFollowRelease
  BY DEF NodeInv, RunOk, Follows, Complete, RunsFollowRelease, NodesFollowUpstream,
         SucceededIsComplete
<1> QED
  BY <1>1, NodesInOrder, PTL

-----------------------------------------------------------------------------
(* What is recorded of a node that has ended.                              *)

NodesFinal ==
    \A r \in RunId, n \in Node :
        runs[r].node[n] \in NodeEnded => runs'[r].node[n] = runs[r].node[n]

\* Steps that write at most one record, of which they keep the nodes.
LEMMA NodesUntouched ==
    ASSUME \A r \in RunId : runs'[r].node = runs[r].node
    PROVE  NodesFinal
BY DEF NodesFinal

\* A worker writes to the node in hand only, which has not ended.
LEMMA TurnIsFinal ==
    ASSUME TypeOK, IInv, NodeInv, NEW e \in Executor, executor[e].pc # "idle",
           executor[e].at <= Len(release.order), NEW st, Become(e, st)
    PROVE  NodesFinal
<1> DEFINE r == executor[e].run
           f == [runs[r].node EXCEPT ![NodeOf(e)] = st]
           z == [runs[r] EXCEPT !.node = f]
<1>1. /\ r \in RunId /\ runs[r] \in Run /\ executor[e].pc \in ExecutorPc
      /\ runs[r].node[NodeOf(e)] = Expected[executor[e].pc]
  BY InHand DEF RunOf
<1>2. runs[r].node[NodeOf(e)] \notin NodeEnded
  BY <1>1 DEF Expected, ExecutorPc, NodeEnded
<1>3. runs' = [runs EXCEPT ![r] = z]
  BY <1>1 DEF Become, TypeOK, Run
<1>4. runs[r].node \in [Node -> NodeStatus]
  BY <1>1, RunFields DEF NodeStatus
<1>5. \A n \in Node : n # NodeOf(e) => f[n] = runs[r].node[n]
  BY <1>4
<1> HIDE DEF f
<1>6. z.node = f
  BY <1>1 DEF Run
<1> HIDE DEF z
<1>7. \A q \in RunId : runs'[q] = IF q = r THEN z ELSE runs[q]
  BY <1>3 DEF TypeOK
<1> SUFFICES ASSUME NEW q \in RunId, NEW n \in Node, runs[q].node[n] \in NodeEnded
             PROVE  runs'[q].node[n] = runs[q].node[n]
  BY DEF NodesFinal
<1>8. CASE q = r
  BY <1>2, <1>5, <1>6, <1>7, <1>8
<1>9. CASE q # r
  BY <1>7, <1>9
<1> QED
  BY <1>8, <1>9

LEMMA StepFinal == TypeOK /\ IInv /\ NodeInv /\ [Next]_vars => NodesFinal
<1> SUFFICES ASSUME TypeOK, IInv, NodeInv, [Next]_vars PROVE NodesFinal
  OBVIOUS
<1>1. \A r \in RunId : runs[r] \in Run
  BY DEF TypeOK
<1>2. CASE runs' = runs
  BY <1>2, NodesUntouched
<1>3. ASSUME NEW s \in Starter, Insert(s) PROVE NodesFinal
  <2> DEFINE k == starter[s].kind
             t == starter[s].trigger
  <2>1. PICK r \in RunId : runs' = [runs EXCEPT ![r] = Queued(runs[r], k, t)]
    BY <1>3 DEF Insert, Queued
  <2>2. k \in Kind /\ t \in Node \cup {NoNode}
    BY StarterEdits DEF TypeOK
  <2>3. Queued(runs[r], k, t).node = runs[r].node
    BY <1>1, <2>2, RunData
  <2> QED
    BY <2>1, <2>3, NodesUntouched DEF TypeOK
<1>4. ASSUME NEW r \in RunId, NEW st \in Status, runs' = [runs EXCEPT ![r].status = st]
      PROVE  NodesFinal
  <2>1. [runs[r] EXCEPT !.status = st].node = runs[r].node
    BY <1>1, RunData
  <2> QED
    BY <1>4, <2>1, NodesUntouched DEF TypeOK
<1>5. {"running", "failed", "partial", "succeeded"} \subseteq Status
  BY DEF Status, Active, Ended
<1>6. ASSUME NEW s \in Starter, MarkFailed(s) PROVE NodesFinal
  <2>1. starter[s].run \in RunId
    BY <1>6 DEF MarkFailed, IInv, StarterInv
  <2> QED
    BY <1>4, <1>5, <1>6, <2>1 DEF MarkFailed
<1>7. ASSUME NEW e \in Executor, NEW r \in RunId, Claim(e, r) PROVE NodesFinal
  BY <1>2, <1>4, <1>5, <1>7 DEF Claim
<1>8. ASSUME NEW e \in Executor, Work(e) PROVE NodesFinal
  <2>1. executor[e].pc # "idle"
    BY <1>8 DEF Work, Enter, Decide, Submit, Wait, End, Perform
  <2>2. executor[e].run \in RunId /\ (executor[e].pc # "loop" => executor[e].at <= Len(release.order))
    BY <2>1, InHand
  <2>3. CASE End(e)
    <3>1. Outcome(RunOf(e)) \in Status
      BY <1>5 DEF Outcome
    <3> QED
      BY <1>4, <2>2, <2>3, <3>1 DEF End
  <2>4. CASE Submit(e)
    BY <1>2, <2>4 DEF Submit
  <2>5. CASE ~End(e) /\ ~Submit(e)
    <3>1. \E st : Become(e, st)
      BY <1>8, <2>5 DEF Work, Enter, Decide, Wait, Perform
    <3>2. executor[e].at <= Len(release.order)
      BY <1>8, <2>2, <2>5 DEF Work, Enter, Decide, Wait, Perform
    <3> QED
      BY <2>1, <3>1, <3>2, TurnIsFinal
  <2> QED
    BY <2>3, <2>4, <2>5
<1>9. ASSUME NEW e \in Executor, Break(e), runs' # runs PROVE NodesFinal
  <2> DEFINE r == executor[e].run
             f == [n \in Node |-> IF runs[r].node[n] \in Active THEN "failed" ELSE runs[r].node[n]]
             z == [runs[r] EXCEPT !.status = "failed", !.node = f]
  <2>1. runs' = [runs EXCEPT ![r] = z] /\ r \in RunId
    BY <1>9, InHand DEF Break
  <2>2. \A n \in Node : runs[r].node[n] \in NodeEnded => f[n] = runs[r].node[n]
    BY DEF NodeEnded, Active
  <2> HIDE DEF f
  <2>3. z.node = f
    BY <1>1, <2>1 DEF Run
  <2> HIDE DEF z
  <2>4. \A q \in RunId : runs'[q] = IF q = r THEN z ELSE runs[q]
    BY <2>1 DEF TypeOK
  <2> QED
    BY <2>2, <2>3, <2>4 DEF NodesFinal
<1>10. \/ runs' = runs
       \/ \E s \in Starter : Insert(s) \/ MarkFailed(s)
       \/ \E e \in Executor : Work(e) \/ Break(e) \/ \E r \in RunId : Claim(e, r)
  BY DEF Next, vars, Check, Send, SendFails, Vanish, Crash, Redeliver, JobEnds
<1> QED
  BY <1>2, <1>3, <1>6, <1>7, <1>8, <1>9, <1>10

(* What was recorded of a node run or of a run when it ended is never changed *)
(* by a duplicate delivery, a crash, a late answer of a task or another       *)
(* worker; of a run only by the starter that took it for not sent             *)
(* (_execute_run, _mark_run_failed).                                          *)
THEOREM EndedFinal == Spec => EndedIsFinal
<1>1. TypeOK /\ IInv /\ NodeInv /\ [Next]_vars =>
         [\A r \in RunId :
             /\ \A n \in Node : runs[r].node[n] \in NodeEnded =>
                   runs'[r].node[n] = runs[r].node[n]
             /\ runs[r].status \in Ended /\ r \notin history.doubted =>
                   runs'[r].status = runs[r].status]_vars
  BY StepFinal, StepOutcome DEF NodesFinal
<1> QED
  BY <1>1, Inductive, NodesInOrder, PTL DEF Spec, EndedIsFinal

-----------------------------------------------------------------------------
(* WorkflowCatalog.                                                        *)

Columns == {"wf", "channel", "status", "snap", "rel", "hash", "sched", "next", "mon"}
IsRow(r) == r = [c \in Columns |-> r[c]]
IsTask(t) ==
    /\ t = [c \in {"live", "rev", "at", "config"} |-> t[c]]
    /\ t.config = [c \in {"body", "ptr", "sys"} |-> t.config[c]]
IsDb(d) ==
    /\ d = [c \in {"task", "wf", "ver"} |-> d[c]] /\ d.ver = [v \in Version |-> d.ver[v]]
    /\ IsTask(d.task) /\ \A v \in Version : IsRow(d.ver[v])

\* No nodes, the task without a snapshot, or a snapshot.
NodesOK(n) == n \in {Catalog!NoNodes, Catalog!Bare} \/ n.rev \in Catalog!Revision

\* What a request may do to a row: t is the task it has read, own says that
\* the row is the one the request is about.
RowFits(k, t, op, own, r, n) ==
    /\ IsRow(n) /\ n.channel = r.channel /\ n.wf = r.wf /\ NodesOK(n.snap)
    /\ n.snap # r.snap =>
          \/ op = "update" /\ own /\ r.status # "online" /\ n.snap # Catalog!Bare
          \/ /\ k = "sm4" /\ op \in {"edit", "delete"} /\ r.channel = "prod"
             /\ r.snap = Catalog!Bare /\ n.snap = Catalog!Fresh(t)
    /\ n.status = "online" /\ r.status # "online" => op = "publish" /\ own /\ r.channel = "prod"
    /\ op = "update" /\ own => n.rel = n.snap /\ n.hash = Catalog!Hash(n.snap)
    /\ k = "sql" /\ ~(op = "update" /\ own) => n.rel = r.rel /\ n.hash = r.hash
    /\ k # "trigger" /\ r.mon = "none" => n.mon = "none"

RowsFit(k, q) ==
    \A v \in Version : RowFits(k, q.read.task, q.op, v = q.v, q.read.ver[v], q.new.ver[v])

AddFits(k, add) ==
    /\ IsRow(add) /\ NodesOK(add.snap)
    /\ add.status = "online" => k = "trigger" /\ add.channel = "prod"
    /\ add # Catalog!NoRow => add.channel # "none"
    /\ add.channel = "prod" => add.snap # Catalog!Bare
    /\ add # Catalog!NoRow => add.rel = add.snap /\ add.hash = Catalog!Hash(add.snap)
    /\ k # "trigger" => add.mon = "none"

LiveFor(k) == IF k = "sm4" THEN {"active", "gone"} ELSE {"active", "disabled", "gone"}

TaskFits(k, q) ==
    /\ q.new.task.live \in LiveFor(k)
    /\ q.new.task.rev \in Catalog!Revision /\ q.new.task.config.body \in Catalog!Revision
    /\ q.new.task.config.ptr \in Version \cup {Catalog!NoVersion, Catalog!NewRow}
    /\ q.new.task.config.ptr = Catalog!NewRow => q.add # Catalog!NoRow
    /\ k = "sm4" =>
          IF q.op = "edit"
          THEN /\ q.new.task.rev = q.read.task.rev + 1
               /\ \A v \in Version : q.read.ver[v].channel = "prod" /\ q.read.ver[v].snap = Catalog!Bare =>
                     q.new.ver[v].snap = Catalog!Fresh(q.read.task)
          ELSE q.new.task.rev = q.read.task.rev /\ q.new.task.config = q.read.task.config

\* publish_version
PublishFits(q) ==
    q.op = "publish" =>
        /\ q.v \in Version /\ q.new.task = q.read.task
        /\ q.new.ver[q.v].status = "online"
        /\ \A u \in Version \ {q.v} : q.read.ver[u].wf = q.read.ver[q.v].wf => q.new.ver[u].status # "online"

OneMonitored(d) ==
    \A v \in Version : d.ver[v].mon = "on" => d.task.live # "gone" /\ v = d.task.config.ptr
MonitorFits(k, q) ==
    k = "trigger" =>
        /\ q.op \in {"edit", "delete", "deploy", "enable", "test"}
        /\ OneMonitored(q.read) => OneMonitored(q.new)
        /\ q.add.mon = "on" => q.new.task.config.ptr = Catalog!NewRow /\ q.new.task.live # "gone"

ChainFits(k, q) ==
    /\ q.chain => k = "sql" /\ q.op \in {"submit", "publish"}
    /\ q.chain /\ q.op = "submit" =>
          \/ q.v = Catalog!NoVersion /\ q.add # Catalog!NoRow /\ q.add.channel = "prod" /\ Catalog!Hash(q.add.snap) = q.want
          \/ q.v \in Version /\ q.read.ver[q.v].hash = q.want /\ q.read.ver[q.v].channel = "prod"

IsRequest(q) ==
    /\ q = [c \in {"op", "v", "read", "new", "add", "chain", "want"} |-> q[c]]
    /\ q.op \in Catalog!Op /\ IsDb(q.read) /\ IsDb(q.new)

Fits(k, q) ==
    /\ IsRequest(q) /\ RowsFit(k, q) /\ AddFits(k, q.add) /\ TaskFits(k, q) /\ PublishFits(q)
    /\ MonitorFits(k, q) /\ ChainFits(k, q)

IsBetween(q) == q = [c \in {"op", "v", "want"} |-> q[c]] /\ q.op = "between"

-----------------------------------------------------------------------------
\* A production version without a snapshot.
Unfrozen(r) == r.channel = "prod" /\ r.snap = Catalog!Bare

Recorded(n) == n.rev > 0 => n.rev <= task.rev /\ recorded[n.rev] = n.body

\* How the database has gone on since a request has read it.
Since(q) ==
    /\ \A v \in Version : /\ q.read.ver[v].channel # "none" => ver[v].channel = q.read.ver[v].channel
                          /\ Unfrozen(ver[v]) => Unfrozen(q.read.ver[v])
                          /\ kind # "trigger" => q.read.ver[v].mon = "none"
    /\ kind = "sm4" =>
          /\ q.read.task.rev \in 1 .. task.rev
          /\ recorded[q.read.task.rev] = q.read.task.config.body
          /\ \A v \in Version : Recorded(q.new.ver[v].snap)
          /\ Recorded(q.add.snap)

\* What the publication of a collection is owed.
Owing(q) ==
    /\ kind = "sql" /\ q.v \in Version /\ ver[q.v].channel = "prod"
    /\ Catalog!Undisturbed({"submit", "update"}) /\ q.want # Catalog!Void => Catalog!Hash(ver[q.v].snap) = q.want

SessInv ==
    /\ sess = [s \in Session |-> sess[s]]
    /\ \A s \in Session :
          \/ sess[s] = Catalog!Idle
          \/ IsBetween(sess[s]) /\ Owing(sess[s])
          \/ /\ Fits(kind, sess[s]) /\ Since(sess[s])
             /\ sess[s].op = "publish" /\ sess[s].chain => Owing(sess[s])

TablesInv ==
    /\ kind \in {"sql", "sm4", "trigger"} /\ crossed \subseteq Catalog!Op
    /\ IsDb(Catalog!Db) /\ recorded = [r \in Catalog!Revision |-> recorded[r]]
    /\ task.live \in LiveFor(kind) /\ task.rev \in Catalog!Revision /\ task.config.body \in Catalog!Revision
    /\ task.config.ptr \in Version \cup {Catalog!NoVersion}
    /\ \A v \in Version : NodesOK(ver[v].snap)
OnlineInv == \A v \in Version : Catalog!Online(v) => ver[v].channel = "prod"
UnfrozenInv == \A v \in Version : Unfrozen(ver[v]) => kind = "sm4" /\ task.rev = 1
RecordedInv ==
    kind = "sm4" =>
        /\ \A r \in Catalog!Revision : recorded[r] \in Catalog!Revision \cup {0} /\ (recorded[r] # 0 <=> r <= task.rev)
        /\ recorded[task.rev] = task.config.body
        /\ \A v \in Version : Recorded(ver[v].snap)
HashInv ==
    kind = "sql" /\ Catalog!Undisturbed({"update"}) =>
        \A v \in Version : ver[v].channel = "prod" => ver[v].rel = ver[v].snap /\ ver[v].hash = Catalog!Hash(ver[v].snap)
NoMonitors == kind # "trigger" => \A v \in Version : ver[v].mon = "none"
RoomInv == Cardinality(Catalog!Adding) <= Cardinality(Version \ Catalog!Used)

CatalogInv ==
    /\ TablesInv /\ OnlineInv /\ UnfrozenInv /\ RecordedInv /\ HashInv /\ NoMonitors /\ RoomInv
    /\ Catalog!OneOnline /\ Catalog!OneMonitor /\ SessInv

-----------------------------------------------------------------------------


(* Rows.  They are edited only here. *)

LEMMA FreshNodes ==
    ASSUME NEW t, t.rev \in Catalog!Revision
    PROVE  /\ NodesOK(Catalog!Fresh(t)) /\ Catalog!Fresh(t) # Catalog!Bare /\ Catalog!Fresh(t) # Catalog!NoNodes /\ Catalog!Fresh(t).rev = t.rev
           /\ Catalog!Fresh(t).body = t.config.body
<1>1. t.rev \in Nat /\ t.rev > 0
  BY PlatformAssumption DEF Catalog!Revision, Catalog!WorkflowCatalogAssumption
<1>2. Catalog!Fresh(t).rev = t.rev /\ Catalog!Fresh(t).body = t.config.body
  BY DEF Catalog!Fresh
<1>3. Catalog!Bare.rev = 0 /\ Catalog!NoNodes.rev = -1
  BY DEF Catalog!Bare, Catalog!NoNodes
<1> QED
  BY <1>1, <1>2, <1>3 DEF NodesOK

LEMMA FrozenNodes ==
    ASSUME task.rev \in Catalog!Revision, NEW n, NodesOK(n), NEW p \in BOOLEAN
    PROVE  /\ NodesOK(Catalog!Frozen(n, p)) /\ Catalog!Frozen(n, p) # Catalog!Bare
           /\ Catalog!Frozen(n, p) \in {n, Catalog!Fresh(task)}
           /\ n = Catalog!NoNodes => Catalog!Frozen(n, p) = Catalog!NoNodes
<1>1. Catalog!Bare.rev = 0 /\ Catalog!NoNodes.rev = -1
  BY DEF Catalog!Bare, Catalog!NoNodes
<1>2. Catalog!Frozen(n, p) \in {n, Catalog!Fresh(task)} /\ (n = Catalog!NoNodes => Catalog!Frozen(n, p) = Catalog!NoNodes)
  BY DEF Catalog!Frozen
<1>3. Catalog!Frozen(n, p) = n => n # Catalog!Bare
  BY <1>1, FreshNodes DEF Catalog!Frozen
<1> QED
  BY <1>2, <1>3, FreshNodes

LEMMA NoRowFields ==
    /\ IsRow(Catalog!NoRow) /\ Catalog!NoRow.wf = 0 /\ Catalog!NoRow.channel = "none" /\ Catalog!NoRow.status = "none"
    /\ Catalog!NoRow.snap = Catalog!NoNodes /\ Catalog!NoRow.mon = "none"
  BY DEF IsRow, Columns, Catalog!NoRow

LEMMA NewVersionFields ==
    ASSUME NEW w, NEW channel, NEW n, NEW b
    PROVE  LET r == Catalog!NewVersion(w, channel, n, b)
           IN  /\ IsRow(r) /\ r.wf = w /\ r.channel = channel /\ r.snap = n /\ r.rel = n /\ r.hash = Catalog!Hash(n)
               /\ r.mon = "none" /\ r.status \in {"draft", "submitted"}
  BY DEF Catalog!NewVersion, IsRow, Columns, Catalog!NoRow

LEMMA SameFits ==
    ASSUME NEW k, NEW t, NEW op, NEW own \in BOOLEAN, NEW r, IsRow(r), NodesOK(r.snap), ~(op = "update" /\ own)
    PROVE  RowFits(k, t, op, own, r, r)
  BY DEF RowFits

LEMMA RetiredFields ==
    ASSUME NEW r, IsRow(r)
    PROVE  /\ IsRow(Catalog!Retired(r)) /\ Catalog!Retired(r).channel = r.channel /\ Catalog!Retired(r).wf = r.wf
           /\ Catalog!Retired(r).snap = r.snap /\ Catalog!Retired(r).status = r.status
           /\ Catalog!Retired(r).rel = r.rel /\ Catalog!Retired(r).hash = r.hash
           /\ Catalog!Retired(r).mon # "on" /\ (r.mon = "none" => Catalog!Retired(r).mon = "none")
  BY DEF Catalog!Retired, IsRow, Columns

LEMMA RestingFields ==
    ASSUME NEW r, IsRow(r)
    PROVE  /\ LET n == [r EXCEPT !.status = "offline", !.sched = FALSE, !.next = FALSE]
              IN  /\ IsRow(n) /\ n.channel = r.channel /\ n.wf = r.wf /\ n.snap = r.snap /\ n.status = "offline"
                  /\ n.rel = r.rel /\ n.hash = r.hash /\ n.mon = r.mon
           /\ LET n == [r EXCEPT !.sched = FALSE, !.next = FALSE]
              IN  /\ IsRow(n) /\ n.channel = r.channel /\ n.wf = r.wf /\ n.snap = r.snap /\ n.status = r.status
                  /\ n.rel = r.rel /\ n.hash = r.hash /\ n.mon = r.mon
           /\ LET n == [r EXCEPT !.status = "offline"]
              IN  /\ IsRow(n) /\ n.channel = r.channel /\ n.wf = r.wf /\ n.snap = r.snap /\ n.status = "offline"
                  /\ n.rel = r.rel /\ n.hash = r.hash /\ n.mon = r.mon
  BY DEF IsRow, Columns

LEMMA DownFields ==
    ASSUME NEW r, IsRow(r)
    PROVE  /\ IsRow(Catalog!Down(r)) /\ Catalog!Down(r).channel = r.channel /\ Catalog!Down(r).wf = r.wf /\ Catalog!Down(r).snap = r.snap
           /\ Catalog!Down(r).status = "offline" /\ Catalog!Down(r).mon # "on"
<1> DEFINE a == [r EXCEPT !.status = "offline", !.sched = FALSE, !.next = FALSE]
<1>1. IsRow(a) /\ a.channel = r.channel /\ a.wf = r.wf /\ a.snap = r.snap /\ a.status = "offline"
  BY RestingFields
<1>2. Catalog!Down(r) = Catalog!Retired(a)
  BY DEF Catalog!Down
<1> HIDE DEF a
<1> QED
  BY <1>1, <1>2, RetiredFields

\* Rows that go offline, or whose monitor goes.
LEMMA LeavingFits ==
    ASSUME NEW k, NEW t, NEW op, NEW own \in BOOLEAN, NEW r, IsRow(r), NodesOK(r.snap), ~(op = "update" /\ own)
    PROVE  /\ RowFits(k, t, op, own, r, Catalog!Retired(r))
           /\ RowFits(k, t, op, own, r, Catalog!Down(r)) /\ Catalog!Down(r).status = "offline"
           /\ RowFits(k, t, op, own, r, Catalog!Retired([r EXCEPT !.sched = FALSE, !.next = FALSE]))
           /\ RowFits(k, t, op, own, r, Catalog!Retired([r EXCEPT !.status = "offline"]))
           /\ Catalog!Down(r).mon # "on"
           /\ Catalog!Retired([r EXCEPT !.status = "offline"]).mon # "on"
<1>1. \A n : /\ IsRow(n) /\ n.channel = r.channel /\ n.wf = r.wf /\ n.snap = r.snap
             /\ n.status \in {r.status, "offline"} /\ n.rel = r.rel /\ n.hash = r.hash
             /\ r.mon = "none" => n.mon = "none"
             => RowFits(k, t, op, own, r, n)
  BY DEF RowFits
<1> DEFINE a == [r EXCEPT !.status = "offline", !.sched = FALSE, !.next = FALSE]
           b == [r EXCEPT !.sched = FALSE, !.next = FALSE]
           c == [r EXCEPT !.status = "offline"]
<1>2. \A n \in {a, b, c} :
         /\ IsRow(n) /\ n.channel = r.channel /\ n.wf = r.wf /\ n.snap = r.snap
         /\ n.status \in {r.status, "offline"} /\ n.rel = r.rel /\ n.hash = r.hash /\ n.mon = r.mon
  BY ZenonT(60), RestingFields
<1>3. a.status = "offline" /\ Catalog!Down(r) = Catalog!Retired(a)
  BY RestingFields DEF Catalog!Down
<1> HIDE DEF a, b, c
<1>4. \A n \in {r, a, b, c} : RowFits(k, t, op, own, r, Catalog!Retired(n))
  BY <1>1, <1>2, RetiredFields
<1>5. Catalog!Down(r).status = "offline" /\ Catalog!Down(r).mon # "on" /\ Catalog!Retired(c).mon # "on"
  BY <1>2, <1>3, RetiredFields
<1> QED
  BY <1>3, <1>4, <1>5 DEF b, c

LEMMA OnlineFits ==
    ASSUME NEW k, NEW t, NEW r, IsRow(r), NodesOK(r.snap), r.channel = "prod", NEW b
    PROVE  LET n == [r EXCEPT !.status = "online", !.next = b]
           IN  RowFits(k, t, "publish", TRUE, r, n) /\ n.status = "online"
  BY DEF RowFits, IsRow, Columns

LEMMA MonitorRowFits ==
    ASSUME NEW t, NEW r, IsRow(r), NodesOK(r.snap), NEW m, NEW own \in BOOLEAN, NEW op, op # "update"
    PROVE  LET n == [r EXCEPT !.mon = m]
           IN  RowFits("trigger", t, op, own, r, n) /\ n.mon = m
  BY DEF RowFits, IsRow, Columns

LEMMA PinnedFits ==
    ASSUME task.rev \in Catalog!Revision, NEW v \in Version, IsRow(ver[v]), NodesOK(ver[v].snap), NEW op \in {"edit", "delete"},
           NEW own \in BOOLEAN
    PROVE  /\ RowFits(kind, task, op, own, ver[v], Catalog!Pinned(v))
           /\ kind = "sm4" /\ ver[v].channel = "prod" /\ ver[v].snap = Catalog!Bare => Catalog!Pinned(v).snap = Catalog!Fresh(task)
           /\ Catalog!Pinned(v).mon = ver[v].mon
<1>1. NodesOK(Catalog!Fresh(task))
  BY FreshNodes
<1>2. LET n == [ver[v] EXCEPT !.snap = Catalog!Fresh(task)]
      IN  /\ IsRow(n) /\ n.channel = ver[v].channel /\ n.wf = ver[v].wf /\ n.snap = Catalog!Fresh(task)
          /\ n.status = ver[v].status /\ n.rel = ver[v].rel /\ n.hash = ver[v].hash /\ n.mon = ver[v].mon
  BY DEF IsRow, Columns
<1> QED
  BY <1>1, <1>2 DEF RowFits, Catalog!Pinned

LEMMA RebuiltFits ==
    ASSUME NEW k, NEW t, NEW r, IsRow(r), NodesOK(r.snap), NEW m, IsRow(m), m.channel = r.channel, m.wf = r.wf,
           NodesOK(m.snap), m.status = r.status, m.mon = r.mon,
           m.snap # r.snap => r.status # "online" /\ m.snap # Catalog!Bare
    PROVE  RowFits(k, t, "update", TRUE, r, Catalog!Rebuilt(m)) /\ Catalog!Rebuilt(m).snap = m.snap
<1>1. /\ IsRow(Catalog!Rebuilt(m)) /\ Catalog!Rebuilt(m).channel = m.channel /\ Catalog!Rebuilt(m).wf = m.wf /\ Catalog!Rebuilt(m).snap = m.snap
      /\ Catalog!Rebuilt(m).rel = m.snap /\ Catalog!Rebuilt(m).hash = Catalog!Hash(m.snap) /\ Catalog!Rebuilt(m).status = m.status
      /\ Catalog!Rebuilt(m).mon = m.mon
  BY DEF Catalog!Rebuilt, IsRow, Columns
<1> QED
  BY <1>1 DEF RowFits

LEMMA SavedFields ==
    ASSUME NEW r, IsRow(r), NEW n
    PROVE  LET m == [r EXCEPT !.snap = n]
           IN  /\ IsRow(m) /\ m.channel = r.channel /\ m.wf = r.wf /\ m.snap = n /\ m.status = r.status
               /\ m.mon = r.mon
  BY DEF IsRow, Columns

LEMMA RescheduledFields ==
    ASSUME NEW r, IsRow(r), NEW b
    PROVE  /\ IsRow(Catalog!Rescheduled(r, b)) /\ Catalog!Rescheduled(r, b).channel = r.channel /\ Catalog!Rescheduled(r, b).wf = r.wf
           /\ Catalog!Rescheduled(r, b).snap = r.snap /\ Catalog!Rescheduled(r, b).status = r.status
           /\ Catalog!Rescheduled(r, b).mon = r.mon
  BY DEF IsRow, Columns, Catalog!Rescheduled

-----------------------------------------------------------------------------
(* Versions. *)

LEMMA SameCount == \A S : Catalog!Cardinality(S) = Cardinality(S) /\ Catalog!IsFiniteSet(S) = IsFiniteSet(S)
  BY DEF Catalog!Cardinality, Cardinality, Catalog!IsFiniteSet, IsFiniteSet

LEMMA VersionFacts ==
    /\ IsFiniteSet(Version) /\ Version \subseteq Nat \ {0} /\ Catalog!NoVersion \notin Version /\ Catalog!NewRow \notin Version
    /\ Catalog!NewRow # Catalog!NoVersion
<1> DEFINE n == Cardinality(Version)
<1>1. n \in Nat /\ Version = 1 .. n
  BY SameCount, PlatformAssumption, FS_CardinalityType DEF Catalog!WorkflowCatalogAssumption
<1> HIDE DEF n
<1>2. IsFiniteSet(1 .. n)
  BY <1>1, FS_Interval
<1>3. 1 .. n \subseteq Nat \ {0} /\ 0 \notin 1 .. n /\ -1 \notin 1 .. n
  BY <1>1
<1> QED
  BY <1>1, <1>2, <1>3 DEF Catalog!NoVersion, Catalog!NewRow

LEMMA FirstVersion ==
    ASSUME NEW T, T \subseteq Version, T # {}
    PROVE  (CHOOSE v \in T : \A u \in T : v <= u) \in T
<1>1. \E v \in T : \A u \in T : v <= u
  BY LeastNat, VersionFacts
<1> QED
  BY <1>1

LEMMA NewestVersion ==
    ASSUME NEW T, T \subseteq Version, T # {}
    PROVE  Catalog!NewestIn(T) \in T
<1> DEFINE n == Cardinality(Version)
<1>1. n \in Nat /\ Version = 1 .. n
  BY SameCount, PlatformAssumption, FS_CardinalityType DEF Catalog!WorkflowCatalogAssumption
<1> HIDE DEF n
<1> DEFINE D == {n - v : v \in T}
<1>2. D \subseteq Nat /\ D # {}
  <2>1. \A v \in T : v \in 1 .. n
    BY <1>1
  <2>2. \A v \in 1 .. n : n - v \in Nat
    BY <1>1
  <2> QED
    BY <2>1, <2>2
<1>3. PICK d \in D : \A e \in D : d <= e
  <2> HIDE DEF D
  <2> QED
    BY <1>2, LeastNat
<1>4. PICK v \in T : d = n - v
  BY <1>3
<1>5. \A u \in T : u <= v
  <2> SUFFICES ASSUME NEW u \in T PROVE u <= v
    OBVIOUS
  <2>1. n - u \in D
    OBVIOUS
  <2>2. n - v <= n - u
    BY <1>3, <1>4, <2>1
  <2>3. u \in Int /\ v \in Int
    BY VersionFacts
  <2> QED
    BY <1>1, <2>2, <2>3
<1>6. \E w \in T : \A u \in T : u <= w
  BY <1>5
<1> QED
  BY <1>6 DEF Catalog!NewestIn

-----------------------------------------------------------------------------
(* What a request writes.                                                  *)

\* The snapshots a request can have at hand.
Snaps == {Catalog!NoNodes, Catalog!Bare, Catalog!Fresh(task)} \cup {ver[v].snap : v \in Version}

LEMMA SnapsFit ==
    ASSUME TablesInv, RecordedInv, NEW n \in Snaps
    PROVE  NodesOK(n) /\ (kind = "sm4" => Recorded(n))
<1>1. Catalog!Bare.rev = 0 /\ Catalog!NoNodes.rev = -1 /\ NodesOK(Catalog!Bare) /\ NodesOK(Catalog!NoNodes)
  BY DEF Catalog!Bare, Catalog!NoNodes, NodesOK
<1>2. CASE n = Catalog!Bare \/ n = Catalog!NoNodes
  BY <1>1, <1>2 DEF Recorded
<1>3. CASE n = Catalog!Fresh(task)
  <2>1. NodesOK(n) /\ n.rev = task.rev /\ n.body = task.config.body /\ task.rev \in Int
    BY <1>3, FreshNodes DEF TablesInv, Catalog!Revision
  <2>2. kind = "sm4" => Recorded(n)
    BY <2>1 DEF RecordedInv, Recorded
  <2> QED
    BY <2>1, <2>2
<1>4. CASE \E v \in Version : n = ver[v].snap
  BY <1>4 DEF TablesInv, RecordedInv
<1> QED
  BY <1>2, <1>3, <1>4 DEF Snaps

LEMMA FrozenSnaps ==
    ASSUME TablesInv, RecordedInv, NEW n \in Snaps, NEW p \in BOOLEAN
    PROVE  Catalog!Frozen(n, p) \in Snaps /\ Catalog!Frozen(n, p) # Catalog!Bare /\ NodesOK(Catalog!Frozen(n, p))
<1>1. NodesOK(n)
  BY SnapsFit
<1>2. Catalog!Fresh(task) \in Snaps
  BY DEF Snaps
<1> QED
  BY <1>1, <1>2, FrozenNodes DEF TablesInv

LEMMA SentSnaps == \A n \in Catalog!Sent : n \in Snaps
  BY DEF Catalog!Sent, Snaps, Catalog!Used

\* The database with other rows, or another task.
LEMMA DbFields ==
    ASSUME TablesInv
    PROVE  /\ Catalog!Db.task = task /\ Catalog!Db.wf = wf /\ Catalog!Db.ver = ver /\ IsDb(Catalog!Db) /\ IsTask(task)
           /\ ver = [v \in Version |-> ver[v]] /\ \A v \in Version : IsRow(ver[v])
  BY DEF TablesInv, IsDb, Catalog!Db

LEMMA OtherRows ==
    ASSUME TablesInv, NEW X, X = [v \in Version |-> X[v]], \A v \in Version : IsRow(X[v])
    PROVE  LET d == [Catalog!Db EXCEPT !.ver = X] IN IsDb(d) /\ d.task = task /\ d.ver = X
<1>1. [Catalog!Db EXCEPT !.ver = X] = [task |-> task, wf |-> wf, ver |-> X]
  BY DEF Catalog!Db
<1> DEFINE d == [task |-> task, wf |-> wf, ver |-> X]
<1>2. d = [c \in {"task", "wf", "ver"} |-> d[c]] /\ d.task = task /\ d.ver = X
  OBVIOUS
<1>3. IsTask(task)
  BY DbFields
<1> HIDE DEF d
<1>4. IsDb(d)
  BY <1>2, <1>3 DEF IsDb
<1> QED
  BY <1>1, <1>2, <1>4 DEF d

LEMMA OtherTables ==
    ASSUME NEW t, IsTask(t), NEW w, NEW X, X = [v \in Version |-> X[v]], \A v \in Version : IsRow(X[v])
    PROVE  LET d == [task |-> t, wf |-> w, ver |-> X] IN IsDb(d) /\ d.task = t /\ d.ver = X
<1> DEFINE d == [task |-> t, wf |-> w, ver |-> X]
<1>1. d = [c \in {"task", "wf", "ver"} |-> d[c]] /\ d.task = t /\ d.ver = X
  OBVIOUS
<1> HIDE DEF d
<1>2. IsDb(d)
  BY <1>1 DEF IsDb
<1> QED
  BY <1>1, <1>2 DEF d

LEMMA OneRow ==
    ASSUME TablesInv, NEW v \in Version, NEW r, IsRow(r)
    PROVE  LET X == [ver EXCEPT ![v] = r]
           IN  /\ [Catalog!Db EXCEPT !.ver[v] = r] = [Catalog!Db EXCEPT !.ver = X]
               /\ X = [u \in Version |-> X[u]] /\ X[v] = r /\ \A u \in Version \ {v} : X[u] = ver[u]
               /\ \A u \in Version : IsRow(X[u])
<1>1. ver = [u \in Version |-> ver[u]] /\ \A u \in Version : IsRow(ver[u])
  BY DbFields
<1>2. [Catalog!Db EXCEPT !.ver[v] = r] = [Catalog!Db EXCEPT !.ver = [ver EXCEPT ![v] = r]]
  BY DEF Catalog!Db
<1>3. DOMAIN ver = Version
  BY <1>1
<1> QED
  BY <1>1, <1>2, <1>3

-----------------------------------------------------------------------------
(* A request begins. *)

Asking(op, v, new, add, chain, want) ==
    [op |-> op, v |-> v, read |-> Catalog!Db, new |-> new, add |-> add, chain |-> chain, want |-> want]

\* A request that was read from the database as it is.
Asks(q) ==
    /\ Fits(kind, q) /\ q.read = Catalog!Db /\ q.add.snap \in Snaps
    /\ \A v \in Version : q.new.ver[v].snap \in Snaps
    /\ q.op = "publish" /\ q.chain => Owing(q)

Opens(s, q) ==
    /\ Asks(q)
    /\ q.add = Catalog!NoRow \/ Catalog!RoomForRow
    /\ sess[s] = Catalog!Idle \/ IsBetween(sess[s])
    /\ sess' = [sess EXCEPT ![s] = q]
    /\ UNCHANGED <<kind, task, wf, ver, recorded, crossed>>

\* A request that does not change the task.
LEMMA AsksAboutRows ==
    ASSUME CatalogInv, NEW op \in Catalog!Op \ {"edit", "publish"}, NEW v, NEW new, IsDb(new), new.task = task,
           \A u \in Version : RowFits(kind, task, op, u = v, ver[u], new.ver[u]) /\ new.ver[u].snap \in Snaps,
           NEW add, AddFits(kind, add), add.snap \in Snaps,
           kind = "trigger" => op = "enable" /\ add = Catalog!NoRow /\ (OneMonitored(Catalog!Db) => OneMonitored(new))
    PROVE  Asks(Asking(op, v, new, add, FALSE, Catalog!Void))
<1> DEFINE q == Asking(op, v, new, add, FALSE, Catalog!Void)
<1>1. /\ q = [c \in {"op", "v", "read", "new", "add", "chain", "want"} |-> q[c]]
      /\ q.op = op /\ q.v = v /\ q.read = Catalog!Db /\ q.new = new /\ q.add = add /\ ~q.chain
  BY DEF Asking
<1> HIDE DEF q
<1>2. IsDb(Catalog!Db) /\ Catalog!Db.task = task /\ Catalog!Db.ver = ver
  BY DbFields DEF CatalogInv
<1>3. IsRequest(q) /\ RowsFit(kind, q) /\ AddFits(kind, q.add)
  BY <1>1, <1>2 DEF IsRequest, RowsFit
<1>4. TaskFits(kind, q)
  BY <1>1, <1>2, VersionFacts DEF TaskFits, CatalogInv, TablesInv
<1>5. PublishFits(q) /\ ChainFits(kind, q)
  BY <1>1 DEF PublishFits, ChainFits
<1>6. MonitorFits(kind, q)
  BY <1>1, NoRowFields DEF MonitorFits
<1>7. Fits(kind, q)
  BY <1>3, <1>4, <1>5, <1>6 DEF Fits
<1>8. Asks(q)
  BY <1>1, <1>7 DEF Asks
<1> QED
  BY <1>8 DEF q

LEMMA NothingAdded == AddFits(kind, Catalog!NoRow) /\ Catalog!NoRow.snap \in Snaps
<1>1. NodesOK(Catalog!NoNodes)
  BY DEF NodesOK
<1> QED
  BY <1>1, NoRowFields DEF AddFits, Snaps

LEMMA VersionAdded ==
    ASSUME CatalogInv, NEW w, NEW channel \in {"dev", "prod"}, NEW n \in Snaps, n # Catalog!Bare \/ channel = "dev", NEW b
    PROVE  AddFits(kind, Catalog!NewVersion(w, channel, n, b)) /\ Catalog!NewVersion(w, channel, n, b).snap \in Snaps
<1>1. NodesOK(n)
  BY SnapsFit DEF CatalogInv
<1> DEFINE r == Catalog!NewVersion(w, channel, n, b)
<1>2. /\ IsRow(r) /\ r.wf = w /\ r.channel = channel /\ r.snap = n /\ r.rel = n /\ r.hash = Catalog!Hash(n)
      /\ r.mon = "none" /\ r.status \in {"draft", "submitted"}
  BY NewVersionFields
<1> HIDE DEF r
<1>3. AddFits(kind, r) /\ r.snap \in Snaps
  BY <1>1, <1>2 DEF AddFits
<1> QED
  BY <1>3 DEF r

\* The rows that a request leaves alone.
LEMMA SameRows ==
    ASSUME CatalogInv, NEW op, NEW own \in BOOLEAN, ~(op = "update" /\ own), NEW u \in Version
    PROVE  RowFits(kind, task, op, own, ver[u], ver[u]) /\ ver[u].snap \in Snaps
  BY SameFits DEF CatalogInv, TablesInv, IsDb, Catalog!Db, Snaps

LEMMA BeginOpens ==
    ASSUME CatalogInv, NEW s \in Session, NEW op, NEW v, NEW new, NEW add, Catalog!Begin(s, op, v, new, add),
           Asks(Asking(op, v, new, add, FALSE, Catalog!Void))
    PROVE  \E q : Opens(s, q)
<1> DEFINE q == Asking(op, v, new, add, FALSE, Catalog!Void)
<1>1. sess' = [sess EXCEPT ![s] = q] /\ sess[s] = Catalog!Idle
  BY DEF Catalog!Begin, Catalog!Free, Catalog!Request, Asking
<1>2. q.add = Catalog!NoRow \/ Catalog!RoomForRow
  BY DEF Catalog!Begin, Catalog!Request, Asking
<1> HIDE DEF q
<1>3. Opens(s, q)
  BY <1>1, <1>2 DEF Opens, Catalog!Begin, q
<1> QED
  BY <1>3

-----------------------------------------------------------------------------
LEMMA CreateOpens ==
    ASSUME CatalogInv, NEW s \in Session, Catalog!CreateVersion(s)
    PROVE  \E q : Opens(s, q)
<1>1. PICK w \in Catalog!Workflow, channel \in {"dev", "prod"}, nodes \in Catalog!Sent :
         /\ kind # "trigger" /\ wf[w] # "none"
         /\ Catalog!CanFreeze(nodes)
         /\ Catalog!Begin(s, "create", Catalog!NoVersion, Catalog!Db, Catalog!NewVersion(w, channel, Catalog!Frozen(nodes, TRUE), FALSE))
  BY DEF Catalog!CreateVersion
<1> DEFINE n == Catalog!Frozen(nodes, TRUE)
           add == Catalog!NewVersion(w, channel, n, FALSE)
<1>2. n \in Snaps /\ n # Catalog!Bare
  BY SentSnaps, FrozenSnaps DEF CatalogInv
<1>3. AddFits(kind, add) /\ add.snap \in Snaps
  BY <1>2, VersionAdded
<1>4. IsDb(Catalog!Db) /\ Catalog!Db.task = task /\ Catalog!Db.ver = ver
  BY DbFields DEF CatalogInv
<1> HIDE DEF add
<1>5. Asks(Asking("create", Catalog!NoVersion, Catalog!Db, add, FALSE, Catalog!Void))
  <2>1. \A u \in Version : RowFits(kind, task, "create", u = Catalog!NoVersion, ver[u], Catalog!Db.ver[u]) /\ Catalog!Db.ver[u].snap \in Snaps
    BY <1>4, SameRows
  <2> QED
    BY <1>1, <1>3, <1>4, <2>1, AsksAboutRows DEF Catalog!Op
<1> QED
  BY <1>1, <1>5, BeginOpens DEF add

LEMMA RowsAsk ==
    ASSUME CatalogInv, kind # "trigger", NEW op \in Catalog!Op \ {"edit", "publish"}, NEW v,
           NEW X, X = [u \in Version |-> X[u]],
           \A u \in Version : RowFits(kind, task, op, u = v, ver[u], X[u]) /\ X[u].snap \in Snaps
    PROVE  Asks(Asking(op, v, [Catalog!Db EXCEPT !.ver = X], Catalog!NoRow, FALSE, Catalog!Void))
<1> DEFINE new == [Catalog!Db EXCEPT !.ver = X]
<1>1. \A u \in Version : IsRow(X[u])
  BY DEF RowFits
<1>2. IsDb(new) /\ new.task = task /\ new.ver = X
  BY <1>1, OtherRows DEF CatalogInv
<1> HIDE DEF new
<1>3. \A u \in Version : RowFits(kind, task, op, u = v, ver[u], new.ver[u]) /\ new.ver[u].snap \in Snaps
  BY <1>2
<1>4. Asks(Asking(op, v, new, Catalog!NoRow, FALSE, Catalog!Void))
  BY <1>2, <1>3, NothingAdded, AsksAboutRows
<1> QED
  BY <1>4 DEF new

LEMMA RowAsks ==
    ASSUME CatalogInv, kind # "trigger", NEW op \in Catalog!Op \ {"edit", "publish"}, NEW v \in Version,
           NEW r, RowFits(kind, task, op, TRUE, ver[v], r), r.snap \in Snaps
    PROVE  Asks(Asking(op, v, [Catalog!Db EXCEPT !.ver[v] = r], Catalog!NoRow, FALSE, Catalog!Void))
<1> DEFINE X == [ver EXCEPT ![v] = r]
<1>1. IsRow(r) /\ TablesInv
  BY DEF RowFits, CatalogInv
<1>2. /\ [Catalog!Db EXCEPT !.ver[v] = r] = [Catalog!Db EXCEPT !.ver = X]
      /\ X = [u \in Version |-> X[u]] /\ X[v] = r /\ \A u \in Version \ {v} : X[u] = ver[u]
  BY <1>1, OneRow
<1> HIDE DEF X
<1>3. \A u \in Version : RowFits(kind, task, op, u = v, ver[u], X[u]) /\ X[u].snap \in Snaps
  BY <1>2, SameRows
<1>4. Asks(Asking(op, v, [Catalog!Db EXCEPT !.ver = X], Catalog!NoRow, FALSE, Catalog!Void))
  BY <1>2, <1>3, RowsAsk
<1> QED
  BY <1>2, <1>4

LEMMA VersionRow ==
    ASSUME CatalogInv, NEW v \in Version
    PROVE  IsRow(ver[v]) /\ NodesOK(ver[v].snap) /\ ver[v].snap \in Snaps
  BY DbFields DEF CatalogInv, TablesInv, Snaps

LEMMA OfflineOpens ==
    ASSUME CatalogInv, NEW s \in Session, Catalog!OfflineVersion(s)
    PROVE  \E q : Opens(s, q)
<1>1. PICK v \in Catalog!Used : kind # "trigger" /\ Catalog!Begin(s, "offline", v, [Catalog!Db EXCEPT !.ver[v] = Catalog!Down(ver[v])], Catalog!NoRow)
  BY DEF Catalog!OfflineVersion
<1>2. v \in Version /\ IsRow(ver[v]) /\ NodesOK(ver[v].snap) /\ ver[v].snap \in Snaps
  BY VersionRow DEF Catalog!Used
<1>3. RowFits(kind, task, "offline", TRUE, ver[v], Catalog!Down(ver[v]))
  BY <1>2, LeavingFits
<1>4. Asks(Asking("offline", v, [Catalog!Db EXCEPT !.ver[v] = Catalog!Down(ver[v])], Catalog!NoRow, FALSE, Catalog!Void))
  BY <1>1, <1>2, <1>3, DownFields, RowAsks DEF Catalog!Op
<1> QED
  BY <1>1, <1>4, BeginOpens

LEMMA UpdateOpens ==
    ASSUME CatalogInv, NEW s \in Session, Catalog!UpdateVersion(s)
    PROVE  \E q : Opens(s, q)
<1>1. PICK v \in Catalog!Used, sched \in BOOLEAN, nodes \in Catalog!Sent :
         LET design == ver[v].snap # nodes
             saved == IF design THEN [ver[v] EXCEPT !.snap = Catalog!Frozen(nodes, TRUE)] ELSE ver[v]
         IN  /\ kind # "trigger"
             /\ ~(ver[v].status = "online" /\ design)
             /\ Catalog!Begin(s, "update", v, [Catalog!Db EXCEPT !.ver[v] = Catalog!Rebuilt(Catalog!Rescheduled(saved, sched))], Catalog!NoRow)
  BY DEF Catalog!UpdateVersion
<1>2. v \in Version /\ IsRow(ver[v]) /\ NodesOK(ver[v].snap) /\ ver[v].snap \in Snaps
  BY VersionRow DEF Catalog!Used
<1>3. Catalog!Frozen(nodes, TRUE) \in Snaps /\ Catalog!Frozen(nodes, TRUE) # Catalog!Bare /\ NodesOK(Catalog!Frozen(nodes, TRUE))
  BY SentSnaps, FrozenSnaps DEF CatalogInv
<1> DEFINE design == ver[v].snap # nodes
           saved == IF design THEN [ver[v] EXCEPT !.snap = Catalog!Frozen(nodes, TRUE)] ELSE ver[v]
           m == Catalog!Rescheduled(saved, sched)
<1>4. /\ IsRow(saved) /\ saved.channel = ver[v].channel /\ saved.wf = ver[v].wf /\ saved.status = ver[v].status
      /\ saved.mon = ver[v].mon /\ saved.snap = IF design THEN Catalog!Frozen(nodes, TRUE) ELSE ver[v].snap
  BY <1>2, SavedFields
<1> HIDE DEF saved
<1>5. /\ IsRow(m) /\ m.channel = ver[v].channel /\ m.wf = ver[v].wf /\ m.status = ver[v].status
      /\ m.mon = ver[v].mon /\ m.snap = IF design THEN Catalog!Frozen(nodes, TRUE) ELSE ver[v].snap
  BY <1>4, RescheduledFields
<1> HIDE DEF m
<1>6. NodesOK(m.snap) /\ m.snap \in Snaps /\ (m.snap # ver[v].snap => ver[v].status # "online" /\ m.snap # Catalog!Bare)
  BY <1>1, <1>2, <1>3, <1>5
<1>7. RowFits(kind, task, "update", TRUE, ver[v], Catalog!Rebuilt(m)) /\ Catalog!Rebuilt(m).snap \in Snaps
  BY <1>2, <1>5, <1>6, RebuiltFits
<1>8. kind # "trigger" /\ Catalog!Begin(s, "update", v, [Catalog!Db EXCEPT !.ver[v] = Catalog!Rebuilt(m)], Catalog!NoRow)
  BY <1>1 DEF m, saved
<1>9. Asks(Asking("update", v, [Catalog!Db EXCEPT !.ver[v] = Catalog!Rebuilt(m)], Catalog!NoRow, FALSE, Catalog!Void))
  BY <1>2, <1>7, <1>8, RowAsks DEF Catalog!Op
<1> QED
  BY <1>8, <1>9, BeginOpens

LEMMA CollectionOpens ==
    ASSUME CatalogInv, NEW s \in Session, Catalog!UpdateCollection(s)
    PROVE  \E q : Opens(s, q)
<1>1. PICK v \in Catalog!LatestDev(1), nodes \in {Catalog!NoNodes, Catalog!Bare} :
         /\ kind = "sql"
         /\ Catalog!Begin(s, "update", v, [Catalog!Db EXCEPT !.ver[v] = Catalog!Rebuilt([ver[v] EXCEPT !.snap = Catalog!Frozen(nodes, FALSE)])], Catalog!NoRow)
  BY DEF Catalog!UpdateCollection
<1>2. v \in Version /\ IsRow(ver[v]) /\ NodesOK(ver[v].snap) /\ ver[v].snap \in Snaps /\ ver[v].channel = "dev"
  BY VersionRow DEF Catalog!LatestDev, Catalog!Used
<1>3. Catalog!Frozen(nodes, FALSE) \in Snaps /\ Catalog!Frozen(nodes, FALSE) # Catalog!Bare /\ NodesOK(Catalog!Frozen(nodes, FALSE))
  BY FrozenSnaps DEF CatalogInv, Snaps
<1>4. ver[v].status # "online"
  BY <1>2 DEF CatalogInv, OnlineInv, Catalog!Online
<1> DEFINE m == [ver[v] EXCEPT !.snap = Catalog!Frozen(nodes, FALSE)]
<1>5. /\ IsRow(m) /\ m.channel = ver[v].channel /\ m.wf = ver[v].wf /\ m.status = ver[v].status
      /\ m.mon = ver[v].mon /\ m.snap = Catalog!Frozen(nodes, FALSE)
  BY <1>2, SavedFields
<1> HIDE DEF m
<1>6. RowFits(kind, task, "update", TRUE, ver[v], Catalog!Rebuilt(m)) /\ Catalog!Rebuilt(m).snap \in Snaps
  BY <1>2, <1>3, <1>4, <1>5, RebuiltFits
<1>7. Asks(Asking("update", v, [Catalog!Db EXCEPT !.ver[v] = Catalog!Rebuilt(m)], Catalog!NoRow, FALSE, Catalog!Void))
  BY <1>1, <1>2, <1>6, RowAsks DEF Catalog!Op
<1> QED
  BY <1>1, <1>7, BeginOpens DEF m

RowsArchived(w) ==
    [v \in Version |->
        CASE ver[v].wf = w /\ ver[v].status = "online" -> Catalog!Down(ver[v])
          [] ver[v].wf = w /\ ver[v].status # "online" -> Catalog!Retired([ver[v] EXCEPT !.sched = FALSE, !.next = FALSE])
          [] OTHER -> ver[v]]
LEMMA ArchiveOpens ==
    ASSUME CatalogInv, NEW s \in Session, Catalog!ArchiveWorkflow(s)
    PROVE  \E q : Opens(s, q)
<1>1. PICK w \in Catalog!Workflow :
         kind # "trigger" /\ Catalog!Begin(s, "archive", Catalog!NoVersion, [Catalog!Db EXCEPT !.wf[w] = "archived", !.ver = RowsArchived(w)], Catalog!NoRow)
  BY DEF Catalog!ArchiveWorkflow, RowsArchived
<1> DEFINE X == RowsArchived(w)
<1>2. \A v \in Version : RowFits(kind, task, "archive", v = Catalog!NoVersion, ver[v], X[v]) /\ X[v].snap \in Snaps
  <2> SUFFICES ASSUME NEW v \in Version
               PROVE  RowFits(kind, task, "archive", v = Catalog!NoVersion, ver[v], X[v]) /\ X[v].snap \in Snaps
    OBVIOUS
  <2> DEFINE c == [ver[v] EXCEPT !.sched = FALSE, !.next = FALSE]
  <2>1. IsRow(ver[v]) /\ NodesOK(ver[v].snap) /\ ver[v].snap \in Snaps
    BY VersionRow
  <2>2. /\ RowFits(kind, task, "archive", v = Catalog!NoVersion, ver[v], Catalog!Down(ver[v]))
        /\ RowFits(kind, task, "archive", v = Catalog!NoVersion, ver[v], Catalog!Retired(c))
        /\ RowFits(kind, task, "archive", v = Catalog!NoVersion, ver[v], ver[v])
    BY <2>1, LeavingFits, SameFits
  <2>3. IsRow(c) /\ c.snap = ver[v].snap
    BY <2>1, RestingFields
  <2>4. X[v] \in {Catalog!Down(ver[v]), Catalog!Retired(c), ver[v]}
    BY DEF RowsArchived
  <2> HIDE DEF c, X
  <2>5. Catalog!Down(ver[v]).snap \in Snaps /\ Catalog!Retired(c).snap \in Snaps
    BY <2>1, <2>3, DownFields, RetiredFields
  <2> QED
    BY <2>1, <2>2, <2>4, <2>5
<1>3. X = [v \in Version |-> X[v]]
  BY DEF RowsArchived
<1> HIDE DEF X
<1>4. \A v \in Version : IsRow(X[v])
  BY <1>2 DEF RowFits
<1> DEFINE y == [wf EXCEPT ![w] = "archived"]
           new == [task |-> task, wf |-> y, ver |-> X]
<1>5. [Catalog!Db EXCEPT !.wf[w] = "archived", !.ver = X] = new
  <2>1. [Catalog!Db EXCEPT !.wf[w] = "archived"] = [task |-> task, wf |-> y, ver |-> ver]
    BY DEF Catalog!Db
  <2>2. [Catalog!Db EXCEPT !.wf[w] = "archived", !.ver = X] = [[Catalog!Db EXCEPT !.wf[w] = "archived"] EXCEPT !.ver = X]
    BY DEF Catalog!Db
  <2> HIDE DEF y
  <2>3. [[task |-> task, wf |-> y, ver |-> ver] EXCEPT !.ver = X] = [task |-> task, wf |-> y, ver |-> X]
    OBVIOUS
  <2> QED
    BY <2>1, <2>2, <2>3 DEF y
<1> HIDE DEF y
<1>6. IsTask(task)
  BY DbFields DEF CatalogInv
<1>7. IsDb(new) /\ new.task = task /\ new.ver = X
  BY <1>3, <1>4, <1>5, <1>6, OtherTables
<1> HIDE DEF new
<1>8. \A u \in Version : RowFits(kind, task, "archive", u = Catalog!NoVersion, ver[u], new.ver[u]) /\ new.ver[u].snap \in Snaps
  BY <1>2, <1>7
<1>9. Asks(Asking("archive", Catalog!NoVersion, new, Catalog!NoRow, FALSE, Catalog!Void))
  BY <1>1, <1>7, <1>8, NothingAdded, AsksAboutRows DEF Catalog!Op
<1>10. Catalog!Begin(s, "archive", Catalog!NoVersion, new, Catalog!NoRow)
  BY <1>1, <1>5 DEF X
<1> QED
  BY <1>9, <1>10, BeginOpens

LEMMA SubmitAsks ==
    ASSUME CatalogInv, kind # "trigger", NEW v \in Catalog!Used, NEW chain \in BOOLEAN, chain => kind = "sql"
    PROVE  LET nodes == Catalog!Frozen(ver[v].snap, TRUE)
               same == Catalog!SameContent(ver[v].wf, Catalog!Hash(nodes))
           IN  Asks(Asking("submit", IF same = {} THEN Catalog!NoVersion ELSE Catalog!NewestIn(same), Catalog!Db,
                           IF same = {} THEN Catalog!NewVersion(ver[v].wf, "prod", nodes, ver[v].sched) ELSE Catalog!NoRow,
                           chain, Catalog!Hash(nodes)))
<1> DEFINE nodes == Catalog!Frozen(ver[v].snap, TRUE)
           same == Catalog!SameContent(ver[v].wf, Catalog!Hash(nodes))
           at == IF same = {} THEN Catalog!NoVersion ELSE Catalog!NewestIn(same)
           line == Catalog!NewVersion(ver[v].wf, "prod", nodes, ver[v].sched)
           add == IF same = {} THEN line ELSE Catalog!NoRow
           q == Asking("submit", at, Catalog!Db, add, chain, Catalog!Hash(nodes))
<1>1. nodes \in Snaps /\ nodes # Catalog!Bare
  BY VersionRow, FrozenSnaps DEF CatalogInv, Catalog!Used
<1>2. line.channel = "prod" /\ line.snap = nodes
  <2> HIDE DEF nodes
  <2> QED
    BY DEF Catalog!NewVersion, Catalog!NoRow
<1>3. AddFits(kind, line) /\ line.snap \in Snaps
  BY <1>1, VersionAdded
<1>4. line # Catalog!NoRow
  BY <1>2, NoRowFields
<1>5. same # {} => /\ Catalog!NewestIn(same) \in Version /\ ver[Catalog!NewestIn(same)].hash = Catalog!Hash(nodes)
                   /\ ver[Catalog!NewestIn(same)].channel = "prod"
  <2>1. same \subseteq Version
    BY DEF Catalog!SameContent, Catalog!Used
  <2> QED
    BY <2>1, NewestVersion DEF Catalog!SameContent
<1> HIDE DEF line, same, nodes
<1>6. AddFits(kind, add) /\ add.snap \in Snaps
  BY <1>3, NothingAdded
<1>7. \/ at = Catalog!NoVersion /\ add # Catalog!NoRow /\ add.channel = "prod" /\ Catalog!Hash(add.snap) = Catalog!Hash(nodes)
      \/ at \in Version /\ ver[at].hash = Catalog!Hash(nodes) /\ ver[at].channel = "prod"
  BY <1>2, <1>4, <1>5
<1> HIDE DEF add, at
<1>8. /\ q = [c \in {"op", "v", "read", "new", "add", "chain", "want"} |-> q[c]]
      /\ q.op = "submit" /\ q.v = at /\ q.read = Catalog!Db /\ q.new = Catalog!Db /\ q.add = add /\ q.want = Catalog!Hash(nodes)
      /\ q.chain => chain
  BY DEF Asking
<1> HIDE DEF q
<1>9. IsDb(Catalog!Db) /\ Catalog!Db.task = task /\ Catalog!Db.ver = ver
  BY DbFields DEF CatalogInv
<1>10. \A u \in Version : RowFits(kind, task, "submit", u = at, ver[u], ver[u]) /\ ver[u].snap \in Snaps
  BY SameRows
<1>11. IsRequest(q) /\ RowsFit(kind, q) /\ AddFits(kind, q.add)
  BY <1>6, <1>8, <1>9, <1>10 DEF IsRequest, RowsFit, Catalog!Op
<1>12. TaskFits(kind, q)
  BY <1>8, <1>9, VersionFacts DEF TaskFits, CatalogInv, TablesInv
<1>13. PublishFits(q) /\ MonitorFits(kind, q)
  BY <1>8 DEF PublishFits, MonitorFits
<1>14. ChainFits(kind, q)
  BY <1>7, <1>8, <1>9 DEF ChainFits
<1>15. Fits(kind, q)
  BY <1>11, <1>12, <1>13, <1>14 DEF Fits
<1>16. Asks(q)
  BY <1>6, <1>8, <1>9, <1>10, <1>15 DEF Asks
<1> QED
  BY <1>16 DEF q, add, at, line, same, nodes

LEMMA SubmitOpens ==
    ASSUME CatalogInv, NEW s \in Session, Catalog!SubmitVersion(s) \/ Catalog!PublishCollection(s)
    PROVE  \E q : Opens(s, q)
<1>1. PICK v \in Catalog!Used, chain \in BOOLEAN :
         /\ kind # "trigger" /\ (chain => kind = "sql") /\ sess[s] = Catalog!Idle /\ Catalog!Submitted(s, v, chain)
         /\ UNCHANGED <<kind, task, wf, ver, recorded, crossed>>
  <2>1. CASE Catalog!SubmitVersion(s)
    BY <2>1 DEF Catalog!SubmitVersion, Catalog!Free
  <2>2. CASE Catalog!PublishCollection(s)
    BY <2>2 DEF Catalog!PublishCollection, Catalog!Free, Catalog!LatestDev
  <2> QED
    BY <2>1, <2>2
<1> DEFINE nodes == Catalog!Frozen(ver[v].snap, TRUE)
           same == Catalog!SameContent(ver[v].wf, Catalog!Hash(nodes))
           at == IF same = {} THEN Catalog!NoVersion ELSE Catalog!NewestIn(same)
           add == IF same = {} THEN Catalog!NewVersion(ver[v].wf, "prod", nodes, ver[v].sched) ELSE Catalog!NoRow
           q == Asking("submit", at, Catalog!Db, add, chain, Catalog!Hash(nodes))
<1>2. Asks(q)
  BY <1>1, SubmitAsks
<1>3. sess' = [sess EXCEPT ![s] = q] /\ (add = Catalog!NoRow \/ Catalog!RoomForRow)
  BY <1>1 DEF Catalog!Submitted, Catalog!Request, Asking
<1>4. q.add = add
  BY DEF Asking
<1> HIDE DEF q, add
<1>5. Opens(s, q)
  BY <1>1, <1>2, <1>3, <1>4 DEF Opens
<1> QED
  BY <1>5

LEMMA CopyOpens ==
    ASSUME CatalogInv, NEW s \in Session, Catalog!CopyWorkflow(s)
    PROVE  \E q : Opens(s, q)
<1> DEFINE own == {v \in Catalog!Used : ver[v].wf = 1}
           source == IF Catalog!LatestDev(1) # {} THEN Catalog!LatestDev(1) ELSE IF own = {} THEN {} ELSE {Catalog!NewestIn(own)}
<1>1. source \subseteq Version
  <2>1. own \subseteq Version
    BY DEF Catalog!Used
  <2> HIDE DEF own
  <2> QED
    BY <2>1, NewestVersion DEF Catalog!LatestDev, Catalog!Used
<1>2. PICK add : /\ kind # "trigger" /\ Catalog!Begin(s, "copy", Catalog!NoVersion, [Catalog!Db EXCEPT !.wf[2] = "active"], add)
                 /\ \/ add = Catalog!NoRow
                    \/ \E v \in source : add \in {Catalog!NewVersion(2, "dev", Catalog!Bare, FALSE),
                                                  Catalog!NewVersion(2, "dev", Catalog!Frozen(ver[v].snap, FALSE), FALSE)}
  BY DEF Catalog!CopyWorkflow
<1> HIDE DEF source
<1>3. AddFits(kind, add) /\ add.snap \in Snaps
  <2>1. CASE add = Catalog!NoRow
    BY <2>1, NothingAdded
  <2>2. CASE add = Catalog!NewVersion(2, "dev", Catalog!Bare, FALSE)
    BY <2>2, VersionAdded DEF Snaps
  <2>3. CASE \E v \in source : add = Catalog!NewVersion(2, "dev", Catalog!Frozen(ver[v].snap, FALSE), FALSE)
    <3>1. PICK v \in Version : add = Catalog!NewVersion(2, "dev", Catalog!Frozen(ver[v].snap, FALSE), FALSE)
      BY <1>1, <2>3
    <3>2. Catalog!Frozen(ver[v].snap, FALSE) \in Snaps
      BY VersionRow, FrozenSnaps DEF CatalogInv
    <3> QED
      BY <3>1, <3>2, VersionAdded
  <2> QED
    BY <1>2, <2>1, <2>2, <2>3
<1> DEFINE y == [wf EXCEPT ![2] = "active"]
           new == [task |-> task, wf |-> y, ver |-> ver]
<1>4. [Catalog!Db EXCEPT !.wf[2] = "active"] = new
  BY DEF Catalog!Db
<1> HIDE DEF y
<1>5. /\ IsTask(task) /\ ver = [u \in Version |-> ver[u]] /\ \A u \in Version : IsRow(ver[u])
  BY DbFields DEF CatalogInv
<1>6. IsDb(new) /\ new.task = task /\ new.ver = ver
  BY <1>5, OtherTables
<1> HIDE DEF new
<1>7. \A u \in Version : RowFits(kind, task, "copy", u = Catalog!NoVersion, ver[u], new.ver[u]) /\ new.ver[u].snap \in Snaps
  BY <1>6, SameRows
<1>8. Asks(Asking("copy", Catalog!NoVersion, new, add, FALSE, Catalog!Void))
  BY <1>2, <1>3, <1>6, <1>7, AsksAboutRows DEF Catalog!Op
<1> QED
  BY <1>2, <1>4, <1>8, BeginOpens

LEMMA PublishAsks ==
    ASSUME CatalogInv, kind # "trigger", NEW v \in Version, Catalog!Publishable(v), NEW chain \in BOOLEAN, NEW want,
           chain => /\ kind = "sql"
                    /\ Catalog!Undisturbed({"submit", "update"}) /\ want # Catalog!Void => Catalog!Hash(ver[v].snap) = want
    PROVE  Asks(Asking("publish", v, [Catalog!Db EXCEPT !.ver = Catalog!Published(v)], Catalog!NoRow, chain, want))
<1> DEFINE X == Catalog!Published(v)
           new == [Catalog!Db EXCEPT !.ver = X]
           q == Asking("publish", v, new, Catalog!NoRow, chain, want)
<1>1. /\ \A u \in Version : RowFits(kind, task, "publish", u = v, ver[u], X[u]) /\ X[u].snap \in Snaps
      /\ X[v].status = "online"
      /\ \A u \in Version \ {v} : ver[u].wf = ver[v].wf => X[u].status # "online"
  <2> DEFINE n == [ver[v] EXCEPT !.status = "online", !.next = ver[v].sched]
  <2>1. /\ RowFits(kind, task, "publish", TRUE, ver[v], n) /\ n.status = "online" /\ n.snap = ver[v].snap
        /\ ver[v].snap \in Snaps
    <3>1. IsRow(ver[v]) /\ NodesOK(ver[v].snap) /\ ver[v].channel = "prod" /\ ver[v].snap \in Snaps
      BY VersionRow DEF Catalog!Publishable
    <3>2. n.snap = ver[v].snap
      BY <3>1 DEF IsRow, Columns
    <3> QED
      BY <3>1, <3>2, OnlineFits
  <2>2. X[v] = n
    BY DEF Catalog!Published
  <2>3. ASSUME NEW u \in Version \ {v}
        PROVE  /\ RowFits(kind, task, "publish", u = v, ver[u], X[u]) /\ X[u].snap \in Snaps
               /\ ver[u].wf = ver[v].wf => X[u].status # "online"
    <3>1. IsRow(ver[u]) /\ NodesOK(ver[u].snap) /\ ver[u].snap \in Snaps
      BY VersionRow
    <3>2. X[u] = IF ver[u].wf = ver[v].wf /\ ver[u].status = "online" THEN Catalog!Down(ver[u]) ELSE ver[u]
      BY DEF Catalog!Published
    <3>3. /\ RowFits(kind, task, "publish", FALSE, ver[u], Catalog!Down(ver[u]))
          /\ RowFits(kind, task, "publish", FALSE, ver[u], ver[u])
          /\ Catalog!Down(ver[u]).snap \in Snaps /\ Catalog!Down(ver[u]).status # "online"
      BY <3>1, LeavingFits, SameFits, DownFields
    <3> HIDE DEF X
    <3> QED
      BY <3>1, <3>2, <3>3
  <2> HIDE DEF n, X
  <2> QED
    BY <2>1, <2>2, <2>3
<1>2. X = [u \in Version |-> X[u]]
  BY DEF Catalog!Published
<1> HIDE DEF X
<1>3. \A u \in Version : IsRow(X[u])
  BY <1>1 DEF RowFits
<1>4. IsDb(new) /\ new.task = task /\ new.ver = X /\ IsDb(Catalog!Db) /\ Catalog!Db.task = task /\ Catalog!Db.ver = ver
  BY <1>2, <1>3, OtherRows, DbFields DEF CatalogInv
<1> HIDE DEF new
<1>5. /\ q = [c \in {"op", "v", "read", "new", "add", "chain", "want"} |-> q[c]]
      /\ q.op = "publish" /\ q.v = v /\ q.read = Catalog!Db /\ q.new = new /\ q.add = Catalog!NoRow /\ q.want = want
      /\ q.chain => chain
  BY DEF Asking
<1> HIDE DEF q
<1>6. IsRequest(q) /\ RowsFit(kind, q) /\ AddFits(kind, q.add)
  BY <1>1, <1>4, <1>5, NothingAdded DEF IsRequest, RowsFit, Catalog!Op
<1>7. TaskFits(kind, q)
  BY <1>4, <1>5, VersionFacts DEF TaskFits, CatalogInv, TablesInv
<1>8. PublishFits(q)
  BY <1>1, <1>4, <1>5 DEF PublishFits
<1>9. MonitorFits(kind, q) /\ ChainFits(kind, q)
  BY <1>5 DEF MonitorFits, ChainFits
<1>10. Fits(kind, q)
  BY <1>6, <1>7, <1>8, <1>9 DEF Fits
<1>11. q.chain => Owing(q)
  BY <1>5 DEF Owing, Catalog!Publishable
<1>12. Asks(q)
  BY <1>1, <1>4, <1>5, <1>10, <1>11, NothingAdded DEF Asks
<1> QED
  BY <1>12 DEF q, new, X

LEMMA PublishOpens ==
    ASSUME CatalogInv, NEW s \in Session, Catalog!PublishVersion(s) \/ Catalog!PublishSubmitted(s)
    PROVE  \E q : Opens(s, q)
<1>1. CASE Catalog!PublishVersion(s)
  <2>1. PICK v \in Catalog!Used : /\ kind # "trigger" /\ Catalog!Publishable(v)
                                  /\ Catalog!Begin(s, "publish", v, [Catalog!Db EXCEPT !.ver = Catalog!Published(v)], Catalog!NoRow)
    BY <1>1 DEF Catalog!PublishVersion
  <2>2. Asks(Asking("publish", v, [Catalog!Db EXCEPT !.ver = Catalog!Published(v)], Catalog!NoRow, FALSE, Catalog!Void))
    BY <2>1, PublishAsks DEF Catalog!Used
  <2> QED
    BY <2>1, <2>2, BeginOpens
<1>2. CASE Catalog!PublishSubmitted(s)
  <2> DEFINE p == sess[s]
             q == Asking("publish", p.v, [Catalog!Db EXCEPT !.ver = Catalog!Published(p.v)], Catalog!NoRow, TRUE, p.want)
  <2>1. p.op = "between" /\ Catalog!Publishable(p.v) /\ UNCHANGED <<kind, task, wf, ver, recorded, crossed>>
    BY <1>2 DEF Catalog!PublishSubmitted
  <2>2. sess' = [sess EXCEPT ![s] = q]
    BY <1>2 DEF Catalog!PublishSubmitted, Catalog!Request, Asking
  <2>3. IsBetween(p) /\ Owing(p)
    <3>1. p # Catalog!Idle /\ ~Fits(kind, p)
      BY <2>1 DEF Catalog!Idle, Fits, IsRequest, Catalog!Op
    <3> QED
      BY <3>1 DEF CatalogInv, SessInv
  <2>4. Asks(q)
    BY <2>1, <2>3, PublishAsks DEF Owing
  <2>5. q.add = Catalog!NoRow
    BY DEF Asking
  <2> HIDE DEF q
  <2>6. Opens(s, q)
    BY <2>1, <2>2, <2>3, <2>4, <2>5 DEF Opens
  <2> QED
    BY <2>6
<1> QED
  BY <1>1, <1>2

-----------------------------------------------------------------------------
(* Requests that change the task. *)

LEMMA AsksAboutTask ==
    ASSUME CatalogInv, NEW op \in Catalog!Op \ {"publish"}, NEW v, NEW new, IsDb(new),
           \A u \in Version : RowFits(kind, task, op, u = v, ver[u], new.ver[u]) /\ new.ver[u].snap \in Snaps,
           NEW add, AddFits(kind, add), add.snap \in Snaps,
           TaskFits(kind, Asking(op, v, new, add, FALSE, Catalog!Void)),
           kind = "trigger" => /\ op \in {"edit", "delete", "deploy", "enable", "test"}
                               /\ OneMonitored(Catalog!Db) => OneMonitored(new)
                               /\ add.mon = "on" => new.task.config.ptr = Catalog!NewRow /\ new.task.live # "gone"
    PROVE  Asks(Asking(op, v, new, add, FALSE, Catalog!Void))
<1> DEFINE q == Asking(op, v, new, add, FALSE, Catalog!Void)
<1>1. /\ q = [c \in {"op", "v", "read", "new", "add", "chain", "want"} |-> q[c]]
      /\ q.op = op /\ q.v = v /\ q.read = Catalog!Db /\ q.new = new /\ q.add = add /\ ~q.chain
  BY DEF Asking
<1>2. TaskFits(kind, q)
  OBVIOUS
<1> HIDE DEF q
<1>3. IsDb(Catalog!Db) /\ Catalog!Db.task = task /\ Catalog!Db.ver = ver
  BY DbFields DEF CatalogInv
<1>4. IsRequest(q) /\ RowsFit(kind, q) /\ AddFits(kind, q.add)
  BY <1>1, <1>3 DEF IsRequest, RowsFit
<1>5. PublishFits(q) /\ ChainFits(kind, q)
  BY <1>1 DEF PublishFits, ChainFits
<1>6. MonitorFits(kind, q)
  BY <1>1 DEF MonitorFits
<1>7. Fits(kind, q)
  BY <1>2, <1>4, <1>5, <1>6 DEF Fits
<1>8. Asks(q)
  BY <1>1, <1>7 DEF Asks
<1> QED
  BY <1>8 DEF q

LEMMA TaskFields ==
    ASSUME IsTask(task)
    PROVE  /\ \A b : /\ IsTask([task EXCEPT !.live = b]) /\ [task EXCEPT !.live = b].config = task.config
                     /\ [task EXCEPT !.live = b].rev = task.rev /\ [task EXCEPT !.live = b].live = b
           /\ \A b : LET c == [task.config EXCEPT !.body = b]
                     IN  /\ c = [f \in {"body", "ptr", "sys"} |-> c[f]]
                         /\ c.body = b /\ c.ptr = task.config.ptr
  BY DEF IsTask

LEMMA EditOpens ==
    ASSUME CatalogInv, NEW s \in Session, Catalog!EditTask(s)
    PROVE  \E q : Opens(s, q)
<1>1. PICK body \in Catalog!Revision, live \in {"active", "disabled"}, rev \in {task.rev, task.rev + 1},
         at \in {task.at + 1, 0} :
         /\ task.live # "gone" /\ task.rev <= MaxEdits /\ rev \in {task.rev, task.rev + 1}
         /\ kind = "sm4" => live = "active"
         /\ (body # task.config.body \/ live = task.live) => rev = task.rev + 1
         /\ Catalog!Begin(s, "edit", Catalog!NoVersion,
                  [Catalog!Db EXCEPT !.task = [live |-> live, rev |-> rev, at |-> at,
                                       config |-> [task.config EXCEPT !.body = body]],
                             !.ver = [v \in Version |-> Catalog!Pinned(v)]], Catalog!NoRow)
  BY DEF Catalog!EditTask
<1> DEFINE c == [task.config EXCEPT !.body = body]
           t == [live |-> live, rev |-> rev, at |-> at, config |-> c]
           X == [v \in Version |-> Catalog!Pinned(v)]
           new == [task |-> t, wf |-> wf, ver |-> X]
           q == Asking("edit", Catalog!NoVersion, new, Catalog!NoRow, FALSE, Catalog!Void)
<1>2. [Catalog!Db EXCEPT !.task = t, !.ver = X] = new
  <2> HIDE DEF t, X
  <2>1. [Catalog!Db EXCEPT !.task = t] = [task |-> t, wf |-> wf, ver |-> ver]
    BY DEF Catalog!Db
  <2>2. [Catalog!Db EXCEPT !.task = t, !.ver = X] = [[Catalog!Db EXCEPT !.task = t] EXCEPT !.ver = X]
    BY DEF Catalog!Db
  <2>3. [[task |-> t, wf |-> wf, ver |-> ver] EXCEPT !.ver = X] = [task |-> t, wf |-> wf, ver |-> X]
    OBVIOUS
  <2> QED
    BY <2>1, <2>2, <2>3
<1>3. c = [f \in {"body", "ptr", "sys"} |-> c[f]] /\ c.body = body /\ c.ptr = task.config.ptr
  BY DbFields, TaskFields DEF CatalogInv
<1> HIDE DEF c
<1>4. IsTask(t) /\ t.live = live /\ t.rev = rev /\ t.config = c
  BY <1>3 DEF IsTask
<1> HIDE DEF t
<1>5. /\ \A u \in Version : RowFits(kind, task, "edit", u = Catalog!NoVersion, ver[u], X[u]) /\ X[u].snap \in Snaps
      /\ \A u \in Version : X[u].mon = ver[u].mon
      /\ kind = "sm4" => \A u \in Version : ver[u].channel = "prod" /\ ver[u].snap = Catalog!Bare => X[u].snap = Catalog!Fresh(task)
  <2> SUFFICES ASSUME NEW u \in Version
               PROVE  /\ RowFits(kind, task, "edit", u = Catalog!NoVersion, ver[u], X[u]) /\ X[u].snap \in Snaps
                      /\ X[u].mon = ver[u].mon
                      /\ kind = "sm4" /\ ver[u].channel = "prod" /\ ver[u].snap = Catalog!Bare => X[u].snap = Catalog!Fresh(task)
    OBVIOUS
  <2>1. IsRow(ver[u]) /\ NodesOK(ver[u].snap) /\ ver[u].snap \in Snaps /\ task.rev \in Catalog!Revision
    BY VersionRow DEF CatalogInv, TablesInv
  <2>2. X[u] = Catalog!Pinned(u)
    OBVIOUS
  <2>3. Catalog!Pinned(u).snap \in Snaps
    BY <2>1 DEF Catalog!Pinned, Snaps, IsRow, Columns
  <2> HIDE DEF X
  <2> QED
    BY <2>1, <2>2, <2>3, PinnedFits
<1>6. X = [u \in Version |-> X[u]]
  OBVIOUS
<1> HIDE DEF X
<1>7. \A u \in Version : IsRow(X[u])
  BY <1>5 DEF RowFits
<1>8. IsDb(new) /\ new.task = t /\ new.ver = X /\ IsDb(Catalog!Db) /\ Catalog!Db.task = task /\ Catalog!Db.ver = ver
  BY <1>4, <1>6, <1>7, OtherTables, DbFields DEF CatalogInv
<1> HIDE DEF new
<1>9. q.op = "edit" /\ q.read = Catalog!Db /\ q.new = new /\ q.add = Catalog!NoRow
  BY DEF Asking
<1>10. task.rev \in Int /\ task.rev \in 1 .. MaxEdits + 1 /\ MaxEdits \in Nat
  BY PlatformAssumption DEF CatalogInv, TablesInv, Catalog!Revision, Catalog!WorkflowCatalogAssumption
<1>11. rev \in Catalog!Revision
  BY <1>1, <1>10 DEF Catalog!Revision
<1>12. kind = "sm4" => rev = task.rev + 1
  <2>1. kind = "sm4" => task.live = "active"
    BY <1>1 DEF CatalogInv, TablesInv, LiveFor
  <2> QED
    BY <1>1, <2>1
<1> HIDE DEF q
<1>13. TaskFits(kind, q)
  <2>1. live \in LiveFor(kind)
    BY <1>1 DEF LiveFor
  <2>2. task.config.ptr \in Version \cup {Catalog!NoVersion}
    BY DEF CatalogInv, TablesInv
  <2> QED
    BY <1>3, <1>4, <1>5, <1>8, <1>9, <1>11, <1>12, <2>1, <2>2, VersionFacts DEF TaskFits
<1>14. OneMonitored(Catalog!Db) => OneMonitored(new)
  BY <1>1, <1>3, <1>4, <1>5, <1>8 DEF OneMonitored
<1>15. Asks(q)
  <2>1. \A u \in Version : RowFits(kind, task, "edit", u = Catalog!NoVersion, ver[u], new.ver[u]) /\ new.ver[u].snap \in Snaps
    BY <1>5, <1>8
  <2> QED
    BY <1>8, <1>13, <1>14, <2>1, NothingAdded, NoRowFields, AsksAboutTask DEF Catalog!Op, q
<1>16. Catalog!Begin(s, "edit", Catalog!NoVersion, new, Catalog!NoRow)
  BY <1>1, <1>2 DEF t, c, X
<1> QED
  BY <1>15, <1>16, BeginOpens DEF q

LEMMA DeleteOpens ==
    ASSUME CatalogInv, NEW s \in Session, Catalog!DeleteTask(s)
    PROVE  \E q : Opens(s, q)
<1> DEFINE t == [task EXCEPT !.live = "gone"]
           w == [u \in Catalog!Workflow |-> IF u = task.config.sys THEN "archived" ELSE wf[u]]
           X == [v \in Version |-> IF v = task.config.ptr THEN Catalog!Retired(ver[v]) ELSE Catalog!Pinned(v)]
           new == [task |-> t, wf |-> w, ver |-> X]
           q == Asking("delete", Catalog!NoVersion, new, Catalog!NoRow, FALSE, Catalog!Void)
<1>1. Catalog!Begin(s, "delete", Catalog!NoVersion, new, Catalog!NoRow)
  BY DEF Catalog!DeleteTask
<1>2. IsTask(t) /\ t.live = "gone" /\ t.rev = task.rev /\ t.config = task.config
  BY DbFields, TaskFields DEF CatalogInv
<1> HIDE DEF t, w
<1>3. \A u \in Version : /\ RowFits(kind, task, "delete", u = Catalog!NoVersion, ver[u], X[u]) /\ X[u].snap \in Snaps
                         /\ u = task.config.ptr => X[u].mon # "on"
                         /\ u # task.config.ptr => X[u].mon = ver[u].mon
  <2> SUFFICES ASSUME NEW u \in Version
               PROVE  /\ RowFits(kind, task, "delete", u = Catalog!NoVersion, ver[u], X[u]) /\ X[u].snap \in Snaps
                      /\ u = task.config.ptr => X[u].mon # "on"
                      /\ u # task.config.ptr => X[u].mon = ver[u].mon
    OBVIOUS
  <2>1. IsRow(ver[u]) /\ NodesOK(ver[u].snap) /\ ver[u].snap \in Snaps /\ task.rev \in Catalog!Revision
    BY VersionRow DEF CatalogInv, TablesInv
  <2>2. X[u] = IF u = task.config.ptr THEN Catalog!Retired(ver[u]) ELSE Catalog!Pinned(u)
    OBVIOUS
  <2>3. Catalog!Pinned(u).snap \in Snaps
    BY <2>1 DEF Catalog!Pinned, Snaps, IsRow, Columns
  <2>4. /\ RowFits(kind, task, "delete", u = Catalog!NoVersion, ver[u], Catalog!Pinned(u)) /\ Catalog!Pinned(u).mon = ver[u].mon
        /\ RowFits(kind, task, "delete", u = Catalog!NoVersion, ver[u], Catalog!Retired(ver[u]))
        /\ Catalog!Retired(ver[u]).snap = ver[u].snap /\ Catalog!Retired(ver[u]).mon # "on"
    BY <2>1, PinnedFits, LeavingFits, RetiredFields
  <2> HIDE DEF X
  <2> QED
    BY <2>1, <2>2, <2>3, <2>4
<1>4. X = [u \in Version |-> X[u]]
  OBVIOUS
<1> HIDE DEF X
<1>5. \A u \in Version : IsRow(X[u])
  BY <1>3 DEF RowFits
<1>6. IsDb(new) /\ new.task = t /\ new.ver = X /\ IsDb(Catalog!Db) /\ Catalog!Db.task = task /\ Catalog!Db.ver = ver
  BY <1>2, <1>4, <1>5, OtherTables, DbFields DEF CatalogInv
<1> HIDE DEF new
<1>7. q.op = "delete" /\ q.read = Catalog!Db /\ q.new = new /\ q.add = Catalog!NoRow
  BY DEF Asking
<1> HIDE DEF q
<1>8. TaskFits(kind, q)
  <2>1. task.rev \in Catalog!Revision /\ task.config.body \in Catalog!Revision /\ task.config.ptr \in Version \cup {Catalog!NoVersion}
    BY DEF CatalogInv, TablesInv
  <2> QED
    BY <1>2, <1>6, <1>7, <2>1, VersionFacts DEF TaskFits, LiveFor
<1>9. OneMonitored(Catalog!Db) => OneMonitored(new)
  BY <1>2, <1>3, <1>6 DEF OneMonitored
<1>10. Asks(q)
  <2>1. \A u \in Version : RowFits(kind, task, "delete", u = Catalog!NoVersion, ver[u], new.ver[u]) /\ new.ver[u].snap \in Snaps
    BY <1>3, <1>6
  <2> QED
    BY <1>6, <1>8, <1>9, <2>1, NothingAdded, NoRowFields, AsksAboutTask DEF Catalog!Op, q
<1> QED
  BY <1>1, <1>10, BeginOpens DEF q

LEMMA SystemFields ==
    ASSUME NEW t, IsTask(t), NEW y
    PROVE  LET n == [t EXCEPT !.config.sys = y]
           IN  IsTask(n) /\ n.live = t.live /\ n.rev = t.rev /\ n.config.body = t.config.body /\ n.config.ptr = t.config.ptr
  BY DEF IsTask

LEMMA PointerFields ==
    ASSUME NEW t, IsTask(t), NEW p
    PROVE  LET n == [t EXCEPT !.config.ptr = p]
           IN  IsTask(n) /\ n.live = t.live /\ n.rev = t.rev /\ n.config.body = t.config.body /\ n.config.ptr = p
  BY DEF IsTask

LEMMA DeployOpens ==
    ASSUME CatalogInv, NEW s \in Session, Catalog!DeployTrigger(s)
    PROVE  \E q : Opens(s, q)
<1> DEFINE old == task.config.ptr
           sys == Catalog!SystemWorkflow(s)
           t == [task EXCEPT !.config.ptr = Catalog!NewRow, !.config.sys = sys]
           w == Catalog!WithSystem(s)
           X == [v \in Version |-> IF v = old THEN Catalog!Retired([ver[v] EXCEPT !.status = "offline"]) ELSE ver[v]]
           new == [task |-> t, wf |-> w, ver |-> X]
<1>1. PICK mon \in {"on", "paused"} :
         /\ kind = "trigger" /\ task.live = "active"
         /\ Catalog!Begin(s, "deploy", Catalog!NoVersion, new,
                  [Catalog!NewVersion(sys, "prod", Catalog!Fresh(task), FALSE) EXCEPT !.status = "online", !.mon = mon])
  BY DEF Catalog!DeployTrigger
<1> DEFINE line == Catalog!NewVersion(sys, "prod", Catalog!Fresh(task), FALSE)
           add == [line EXCEPT !.status = "online", !.mon = mon]
           q == Asking("deploy", Catalog!NoVersion, new, add, FALSE, Catalog!Void)
<1>2. IsTask(t) /\ t.live = task.live /\ t.rev = task.rev /\ t.config.body = task.config.body /\ t.config.ptr = Catalog!NewRow
  <2> HIDE DEF sys
  <2> DEFINE u == [task EXCEPT !.config.ptr = Catalog!NewRow]
  <2>1. t = [u EXCEPT !.config.sys = sys]
    BY DbFields DEF IsTask, CatalogInv
  <2>2. IsTask(u) /\ u.live = task.live /\ u.rev = task.rev /\ u.config.body = task.config.body /\ u.config.ptr = Catalog!NewRow
    BY DbFields, PointerFields DEF CatalogInv
  <2> HIDE DEF t, u
  <2> QED
    BY <2>1, <2>2, SystemFields
<1>3. IsRow(line) /\ line.channel = "prod" /\ line.snap = Catalog!Fresh(task) /\ line.rel = Catalog!Fresh(task) /\ line.hash = Catalog!Hash(Catalog!Fresh(task))
  <2> HIDE DEF sys
  <2> QED
    BY DEF Catalog!NewVersion, Catalog!NoRow, IsRow, Columns
<1> HIDE DEF line, t, w, sys
<1>4. /\ IsRow(add) /\ add.channel = "prod" /\ add.snap = Catalog!Fresh(task) /\ add.rel = Catalog!Fresh(task) /\ add.hash = Catalog!Hash(Catalog!Fresh(task))
      /\ add.mon = mon /\ add.status = "online"
  BY <1>3 DEF IsRow, Columns
<1> HIDE DEF add
<1>5. AddFits(kind, add) /\ add.snap \in Snaps
  <2>1. Catalog!Fresh(task) \in Snaps /\ Catalog!Fresh(task) # Catalog!Bare /\ NodesOK(Catalog!Fresh(task))
    BY FreshNodes DEF Snaps, CatalogInv, TablesInv
  <2> QED
    BY <1>1, <1>4, <2>1 DEF AddFits
<1>6. \A u \in Version : /\ RowFits(kind, task, "deploy", u = Catalog!NoVersion, ver[u], X[u]) /\ X[u].snap \in Snaps
                         /\ u = old => X[u].mon # "on"
                         /\ u # old => X[u].mon = ver[u].mon
  <2> SUFFICES ASSUME NEW u \in Version
               PROVE  /\ RowFits(kind, task, "deploy", u = Catalog!NoVersion, ver[u], X[u]) /\ X[u].snap \in Snaps
                      /\ u = old => X[u].mon # "on"
                      /\ u # old => X[u].mon = ver[u].mon
    OBVIOUS
  <2> DEFINE c == [ver[u] EXCEPT !.status = "offline"]
  <2>1. IsRow(ver[u]) /\ NodesOK(ver[u].snap) /\ ver[u].snap \in Snaps
    BY VersionRow
  <2>2. X[u] = IF u = old THEN Catalog!Retired(c) ELSE ver[u]
    OBVIOUS
  <2>3. IsRow(c) /\ c.snap = ver[u].snap
    BY <2>1, RestingFields
  <2>4. /\ RowFits(kind, task, "deploy", u = Catalog!NoVersion, ver[u], Catalog!Retired(c)) /\ Catalog!Retired(c).mon # "on"
        /\ RowFits(kind, task, "deploy", u = Catalog!NoVersion, ver[u], ver[u])
    BY <2>1, LeavingFits, SameFits
  <2> HIDE DEF c, X, old
  <2>5. Catalog!Retired(c).snap = ver[u].snap
    BY <2>3, RetiredFields
  <2> QED
    BY <2>1, <2>2, <2>4, <2>5
<1>7. X = [u \in Version |-> X[u]]
  OBVIOUS
<1> HIDE DEF X
<1>8. \A u \in Version : IsRow(X[u])
  BY <1>6 DEF RowFits
<1>9. IsDb(new) /\ new.task = t /\ new.ver = X /\ IsDb(Catalog!Db) /\ Catalog!Db.task = task /\ Catalog!Db.ver = ver
  BY <1>2, <1>7, <1>8, OtherTables, DbFields DEF CatalogInv
<1> HIDE DEF new
<1>10. q.op = "deploy" /\ q.read = Catalog!Db /\ q.new = new /\ q.add = add
  BY DEF Asking
<1> HIDE DEF q
<1>11. add # Catalog!NoRow
  BY <1>4, NoRowFields
<1>12. TaskFits(kind, q)
  <2>1. task.rev \in Catalog!Revision /\ task.config.body \in Catalog!Revision
    BY DEF CatalogInv, TablesInv
  <2> QED
    BY <1>1, <1>2, <1>9, <1>10, <1>11, <2>1 DEF TaskFits, LiveFor
<1>13. OneMonitored(Catalog!Db) => OneMonitored(new)
  BY <1>1, <1>6, <1>9 DEF OneMonitored
<1>14. Asks(q)
  <2>1. \A u \in Version : RowFits(kind, task, "deploy", u = Catalog!NoVersion, ver[u], new.ver[u]) /\ new.ver[u].snap \in Snaps
    BY <1>6, <1>9
  <2>2. new.task.config.ptr = Catalog!NewRow /\ new.task.live # "gone"
    BY <1>1, <1>2, <1>9
  <2> QED
    BY <1>5, <1>9, <1>12, <1>13, <2>1, <2>2, AsksAboutTask DEF Catalog!Op, q
<1>15. Catalog!Begin(s, "deploy", Catalog!NoVersion, new, add)
  BY <1>1 DEF new, t, w, sys, X, old, add, line
<1> QED
  BY <1>14, <1>15, BeginOpens DEF q

LEMMA EnableOpens ==
    ASSUME CatalogInv, NEW s \in Session, Catalog!EnableTrigger(s)
    PROVE  \E q : Opens(s, q)
<1> DEFINE v == task.config.ptr
<1>1. PICK mon \in {"on", "paused"} :
         /\ kind = "trigger" /\ task.live = "active" /\ v # Catalog!NoVersion
         /\ Catalog!Begin(s, "enable", v, [Catalog!Db EXCEPT !.ver[v].mon = mon], Catalog!NoRow)
  BY DEF Catalog!EnableTrigger
<1>2. v \in Version
  BY <1>1 DEF CatalogInv, TablesInv
<1> HIDE DEF v
<1> DEFINE r == [ver[v] EXCEPT !.mon = mon]
           X == [ver EXCEPT ![v] = r]
           new == [Catalog!Db EXCEPT !.ver = X]
<1>3. /\ IsRow(ver[v]) /\ NodesOK(ver[v].snap) /\ ver[v].snap \in Snaps /\ TablesInv
      /\ ver = [u \in Version |-> ver[u]]
  BY <1>2, VersionRow, DbFields DEF CatalogInv
<1>4. IsRow(r) /\ r.snap = ver[v].snap /\ RowFits(kind, task, "enable", TRUE, ver[v], r)
  <2>1. IsRow(r) /\ r.snap = ver[v].snap
    BY <1>3 DEF IsRow, Columns
  <2> QED
    BY <1>1, <1>3, <2>1, MonitorRowFits
<1>5. [Catalog!Db EXCEPT !.ver[v].mon = mon] = [Catalog!Db EXCEPT !.ver[v] = r]
  BY <1>2, <1>3 DEF Catalog!Db
<1> HIDE DEF r
<1>6. /\ [Catalog!Db EXCEPT !.ver[v] = r] = new
      /\ X = [u \in Version |-> X[u]] /\ X[v] = r /\ \A u \in Version \ {v} : X[u] = ver[u]
      /\ \A u \in Version : IsRow(X[u])
  BY <1>2, <1>3, <1>4, OneRow
<1> HIDE DEF X
<1>7. IsDb(new) /\ new.task = task /\ new.ver = X /\ Catalog!Db.task = task /\ Catalog!Db.ver = ver
  BY <1>3, <1>6, OtherRows, DbFields
<1> HIDE DEF new
<1>8. \A u \in Version : RowFits(kind, task, "enable", u = v, ver[u], new.ver[u]) /\ new.ver[u].snap \in Snaps
  BY ZenonT(60), <1>2, <1>3, <1>4, <1>6, <1>7, SameRows
<1>9. OneMonitored(Catalog!Db) => OneMonitored(new)
  BY <1>1, <1>6, <1>7 DEF OneMonitored, v
<1>10. Asks(Asking("enable", v, new, Catalog!NoRow, FALSE, Catalog!Void))
  BY <1>7, <1>8, <1>9, NothingAdded, AsksAboutRows DEF Catalog!Op
<1> QED
  BY <1>1, <1>5, <1>6, <1>10, BeginOpens

LEMMA TestOpens ==
    ASSUME CatalogInv, NEW s \in Session, Catalog!TestTrigger(s)
    PROVE  \E q : Opens(s, q)
<1> DEFINE sys == Catalog!SystemWorkflow(s)
           w == Catalog!WithSystem(s)
           t == [task EXCEPT !.config.sys = sys]
           new == [task |-> t, wf |-> w, ver |-> ver]
           add == Catalog!NewVersion(sys, "dev", Catalog!Fresh(task), FALSE)
           q == Asking("test", Catalog!NoVersion, new, add, FALSE, Catalog!Void)
<1>1. /\ kind = "trigger"
      /\ Catalog!Begin(s, "test", Catalog!NoVersion, [Catalog!Db EXCEPT !.wf = w, !.task.config.sys = sys], add)
  BY DEF Catalog!TestTrigger
<1> HIDE DEF sys, w
<1>2. [Catalog!Db EXCEPT !.wf = w, !.task.config.sys = sys] = new
  <2>1. [Catalog!Db EXCEPT !.wf = w] = [task |-> task, wf |-> w, ver |-> ver]
    BY DEF Catalog!Db
  <2>2. [Catalog!Db EXCEPT !.wf = w, !.task.config.sys = sys] = [[Catalog!Db EXCEPT !.wf = w] EXCEPT !.task.config.sys = sys]
    BY DEF Catalog!Db
  <2>3. [[task |-> task, wf |-> w, ver |-> ver] EXCEPT !.task.config.sys = sys] = new
    OBVIOUS
  <2> QED
    BY <2>1, <2>2, <2>3
<1>3. /\ IsTask(t) /\ t.live = task.live /\ t.rev = task.rev /\ t.config.body = task.config.body
      /\ t.config.ptr = task.config.ptr
  BY DbFields, SystemFields DEF CatalogInv
<1> HIDE DEF t
<1>4. add.mon = "none"
  BY DEF Catalog!NewVersion, Catalog!NoRow
<1>5. AddFits(kind, add) /\ add.snap \in Snaps
  <2>1. Catalog!Fresh(task) \in Snaps
    BY DEF Snaps
  <2> QED
    BY <2>1, VersionAdded
<1> HIDE DEF add
<1>6. /\ ver = [u \in Version |-> ver[u]] /\ \A u \in Version : IsRow(ver[u])
      /\ Catalog!Db.task = task /\ Catalog!Db.ver = ver
  BY DbFields DEF CatalogInv
<1>7. IsDb(new) /\ new.task = t /\ new.ver = ver
  BY <1>3, <1>6, OtherTables
<1> HIDE DEF new
<1>8. q.op = "test" /\ q.read = Catalog!Db /\ q.new = new /\ q.add = add
  BY DEF Asking
<1> HIDE DEF q
<1>9. TaskFits(kind, q)
  <2>1. task.rev \in Catalog!Revision /\ task.config.body \in Catalog!Revision /\ task.config.ptr \in Version \cup {Catalog!NoVersion} /\ task.live \in LiveFor(kind)
    BY DEF CatalogInv, TablesInv
  <2> QED
    BY <1>1, <1>3, <1>7, <1>8, <2>1, VersionFacts DEF TaskFits
<1>10. OneMonitored(Catalog!Db) => OneMonitored(new)
  BY <1>3, <1>6, <1>7 DEF OneMonitored
<1>11. Asks(q)
  <2>1. \A u \in Version : RowFits(kind, task, "test", u = Catalog!NoVersion, ver[u], new.ver[u]) /\ new.ver[u].snap \in Snaps
    BY <1>7, SameRows
  <2> QED
    BY <1>4, <1>5, <1>7, <1>9, <1>10, <2>1, AsksAboutTask DEF Catalog!Op, q
<1> QED
  BY <1>1, <1>2, <1>11, BeginOpens DEF q

-----------------------------------------------------------------------------
(* The requests that are open. *)

LEMMA CardFacts ==
    ASSUME NEW A, A \subseteq Session \/ A \subseteq Version
    PROVE  IsFiniteSet(A) /\ Cardinality(A) \in Nat
<1>1. IsFiniteSet(Session) /\ IsFiniteSet(Version)
  BY VersionFacts, SameCount, PlatformAssumption DEF Catalog!WorkflowCatalogAssumption
<1> QED
  BY <1>1, FS_Subset, FS_CardinalityType

\* What a request was about does not change when others begin or end.
LEMMA TablesStay ==
    ASSUME UNCHANGED <<kind, task, wf, ver, recorded, crossed>>
    PROVE  /\ TablesInv => TablesInv'
           /\ OnlineInv => OnlineInv'
           /\ UnfrozenInv => UnfrozenInv'
           /\ RecordedInv => RecordedInv'
           /\ HashInv => HashInv'
           /\ NoMonitors => NoMonitors'
           /\ Catalog!OneOnline => Catalog!OneOnline'
           /\ Catalog!OneMonitor => Catalog!OneMonitor'
           /\ \A q : Since(q) => Since(q)'
           /\ \A q : Owing(q) => Owing(q)'
           /\ Catalog!Used' = Catalog!Used
<1>1. Catalog!Db' = Catalog!Db /\ \A v : Catalog!Online(v)' = Catalog!Online(v)
  BY DEF Catalog!Db, Catalog!Online
<1>2. TablesInv => TablesInv'
  BY <1>1 DEF TablesInv
<1>3. OnlineInv => OnlineInv'
  BY <1>1 DEF OnlineInv
<1>4. UnfrozenInv => UnfrozenInv'
  BY DEF UnfrozenInv, Unfrozen
<1>5. RecordedInv => RecordedInv'
  BY DEF RecordedInv, Recorded
<1>6. (HashInv => HashInv') /\ (NoMonitors => NoMonitors')
  BY DEF HashInv, NoMonitors, Catalog!Undisturbed
<1>7. (Catalog!OneOnline => Catalog!OneOnline') /\ (Catalog!OneMonitor => Catalog!OneMonitor')
  BY <1>1 DEF Catalog!OneOnline, Catalog!OneMonitor, Catalog!Undisturbed
<1>8. \A q : (Since(q) => Since(q)') /\ (Owing(q) => Owing(q)')
  BY DEF Since, Owing, Recorded, Unfrozen, Catalog!Undisturbed
<1>9. Catalog!Used' = Catalog!Used
  BY DEF Catalog!Used
<1> QED
  BY <1>2, <1>3, <1>4, <1>5, <1>6, <1>7, <1>8, <1>9

Held(q) ==
    \/ q = Catalog!Idle
    \/ IsBetween(q) /\ Owing(q)
    \/ /\ Fits(kind, q) /\ Since(q)
       /\ q.op = "publish" /\ q.chain => Owing(q)

LEMMA HeldStays ==
    ASSUME UNCHANGED <<kind, task, wf, ver, recorded, crossed>>, NEW q, Held(q)
    PROVE  Held(q)'
<1>1. (Since(q) => Since(q)') /\ (Owing(q) => Owing(q)')
  BY TablesStay
<1> QED
  BY <1>1 DEF Held

LEMMA SessHeld == SessInv <=> sess = [s \in Session |-> sess[s]] /\ \A s \in Session : Held(sess[s])
  BY DEF SessInv, Held

LEMMA AskedSince ==
    ASSUME CatalogInv, NEW q, Asks(q)
    PROVE  Since(q) /\ Held(q)
<1>1. Catalog!Db.task = task /\ Catalog!Db.ver = ver /\ q.read = Catalog!Db
  BY DbFields DEF CatalogInv, Asks
<1>2. \A v \in Version : kind # "trigger" => ver[v].mon = "none"
  BY DEF CatalogInv, NoMonitors
<1>3. kind = "sm4" => /\ task.rev \in 1 .. task.rev /\ recorded[task.rev] = task.config.body
                      /\ \A v \in Version : Recorded(q.new.ver[v].snap)
                      /\ Recorded(q.add.snap)
  <2>1. \A n \in Snaps : kind = "sm4" => Recorded(n)
    BY SnapsFit DEF CatalogInv
  <2>2. task.rev \in Nat /\ task.rev >= 1
    BY DEF CatalogInv, TablesInv, Catalog!Revision
  <2>3. kind = "sm4" => recorded[task.rev] = task.config.body
    BY DEF CatalogInv, RecordedInv
  <2> QED
    BY <2>1, <2>2, <2>3 DEF Asks
<1>4. Since(q)
  BY <1>1, <1>2, <1>3 DEF Since
<1> QED
  BY <1>4 DEF Held, Asks

LEMMA OpeningKeeps ==
    ASSUME CatalogInv, NEW s \in Session, NEW q, Opens(s, q)
    PROVE  CatalogInv'
<1>1. UNCHANGED <<kind, task, wf, ver, recorded, crossed>> /\ sess' = [sess EXCEPT ![s] = q]
  BY DEF Opens
<1>2. Held(q)'
  BY <1>1, AskedSince, HeldStays DEF Opens
<1>3. SessInv'
  <2>1. sess = [t \in Session |-> sess[t]] /\ \A t \in Session : Held(sess[t])
    BY SessHeld DEF CatalogInv
  <2>2. sess' = [t \in Session |-> IF t = s THEN q ELSE sess[t]]
    BY <1>1, <2>1
  <2>3. \A t \in Session : Held(sess[t])'
    BY <1>1, <1>2, <2>1, <2>2, HeldStays DEF Held
  <2> QED
    BY <2>2, <2>3, SessHeld DEF SessInv, Held
<1>4. RoomInv'
  <2>1. sess = [t \in Session |-> sess[t]]
    BY DEF CatalogInv, SessInv
  <2>2. \A t \in Session : sess'[t] = IF t = s THEN q ELSE sess[t]
    BY <1>1, <2>1
  <2>3. s \notin Catalog!Adding
    BY DEF Opens, Catalog!Adding, IsBetween, Catalog!Idle, Catalog!Op
  <2>4. Catalog!Used' = Catalog!Used
    BY <1>1, TablesStay
  <2>5. Cardinality(Catalog!Adding) <= Cardinality(Version \ Catalog!Used)
    BY DEF CatalogInv, RoomInv
  <2>6. Catalog!Adding \subseteq Session /\ Version \ Catalog!Used \subseteq Version
    BY DEF Catalog!Adding
  <2>7. Cardinality(Catalog!Adding) \in Nat /\ Cardinality(Version \ Catalog!Used) \in Nat /\ IsFiniteSet(Catalog!Adding)
    BY <2>6, CardFacts
  <2>8. CASE q.add = Catalog!NoRow
    <3>1. Catalog!Adding' = Catalog!Adding
      BY <2>2, <2>3, <2>8 DEF Catalog!Adding
    <3> QED
      BY <2>4, <2>5, <3>1 DEF RoomInv
  <2>9. CASE q.add # Catalog!NoRow
    <3>1. Catalog!Adding' \subseteq Catalog!Adding \cup {s}
      BY <2>2 DEF Catalog!Adding
    <3>2. Cardinality(Catalog!Adding \cup {s}) = Cardinality(Catalog!Adding) + 1 /\ IsFiniteSet(Catalog!Adding \cup {s})
      BY <2>3, <2>7, FS_AddElement
    <3>3. Cardinality(Catalog!Adding') <= Cardinality(Catalog!Adding \cup {s})
      BY <3>1, <3>2, FS_Subset
    <3>4. Cardinality(Version \ Catalog!Used) > Cardinality(Catalog!Adding)
      BY <2>9, SameCount DEF Opens, Catalog!RoomForRow
    <3>5. Catalog!Adding' \subseteq Session
      BY DEF Catalog!Adding
    <3>6. Cardinality(Catalog!Adding') \in Nat
      BY <3>5, CardFacts
    <3> QED
      BY <2>4, <2>7, <3>2, <3>3, <3>4, <3>6 DEF RoomInv
  <2> QED
    BY <2>8, <2>9
<1> QED
  BY <1>1, <1>3, <1>4, TablesStay DEF CatalogInv

\* A request that ends without a change.
LEMMA EndingKeeps ==
    ASSUME CatalogInv, NEW s \in Session, Catalog!CommitFails(s) \/ Catalog!PublishRefused(s)
    PROVE  CatalogInv'
<1>1. UNCHANGED <<kind, task, wf, ver, recorded, crossed>> /\ sess' = [sess EXCEPT ![s] = Catalog!Idle]
  BY DEF Catalog!CommitFails, Catalog!PublishRefused
<1>2. sess = [t \in Session |-> sess[t]] /\ \A t \in Session : Held(sess[t])
  BY SessHeld DEF CatalogInv
<1>3. sess' = [t \in Session |-> IF t = s THEN Catalog!Idle ELSE sess[t]]
  BY <1>1, <1>2
<1>4. SessInv'
  <2>1. \A t \in Session : Held(sess[t])'
    BY <1>1, <1>2, <1>3, HeldStays DEF Held
  <2> QED
    BY <1>3, <2>1, SessHeld DEF SessInv, Held
<1>5. RoomInv'
  <2>1. Catalog!Adding' \subseteq Catalog!Adding
    BY <1>3 DEF Catalog!Adding, Catalog!Idle, Catalog!Op
  <2>2. Catalog!Adding \subseteq Session /\ Catalog!Adding' \subseteq Session /\ Version \ Catalog!Used \subseteq Version
    BY DEF Catalog!Adding
  <2>3. /\ Cardinality(Catalog!Adding) \in Nat /\ Cardinality(Version \ Catalog!Used) \in Nat /\ IsFiniteSet(Catalog!Adding)
        /\ Cardinality(Catalog!Adding') \in Nat
    BY <2>2, CardFacts
  <2>4. Cardinality(Catalog!Adding') <= Cardinality(Catalog!Adding)
    BY <2>1, <2>3, FS_Subset
  <2>5. Catalog!Used' = Catalog!Used
    BY <1>1, TablesStay
  <2>6. Cardinality(Catalog!Adding) <= Cardinality(Version \ Catalog!Used)
    BY DEF CatalogInv, RoomInv
  <2> QED
    BY <2>3, <2>4, <2>5, <2>6 DEF RoomInv
<1> QED
  BY <1>1, <1>4, <1>5, TablesStay DEF CatalogInv

-----------------------------------------------------------------------------
(* What a commit does to the tables. *)

LEMMA MergedColumns ==
    ASSUME NEW cur, IsRow(cur), NEW read, IsRow(read), NEW new, IsRow(new)
    PROVE  /\ IsRow(Catalog!Merged(cur, read, new))
           /\ \A c \in Columns : Catalog!Merged(cur, read, new)[c] = IF new[c] = read[c] THEN cur[c] ELSE new[c]
           /\ cur = read => Catalog!Merged(cur, read, new) = new
<1>1. DOMAIN cur = Columns
  BY DEF IsRow
<1>2. Catalog!Merged(cur, read, new) = [c \in Columns |-> IF new[c] = read[c] THEN cur[c] ELSE new[c]]
  BY <1>1 DEF Catalog!Merged
<1>3. IsRow(Catalog!Merged(cur, read, new))
  BY <1>2 DEF IsRow
<1>4. ASSUME cur = read PROVE Catalog!Merged(cur, read, new) = new
  <2>1. \A c \in Columns : Catalog!Merged(cur, read, new)[c] = new[c]
    BY <1>2, <1>4
  <2> QED
    BY <1>3, <2>1 DEF IsRow
<1> QED
  BY <1>2, <1>3, <1>4

\* A version after the commit of q, if it is not the one that q adds.
Becomes(q, v, r) ==
    /\ IsRow(r) /\ NodesOK(r.snap) /\ r.channel = ver[v].channel /\ r.wf = ver[v].wf
    /\ r.snap \in {ver[v].snap, q.new.ver[v].snap}
    /\ r.snap # ver[v].snap =>
          \/ q.op = "update" /\ v = q.v /\ q.read.ver[v].status # "online" /\ r.snap # Catalog!Bare
          \/ /\ kind = "sm4" /\ q.op \in {"edit", "delete"} /\ q.read.ver[v].snap = Catalog!Bare
             /\ r.snap = Catalog!Fresh(q.read.task) /\ r.snap # Catalog!Bare
    /\ r.status = "online" /\ ver[v].status # "online" => q.op = "publish" /\ v = q.v /\ r.channel = "prod"
    /\ Unfrozen(r) => Unfrozen(ver[v]) /\ ~(kind = "sm4" /\ q.op = "edit")
    /\ kind = "sql" /\ ~(q.op = "update" /\ v = q.v) => r.rel = ver[v].rel /\ r.hash = ver[v].hash
    /\ kind # "trigger" => r.mon = "none"
    /\ q.read = Catalog!Db => r = q.new.ver[v]

LEMMA VersionBecomes ==
    ASSUME CatalogInv, NEW q, Fits(kind, q), Since(q), NEW v \in Version
    PROVE  Becomes(q, v, Catalog!Merged(ver[v], q.read.ver[v], q.new.ver[v]))
<1> DEFINE a == ver[v]
           b == q.read.ver[v]
           n == q.new.ver[v]
           r == Catalog!Merged(a, b, n)
<1>1. IsRow(a) /\ NodesOK(a.snap)
  BY VersionRow
<1>2. IsRow(b) /\ IsRow(n) /\ RowFits(kind, q.read.task, q.op, v = q.v, b, n)
  BY DEF Fits, IsRequest, IsDb, RowsFit
<1>3. /\ b.channel # "none" => a.channel = b.channel
      /\ Unfrozen(a) => Unfrozen(b)
      /\ kind # "trigger" => b.mon = "none"
  BY DEF Since
<1>4. kind # "trigger" => a.mon = "none"
  BY DEF CatalogInv, NoMonitors
<1>5. kind = "sm4" /\ q.op = "edit" /\ b.channel = "prod" /\ b.snap = Catalog!Bare => n.snap = Catalog!Fresh(q.read.task)
  BY DEF Fits, TaskFits
<1>6. q.read = Catalog!Db => a = b
  BY DbFields DEF CatalogInv
<1>7. kind = "sm4" => q.read.task.rev \in Catalog!Revision
  <2>1. task.rev \in Catalog!Revision /\ MaxEdits \in Nat
    BY PlatformAssumption DEF CatalogInv, TablesInv, Catalog!WorkflowCatalogAssumption
  <2>2. kind = "sm4" => q.read.task.rev \in 1 .. task.rev
    BY DEF Since
  <2> QED
    BY <2>1, <2>2 DEF Catalog!Revision
<1>8. kind = "sm4" => Catalog!Fresh(q.read.task) # Catalog!Bare
  BY <1>7, FreshNodes
<1> HIDE DEF a, b, n
<1>9. /\ IsRow(r)
      /\ \A c \in Columns : r[c] = IF n[c] = b[c] THEN a[c] ELSE n[c]
      /\ a = b => r = n
  BY <1>1, <1>2, MergedColumns
<1> HIDE DEF r
<1>10. /\ r.channel = a.channel /\ r.wf = a.wf /\ NodesOK(r.snap) /\ r.snap \in {a.snap, n.snap}
       /\ r.snap # a.snap => n.snap # b.snap /\ r.snap = n.snap
       /\ r.status = "online" /\ a.status # "online" => n.status = "online" /\ b.status # "online"
       /\ n.rel = b.rel => r.rel = a.rel
       /\ n.hash = b.hash => r.hash = a.hash
       /\ r.mon = "none" \/ (a.mon # "none" \/ n.mon # "none")
       /\ n.snap # b.snap => r.snap = n.snap
  BY <1>1, <1>2, <1>9 DEF Columns, RowFits
<1>11. r.snap # a.snap =>
          \/ q.op = "update" /\ v = q.v /\ b.status # "online" /\ r.snap # Catalog!Bare
          \/ /\ kind = "sm4" /\ q.op \in {"edit", "delete"} /\ b.snap = Catalog!Bare
             /\ r.snap = Catalog!Fresh(q.read.task) /\ r.snap # Catalog!Bare
  BY <1>2, <1>8, <1>10 DEF RowFits
<1>12. r.status = "online" /\ a.status # "online" => q.op = "publish" /\ v = q.v /\ r.channel = "prod"
  BY <1>2, <1>3, <1>10 DEF RowFits
<1>13. Unfrozen(r) => Unfrozen(a) /\ ~(kind = "sm4" /\ q.op = "edit")
  <2> SUFFICES ASSUME Unfrozen(r) PROVE Unfrozen(a) /\ ~(kind = "sm4" /\ q.op = "edit")
    OBVIOUS
  <2>1. r.snap = Catalog!Bare /\ r.channel = "prod"
    BY DEF Unfrozen
  <2>2. r.snap = a.snap
    BY <1>11, <2>1
  <2>3. Unfrozen(a)
    BY <1>10, <2>1, <2>2 DEF Unfrozen
  <2>4. Unfrozen(b)
    BY <1>3, <2>3
  <2>5. kind = "sm4" /\ q.op = "edit" => n.snap = Catalog!Fresh(q.read.task) /\ n.snap # b.snap
    BY <1>5, <1>8, <2>4 DEF Unfrozen
  <2> QED
    BY <1>8, <1>10, <2>1, <2>3, <2>5
<1>14. kind = "sql" /\ ~(q.op = "update" /\ v = q.v) => r.rel = a.rel /\ r.hash = a.hash
  BY <1>2, <1>10 DEF RowFits
<1>15. kind # "trigger" => r.mon = "none"
  BY <1>2, <1>3, <1>4, <1>10 DEF RowFits
<1>16. Becomes(q, v, r)
  BY <1>6, <1>9, <1>10, <1>11, <1>12, <1>13, <1>14, <1>15 DEF Becomes, a, b, n
<1> QED
  BY <1>16 DEF r, a, b, n

\* The task after the commit of q, if the commit gives the new version to.
LEMMA TaskBecomes ==
    ASSUME NEW cur, IsTask(cur), NEW read, IsTask(read), NEW new, IsTask(new)
    PROVE  LET t == Catalog!Merged(cur, read, new)
           IN  /\ IsTask(t)
               /\ t.live = IF new.live = read.live THEN cur.live ELSE new.live
               /\ t.rev = IF new.rev = read.rev THEN cur.rev ELSE new.rev
               /\ t.config = IF new.config = read.config THEN cur.config ELSE new.config
               /\ cur = read => t = new
<1> DEFINE F == {"live", "rev", "at", "config"}
           t == Catalog!Merged(cur, read, new)
<1>1. DOMAIN cur = F
  BY DEF IsTask
<1>2. t = [c \in F |-> IF new[c] = read[c] THEN cur[c] ELSE new[c]]
  BY <1>1 DEF Catalog!Merged
<1>3. /\ t = [c \in F |-> t[c]] /\ t.live = (IF new.live = read.live THEN cur.live ELSE new.live)
      /\ t.rev = (IF new.rev = read.rev THEN cur.rev ELSE new.rev)
      /\ t.config = (IF new.config = read.config THEN cur.config ELSE new.config)
  BY <1>2
<1>4. ASSUME cur = read PROVE t = new
  <2>1. \A c \in F : t[c] = new[c]
    BY <1>2, <1>4
  <2>2. new = [c \in F |-> new[c]]
    BY DEF IsTask
  <2> HIDE DEF t
  <2> QED
    BY <1>3, <2>1, <2>2
<1> HIDE DEF t
<1>5. IsTask(t)
  BY <1>3 DEF IsTask
<1> QED
  BY <1>3, <1>4, <1>5 DEF t

LEMMA OpenRequest ==
    ASSUME CatalogInv, NEW s \in Session, sess[s].op \in Catalog!Op
    PROVE  Fits(kind, sess[s]) /\ Since(sess[s]) /\ (sess[s].op = "publish" /\ sess[s].chain => Owing(sess[s]))
<1>1. sess[s] # Catalog!Idle /\ ~IsBetween(sess[s])
  BY DEF Catalog!Idle, IsBetween, Catalog!Op
<1> QED
  BY <1>1 DEF CatalogInv, SessInv

LEMMA SlotFree ==
    ASSUME CatalogInv, NEW s \in Session, sess[s].op \in Catalog!Op, sess[s].add # Catalog!NoRow
    PROVE  Catalog!Slot \in Version \ Catalog!Used
<1>1. s \in Catalog!Adding /\ Catalog!Adding \subseteq Session /\ Version \ Catalog!Used \subseteq Version
  BY DEF Catalog!Adding
<1>2. Version \ Catalog!Used # {}
  <2>1. SUFFICES ASSUME Version \ Catalog!Used = {} PROVE FALSE
    OBVIOUS
  <2>2. Cardinality(Catalog!Adding) <= 0
    BY <2>1, FS_EmptySet DEF CatalogInv, RoomInv
  <2>3. Cardinality(Catalog!Adding) \in Nat /\ IsFiniteSet(Catalog!Adding)
    BY <1>1, CardFacts
  <2>4. Cardinality(Catalog!Adding) = 0
    BY <2>2, <2>3
  <2>5. Catalog!Adding = {}
    BY <2>3, <2>4, FS_EmptySet
  <2> QED
    BY <1>1, <2>5
<1> QED
  BY <1>1, <1>2, FirstVersion DEF Catalog!Slot

LEMMA CommitRows ==
    ASSUME CatalogInv, NEW s \in Session, Catalog!Commit(s)
    PROVE  /\ ver' = [v \in Version |-> ver'[v]]
           /\ sess[s].add # Catalog!NoRow => Catalog!Slot \in Version \ Catalog!Used /\ ver'[Catalog!Slot] = sess[s].add
           /\ \A v \in Version : ~(sess[s].add # Catalog!NoRow /\ v = Catalog!Slot) => Becomes(sess[s], v, ver'[v])
<1> DEFINE q == sess[s]
<1>1. q.op \in Catalog!Op /\ ver' = Catalog!MergedVer(q)
  BY DEF Catalog!Commit
<1>2. Fits(kind, q) /\ Since(q)
  BY <1>1, OpenRequest
<1>3. q.add # Catalog!NoRow => Catalog!Slot \in Version \ Catalog!Used
  BY <1>1, SlotFree
<1> HIDE DEF q
<1>4. /\ ver' = [v \in Version |-> ver'[v]]
      /\ q.add # Catalog!NoRow => ver'[Catalog!Slot] = q.add
      /\ \A v \in Version : ~(q.add # Catalog!NoRow /\ v = Catalog!Slot) => ver'[v] = Catalog!Merged(ver[v], q.read.ver[v], q.new.ver[v])
  BY <1>1, <1>3 DEF Catalog!MergedVer
<1>5. \A v \in Version : ~(q.add # Catalog!NoRow /\ v = Catalog!Slot) => Becomes(q, v, ver'[v])
  BY <1>2, <1>4, VersionBecomes
<1> QED
  BY <1>3, <1>4, <1>5 DEF q

LEMMA CommitTask ==
    ASSUME CatalogInv, NEW s \in Session, Catalog!Commit(s)
    PROVE  LET old == sess[s].read.task
               new == sess[s].new.task
           IN  /\ IsTask(task')
               /\ task'.live = IF new.live = old.live THEN task.live ELSE new.live
               /\ task'.rev = IF new.rev = old.rev THEN task.rev ELSE new.rev
               /\ task'.config.body = IF new.config = old.config THEN task.config.body ELSE new.config.body
               /\ task'.config.ptr \in Version \cup {Catalog!NoVersion}
               /\ sess[s].read = Catalog!Db => /\ task'.live = new.live
                                               /\ task'.config.ptr = IF new.config.ptr = Catalog!NewRow THEN Catalog!Slot ELSE new.config.ptr
<1> DEFINE q == sess[s]
           old == q.read.task
           new == q.new.task
           t == Catalog!Merged(task, old, new)
<1>1. q.op \in Catalog!Op /\ task' = IF t.config.ptr = Catalog!NewRow THEN [t EXCEPT !.config.ptr = Catalog!Slot] ELSE t
  BY DEF Catalog!Commit, Catalog!MergedTask
<1>2. Fits(kind, q) /\ Since(q)
  BY <1>1, OpenRequest
<1>3. q.add # Catalog!NoRow => Catalog!Slot \in Version
  BY <1>1, SlotFree
<1> HIDE DEF q
<1>4. IsTask(task) /\ IsTask(old) /\ IsTask(new) /\ (q.read = Catalog!Db => old = task)
  BY <1>2, DbFields DEF CatalogInv, Fits, IsRequest, IsDb
<1>5. /\ task.config.ptr \in Version \cup {Catalog!NoVersion} /\ new.config.ptr \in Version \cup {Catalog!NoVersion, Catalog!NewRow}
      /\ new.config.ptr = Catalog!NewRow => Catalog!Slot \in Version
  BY <1>2, <1>3 DEF CatalogInv, TablesInv, Fits, TaskFits
<1> HIDE DEF old, new
<1>6. /\ IsTask(t)
      /\ t.live = IF new.live = old.live THEN task.live ELSE new.live
      /\ t.rev = IF new.rev = old.rev THEN task.rev ELSE new.rev
      /\ t.config = IF new.config = old.config THEN task.config ELSE new.config
      /\ task = old => t = new
  BY <1>4, TaskBecomes
<1> HIDE DEF t
<1> DEFINE u == [t EXCEPT !.config.ptr = Catalog!Slot]
<1>7. IsTask(u) /\ u.live = t.live /\ u.rev = t.rev /\ u.config.body = t.config.body /\ u.config.ptr = Catalog!Slot
  BY SMTT(60), <1>6, PointerFields
<1> HIDE DEF u
<1>8. task' = IF t.config.ptr = Catalog!NewRow THEN u ELSE t
  BY <1>1 DEF u
<1>9. IsTask(task') /\ task'.live = t.live /\ task'.rev = t.rev /\ task'.config.body = t.config.body
  BY <1>6, <1>7, <1>8
<1>10. task'.config.ptr = IF t.config.ptr = Catalog!NewRow THEN Catalog!Slot ELSE t.config.ptr
  BY <1>7, <1>8
<1>11. task'.config.ptr \in Version \cup {Catalog!NoVersion}
  BY <1>5, <1>6, <1>10, VersionFacts
<1>12. q.read = Catalog!Db => task'.live = new.live /\ t = new
  BY <1>4, <1>6, <1>9
<1>13. t.config.body = IF new.config = old.config THEN task.config.body ELSE new.config.body
  BY <1>6
<1>14. q.read = Catalog!Db => task'.config.ptr = IF new.config.ptr = Catalog!NewRow THEN Catalog!Slot ELSE new.config.ptr
  BY <1>10, <1>12
<1> QED
  BY <1>6, <1>9, <1>11, <1>12, <1>13, <1>14 DEF q, old, new

\* The revisions after a commit: an edit adds the next one.
LEMMA CommitRecords ==
    ASSUME CatalogInv, NEW s \in Session, Catalog!Commit(s), kind = "sm4"
    PROVE  /\ sess[s].op = "edit" => /\ task'.rev = task.rev + 1 /\ task'.rev \in Catalog!Revision
                                     /\ sess[s].new.task.config.body \in Catalog!Revision
                                     /\ recorded' = [recorded EXCEPT ![task.rev + 1] = sess[s].new.task.config.body]
                                     /\ task'.config.body = sess[s].new.task.config.body
           /\ sess[s].op # "edit" => task'.rev = task.rev /\ recorded' = recorded /\ task'.config.body = task.config.body
<1> DEFINE q == sess[s]
           old == q.read.task
           new == q.new.task
<1>1. /\ q.op \in Catalog!Op /\ (new.rev # old.rev => recorded[new.rev] = 0)
      /\ recorded' = IF new.rev # old.rev THEN [recorded EXCEPT ![new.rev] = new.config.body] ELSE recorded
  BY DEF Catalog!Commit, Catalog!Recordable, Catalog!Bumps
<1>2. Fits(kind, q) /\ Since(q)
  BY <1>1, OpenRequest
<1>3. /\ new.rev \in Catalog!Revision /\ new.config.body \in Catalog!Revision
      /\ q.op = "edit" => new.rev = old.rev + 1
      /\ q.op # "edit" => new.rev = old.rev /\ new.config = old.config
  BY <1>2 DEF Fits, TaskFits
<1>4. old.rev \in 1 .. task.rev /\ recorded[old.rev] = old.config.body
  BY <1>2 DEF Since
<1>5. /\ task.rev \in Catalog!Revision
      /\ \A r \in Catalog!Revision : recorded[r] \in Catalog!Revision \cup {0} /\ (recorded[r] # 0 <=> r <= task.rev)
      /\ recorded[task.rev] = task.config.body
  BY DEF CatalogInv, TablesInv, RecordedInv
<1>6. /\ task'.rev = IF new.rev = old.rev THEN task.rev ELSE new.rev
      /\ task'.config.body = IF new.config = old.config THEN task.config.body ELSE new.config.body
  BY CommitTask
<1> HIDE DEF q, old, new
<1>7. MaxEdits \in Nat /\ \A r \in Catalog!Revision : r \in Int
  BY PlatformAssumption DEF Catalog!WorkflowCatalogAssumption, Catalog!Revision
<1>8. CASE q.op = "edit"
  <2>1. new.rev # old.rev /\ recorded[new.rev] = 0
    BY <1>1, <1>3, <1>4, <1>5, <1>7, <1>8
  <2>2. ~(new.rev <= task.rev)
    BY <1>3, <1>5, <2>1
  <2>3. old.rev = task.rev /\ new.rev = task.rev + 1
    BY <1>3, <1>4, <1>5, <1>7, <1>8, <2>2
  <2>4. task'.config.body = new.config.body
    BY <1>4, <1>5, <1>6, <2>3
  <2> QED
    BY <1>1, <1>3, <1>6, <1>8, <2>1, <2>3, <2>4 DEF q, new
<1>9. CASE q.op # "edit"
  BY <1>1, <1>3, <1>6, <1>9 DEF q
<1> QED
  BY <1>8, <1>9 DEF q

LEMMA StillRecorded ==
    ASSUME CatalogInv, NEW s \in Session, Catalog!Commit(s), kind = "sm4", NEW n, NodesOK(n), Recorded(n)
    PROVE  Recorded(n)'
<1>1. n.rev > 0 => n.rev \in Catalog!Revision
  BY DEF NodesOK, Catalog!NoNodes, Catalog!Bare
<1>2. task.rev \in Int /\ \A r \in Catalog!Revision : r \in Int
  BY DEF CatalogInv, TablesInv, Catalog!Revision
<1>3. recorded = [r \in Catalog!Revision |-> recorded[r]]
  BY DEF CatalogInv, TablesInv
<1>4. CASE sess[s].op = "edit"
  <2>1. task'.rev = task.rev + 1 /\ \E b : recorded' = [recorded EXCEPT ![task.rev + 1] = b]
    BY <1>4, CommitRecords
  <2> QED
    BY <1>1, <1>2, <1>3, <2>1 DEF Recorded
<1>5. CASE sess[s].op # "edit"
  BY <1>5, CommitRecords DEF Recorded
<1> QED
  BY <1>4, <1>5

-----------------------------------------------------------------------------
(* A commit keeps the invariant. *)

LEMMA CommitTables ==
    ASSUME CatalogInv, NEW s \in Session, Catalog!Commit(s)
    PROVE  TablesInv' /\ OnlineInv' /\ NoMonitors'
<1> DEFINE q == sess[s]
<1>1. q.op \in Catalog!Op /\ kind' = kind
  BY DEF Catalog!Commit
<1>2. Fits(kind, q) /\ Since(q)
  BY <1>1, OpenRequest
<1>3. /\ ver' = [v \in Version |-> ver'[v]]
      /\ q.add # Catalog!NoRow => Catalog!Slot \in Version \ Catalog!Used /\ ver'[Catalog!Slot] = q.add
      /\ \A v \in Version : ~(q.add # Catalog!NoRow /\ v = Catalog!Slot) => Becomes(q, v, ver'[v])
  BY CommitRows
<1>4. /\ IsTask(task')
      /\ task'.live \in {task.live, q.new.task.live} /\ task'.rev \in {task.rev, q.new.task.rev}
      /\ task'.config.body \in {task.config.body, q.new.task.config.body}
      /\ task'.config.ptr \in Version \cup {Catalog!NoVersion}
  BY CommitTask
<1>5. AddFits(kind, q.add) /\ TaskFits(kind, q)
  BY <1>2 DEF Fits
<1>6. recorded' = [r \in Catalog!Revision |-> recorded'[r]]
  <2>1. recorded = [r \in Catalog!Revision |-> recorded[r]]
    BY DEF CatalogInv, TablesInv
  <2>2. recorded' = recorded \/ recorded' = [recorded EXCEPT ![q.new.task.rev] = q.new.task.config.body]
    BY DEF Catalog!Commit
  <2> QED
    BY <2>1, <2>2
<1>7. crossed' \subseteq Catalog!Op
  BY <1>1 DEF Catalog!Commit, CatalogInv, TablesInv
<1> HIDE DEF q
<1>8. \A v \in Version : IsRow(ver'[v]) /\ NodesOK(ver'[v].snap)
  BY <1>3, <1>5 DEF Becomes, AddFits
<1>9. IsDb(Catalog!Db)'
  <2>1. Catalog!Db' = [task |-> task', wf |-> wf', ver |-> ver']
    BY DEF Catalog!Db
  <2>2. IsDb(Catalog!Db')
    BY <1>3, <1>4, <1>8, <2>1, OtherTables
  <2> QED
    BY <2>2 DEF IsDb, IsTask, IsRow
<1>10. TablesInv'
  <2>1. task.live \in LiveFor(kind) /\ task.rev \in Catalog!Revision /\ task.config.body \in Catalog!Revision /\ kind \in {"sql", "sm4", "trigger"}
    BY DEF CatalogInv, TablesInv
  <2>2. task'.live \in LiveFor(kind') /\ task'.rev \in Catalog!Revision /\ task'.config.body \in Catalog!Revision
    BY <1>1, <1>4, <1>5, <2>1 DEF TaskFits
  <2>3. Catalog!Revision' = Catalog!Revision /\ \A v \in Version : NodesOK(ver'[v].snap) <=> NodesOK(ver[v].snap)'
    BY DEF NodesOK, Catalog!Revision, Catalog!NoNodes, Catalog!Bare
  <2>4. LiveFor(kind)' = LiveFor(kind')
    BY DEF LiveFor
  <2> QED
    BY <1>1, <1>4, <1>6, <1>7, <1>8, <1>9, <2>1, <2>2, <2>3, <2>4 DEF TablesInv, Catalog!NoVersion
<1>11. OnlineInv'
  <2> SUFFICES ASSUME NEW v \in Version, ver'[v].status = "online" PROVE ver'[v].channel = "prod"
    BY DEF OnlineInv, Catalog!Online
  <2>1. CASE q.add # Catalog!NoRow /\ v = Catalog!Slot
    BY <1>3, <1>5, <2>1 DEF AddFits
  <2>2. CASE ~(q.add # Catalog!NoRow /\ v = Catalog!Slot)
    <3>1. Becomes(q, v, ver'[v])
      BY <1>3, <2>2
    <3> QED
      BY <3>1 DEF Becomes, CatalogInv, OnlineInv, Catalog!Online
  <2> QED
    BY <2>1, <2>2
<1>12. NoMonitors'
  <2> SUFFICES ASSUME NEW v \in Version, kind # "trigger" PROVE ver'[v].mon = "none"
    BY <1>1 DEF NoMonitors
  <2> QED
    BY <1>3, <1>5 DEF AddFits, Becomes
<1> QED
  BY <1>10, <1>11, <1>12

LEMMA CommitRevisions ==
    ASSUME CatalogInv, NEW s \in Session, Catalog!Commit(s)
    PROVE  UnfrozenInv' /\ RecordedInv'
<1> DEFINE q == sess[s]
<1>1. q.op \in Catalog!Op /\ kind' = kind
  BY DEF Catalog!Commit
<1>2. Fits(kind, q) /\ Since(q)
  BY <1>1, OpenRequest
<1>3. /\ q.add # Catalog!NoRow => Catalog!Slot \in Version \ Catalog!Used /\ ver'[Catalog!Slot] = q.add
      /\ \A v \in Version : ~(q.add # Catalog!NoRow /\ v = Catalog!Slot) => Becomes(q, v, ver'[v])
  BY CommitRows
<1>4. AddFits(kind, q.add) /\ RowsFit(kind, q)
  BY <1>2 DEF Fits
<1>5. UnfrozenInv'
  <2> SUFFICES ASSUME NEW v \in Version, Unfrozen(ver'[v]) PROVE kind = "sm4" /\ task'.rev = 1
    BY <1>1 DEF UnfrozenInv, Unfrozen, Catalog!Bare
  <2>1. ~(q.add # Catalog!NoRow /\ v = Catalog!Slot)
    BY <1>3, <1>4 DEF AddFits, Unfrozen
  <2>2. Unfrozen(ver[v]) /\ ~(kind = "sm4" /\ q.op = "edit")
    BY <1>3, <2>1 DEF Becomes
  <2>3. kind = "sm4" /\ task.rev = 1
    BY <2>2 DEF CatalogInv, UnfrozenInv
  <2> QED
    BY <2>2, <2>3, CommitRecords
<1>6. RecordedInv'
  <2> SUFFICES ASSUME kind = "sm4"
               PROVE  /\ \A r \in Catalog!Revision : recorded'[r] \in Catalog!Revision \cup {0} /\ (recorded'[r] # 0 <=> r <= task'.rev)
                      /\ recorded'[task'.rev] = task'.config.body
                      /\ \A v \in Version : Recorded(ver[v].snap)'
    BY <1>1 DEF RecordedInv, Catalog!Revision
  <2>1. /\ \A r \in Catalog!Revision : recorded[r] \in Catalog!Revision \cup {0} /\ (recorded[r] # 0 <=> r <= task.rev)
        /\ recorded[task.rev] = task.config.body /\ task.rev \in Catalog!Revision
        /\ recorded = [r \in Catalog!Revision |-> recorded[r]]
    BY DEF CatalogInv, TablesInv, RecordedInv
  <2>2. \A r \in Catalog!Revision : r \in Int /\ r > 0
    BY PlatformAssumption DEF Catalog!Revision, Catalog!WorkflowCatalogAssumption
  <2>5. \A v \in Version : Recorded(ver[v].snap)'
    <3> SUFFICES ASSUME NEW v \in Version, NEW n, n = ver'[v].snap
                 PROVE  Recorded(n)'
      BY DEF Recorded
    <3>1. NodesOK(n) /\ Recorded(n)
      <4>1. CASE q.add # Catalog!NoRow /\ v = Catalog!Slot
        BY <1>2, <1>3, <1>4, <4>1 DEF AddFits, Since
      <4>2. CASE ~(q.add # Catalog!NoRow /\ v = Catalog!Slot)
        <5>1. n \in {ver[v].snap, q.new.ver[v].snap} /\ NodesOK(n)
          BY <1>3, <4>2 DEF Becomes
        <5>2. Recorded(ver[v].snap) /\ Recorded(q.new.ver[v].snap)
          BY <1>2 DEF Since, CatalogInv, RecordedInv
        <5> QED
          BY <5>1, <5>2
      <4> QED
        BY <4>1, <4>2
    <3> QED
      BY <3>1, StillRecorded
  <2>3. CASE q.op = "edit"
    <3>1. /\ task'.rev = task.rev + 1 /\ task'.rev \in Catalog!Revision /\ task'.config.body \in Catalog!Revision
          /\ recorded' = [recorded EXCEPT ![task.rev + 1] = task'.config.body]
      BY <2>3, CommitRecords
    <3>2. \A r \in Catalog!Revision : recorded'[r] = IF r = task.rev + 1 THEN task'.config.body ELSE recorded[r]
      BY <2>1, <3>1
    <3>3. recorded'[task'.rev] = task'.config.body
      BY <3>1, <3>2
    <3>4. \A r \in Catalog!Revision : recorded'[r] \in Catalog!Revision \cup {0} /\ (recorded'[r] # 0 <=> r <= task'.rev)
      BY <2>1, <2>2, <3>1, <3>2
    <3> QED
      BY <2>5, <3>3, <3>4
  <2>4. CASE q.op # "edit"
    BY <2>1, <2>4, <2>5, CommitRecords
  <2> QED
    BY <2>3, <2>4
<1> QED
  BY <1>5, <1>6

LEMMA CommitCrossed ==
    ASSUME NEW s \in Session, Catalog!Commit(s), NEW ops, Catalog!Undisturbed(ops)'
    PROVE  Catalog!Undisturbed(ops) /\ (sess[s].op \in ops => sess[s].read = Catalog!Db)
  BY DEF Catalog!Commit, Catalog!Overtaken, Catalog!Undisturbed

LEMMA CommitHashes ==
    ASSUME CatalogInv, NEW s \in Session, Catalog!Commit(s)
    PROVE  HashInv'
<1> DEFINE q == sess[s]
<1>1. q.op \in Catalog!Op /\ kind' = kind
  BY DEF Catalog!Commit
<1>2. Fits(kind, q) /\ Since(q)
  BY <1>1, OpenRequest
<1>3. /\ q.add # Catalog!NoRow => Catalog!Slot \in Version \ Catalog!Used /\ ver'[Catalog!Slot] = q.add
      /\ \A v \in Version : ~(q.add # Catalog!NoRow /\ v = Catalog!Slot) => Becomes(q, v, ver'[v])
  BY CommitRows
<1>4. AddFits(kind, q.add) /\ RowsFit(kind, q)
  BY <1>2 DEF Fits
<1> SUFFICES ASSUME kind = "sql", Catalog!Undisturbed({"update"})', NEW v \in Version, ver'[v].channel = "prod"
             PROVE  ver'[v].rel = ver'[v].snap /\ ver'[v].hash = Catalog!Hash(ver'[v].snap)
  BY <1>1 DEF HashInv, Catalog!Hash
<1>5. Catalog!Undisturbed({"update"}) /\ (q.op = "update" => q.read = Catalog!Db)
  BY CommitCrossed
<1>6. CASE q.add # Catalog!NoRow /\ v = Catalog!Slot
  BY <1>3, <1>4, <1>6 DEF AddFits
<1>7. CASE ~(q.add # Catalog!NoRow /\ v = Catalog!Slot)
  <2>1. Becomes(q, v, ver'[v])
    BY <1>3, <1>7
  <2>2. CASE q.op = "update" /\ v = q.v
    <3>1. ver'[v] = q.new.ver[v]
      BY <1>5, <2>1, <2>2 DEF Becomes
    <3>2. RowFits(kind, q.read.task, q.op, v = q.v, q.read.ver[v], q.new.ver[v])
      BY <1>4 DEF RowsFit
    <3> QED
      BY <2>2, <3>1, <3>2 DEF RowFits
  <2>3. CASE ~(q.op = "update" /\ v = q.v)
    <3>1. /\ ver'[v].rel = ver[v].rel /\ ver'[v].hash = ver[v].hash /\ ver'[v].snap = ver[v].snap
          /\ ver[v].channel = "prod"
      BY <2>1, <2>3 DEF Becomes
    <3>2. ver[v].rel = ver[v].snap /\ ver[v].hash = Catalog!Hash(ver[v].snap)
      BY <1>5, <3>1 DEF CatalogInv, HashInv
    <3> QED
      BY <3>1, <3>2
  <2> QED
    BY <2>2, <2>3
<1> QED
  BY <1>6, <1>7

LEMMA CommitOnline ==
    ASSUME CatalogInv, NEW s \in Session, Catalog!Commit(s)
    PROVE  Catalog!OneOnline'
<1> DEFINE q == sess[s]
<1>1. q.op \in Catalog!Op /\ kind' = kind
  BY DEF Catalog!Commit
<1>2. Fits(kind, q)
  BY <1>1, OpenRequest
<1>3. /\ q.add # Catalog!NoRow => ver'[Catalog!Slot] = q.add
      /\ \A v \in Version : ~(q.add # Catalog!NoRow /\ v = Catalog!Slot) => Becomes(q, v, ver'[v])
  BY CommitRows
<1>4. AddFits(kind, q.add) /\ PublishFits(q)
  BY <1>2 DEF Fits
<1> SUFFICES ASSUME kind # "trigger", Catalog!Undisturbed({"publish"})', NEW u \in Version, NEW v \in Version,
                    ver'[u].status = "online", ver'[v].status = "online", ver'[u].wf = ver'[v].wf, u # v
             PROVE  FALSE
  BY <1>1 DEF Catalog!OneOnline, Catalog!Online
<1>5. Catalog!Undisturbed({"publish"}) /\ (q.op = "publish" => q.read = Catalog!Db)
  BY CommitCrossed
<1>6. Becomes(q, u, ver'[u]) /\ Becomes(q, v, ver'[v])
  BY <1>3, <1>4 DEF AddFits
<1>7. ver[u].wf = ver[v].wf
  BY <1>6 DEF Becomes
<1>8. ~(ver[u].status = "online" /\ ver[v].status = "online")
  BY <1>5, <1>7 DEF CatalogInv, Catalog!OneOnline, Catalog!Online
<1>9. q.op = "publish" /\ (u = q.v \/ v = q.v)
  BY <1>6, <1>8 DEF Becomes
<1>10. q.read = Catalog!Db /\ Catalog!Db.ver = ver
  BY <1>5, <1>9, DbFields DEF CatalogInv
<1>11. ver'[u] = q.new.ver[u] /\ ver'[v] = q.new.ver[v]
  BY <1>6, <1>10 DEF Becomes
<1> QED
  BY <1>4, <1>7, <1>9, <1>10, <1>11 DEF PublishFits

LEMMA CommitMonitors ==
    ASSUME CatalogInv, NEW s \in Session, Catalog!Commit(s)
    PROVE  Catalog!OneMonitor'
<1> DEFINE q == sess[s]
           ops == {"edit", "deploy", "enable", "delete", "test"}
<1>1. q.op \in Catalog!Op /\ kind' = kind
  BY DEF Catalog!Commit
<1>2. Fits(kind, q)
  BY <1>1, OpenRequest
<1>3. /\ q.add # Catalog!NoRow => ver'[Catalog!Slot] = q.add
      /\ \A v \in Version : ~(q.add # Catalog!NoRow /\ v = Catalog!Slot) => Becomes(q, v, ver'[v])
  BY CommitRows
<1>4. AddFits(kind, q.add) /\ MonitorFits(kind, q)
  BY <1>2 DEF Fits
<1> SUFFICES ASSUME Catalog!Undisturbed(ops)', NEW v \in Version, ver'[v].mon = "on"
             PROVE  task'.live # "gone" /\ v = task'.config.ptr
  BY DEF Catalog!OneMonitor
<1>5. kind = "trigger"
  <2>1. NoMonitors'
    BY CommitTables
  <2> QED
    BY <1>1, <2>1 DEF NoMonitors
<1>6. Catalog!Undisturbed(ops) /\ (q.op \in ops => q.read = Catalog!Db)
  BY CommitCrossed
<1>7. q.read = Catalog!Db
  BY <1>4, <1>5, <1>6 DEF MonitorFits
<1>8. OneMonitored(q.new)
  <2>1. OneMonitored(Catalog!Db)
    BY <1>6, DbFields DEF CatalogInv, Catalog!OneMonitor, OneMonitored
  <2> QED
    BY <1>4, <1>5, <1>7, <2>1 DEF MonitorFits
<1>9. /\ task'.live = q.new.task.live
      /\ task'.config.ptr = IF q.new.task.config.ptr = Catalog!NewRow THEN Catalog!Slot ELSE q.new.task.config.ptr
  BY <1>7, CommitTask
<1>10. CASE q.add # Catalog!NoRow /\ v = Catalog!Slot
  BY <1>3, <1>4, <1>5, <1>9, <1>10 DEF MonitorFits
<1>11. CASE ~(q.add # Catalog!NoRow /\ v = Catalog!Slot)
  <2>1. ver'[v] = q.new.ver[v]
    BY <1>3, <1>7, <1>11 DEF Becomes
  <2>2. q.new.task.live # "gone" /\ v = q.new.task.config.ptr
    BY <1>8, <2>1 DEF OneMonitored
  <2> QED
    BY <1>9, <2>2, VersionFacts
<1> QED
  BY <1>10, <1>11

-----------------------------------------------------------------------------
(* The other requests, after a commit. *)

LEMMA SinceStays ==
    ASSUME CatalogInv, NEW s \in Session, Catalog!Commit(s), NEW p, Fits(kind, p), Since(p)
    PROVE  Since(p)'
<1> DEFINE q == sess[s]
<1>1. q.op \in Catalog!Op /\ kind' = kind
  BY DEF Catalog!Commit
<1>2. Fits(kind, q)
  BY <1>1, OpenRequest
<1>3. /\ q.add # Catalog!NoRow => Catalog!Slot \in Version \ Catalog!Used /\ ver'[Catalog!Slot] = q.add
      /\ \A v \in Version : ~(q.add # Catalog!NoRow /\ v = Catalog!Slot) => Becomes(q, v, ver'[v])
  BY CommitRows
<1>4. AddFits(kind, q.add)
  BY <1>2 DEF Fits
<1> HIDE DEF q
<1>5. ASSUME NEW v \in Version
      PROVE  /\ p.read.ver[v].channel # "none" => ver'[v].channel = p.read.ver[v].channel
             /\ Unfrozen(ver'[v]) => Unfrozen(p.read.ver[v])
             /\ kind # "trigger" => p.read.ver[v].mon = "none"
  <2>1. /\ p.read.ver[v].channel # "none" => ver[v].channel = p.read.ver[v].channel
        /\ Unfrozen(ver[v]) => Unfrozen(p.read.ver[v])
        /\ kind # "trigger" => p.read.ver[v].mon = "none"
    BY DEF Since
  <2>2. CASE q.add # Catalog!NoRow /\ v = Catalog!Slot
    <3>1. ver[v].channel = "none"
      BY <1>3, <2>2 DEF Catalog!Used
    <3>2. ~Unfrozen(ver'[v])
      BY <1>3, <1>4, <2>2 DEF AddFits, Unfrozen
    <3> QED
      BY <2>1, <3>1, <3>2
  <2>3. CASE ~(q.add # Catalog!NoRow /\ v = Catalog!Slot)
    <3>1. ver'[v].channel = ver[v].channel /\ (Unfrozen(ver'[v]) => Unfrozen(ver[v]))
      BY <1>3, <2>3 DEF Becomes
    <3> QED
      BY <2>1, <3>1
  <2> QED
    BY <2>2, <2>3
<1>6. ASSUME kind = "sm4"
      PROVE  /\ p.read.task.rev \in 1 .. task'.rev
             /\ recorded'[p.read.task.rev] = p.read.task.config.body
             /\ \A v \in Version : Recorded(p.new.ver[v].snap)'
             /\ Recorded(p.add.snap)'
  <2>1. /\ p.read.task.rev \in 1 .. task.rev /\ recorded[p.read.task.rev] = p.read.task.config.body
        /\ \A v \in Version : Recorded(p.new.ver[v].snap)
        /\ Recorded(p.add.snap)
    BY <1>6 DEF Since
  <2>2. NodesOK(p.add.snap) /\ \A v \in Version : NodesOK(p.new.ver[v].snap)
    BY DEF Fits, AddFits, RowsFit, RowFits
  <2>3. Recorded(p.add.snap)'
    BY <1>6, <2>1, <2>2, StillRecorded
  <2>4. \A v \in Version : Recorded(p.new.ver[v].snap)'
    <3> SUFFICES ASSUME NEW v \in Version PROVE Recorded(p.new.ver[v].snap)'
      OBVIOUS
    <3> QED
      BY <1>6, <2>1, <2>2, StillRecorded
  <2>5. task.rev \in Int /\ recorded = [r \in Catalog!Revision |-> recorded[r]]
    BY DEF CatalogInv, TablesInv, Catalog!Revision
  <2>6. CASE q.op = "edit"
    <3>1. task'.rev = task.rev + 1 /\ \E b : recorded' = [recorded EXCEPT ![task.rev + 1] = b]
      BY <1>6, <2>6, CommitRecords DEF q
    <3> QED
      BY <2>1, <2>3, <2>4, <2>5, <3>1
  <2>7. CASE q.op # "edit"
    <3>1. task'.rev = task.rev /\ recorded' = recorded
      BY <1>6, <2>7, CommitRecords DEF q
    <3> QED
      BY <2>1, <2>3, <2>4, <3>1
  <2> QED
    BY <2>6, <2>7
<1> QED
  BY <1>1, <1>5, <1>6 DEF Since, Unfrozen, Catalog!Bare

LEMMA OwingStays ==
    ASSUME CatalogInv, NEW s \in Session, Catalog!Commit(s), NEW p, Owing(p),
           sess[s].op = "update" /\ p.v = sess[s].v => p.want = Catalog!Void
    PROVE  Owing(p)'
<1> DEFINE q == sess[s]
<1>1. q.op \in Catalog!Op /\ kind' = kind
  BY DEF Catalog!Commit
<1>2. /\ q.add # Catalog!NoRow => Catalog!Slot \in Version \ Catalog!Used /\ ver'[Catalog!Slot] = q.add
      /\ \A v \in Version : ~(q.add # Catalog!NoRow /\ v = Catalog!Slot) => Becomes(q, v, ver'[v])
  BY CommitRows
<1>3. kind = "sql" /\ p.v \in Version /\ ver[p.v].channel = "prod"
  BY DEF Owing
<1>4. Becomes(q, p.v, ver'[p.v])
  BY <1>2, <1>3 DEF Catalog!Used
<1>5. ver'[p.v].channel = "prod"
  BY <1>3, <1>4 DEF Becomes
<1>6. ASSUME Catalog!Undisturbed({"submit", "update"})', p.want # Catalog!Void
      PROVE  Catalog!Hash(ver'[p.v].snap) = p.want
  <2>1. Catalog!Undisturbed({"submit", "update"})
    BY <1>6, CommitCrossed
  <2>2. ver'[p.v].snap = ver[p.v].snap
    BY <1>3, <1>4, <1>6 DEF Becomes
  <2> QED
    BY <1>6, <2>1, <2>2 DEF Owing
<1>7. Catalog!Void' = Catalog!Void /\ Catalog!Hash(ver[p.v].snap)' = Catalog!Hash(ver'[p.v].snap)
  BY DEF Catalog!Void, Catalog!Hash, Catalog!NoRel
<1> QED
  BY <1>1, <1>3, <1>5, <1>6, <1>7 DEF Owing

\* A request that is owed nothing any more.
LEMMA OwedLess ==
    ASSUME NEW p
    PROVE  LET e == [p EXCEPT !.want = Catalog!Void]
           IN  /\ IsBetween(p) => IsBetween(e) /\ e.v = p.v /\ e.want = Catalog!Void
               /\ Fits(kind, p) => /\ e.op = p.op /\ e.chain = p.chain /\ e.v = p.v /\ e.want = Catalog!Void
                                   /\ e.add = p.add
                                   /\ p.op = "publish" => Fits(kind, e)
                                   /\ Since(p) => Since(e)
<1> DEFINE e == [p EXCEPT !.want = Catalog!Void]
<1>1. IsBetween(p) => IsBetween(e) /\ e.v = p.v /\ e.want = Catalog!Void
  BY DEF IsBetween
<1>2. ASSUME Fits(kind, p)
      PROVE  /\ e.op = p.op /\ e.chain = p.chain /\ e.v = p.v /\ e.want = Catalog!Void /\ e.add = p.add
             /\ p.op = "publish" => Fits(kind, e)
             /\ Since(p) => Since(e)
  <2>1. /\ e = [c \in {"op", "v", "read", "new", "add", "chain", "want"} |-> e[c]]
        /\ e.op = p.op /\ e.chain = p.chain /\ e.v = p.v /\ e.want = Catalog!Void /\ e.add = p.add
        /\ e.read = p.read /\ e.new = p.new
    BY <1>2 DEF Fits, IsRequest
  <2> HIDE DEF e
  <2>2. Since(p) => Since(e)
    BY <2>1 DEF Since
  <2>3. ASSUME p.op = "publish" PROVE Fits(kind, e)
    <3>1. IsRequest(e) /\ RowsFit(kind, e) /\ AddFits(kind, e.add) /\ TaskFits(kind, e)
      BY <1>2, <2>1 DEF Fits, IsRequest, RowsFit, TaskFits
    <3>2. PublishFits(e) /\ MonitorFits(kind, e)
      BY <1>2, <2>1 DEF Fits, PublishFits, MonitorFits
    <3>3. ChainFits(kind, e)
      BY <1>2, <2>1, <2>3 DEF Fits, ChainFits
    <3> QED
      BY <3>1, <3>2, <3>3 DEF Fits
  <2> QED
    BY <2>1, <2>2, <2>3
<1> QED
  BY <1>1, <1>2

LEMMA HeldPrimed ==
    ASSUME NEW n, UNCHANGED kind
    PROVE  Held(n)' <=> \/ n = Catalog!Idle
                        \/ IsBetween(n) /\ Owing(n)'
                        \/ /\ Fits(kind, n) /\ Since(n)'
                           /\ n.op = "publish" /\ n.chain => Owing(n)'
<1>1. /\ Catalog!Idle' = Catalog!Idle /\ (IsBetween(n)' <=> IsBetween(n))
  BY DEF Catalog!Idle, IsBetween
<1>2. Fits(kind, n)' <=> Fits(kind, n)
  BY DEF Fits, IsRequest, IsDb, IsTask, IsRow, RowsFit, RowFits, AddFits, TaskFits, PublishFits, MonitorFits, ChainFits,
         OneMonitored, NodesOK, Catalog!NoNodes, Catalog!Bare, Catalog!NoRow, Catalog!NoVersion, Catalog!NewRow, LiveFor, Catalog!Revision, Catalog!Fresh, Catalog!Hash, Catalog!NoRel, Columns, Catalog!Op
<1> QED
  BY <1>1, <1>2 DEF Held

LEMMA CommitAfter ==
    ASSUME CatalogInv, NEW s \in Session, Catalog!Commit(s)
    PROVE  /\ sess' = [t \in Session |-> sess'[t]]
           /\ sess'[s] = IF sess[s].op = "submit" /\ sess[s].chain
                         THEN [op |-> "between", v |-> IF sess[s].v = Catalog!NoVersion THEN Catalog!Slot ELSE sess[s].v, want |-> sess[s].want]
                         ELSE Catalog!Idle
           /\ \A t \in Session \ {s} :
                 sess'[t] = IF sess[s].op = "update" /\ sess[t].op \in {"between", "publish"} /\ sess[t].v = sess[s].v
                            THEN [sess[t] EXCEPT !.want = Catalog!Void] ELSE sess[t]
<1>1. sess' = Catalog!After(s, sess[s])
  BY DEF Catalog!Commit
<1> QED
  BY <1>1 DEF Catalog!After

LEMMA CommitSelf ==
    ASSUME CatalogInv, NEW s \in Session, Catalog!Commit(s)
    PROVE  Held(sess[s])'
<1> DEFINE q == sess[s]
           got == IF q.v = Catalog!NoVersion THEN Catalog!Slot ELSE q.v
           b == [op |-> "between", v |-> got, want |-> q.want]
<1>1. q.op \in Catalog!Op /\ kind' = kind
  BY DEF Catalog!Commit
<1>2. Fits(kind, q) /\ Since(q)
  BY <1>1, OpenRequest
<1>3. /\ q.add # Catalog!NoRow => Catalog!Slot \in Version \ Catalog!Used /\ ver'[Catalog!Slot] = q.add
      /\ \A v \in Version : ~(q.add # Catalog!NoRow /\ v = Catalog!Slot) => Becomes(q, v, ver'[v])
  BY CommitRows
<1>4. sess'[s] = IF q.op = "submit" /\ q.chain THEN b ELSE Catalog!Idle
  BY CommitAfter
<1>5. CASE ~(q.op = "submit" /\ q.chain)
  BY <1>4, <1>5 DEF Held, Catalog!Idle
<1>6. CASE q.op = "submit" /\ q.chain
  <2>1. /\ kind = "sql"
        /\ \/ q.v = Catalog!NoVersion /\ q.add # Catalog!NoRow /\ q.add.channel = "prod" /\ Catalog!Hash(q.add.snap) = q.want
           \/ q.v \in Version /\ q.read.ver[q.v].hash = q.want /\ q.read.ver[q.v].channel = "prod"
    BY <1>2, <1>6 DEF Fits, ChainFits
  <2>2. /\ got \in Version /\ ver'[got].channel = "prod"
        /\ Catalog!Undisturbed({"submit", "update"})' => Catalog!Hash(ver'[got].snap) = q.want
    <3>1. CASE q.v = Catalog!NoVersion /\ q.add # Catalog!NoRow /\ q.add.channel = "prod" /\ Catalog!Hash(q.add.snap) = q.want
      BY <1>3, <3>1
    <3>2. CASE q.v \in Version /\ q.read.ver[q.v].hash = q.want /\ q.read.ver[q.v].channel = "prod"
      <4>1. got = q.v /\ ver[q.v].channel = "prod"
        BY <1>2, <3>2, VersionFacts DEF Since
      <4>2. ~(q.add # Catalog!NoRow /\ q.v = Catalog!Slot)
        BY <1>3, <4>1 DEF Catalog!Used
      <4>3. Becomes(q, q.v, ver'[q.v])
        BY <1>3, <3>2, <4>2
      <4>4. ver'[q.v].channel = "prod" /\ ver'[q.v].snap = ver[q.v].snap
        BY <1>6, <4>1, <4>3 DEF Becomes
      <4>5. ASSUME Catalog!Undisturbed({"submit", "update"})' PROVE Catalog!Hash(ver'[got].snap) = q.want
        <5>1. Catalog!Undisturbed({"submit", "update"}) /\ q.read = Catalog!Db
          BY <1>6, <4>5, CommitCrossed
        <5>2. Catalog!Undisturbed({"update"})
          BY <5>1 DEF Catalog!Undisturbed
        <5>3. ver[q.v].hash = Catalog!Hash(ver[q.v].snap)
          BY <2>1, <3>2, <4>1, <5>2 DEF CatalogInv, HashInv
        <5>4. ver[q.v].hash = q.want
          BY <3>2, <5>1, DbFields DEF CatalogInv
        <5> QED
          BY <4>1, <4>4, <5>3, <5>4
      <4> QED
        BY <3>2, <4>1, <4>4, <4>5
    <3> QED
      BY <2>1, <3>1, <3>2
  <2> HIDE DEF got
  <2> SUFFICES ASSUME NEW n, n = b, NEW g, g = got, NEW w, w = q.want PROVE Held(n)'
    BY <1>4, <1>6 DEF Held
  <2>3. IsBetween(n) /\ n.v = g /\ n.want = w
    BY DEF IsBetween
  <2>4. Owing(n)'
    <3>1. Catalog!Hash(ver[g].snap)' = Catalog!Hash(ver'[g].snap)
      BY DEF Catalog!Hash
    <3> QED
      BY <1>1, <2>1, <2>2, <2>3, <3>1 DEF Owing
  <2> QED
    BY <1>1, <2>3, <2>4, HeldPrimed
<1> QED
  BY <1>5, <1>6

LEMMA CommitOthers ==
    ASSUME CatalogInv, NEW s \in Session, Catalog!Commit(s), NEW t \in Session \ {s}
    PROVE  Held(sess[t])'
<1>1. kind' = kind /\ sess[s].op \in Catalog!Op
  BY DEF Catalog!Commit
<1>2. sess'[t] = IF sess[s].op = "update" /\ sess[t].op \in {"between", "publish"} /\ sess[t].v = sess[s].v
                 THEN [sess[t] EXCEPT !.want = Catalog!Void] ELSE sess[t]
  BY CommitAfter
<1> SUFFICES ASSUME NEW p, p = sess[t], NEW n, n = sess'[t] PROVE Held(n)'
  BY DEF Held
<1>3. Held(p)
  BY SessHeld DEF CatalogInv
<1>4. /\ n.v = p.v \/ n = p
      /\ n \in {p, [p EXCEPT !.want = Catalog!Void]}
      /\ n # p => p.op \in {"between", "publish"}
      /\ sess[s].op = "update" /\ p.op \in {"between", "publish"} /\ p.v = sess[s].v => n = [p EXCEPT !.want = Catalog!Void]
  <2>1. n \in {p, [p EXCEPT !.want = Catalog!Void]} /\ (n # p => p.op \in {"between", "publish"})
    BY <1>2
  <2>2. p.op \in {"between", "publish"} => [p EXCEPT !.want = Catalog!Void].v = p.v
    BY <1>3, OwedLess DEF Held, Catalog!Idle
  <2> QED
    BY <1>2, <2>1, <2>2
<1>5. CASE p = Catalog!Idle
  BY <1>1, <1>4, <1>5, HeldPrimed DEF Catalog!Idle
<1>6. CASE IsBetween(p) /\ Owing(p)
  <2>1. IsBetween(n) /\ n.v = p.v /\ p.op = "between" /\ (n = p \/ n.want = Catalog!Void)
    BY <1>4, <1>6, OwedLess DEF IsBetween
  <2>2. Owing(n)
    BY <1>6, <2>1 DEF Owing
  <2>3. sess[s].op = "update" /\ n.v = sess[s].v => n.want = Catalog!Void
    BY <1>4, <1>6, <2>1, OwedLess
  <2> QED
    BY <1>1, <2>1, <2>2, <2>3, OwingStays, HeldPrimed
<1>7. CASE Fits(kind, p) /\ Since(p) /\ (p.op = "publish" /\ p.chain => Owing(p))
  <2>1. p.op \in Catalog!Op /\ p.op # "between"
    BY <1>7 DEF Fits, IsRequest, Catalog!Op
  <2>2. Fits(kind, n) /\ Since(n) /\ n.op = p.op /\ n.v = p.v /\ (n.chain => p.chain) /\ (n = p \/ n.want = Catalog!Void)
    <3>1. CASE n = p
      BY <1>7, <3>1
    <3>2. CASE n # p
      <4>1. p.op = "publish" /\ n = [p EXCEPT !.want = Catalog!Void]
        BY <1>4, <2>1, <3>2
      <4>2. /\ n.op = p.op /\ n.v = p.v /\ n.want = Catalog!Void /\ Fits(kind, n) /\ Since(n)
            /\ n.chain = p.chain
        BY <1>7, <4>1, OwedLess
      <4> QED
        BY <4>2
    <3> QED
      BY <3>1, <3>2
  <2>3. Since(n)'
    BY <2>2, SinceStays
  <2>4. ASSUME n.op = "publish", n.chain PROVE Owing(n)'
    <3>1. Owing(p)
      BY <1>7, <2>2, <2>4
    <3>2. Owing(n)
      BY <2>2, <3>1 DEF Owing
    <3>3. sess[s].op = "update" /\ n.v = sess[s].v => n.want = Catalog!Void
      BY ZenonT(60), <1>4, <1>7, <2>2, <2>4, OwedLess
    <3> QED
      BY <3>2, <3>3, OwingStays
  <2> QED
    BY <1>1, <2>2, <2>3, <2>4, HeldPrimed
<1> QED
  BY <1>3, <1>5, <1>6, <1>7 DEF Held

LEMMA CommitRoom ==
    ASSUME CatalogInv, NEW s \in Session, Catalog!Commit(s)
    PROVE  RoomInv'
<1> DEFINE q == sess[s]
<1>1. q.op \in Catalog!Op
  BY DEF Catalog!Commit
<1>2. Fits(kind, q)
  BY <1>1, OpenRequest
<1>3. /\ q.add # Catalog!NoRow => Catalog!Slot \in Version \ Catalog!Used /\ ver'[Catalog!Slot] = q.add
      /\ \A v \in Version : ~(q.add # Catalog!NoRow /\ v = Catalog!Slot) => Becomes(q, v, ver'[v])
  BY CommitRows
<1>4. \A v \in Version : ~(q.add # Catalog!NoRow /\ v = Catalog!Slot) => (v \in Catalog!Used' <=> v \in Catalog!Used)
  BY <1>3 DEF Catalog!Used, Becomes
<1>5. Catalog!Adding' \subseteq Catalog!Adding \ {s}
  <2>1. s \notin Catalog!Adding'
    <3>1. sess'[s].op \in {"between", "idle"}
      <4> DEFINE b == [op |-> "between", v |-> IF q.v = Catalog!NoVersion THEN Catalog!Slot ELSE q.v, want |-> q.want]
      <4>1. sess'[s] \in {b, Catalog!Idle}
        BY CommitAfter
      <4>2. b.op = "between" /\ Catalog!Idle.op = "idle"
        BY DEF Catalog!Idle
      <4> QED
        BY <4>1, <4>2
    <3> QED
      BY <3>1 DEF Catalog!Adding, Catalog!Op
  <2>2. ASSUME NEW t \in Session \ {s}, t \in Catalog!Adding' PROVE t \in Catalog!Adding
    <3>1. Held(sess[t])
      BY SessHeld DEF CatalogInv
    <3>2. sess'[t] \in {sess[t], [sess[t] EXCEPT !.want = Catalog!Void]} /\ sess'[t].op \in Catalog!Op /\ sess'[t].add # Catalog!NoRow
      BY <2>2, CommitAfter DEF Catalog!Adding, Catalog!NoRow, Catalog!NoNodes, Catalog!NoRel, Catalog!Hash, Catalog!Op
    <3>3. CASE sess'[t] = sess[t]
      BY <3>2, <3>3 DEF Catalog!Adding
    <3>4. CASE sess'[t] # sess[t]
      <4>1. sess[t].op \in {"between", "publish"} /\ sess'[t] = [sess[t] EXCEPT !.want = Catalog!Void]
        BY <3>4, CommitAfter
      <4>2. ~IsBetween(sess[t])
        BY <3>2, <4>1, OwedLess DEF IsBetween, Catalog!Op
      <4>3. Fits(kind, sess[t])
        BY <3>1, <4>1, <4>2 DEF Held, Catalog!Idle
      <4>4. sess'[t].add = sess[t].add /\ sess[t].op \in Catalog!Op
        BY <4>1, <4>3, OwedLess DEF Fits, IsRequest
      <4> QED
        BY <3>2, <4>4 DEF Catalog!Adding
    <3> QED
      BY <3>3, <3>4
  <2> QED
    BY <2>1, <2>2 DEF Catalog!Adding
<1>6. Catalog!Adding \subseteq Session /\ Version \ Catalog!Used \subseteq Version /\ Catalog!Adding' \subseteq Session /\ (Version \ Catalog!Used)' \subseteq Version
  BY DEF Catalog!Adding
<1>7. /\ Cardinality(Catalog!Adding) \in Nat /\ Cardinality(Version \ Catalog!Used) \in Nat /\ IsFiniteSet(Catalog!Adding)
      /\ IsFiniteSet(Version \ Catalog!Used) /\ Cardinality(Catalog!Adding') \in Nat /\ Cardinality((Version \ Catalog!Used)') \in Nat
  BY <1>6, CardFacts
<1>8. Cardinality(Catalog!Adding) <= Cardinality(Version \ Catalog!Used)
  BY DEF CatalogInv, RoomInv
<1>9. CASE q.add = Catalog!NoRow
  <2>1. (Version \ Catalog!Used)' = Version \ Catalog!Used
    BY <1>4, <1>9
  <2>2. Cardinality(Catalog!Adding') <= Cardinality(Catalog!Adding)
    BY <1>5, <1>7, FS_Subset
  <2> QED
    BY <1>7, <1>8, <2>1, <2>2 DEF RoomInv
<1>10. CASE q.add # Catalog!NoRow
  <2>1. s \in Catalog!Adding
    BY <1>1, <1>10 DEF Catalog!Adding
  <2>2. Cardinality(Catalog!Adding \ {s}) = Cardinality(Catalog!Adding) - 1 /\ IsFiniteSet(Catalog!Adding \ {s})
    BY <1>7, <2>1, FS_RemoveElement
  <2>3. Cardinality(Catalog!Adding') <= Cardinality(Catalog!Adding \ {s})
    BY <1>5, <2>2, FS_Subset
  <2>4. Catalog!Slot \in Catalog!Used'
    BY <1>2, <1>3, <1>10 DEF Catalog!Used, Fits, AddFits
  <2>5. (Version \ Catalog!Used)' = (Version \ Catalog!Used) \ {Catalog!Slot}
    BY <1>3, <1>4, <1>10, <2>4
  <2>6. Cardinality((Version \ Catalog!Used) \ {Catalog!Slot}) = Cardinality(Version \ Catalog!Used) - 1
    BY <1>3, <1>7, <1>10, FS_RemoveElement
  <2> QED
    <3>1. Cardinality(Catalog!Adding') <= Cardinality(Catalog!Adding) - 1
      BY <2>2, <2>3
    <3>2. Cardinality((Version \ Catalog!Used)') = Cardinality(Version \ Catalog!Used) - 1
      BY <2>5, <2>6
    <3>3. Cardinality(Catalog!Adding') <= Cardinality((Version \ Catalog!Used)')
      BY <1>7, <1>8, <3>1, <3>2
    <3> QED
      BY <3>3 DEF RoomInv
<1> QED
  BY <1>9, <1>10

LEMMA CommitKeeps ==
    ASSUME CatalogInv, NEW s \in Session, Catalog!Commit(s)
    PROVE  CatalogInv'
<1>1. \A t \in Session : Held(sess[t])'
  BY CommitSelf, CommitOthers
<1>2. SessInv'
  BY <1>1, CommitAfter DEF SessInv, Held
<1> QED
  BY <1>2, CommitTables, CommitRevisions, CommitHashes, CommitOnline, CommitMonitors, CommitRoom DEF CatalogInv

-----------------------------------------------------------------------------
(* The startup of the API. *)

\* A version after the backfill.
Refills(v, r) ==
    /\ IsRow(r) /\ r.channel = ver[v].channel /\ r.wf = ver[v].wf /\ r.status = ver[v].status /\ r.mon = ver[v].mon
    /\ r.snap = ver[v].snap \/ (ver[v].snap = Catalog!Bare /\ r.snap = Catalog!Fresh(task))
    /\ ver[v].snap # Catalog!Bare /\ ver[v].rel = ver[v].snap /\ ver[v].hash = Catalog!Hash(ver[v].snap) =>
          r.rel = ver[v].snap /\ r.hash = Catalog!Hash(ver[v].snap)

LEMMA BackfilledRow ==
    ASSUME CatalogInv, NEW v \in Version
    PROVE  Refills(v, Catalog!Backfilled(ver[v])) /\ Refills(v, ver[v])
<1> DEFINE line == ver[v]
           nodes == IF line.snap = Catalog!NoNodes \/ (line.snap.rev <= 0 /\ ~Catalog!Freezable) THEN line.snap
                    ELSE Catalog!Frozen(line.snap, TRUE)
           rel == IF line.rel = Catalog!NoRel THEN nodes ELSE line.rel
           r == [line EXCEPT !.snap = nodes, !.rel = rel, !.hash = Catalog!Hash(rel)]
<1>1. IsRow(line) /\ NodesOK(line.snap)
  BY VersionRow
<1>2. line.snap # Catalog!NoNodes /\ line.snap # Catalog!Bare => line.snap.rev \in Int /\ line.snap.rev > 0
  BY <1>1 DEF NodesOK, Catalog!Revision
<1>3. Catalog!Bare.rev = 0 /\ Catalog!NoNodes.rev = -1 /\ Catalog!NoRel.rev = -2
  BY DEF Catalog!Bare, Catalog!NoNodes, Catalog!NoRel
<1>4. nodes = line.snap \/ (line.snap = Catalog!Bare /\ nodes = Catalog!Fresh(task))
  BY <1>2, <1>3 DEF Catalog!Frozen
<1>5. line.snap # Catalog!NoRel
  BY <1>1, <1>2, <1>3
<1>6. line.snap # Catalog!Bare /\ line.rel = line.snap => rel = line.snap
  BY <1>5
<1>7. Catalog!Backfilled(line) = r
  BY DEF Catalog!Backfilled
<1> HIDE DEF nodes, rel, line
<1>8. /\ IsRow(r) /\ r.channel = line.channel /\ r.wf = line.wf /\ r.status = line.status /\ r.mon = line.mon
      /\ r.snap = nodes /\ r.rel = rel /\ r.hash = Catalog!Hash(rel)
  BY <1>1 DEF IsRow, Columns
<1> HIDE DEF r
<1>9. Refills(v, r)
  BY <1>4, <1>6, <1>8 DEF Refills, line
<1>10. Refills(v, line)
  BY <1>1 DEF Refills, line
<1> QED
  BY <1>7, <1>9, <1>10 DEF line

LEMMA RestartRows ==
    ASSUME CatalogInv, Catalog!Restart
    PROVE  /\ ver' = [v \in Version |-> ver'[v]] /\ \A v \in Version : Refills(v, ver'[v])
           /\ UNCHANGED <<kind, task, wf, recorded, crossed>>
           /\ sess' = [s \in Session |-> Catalog!Idle]
<1>1. PICK raises : ver' = [v \in Version |-> IF v \in Catalog!Used \ raises THEN Catalog!Backfilled(ver[v]) ELSE ver[v]]
  BY DEF Catalog!Restart
<1> QED
  BY <1>1, BackfilledRow DEF Catalog!Restart

LEMMA RestartKeeps ==
    ASSUME CatalogInv, Catalog!Restart
    PROVE  CatalogInv'
<1>1. /\ ver' = [v \in Version |-> ver'[v]] /\ \A v \in Version : Refills(v, ver'[v])
      /\ UNCHANGED <<kind, task, wf, recorded, crossed>>
      /\ sess' = [s \in Session |-> Catalog!Idle]
  BY RestartRows
<1>2. /\ TablesInv /\ OnlineInv /\ UnfrozenInv /\ RecordedInv /\ HashInv /\ NoMonitors /\ Catalog!OneOnline /\ Catalog!OneMonitor
  BY DEF CatalogInv
<1>3. \A v \in Version : /\ ver'[v].snap \in Snaps /\ (Unfrozen(ver'[v]) => Unfrozen(ver[v]))
                         /\ NodesOK(ver'[v].snap)
  <2> SUFFICES ASSUME NEW v \in Version
               PROVE  ver'[v].snap \in Snaps /\ (Unfrozen(ver'[v]) => Unfrozen(ver[v])) /\ NodesOK(ver'[v].snap)
    OBVIOUS
  <2>1. ver[v].snap \in Snaps /\ Catalog!Fresh(task) \in Snaps /\ Catalog!Fresh(task) # Catalog!Bare
    BY <1>2, FreshNodes DEF Snaps, TablesInv
  <2>2. Refills(v, ver'[v])
    BY <1>1
  <2>3. ver'[v].snap \in Snaps /\ (Unfrozen(ver'[v]) => Unfrozen(ver[v]))
    BY <2>1, <2>2 DEF Refills, Unfrozen
  <2> QED
    BY <1>2, <2>3, SnapsFit
<1>4. TablesInv'
  <2>1. \A v \in Version : IsRow(ver'[v])
    BY <1>1 DEF Refills
  <2>2. IsTask(task)
    BY <1>2, DbFields
  <2>3. IsDb(Catalog!Db')
    BY <1>1, <2>1, <2>2, OtherTables DEF Catalog!Db
  <2>4. IsDb(Catalog!Db)'
    BY <2>3 DEF IsDb, IsTask, IsRow
  <2>5. \A v \in Version : NodesOK(ver[v].snap)'
    BY <1>3 DEF NodesOK, Catalog!Revision, Catalog!NoNodes, Catalog!Bare
  <2> QED
    BY <1>1, <1>2, <2>4, <2>5 DEF TablesInv, LiveFor
<1>5. OnlineInv' /\ NoMonitors'
  BY <1>1, <1>2 DEF OnlineInv, NoMonitors, Catalog!Online, Refills
<1>6. UnfrozenInv'
  BY <1>1, <1>2, <1>3 DEF UnfrozenInv, Unfrozen, Catalog!Bare
<1>7. RecordedInv'
  <2> SUFFICES ASSUME kind = "sm4", NEW v \in Version, NEW n, n = ver'[v].snap
               PROVE  Recorded(n)
    BY <1>1, <1>2 DEF RecordedInv, Recorded
  <2> QED
    BY <1>2, <1>3, SnapsFit
<1>8. HashInv'
  <2> SUFFICES ASSUME kind = "sql", Catalog!Undisturbed({"update"}), NEW v \in Version, ver'[v].channel = "prod"
               PROVE  ver'[v].rel = ver'[v].snap /\ ver'[v].hash = Catalog!Hash(ver'[v].snap)
    BY <1>1 DEF HashInv, Catalog!Hash, Catalog!Undisturbed
  <2>1. Refills(v, ver'[v])
    BY <1>1
  <2>2. ver[v].channel = "prod" /\ ver[v].snap # Catalog!Bare
    BY <1>2, <2>1 DEF Refills, UnfrozenInv, Unfrozen
  <2> QED
    BY <1>2, <2>1, <2>2 DEF Refills, HashInv
<1>9. Catalog!OneOnline'
  BY <1>1, <1>2 DEF Catalog!OneOnline, Catalog!Online, Catalog!Undisturbed, Refills
<1>10. Catalog!OneMonitor'
  BY <1>1, <1>2 DEF Catalog!OneMonitor, Catalog!Undisturbed, Refills
<1>11. SessInv'
  BY <1>1 DEF SessInv, Catalog!Idle
<1>12. RoomInv'
  <2>1. Catalog!Adding' = {}
    BY <1>1 DEF Catalog!Adding, Catalog!Idle, Catalog!Op
  <2>2. (Version \ Catalog!Used)' \subseteq Version
    OBVIOUS
  <2>3. Cardinality({}) = 0 /\ Cardinality((Version \ Catalog!Used)') \in Nat
    BY <2>2, FS_EmptySet, CardFacts
  <2> QED
    BY <2>1, <2>3 DEF RoomInv
<1> QED
  BY <1>4, <1>5, <1>6, <1>7, <1>8, <1>9, <1>10, <1>11, <1>12 DEF CatalogInv

-----------------------------------------------------------------------------
LEMMA FirstRows ==
    ASSUME Catalog!Init
    PROVE  /\ ver = [v \in Version |-> ver[v]]
           /\ \A v \in Version : \/ ver[v] = Catalog!NoRow
                                 \/ kind = "sql" /\ ver[v] \in {Catalog!Saved("dev"), Catalog!Saved("prod")}
                                 \/ kind = "sm4" /\ ver[v] = Catalog!Legacy
<1> DEFINE rows == CASE kind = "sql" -> <<Catalog!Saved("dev"), Catalog!Saved("prod")>>
                     [] kind = "sm4" -> <<Catalog!Legacy>>
                     [] kind = "trigger" -> <<>>
<1>1. ver = [v \in Version |-> IF v <= Len(rows) THEN rows[v] ELSE Catalog!NoRow]
  BY DEF Catalog!Init
<1>2. kind \in {"sql", "sm4", "trigger"}
  BY PlatformAssumption DEF Catalog!Init, Catalog!WorkflowCatalogAssumption
<1>3. Version \subseteq Nat \ {0}
  BY VersionFacts
<1>4. CASE kind = "sql"
  <2>1. rows = <<Catalog!Saved("dev"), Catalog!Saved("prod")>>
    BY <1>4
  <2> HIDE DEF rows
  <2>2. Len(rows) = 2 /\ rows[1] = Catalog!Saved("dev") /\ rows[2] = Catalog!Saved("prod")
    BY <2>1
  <2>3. \A v \in Nat \ {0} : v <= 2 => v \in {1, 2}
    OBVIOUS
  <2>4. \A v \in Version : ver[v] = Catalog!NoRow \/ ver[v] \in {Catalog!Saved("dev"), Catalog!Saved("prod")}
    BY <1>1, <1>3, <2>2, <2>3
  <2> QED
    BY <1>1, <1>4, <2>4
<1>5. CASE kind = "sm4"
  <2>1. rows = <<Catalog!Legacy>>
    BY <1>5
  <2> HIDE DEF rows
  <2>2. Len(rows) = 1 /\ rows[1] = Catalog!Legacy
    BY <2>1
  <2>3. \A v \in Nat \ {0} : v <= 1 => v = 1
    OBVIOUS
  <2>4. \A v \in Version : ver[v] = Catalog!NoRow \/ ver[v] = Catalog!Legacy
    BY <1>1, <1>3, <2>2, <2>3
  <2> QED
    BY <1>1, <1>5, <2>4
<1>6. CASE kind = "trigger"
  <2>1. rows = <<>>
    BY <1>6
  <2> HIDE DEF rows
  <2>2. Len(rows) = 0
    BY <2>1
  <2>3. \A v \in Nat \ {0} : ~(v <= 0)
    OBVIOUS
  <2> QED
    BY <1>1, <1>3, <2>2, <2>3
<1> QED
  BY <1>2, <1>4, <1>5, <1>6

LEMMA SavedVersion ==
    ASSUME NEW channel \in {"dev", "prod"}
    PROVE  LET r == Catalog!Saved(channel)
           IN  /\ IsRow(r) /\ r.channel = channel /\ r.status \in {"draft", "submitted"} /\ r.mon = "none"
               /\ r.snap = Catalog!Fresh(task) /\ r.rel = r.snap /\ r.hash = Catalog!Hash(r.snap)
  BY DEF Catalog!Saved, Catalog!NewVersion, Catalog!NoRow, IsRow, Columns

LEMMA LegacyVersion ==
    /\ IsRow(Catalog!Legacy) /\ Catalog!Legacy.channel = "prod" /\ Catalog!Legacy.status = "online" /\ Catalog!Legacy.mon = "none" /\ Catalog!Legacy.wf = 1
    /\ Catalog!Legacy.snap = Catalog!Bare
  BY DEF Catalog!Legacy, Catalog!NewVersion, Catalog!NoRow, IsRow, Columns

LEMMA CatalogBegins == Catalog!Init => CatalogInv
<1> SUFFICES ASSUME Catalog!Init PROVE CatalogInv
  OBVIOUS
<1>1. /\ kind \in {"sql", "sm4", "trigger"} /\ crossed = {}
      /\ task = [live |-> "active", rev |-> 1, at |-> 0, config |-> [body |-> 1, ptr |-> Catalog!NoVersion, sys |-> 0]]
      /\ recorded = [r \in Catalog!Revision |-> IF r = 1 /\ kind = "sm4" THEN 1 ELSE 0]
      /\ sess = [s \in Session |-> Catalog!Idle]
  BY PlatformAssumption DEF Catalog!Init, Catalog!WorkflowCatalogAssumption
<1>2. /\ ver = [v \in Version |-> ver[v]]
      /\ \A v \in Version : \/ ver[v] = Catalog!NoRow
                            \/ kind = "sql" /\ ver[v] \in {Catalog!Saved("dev"), Catalog!Saved("prod")}
                            \/ kind = "sm4" /\ ver[v] = Catalog!Legacy
  BY FirstRows
<1>3. 1 \in Catalog!Revision /\ MaxEdits \in Nat /\ \A r \in Catalog!Revision : r \in Int /\ r >= 1
  BY PlatformAssumption DEF Catalog!Revision, Catalog!WorkflowCatalogAssumption
<1>4. /\ IsTask(task) /\ task.live = "active" /\ task.rev = 1 /\ task.config.body = 1 /\ task.config.ptr = Catalog!NoVersion
  BY <1>1 DEF IsTask
<1>5. NodesOK(Catalog!Fresh(task)) /\ Catalog!Fresh(task) # Catalog!Bare
  BY <1>3, <1>4, FreshNodes
<1>6. NodesOK(Catalog!Bare) /\ NodesOK(Catalog!NoNodes) /\ Catalog!Bare # Catalog!NoNodes /\ ~(Catalog!Bare.rev > 0) /\ ~(Catalog!NoNodes.rev > 0)
  BY DEF NodesOK, Catalog!Bare, Catalog!NoNodes
<1>7. \A v \in Version : /\ IsRow(ver[v]) /\ NodesOK(ver[v].snap) /\ ver[v].mon = "none"
                         /\ ver[v].status = "online" => ver[v].channel = "prod" /\ kind = "sm4"
                         /\ Unfrozen(ver[v]) => kind = "sm4"
                         /\ kind = "sm4" => ~(ver[v].snap.rev > 0)
                         /\ kind = "sql" /\ ver[v].channel = "prod" => ver[v].rel = ver[v].snap /\ ver[v].hash = Catalog!Hash(ver[v].snap)
  <2> SUFFICES ASSUME NEW v \in Version
               PROVE  /\ IsRow(ver[v]) /\ NodesOK(ver[v].snap) /\ ver[v].mon = "none"
                      /\ ver[v].status = "online" => ver[v].channel = "prod" /\ kind = "sm4"
                      /\ Unfrozen(ver[v]) => kind = "sm4"
                      /\ kind = "sm4" => ~(ver[v].snap.rev > 0)
                      /\ kind = "sql" /\ ver[v].channel = "prod" => ver[v].rel = ver[v].snap /\ ver[v].hash = Catalog!Hash(ver[v].snap)
    OBVIOUS
  <2>1. CASE ver[v] = Catalog!NoRow
    BY <1>6, <2>1, NoRowFields DEF Unfrozen
  <2>2. CASE kind = "sql" /\ ver[v] \in {Catalog!Saved("dev"), Catalog!Saved("prod")}
    BY <1>5, <2>2, SavedVersion DEF Unfrozen
  <2>3. CASE kind = "sm4" /\ ver[v] = Catalog!Legacy
    BY <1>6, <2>3, LegacyVersion
  <2> QED
    BY <1>2, <2>1, <2>2, <2>3
<1>8. TablesInv
  <2>1. IsDb(Catalog!Db)
    BY <1>2, <1>4, <1>7, OtherTables DEF Catalog!Db
  <2> QED
    BY <1>1, <1>3, <1>4, <1>7, <2>1 DEF TablesInv, LiveFor
<1>9. OnlineInv /\ UnfrozenInv /\ NoMonitors /\ HashInv
  BY <1>4, <1>7 DEF OnlineInv, Catalog!Online, UnfrozenInv, NoMonitors, HashInv
<1>10. RecordedInv
  BY <1>1, <1>3, <1>4, <1>7 DEF RecordedInv, Recorded
<1>11. Catalog!OneMonitor
  BY <1>7 DEF Catalog!OneMonitor
<1>12. Catalog!OneOnline
  <2> SUFFICES ASSUME NEW u \in Version, NEW v \in Version, Catalog!Online(u), Catalog!Online(v) PROVE u = v
    BY DEF Catalog!OneOnline
  <2>1. kind = "sm4"
    BY <1>7 DEF Catalog!Online
  <2>2. \A w \in Version : Catalog!Online(w) => w = 1
    <3> SUFFICES ASSUME NEW w \in Version, w # 1 PROVE ~Catalog!Online(w)
      OBVIOUS
    <3>1. Version \subseteq Nat \ {0} /\ \A x \in Nat \ {0} : x # 1 => ~(x <= 1)
      BY VersionFacts
    <3>2. Len(<<Catalog!Legacy>>) = 1
      OBVIOUS
    <3>3. ver[w] = IF w <= Len(<<Catalog!Legacy>>) THEN <<Catalog!Legacy>>[w] ELSE Catalog!NoRow
      BY <2>1 DEF Catalog!Init
    <3>4. ver[w] = Catalog!NoRow
      BY <3>1, <3>2, <3>3
    <3> QED
      BY <3>4, NoRowFields DEF Catalog!Online
  <2> QED
    BY <2>2
<1>13. SessInv
  BY <1>1 DEF SessInv, Catalog!Idle
<1>14. RoomInv
  <2>1. Catalog!Adding = {}
    BY <1>1 DEF Catalog!Adding, Catalog!Idle, Catalog!Op
  <2>2. Version \ Catalog!Used \subseteq Version
    OBVIOUS
  <2>3. Cardinality({}) = 0 /\ Cardinality(Version \ Catalog!Used) \in Nat
    BY <2>2, FS_EmptySet, CardFacts
  <2> QED
    BY <2>1, <2>3 DEF RoomInv
<1> QED
  BY <1>8, <1>9, <1>10, <1>11, <1>12, <1>13, <1>14 DEF CatalogInv

-----------------------------------------------------------------------------
LEMMA AsksOpen ==
    ASSUME CatalogInv, NEW s \in Session, Catalog!Serve(s)
    PROVE  Catalog!Commit(s) \/ Catalog!CommitFails(s) \/ Catalog!PublishRefused(s) \/ \E q : Opens(s, q)
  BY EditOpens, DeleteOpens, CreateOpens, UpdateOpens, CollectionOpens, SubmitOpens, PublishOpens, OfflineOpens,
     ArchiveOpens, CopyOpens, DeployOpens, EnableOpens, TestOpens DEF Catalog!Serve

LEMMA CatalogSteps == CatalogInv /\ [Catalog!Next]_(Catalog!vars) => CatalogInv'
<1> SUFFICES ASSUME CatalogInv, [Catalog!Next]_(Catalog!vars) PROVE CatalogInv'
  OBVIOUS
<1>1. CASE Catalog!Restart
  BY <1>1, RestartKeeps
<1>2. ASSUME NEW s \in Session, Catalog!Serve(s) PROVE CatalogInv'
  BY <1>2, AsksOpen, CommitKeeps, EndingKeeps, OpeningKeeps
<1>3. CASE UNCHANGED Catalog!vars
  <2>1. UNCHANGED <<kind, task, wf, ver, recorded, crossed>> /\ sess' = sess
    BY <1>3 DEF Catalog!vars
  <2>2. SessInv'
    BY <2>1, SessHeld, HeldStays DEF CatalogInv, SessInv, Held
  <2>3. RoomInv'
    <3>1. Catalog!Adding' = Catalog!Adding /\ Catalog!Used' = Catalog!Used
      BY <2>1 DEF Catalog!Adding, Catalog!Used
    <3> QED
      BY <3>1 DEF CatalogInv, RoomInv
  <2> QED
    BY <2>1, <2>2, <2>3, TablesStay DEF CatalogInv
<1> QED
  BY <1>1, <1>2, <1>3 DEF Catalog!Next

LEMMA CatalogStarts == CatalogInv => Catalog!OneStarts /\ Catalog!RevisionRecorded
<1>1. CatalogInv => Catalog!OneStarts
  BY DEF CatalogInv, Catalog!OneStarts
<1>2. CatalogInv => Catalog!RevisionRecorded
  BY DEF CatalogInv, RecordedInv, Recorded, Catalog!RevisionRecorded
<1> QED
  BY <1>1, <1>2

-----------------------------------------------------------------------------
(* What is online is frozen, and what was published is served. *)

LEMMA CommitEnds ==
    ASSUME CatalogInv, NEW s \in Session, Catalog!Commit(s)
    PROVE  /\ sess[s] # Catalog!Idle /\ sess[s].op # "between"
           /\ ~(sess[s].op = "submit" /\ sess[s].chain) => Catalog!Ends(s)
<1>1. sess[s].op \in Catalog!Op /\ Catalog!Idle.op = "idle"
  BY DEF Catalog!Commit, Catalog!Idle
<1>2. sess[s] # Catalog!Idle /\ sess[s].op # "between"
  BY <1>1 DEF Catalog!Op
<1>3. ~(sess[s].op = "submit" /\ sess[s].chain) => sess'[s] = Catalog!Idle
  BY CommitAfter
<1> QED
  BY <1>2, <1>3 DEF Catalog!Ends

LEMMA CommitFreezes ==
    ASSUME CatalogInv, NEW s \in Session, Catalog!Commit(s), NEW v \in Version, Catalog!Online(v), Catalog!Runs(v)' # Catalog!Runs(v)
    PROVE  Catalog!Ends(s) /\ sess[s].op # "between" /\ Catalog!LateFor(sess[s], v)
<1> DEFINE q == sess[s]
<1>1. q.op \in Catalog!Op /\ kind' = kind
  BY DEF Catalog!Commit
<1>2. Fits(kind, q) /\ Since(q)
  BY <1>1, OpenRequest
<1>3. /\ q.add # Catalog!NoRow => Catalog!Slot \in Version \ Catalog!Used
      /\ \A u \in Version : ~(q.add # Catalog!NoRow /\ u = Catalog!Slot) => Becomes(q, u, ver'[u])
  BY CommitRows
<1>4. ver[v].channel = "prod"
  BY DEF CatalogInv, OnlineInv
<1>5. Becomes(q, v, ver'[v])
  BY <1>3, <1>4 DEF Catalog!Used
<1>6. /\ Catalog!Runs(v) = IF ver[v].snap = Catalog!Bare /\ kind = "sm4" THEN task.config.body ELSE ver[v].snap.body
      /\ Catalog!Runs(v)' = IF ver'[v].snap = Catalog!Bare /\ kind = "sm4" THEN task'.config.body ELSE ver'[v].snap.body
  BY <1>1 DEF Catalog!Runs, Catalog!Bare
<1>7. ver'[v].snap # ver[v].snap
  <2> SUFFICES ASSUME ver'[v].snap = ver[v].snap PROVE FALSE
    OBVIOUS
  <2>1. ver[v].snap = Catalog!Bare /\ kind = "sm4" /\ task'.config.body # task.config.body
    BY <1>6
  <2>2. q.op = "edit"
    BY <2>1, CommitRecords
  <2>3. Unfrozen(ver'[v])
    BY <1>4, <1>5, <2>1 DEF Becomes, Unfrozen
  <2> QED
    BY <1>5, <2>1, <2>2, <2>3 DEF Becomes
<1>8. ~(q.op = "submit" /\ q.chain)
  BY <1>5, <1>7 DEF Becomes
<1>9. Catalog!Ends(s) /\ q.op # "between"
  BY <1>8, CommitEnds
<1>10. CASE q.op = "update" /\ v = q.v /\ q.read.ver[v].status # "online"
  BY <1>9, <1>10 DEF Catalog!LateFor
<1>11. CASE /\ kind = "sm4" /\ q.op \in {"edit", "delete"} /\ q.read.ver[v].snap = Catalog!Bare
            /\ ver'[v].snap = Catalog!Fresh(q.read.task) /\ ver'[v].snap # Catalog!Bare
  <2>1. ver[v].snap # Catalog!Bare
    <3> SUFFICES ASSUME ver[v].snap = Catalog!Bare PROVE FALSE
      OBVIOUS
    <3>1. task.rev = 1 /\ recorded[task.rev] = task.config.body
      BY <1>4, <1>11 DEF CatalogInv, UnfrozenInv, Unfrozen, RecordedInv
    <3>2. q.read.task.rev \in 1 .. task.rev /\ recorded[q.read.task.rev] = q.read.task.config.body
      BY <1>2, <1>11 DEF Since
    <3>3. q.read.task.config.body = task.config.body
      BY <3>1, <3>2
    <3>4. Catalog!Fresh(q.read.task).body = q.read.task.config.body
      BY DEF Catalog!Fresh
    <3> QED
      BY <1>6, <1>11, <3>3, <3>4
  <2> QED
    BY <1>9, <1>11, <2>1 DEF Catalog!LateFor
<1> QED
  BY <1>5, <1>7, <1>10, <1>11 DEF Becomes

LEMMA CatalogFrozen == CatalogInv /\ [Catalog!Next]_(Catalog!vars) => Catalog!FrozenStep
<1> SUFFICES ASSUME CatalogInv, [Catalog!Next]_(Catalog!vars), NEW v \in Version, Catalog!Online(v), Catalog!Runs(v)' # Catalog!Runs(v)
             PROVE  \E s \in Session : Catalog!Ends(s) /\ sess[s].op # "between" /\ Catalog!LateFor(sess[s], v)
  BY DEF Catalog!FrozenStep
<1>1. ASSUME UNCHANGED <<kind, task, ver>> PROVE FALSE
  BY <1>1 DEF Catalog!Runs, Catalog!Bare
<1>2. CASE Catalog!Restart
  <2>1. Refills(v, ver'[v]) /\ kind' = kind /\ task' = task
    BY <1>2, RestartRows
  <2>2. CASE ver'[v].snap = ver[v].snap
    BY <2>1, <2>2 DEF Catalog!Runs, Catalog!Bare
  <2>3. CASE ver[v].snap = Catalog!Bare /\ ver'[v].snap = Catalog!Fresh(task)
    <3>1. kind = "sm4"
      BY <2>3 DEF CatalogInv, OnlineInv, UnfrozenInv, Unfrozen
    <3>2. Catalog!Fresh(task).body = task.config.body
      BY DEF Catalog!Fresh
    <3> QED
      BY <2>1, <2>3, <3>1, <3>2 DEF Catalog!Runs, Catalog!Bare
  <2> QED
    BY <2>1, <2>2, <2>3 DEF Refills
<1>3. ASSUME NEW s \in Session, Catalog!Serve(s)
      PROVE  \E t \in Session : Catalog!Ends(t) /\ sess[t].op # "between" /\ Catalog!LateFor(sess[t], v)
  <2>1. CASE Catalog!Commit(s)
    BY <2>1, CommitFreezes
  <2>2. CASE Catalog!CommitFails(s) \/ Catalog!PublishRefused(s) \/ \E q : Opens(s, q)
    BY <1>1, <2>2 DEF Catalog!CommitFails, Catalog!PublishRefused, Opens
  <2> QED
    BY <1>3, <2>1, <2>2, AsksOpen
<1>4. CASE UNCHANGED Catalog!vars
  BY <1>1, <1>4 DEF Catalog!vars
<1> QED
  BY <1>2, <1>3, <1>4 DEF Catalog!Next

Counted == restarts \in Nat

LEMMA CountedSteps == (Catalog!Init => Counted) /\ (Counted /\ [Catalog!Next]_(Catalog!vars) => Counted')
<1>1. Catalog!Init => Counted
  BY DEF Catalog!Init, Counted
<1>2. ASSUME Counted, [Catalog!Next]_(Catalog!vars) PROVE Counted'
  <2>1. CASE Catalog!Restart
    BY <1>2, <2>1 DEF Catalog!Restart, Counted
  <2>2. ASSUME NEW s \in Session, Catalog!Serve(s) PROVE restarts' = restarts
    BY <2>2 DEF Catalog!Serve, Catalog!EditTask, Catalog!DeleteTask, Catalog!CreateVersion, Catalog!UpdateVersion, Catalog!UpdateCollection, Catalog!SubmitVersion,
       Catalog!PublishCollection, Catalog!PublishVersion, Catalog!PublishSubmitted, Catalog!PublishRefused, Catalog!OfflineVersion, Catalog!ArchiveWorkflow,
       Catalog!CopyWorkflow, Catalog!DeployTrigger, Catalog!EnableTrigger, Catalog!TestTrigger, Catalog!Commit, Catalog!CommitFails, Catalog!Begin
  <2> QED
    BY <1>2, <2>1, <2>2 DEF Catalog!Next, Catalog!vars, Counted
<1> QED
  BY <1>1, <1>2

LEMMA CatalogServes == CatalogInv /\ Counted /\ [Catalog!Next]_(Catalog!vars) => Catalog!ServedStep
<1> SUFFICES ASSUME CatalogInv, Counted, [Catalog!Next]_(Catalog!vars), NEW s \in Session, sess[s].op = "publish", sess[s].chain, Catalog!Ends(s),
                    sess[s].want # Catalog!Void, restarts' = restarts, crossed' \cap {"submit", "publish", "update"} = {}
             PROVE  ver'[sess[s].v].status = "online" /\ Catalog!Hash(ver'[sess[s].v].snap) = sess[s].want
  BY DEF Catalog!ServedStep, Catalog!Void, Catalog!Hash, Catalog!NoRel
<1> DEFINE q == sess[s]
<1>1. Fits(kind, q) /\ Owing(q) /\ q.op \in Catalog!Op
  BY OpenRequest DEF Catalog!Op
<1>2. kind = "sql" /\ q.new.task = q.read.task /\ q.v \in Version
  BY <1>1 DEF Owing, Fits, PublishFits
<1>3. ASSUME sess'[s] = sess[s] PROVE FALSE
  BY <1>3 DEF Catalog!Ends
<1>4. sess = [t \in Session |-> sess[t]]
  BY DEF CatalogInv, SessInv
<1>5. ~Catalog!Restart
  <2>1. SUFFICES ASSUME Catalog!Restart PROVE FALSE
    OBVIOUS
  <2>2. restarts' = restarts + 1 /\ restarts < MaxRestarts
    BY <2>1 DEF Catalog!Restart
  <2> QED
    BY <2>2 DEF Counted
<1>6. ASSUME NEW t \in Session, Catalog!Serve(t)
      PROVE  t = s /\ Catalog!Commit(s)
  <2>1. CASE Catalog!Commit(t)
    <3>1. ASSUME t # s PROVE FALSE
      <4>1. sess'[s] \in {sess[s], [sess[s] EXCEPT !.want = Catalog!Void]}
        BY <2>1, <3>1, CommitAfter
      <4>2. [sess[s] EXCEPT !.want = Catalog!Void].op = "publish"
        BY <1>1, OwedLess
      <4> QED
        BY <1>3, <4>1, <4>2 DEF Catalog!Ends, Catalog!Idle
    <3> QED
      BY <2>1, <3>1
  <2>2. CASE Catalog!CommitFails(t) \/ Catalog!PublishRefused(t)
    <3>1. ~Catalog!CommitFails(s) /\ ~Catalog!PublishRefused(s)
      BY <1>1, <1>2 DEF Catalog!CommitFails, Catalog!PublishRefused, Catalog!Recordable, Catalog!Writable, Catalog!Op
    <3>2. t # s
      BY <2>2, <3>1
    <3> QED
      BY <1>3, <1>4, <2>2, <3>2 DEF Catalog!CommitFails, Catalog!PublishRefused
  <2>3. CASE \E p : Opens(t, p)
    <3>1. PICK p : Opens(t, p)
      BY <2>3
    <3>2. t # s
      BY <1>1, <3>1 DEF Opens, IsBetween, Catalog!Op, Catalog!Idle
    <3> QED
      BY <1>3, <1>4, <3>1, <3>2 DEF Opens
  <2> QED
    BY <1>6, <2>1, <2>2, <2>3, AsksOpen
<1>7. Catalog!Commit(s)
  <2>1. ~UNCHANGED Catalog!vars
    BY <1>3 DEF Catalog!vars
  <2> QED
    BY <1>5, <1>6, <2>1 DEF Catalog!Next
<1>8. Catalog!Undisturbed({"submit", "update"}) /\ q.read = Catalog!Db
  <2>1. Catalog!Undisturbed({"submit", "publish", "update"})'
    BY DEF Catalog!Undisturbed
  <2>2. Catalog!Undisturbed({"submit", "publish", "update"}) /\ q.read = Catalog!Db
    BY <1>7, <2>1, CommitCrossed
  <2> QED
    BY <2>2 DEF Catalog!Undisturbed
<1>9. Becomes(q, q.v, ver'[q.v])
  <2>1. /\ q.add # Catalog!NoRow => Catalog!Slot \in Version \ Catalog!Used
        /\ \A u \in Version : ~(q.add # Catalog!NoRow /\ u = Catalog!Slot) => Becomes(q, u, ver'[u])
    BY <1>7, CommitRows
  <2>2. q.v \in Catalog!Used
    BY <1>1 DEF Owing, Catalog!Used
  <2> QED
    BY <1>2, <2>1, <2>2
<1>10. ver'[q.v].status = "online"
  BY <1>1, <1>8, <1>9 DEF Becomes, Fits, PublishFits
<1>11. ver'[q.v].snap = ver[q.v].snap /\ Catalog!Hash(ver[q.v].snap) = q.want
  BY <1>1, <1>8, <1>9 DEF Becomes, Owing
<1> QED
  BY <1>10, <1>11

-----------------------------------------------------------------------------
(* Sm4Schedule.                                                            *)

RequestSlot == [op : Timed!Op, s : Schedule, read : Timed!Row, new : Timed!Row]
PassSlot == [at : {"read", "create"}, read : Timed!Rows, due : SUBSET Schedule, now : 1 .. MaxNow]
ScheduleTypes ==
    /\ row \in Timed!Rows /\ conn \subseteq Schedule
    /\ pass \in {Timed!Resting} \cup PassSlot
    /\ sess \in [Session -> {Timed!Idle} \cup RequestSlot]
    /\ now \in 1 .. MaxNow /\ started \in [Schedule -> Seq(1 .. MaxNow)]
    /\ crossed \in BOOLEAN

\* After every time a schedule was started at.
Later(t, s) == \A i \in 1 .. Len(started[s]) : started[s][i] < t
Increasing(q) == \A i \in 1 .. Len(q) - 1 : q[i] < q[i + 1]

\* What is enabled has a time to run at.
Fires(r) == r.enabled => ~r.archived /\ ~r.deleted /\ r.next # Timed!Unset

\* The time of a row lies after all it was started at, and after what the
\* scheduler is about to start; a request gives a schedule a time to come.
RowsAhead == \A s \in Schedule : row[s].next # Timed!Unset => Later(row[s].next, s)
PassAhead ==
    pass # Timed!Resting => \A s \in pass.due :
        /\ pass.read[s].next # Timed!Unset /\ pass.read[s].next <= pass.now
        /\ Later(pass.read[s].next, s)
        /\ pass.at = "read" => Fires(pass.read[s]) /\ pass.read[s].enabled /\ pass.now = now
        /\ pass.at = "create" => row[s].next = Timed!Unset \/ pass.read[s].next < row[s].next
PastStarts == \A s \in Schedule : Later(now + 1, s)
RequestsAhead ==
    \A r \in Session : sess[r] # Timed!Idle =>
        /\ sess[r].new.next \in {sess[r].read.next, Timed!Unset} \/ now < sess[r].new.next
        /\ Fires(sess[r].new)
PassNow == pass # Timed!Resting => pass.now <= now
AllFire == ~crossed => \A s \in Schedule : Fires(row[s])
Ordered == \A s \in Schedule : Increasing(started[s])

ScheduleInv ==
    /\ ScheduleTypes /\ RowsAhead /\ PassAhead /\ PastStarts /\ RequestsAhead /\ PassNow /\ AllFire
    /\ Ordered

-----------------------------------------------------------------------------
(* Rows and times. *)

LEMMA OddEven == \A n \in Nat : (n + 1) % 2 = 0 \/ (n + 2) % 2 = 0
  OBVIOUS

LEMMA NextTimeLater ==
    ASSUME NEW s \in Schedule, NEW n \in 1 .. MaxNow
    PROVE  Timed!NextTime(s, n) \in n + 1 .. n + 2
<1>1. \E t \in {n + 1, n + 2} : t % 2 = 0
  BY OddEven
<1>2. n \in Nat /\ MaxNow \in Nat
  BY PlatformAssumption DEF Timed!Sm4ScheduleAssumption
<1> DEFINE c == CHOOSE t \in {n + 1, n + 2} : t % 2 = 0
<1>3. c \in {n + 1, n + 2}
  BY <1>1
<1>4. Timed!NextTime(s, n) \in {c, n + 1}
  BY DEF Timed!NextTime
<1> HIDE DEF c
<1> QED
  BY <1>2, <1>3, <1>4

LEMMA MergedRow ==
    ASSUME NEW cur \in Timed!Row, NEW read \in Timed!Row, NEW new \in Timed!Row
    PROVE  /\ Timed!Merged(cur, read, new) \in Timed!Row
           /\ Timed!Merged(cur, read, new).next = IF new.next = read.next THEN cur.next ELSE new.next
           /\ cur = read => Timed!Merged(cur, read, new) = new
<1>1. /\ DOMAIN cur = {"enabled", "next", "archived", "deleted"}
      /\ DOMAIN new = {"enabled", "next", "archived", "deleted"}
  BY DEF Timed!Row
<1>2. Timed!Merged(cur, read, new) = [enabled |-> IF new.enabled = read.enabled THEN cur.enabled ELSE new.enabled,
          next |-> IF new.next = read.next THEN cur.next ELSE new.next,
          archived |-> IF new.archived = read.archived THEN cur.archived ELSE new.archived,
          deleted |-> IF new.deleted = read.deleted THEN cur.deleted ELSE new.deleted]
  BY <1>1 DEF Timed!Merged
<1>3. new = [enabled |-> new.enabled, next |-> new.next, archived |-> new.archived, deleted |-> new.deleted]
  BY DEF Timed!Row
<1> QED
  BY <1>2, <1>3 DEF Timed!Row

\* A row after its time was set anew, as the requests do it.
LEMMA RescheduledRow ==
    ASSUME NEW s \in Schedule, NEW r \in Timed!Row, now \in 1 .. MaxNow
    PROVE  /\ Timed!Rescheduled(s, r) \in Timed!Row
           /\ Timed!Rescheduled(s, r).next = Timed!Unset \/ now < Timed!Rescheduled(s, r).next
           /\ ~r.archived /\ ~r.deleted => Fires(Timed!Rescheduled(s, r))
<1>1. Timed!NextTime(s, now) \in now + 1 .. now + 2 /\ MaxNow \in Nat
  BY NextTimeLater, PlatformAssumption DEF Timed!Sm4ScheduleAssumption
<1>2. Timed!NextTime(s, now) \in Timed!Unset .. MaxNow + 2 /\ now < Timed!NextTime(s, now) /\ Timed!NextTime(s, now) # Timed!Unset
  BY <1>1 DEF Timed!Unset
<1> DEFINE t == Timed!NextTime(s, now)
           n == IF r.enabled THEN t ELSE Timed!Unset
<1>3. Timed!Unset \in Timed!Unset .. MaxNow + 2 /\ t \in Timed!Unset .. MaxNow + 2 /\ now < t /\ t # Timed!Unset
  BY <1>1, <1>2 DEF Timed!Unset
<1>4. Timed!Rescheduled(s, r) = [r EXCEPT !.next = n]
  BY DEF Timed!Rescheduled
<1> HIDE DEF t
<1>5. n \in Timed!Unset .. MaxNow + 2
  BY <1>3
<1>6. Timed!Rescheduled(s, r) \in Timed!Row /\ Timed!Rescheduled(s, r).next = n
  BY <1>4, <1>5 DEF Timed!Row
<1>7. /\ Timed!Rescheduled(s, r).enabled = r.enabled /\ Timed!Rescheduled(s, r).archived = r.archived
      /\ Timed!Rescheduled(s, r).deleted = r.deleted
  BY <1>4 DEF Timed!Row
<1> QED
  BY <1>3, <1>6, <1>7 DEF Fires

LEMMA StoppedRow ==
    ASSUME NEW r \in Timed!Row
    PROVE  /\ Timed!Stopped(r) \in Timed!Row /\ Timed!Stopped(r).next = Timed!Unset /\ ~Timed!Stopped(r).enabled
           /\ \A c \in {"archived", "deleted"}, b \in BOOLEAN :
                 LET n == [Timed!Stopped(r) EXCEPT ![c] = b]
                 IN  n \in Timed!Row /\ n.next = Timed!Unset /\ ~n.enabled
<1>1. Timed!Unset \in Timed!Unset .. MaxNow + 2
  BY PlatformAssumption DEF Timed!Sm4ScheduleAssumption, Timed!Unset
<1> QED
  BY <1>1 DEF Timed!Stopped, Timed!Row

LEMMA ElementsIn == \A S : \A q \in Seq(S) : \A i \in 1 .. Len(q) : q[i] \in S
  OBVIOUS

LEMMA LaterThanMore ==
    ASSUME ScheduleTypes, NEW s \in Schedule, NEW t \in Nat, NEW u \in Nat, Later(t, s), t <= u
    PROVE  Later(u, s)
<1>1. started[s] \in Seq(1 .. MaxNow)
  BY DEF ScheduleTypes
<1>2. \A i \in 1 .. Len(started[s]) : started[s][i] \in 1 .. MaxNow
  BY <1>1, ElementsIn
<1>3. \A i \in 1 .. Len(started[s]) : started[s][i] \in Int /\ started[s][i] < t
  BY <1>2 DEF Later
<1> QED
  BY <1>3 DEF Later

-----------------------------------------------------------------------------
(* The steps. *)

LEMMA ScheduleBegins == Timed!Init => ScheduleInv
<1> SUFFICES ASSUME Timed!Init PROVE ScheduleInv
  OBVIOUS
<1>1. MaxNow \in Nat \ {0} /\ now = 1
  BY PlatformAssumption DEF Timed!Sm4ScheduleAssumption, Timed!Init
<1>2. \A s \in Schedule : started[s] = <<>> /\ Len(started[s]) = 0
  BY DEF Timed!Init
<1>3. \A s \in Schedule, b \in BOOLEAN : Timed!Created(s, b) \in Timed!Row /\ Fires(Timed!Created(s, b))
  <2> SUFFICES ASSUME NEW s \in Schedule, NEW b \in BOOLEAN PROVE Timed!Created(s, b) \in Timed!Row /\ Fires(Timed!Created(s, b))
    OBVIOUS
  <2>1. Timed!NextTime(s, 1) \in Timed!Unset .. MaxNow + 2 /\ Timed!NextTime(s, 1) # Timed!Unset
    <3>1. Timed!NextTime(s, 1) \in 2 .. 3
      BY <1>1, NextTimeLater
    <3> QED
      BY <1>1, <3>1 DEF Timed!Unset
  <2> QED
    BY <1>1, <2>1 DEF Timed!Created, Timed!Row, Fires, Timed!Unset
<1>4. row \in Timed!Rows /\ \A s \in Schedule : Fires(row[s])
  <2>1. PICK enabled \in SUBSET Schedule : row = [s \in Schedule |-> Timed!Created(s, s \in enabled)]
    BY DEF Timed!Init
  <2>2. ASSUME NEW s \in Schedule PROVE Timed!Created(s, s \in enabled) \in Timed!Row /\ Fires(Timed!Created(s, s \in enabled))
    <3> DEFINE b == s \in enabled
    <3>1. b \in BOOLEAN
      OBVIOUS
    <3> HIDE DEF b
    <3>2. Timed!Created(s, b) \in Timed!Row /\ Fires(Timed!Created(s, b))
      BY <3>1, <1>3
    <3> QED
      BY <3>2 DEF b
  <2> QED
    BY <2>1, <2>2 DEF Timed!Rows
<1>5. ScheduleTypes
  <2>1. started \in [Schedule -> Seq(1 .. MaxNow)]
    BY DEF Timed!Init
  <2>2. conn \subseteq Schedule /\ pass = Timed!Resting /\ sess \in [Session -> {Timed!Idle}] /\ crossed = FALSE
    BY DEF Timed!Init
  <2>3. now \in 1 .. MaxNow
    BY <1>1
  <2> QED
    BY <1>4, <2>1, <2>2, <2>3 DEF ScheduleTypes
<1> QED
  BY <1>1, <1>2, <1>4, <1>5 DEF Timed!Init, ScheduleInv, RowsAhead, PassAhead, PastStarts, RequestsAhead, PassNow, AllFire,
     Ordered, Later, Increasing

LEMMA StepBegin ==
    ASSUME ScheduleInv, NEW r \in Session, NEW s \in Schedule, NEW op \in Timed!Op, NEW new \in Timed!Row,
           Timed!Begin(r, op, s, new), new.next = Timed!Unset \/ now < new.next \/ new.next = row[s].next, Fires(new)
    PROVE  ScheduleInv'
<1> DEFINE q == [op |-> op, s |-> s, read |-> row[s], new |-> new]
<1>1. q \in RequestSlot /\ row[s] \in Timed!Row
  BY DEF ScheduleInv, ScheduleTypes, Timed!Rows, RequestSlot
<1>2. \A x \in Session : sess'[x] = IF x = r THEN q ELSE sess[x]
  BY DEF Timed!Begin, ScheduleInv, ScheduleTypes
<1>3. ScheduleTypes'
  BY <1>1 DEF Timed!Begin, ScheduleInv, ScheduleTypes
<1>4. RequestsAhead'
  BY <1>2 DEF Timed!Begin, ScheduleInv, RequestsAhead
<1> QED
  BY <1>3, <1>4 DEF Timed!Begin, ScheduleInv, RowsAhead, PassAhead, PastStarts, PassNow, AllFire, Ordered, Later

LEMMA StepRequest ==
    ASSUME ScheduleInv, NEW r \in Session, NEW s \in Schedule,
           \/ Timed!StopSchedule(r, s) \/ Timed!ResumeSchedule(r, s) \/ Timed!ArchiveSchedule(r, s)
           \/ Timed!RestoreSchedule(r, s) \/ Timed!DeleteSchedule(r, s) \/ Timed!UpdateSchedule(r, s)
           \/ Timed!RunScheduleNow(r, s)
    PROVE  ScheduleInv'
<1>1. row[s] \in Timed!Row /\ now \in 1 .. MaxNow
  BY DEF ScheduleInv, ScheduleTypes, Timed!Rows
<1>2. /\ Timed!Stopped(row[s]) \in Timed!Row /\ Timed!Stopped(row[s]).next = Timed!Unset /\ Fires(Timed!Stopped(row[s]))
      /\ \A c \in {"archived", "deleted"}, b \in BOOLEAN :
             LET n == [Timed!Stopped(row[s]) EXCEPT ![c] = b]
             IN  n \in Timed!Row /\ n.next = Timed!Unset /\ Fires(n)
  BY <1>1, StoppedRow DEF Fires
<1>3. CASE Timed!StopSchedule(r, s)
  BY <1>2, <1>3, StepBegin DEF Timed!StopSchedule, Timed!Op
<1>4. CASE Timed!ArchiveSchedule(r, s)
  <2>1. [Timed!Stopped(row[s]) EXCEPT !.archived = TRUE] = [Timed!Stopped(row[s]) EXCEPT !["archived"] = TRUE]
    OBVIOUS
  <2> QED
    BY <1>2, <1>4, <2>1, StepBegin DEF Timed!ArchiveSchedule, Timed!Op
<1>5. CASE Timed!RestoreSchedule(r, s)
  BY <1>2, <1>5, StepBegin DEF Timed!RestoreSchedule, Timed!Op
<1>6. CASE Timed!DeleteSchedule(r, s)
  BY <1>2, <1>6, StepBegin DEF Timed!DeleteSchedule, Timed!Op
<1>7. ASSUME NEW b \in BOOLEAN, Timed!Usable(s)
      PROVE  LET n == Timed!Rescheduled(s, [row[s] EXCEPT !.enabled = b])
             IN  n \in Timed!Row /\ (n.next = Timed!Unset \/ now < n.next) /\ Fires(n)
  <2>1. [row[s] EXCEPT !.enabled = b] \in Timed!Row
    BY <1>1 DEF Timed!Row
  <2>2. ~[row[s] EXCEPT !.enabled = b].archived /\ ~[row[s] EXCEPT !.enabled = b].deleted
    BY <1>1, <1>7 DEF Timed!Usable, Timed!Row
  <2> QED
    BY <1>1, <2>1, <2>2, RescheduledRow
<1>8. CASE Timed!ResumeSchedule(r, s)
  BY <1>7, <1>8, StepBegin DEF Timed!ResumeSchedule, Timed!Op
<1>9. CASE Timed!UpdateSchedule(r, s)
  BY <1>7, <1>9, StepBegin DEF Timed!UpdateSchedule, Timed!Op
<1>10. CASE Timed!RunScheduleNow(r, s)
  BY <1>1, <1>10, RescheduledRow, StepBegin DEF Timed!RunScheduleNow, Timed!Usable, Timed!Op
<1> QED
  BY <1>3, <1>4, <1>5, <1>6, <1>8, <1>9, <1>10
LEMMA StepCommit ==
    ASSUME ScheduleInv, NEW r \in Session, Timed!Commit(r)
    PROVE  ScheduleInv'
<1> DEFINE q == sess[r]
           m == Timed!Merged(row[q.s], q.read, q.new)
<1>1. q \in RequestSlot /\ q # Timed!Idle /\ q.s \in Schedule /\ q.read \in Timed!Row /\ q.new \in Timed!Row
  BY DEF Timed!Commit, ScheduleInv, ScheduleTypes, RequestSlot
<1>2. row \in Timed!Rows /\ row[q.s] \in Timed!Row /\ now \in 1 .. MaxNow /\ MaxNow \in Nat
  BY <1>1, PlatformAssumption DEF ScheduleInv, ScheduleTypes, Timed!Rows, Timed!Sm4ScheduleAssumption
<1>3. /\ m \in Timed!Row /\ m.next \in {row[q.s].next, q.new.next} /\ (row[q.s] = q.read => m = q.new)
      /\ m.next = row[q.s].next \/ m.next = Timed!Unset \/ now < m.next
  <2>1. q.new.next \in {q.read.next, Timed!Unset} \/ now < q.new.next
    BY <1>1 DEF ScheduleInv, RequestsAhead
  <2> QED
    BY <1>1, <1>2, <2>1, MergedRow
<1>4. /\ row' = [row EXCEPT ![q.s] = m] /\ sess' = [sess EXCEPT ![r] = Timed!Idle]
      /\ crossed' = (crossed \/ (q.new # q.read /\ row[q.s] # q.read))
      /\ UNCHANGED <<conn, pass, now, started, requests, failures>>
  BY DEF Timed!Commit
<1>5. q.new = q.read => m = row[q.s]
  <2>1. ASSUME q.new = q.read PROVE m = row[q.s]
    <3>1. \A c \in DOMAIN row[q.s] : m[c] = row[q.s][c]
      BY <2>1 DEF Timed!Merged
    <3>2. row[q.s] = [c \in DOMAIN row[q.s] |-> row[q.s][c]]
      BY <1>2 DEF Timed!Row
    <3> QED
      BY <2>1, <3>2 DEF Timed!Merged
  <2> QED
    BY <2>1
<1>6. \A s \in Schedule : row'[s] = IF s = q.s THEN m ELSE row[s]
  BY <1>1, <1>2, <1>4 DEF Timed!Rows
<1>7. q.s \in Schedule /\ Fires(q.new)
  BY <1>1 DEF ScheduleInv, RequestsAhead
<1> HIDE DEF m
<1>8. ScheduleTypes'
  <2>1. row' \in Timed!Rows
    BY <1>2, <1>3, <1>4 DEF Timed!Rows
  <2>2. sess' \in [Session -> {Timed!Idle} \cup RequestSlot]
    BY <1>4 DEF ScheduleInv, ScheduleTypes
  <2>3. crossed' \in BOOLEAN
    BY <1>4 DEF ScheduleInv, ScheduleTypes
  <2> QED
    BY <1>4, <2>1, <2>2, <2>3 DEF ScheduleInv, ScheduleTypes
<1>9. m.next \in Nat /\ now + 1 \in Nat
  BY <1>2, <1>3 DEF Timed!Row, Timed!Unset
<1>10. RowsAhead'
  <2> SUFFICES ASSUME NEW s \in Schedule, row'[s].next # Timed!Unset PROVE Later(row'[s].next, s)
    BY <1>4 DEF RowsAhead, Later
  <2>1. CASE s = q.s /\ now < m.next
    <3>1. Later(now + 1, s) /\ now + 1 <= m.next
      BY <1>2, <1>9, <2>1 DEF ScheduleInv, PastStarts
    <3> QED
      BY <1>6, <1>9, <2>1, <3>1, LaterThanMore DEF ScheduleInv
  <2> QED
    BY <1>3, <1>6, <2>1 DEF ScheduleInv, RowsAhead
<1>11. PassAhead'
  <2> SUFFICES ASSUME pass # Timed!Resting, NEW s \in pass.due, pass.at = "create"
               PROVE  row'[s].next = Timed!Unset \/ pass.read[s].next < row'[s].next
    BY <1>4 DEF ScheduleInv, PassAhead, Later
  <2>1. /\ s \in Schedule /\ pass \in PassSlot /\ pass.read[s] \in Timed!Row /\ pass.now \in 1 .. MaxNow
    BY DEF ScheduleInv, ScheduleTypes, PassSlot, Timed!Rows
  <2>2. /\ pass.read[s].next <= pass.now /\ pass.now <= now
        /\ row[s].next = Timed!Unset \/ pass.read[s].next < row[s].next
    BY DEF ScheduleInv, PassAhead, PassNow
  <2>3. pass.read[s].next \in Nat /\ pass.now \in Nat /\ now \in Nat
    BY <1>2, <2>1 DEF Timed!Row, Timed!Unset
  <2>4. now < m.next => pass.read[s].next < m.next
    BY <1>9, <2>2, <2>3
  <2> QED
    BY <1>3, <1>6, <2>1, <2>2, <2>4
<1>12. RequestsAhead'
  BY <1>1, <1>4 DEF ScheduleInv, ScheduleTypes, RequestsAhead
<1>13. AllFire'
  <2> SUFFICES ASSUME ~crossed', NEW s \in Schedule PROVE Fires(row'[s])
    BY DEF AllFire
  <2>1. ~crossed /\ (q.new = q.read \/ row[q.s] = q.read)
    BY <1>4 DEF ScheduleInv, ScheduleTypes
  <2>2. m = row[q.s] \/ m = q.new
    BY <1>3, <1>5, <2>1
  <2> QED
    BY <1>6, <1>7, <2>1, <2>2 DEF ScheduleInv, AllFire
<1>14. PastStarts' /\ PassNow' /\ Ordered'
  BY <1>4 DEF ScheduleInv, PastStarts, PassNow, Ordered, Later
<1> QED
  BY <1>8, <1>10, <1>11, <1>12, <1>13, <1>14 DEF ScheduleInv

LEMMA StepRead ==
    ASSUME ScheduleInv, Timed!ReadDue
    PROVE  ScheduleInv'
<1> DEFINE due == {s \in Schedule : Timed!IsDue(s)}
           p == [at |-> "read", read |-> row, due |-> due, now |-> now]
<1>1. p \in PassSlot /\ pass' = p /\ p # Timed!Resting
  BY DEF Timed!ReadDue, ScheduleInv, ScheduleTypes, PassSlot, Timed!Resting
<1>2. /\ p.at = "read" /\ p.read = row /\ p.due = due /\ p.now = now
      /\ UNCHANGED <<row, conn, sess, now, started, crossed, requests, failures>>
  BY DEF Timed!ReadDue
<1>3. \A s \in due : /\ s \in Schedule /\ row[s].enabled /\ row[s].next # Timed!Unset /\ row[s].next <= now
                     /\ Fires(row[s]) /\ Later(row[s].next, s)
  BY DEF Timed!IsDue, Timed!Usable, Fires, ScheduleInv, RowsAhead
<1> HIDE DEF p, due
<1>4. ScheduleTypes'
  BY <1>1, <1>2 DEF ScheduleInv, ScheduleTypes
<1>5. PassAhead'
  BY <1>1, <1>2, <1>3 DEF PassAhead, Later
<1>6. PassNow'
  BY <1>1, <1>2 DEF PassNow, ScheduleInv, ScheduleTypes
<1> QED
  BY <1>2, <1>4, <1>5, <1>6 DEF ScheduleInv, RowsAhead, PastStarts, RequestsAhead, AllFire, Ordered, Later

LEMMA StepAdvance ==
    ASSUME ScheduleInv, Timed!Advance
    PROVE  ScheduleInv'
<1>1. pass \in PassSlot /\ pass # Timed!Resting /\ pass.at = "read" /\ now \in 1 .. MaxNow /\ MaxNow \in Nat
  <2>1. Timed!Resting.at # "read"
    BY DEF Timed!Resting
  <2> QED
    BY <2>1, PlatformAssumption DEF Timed!Advance, ScheduleInv, ScheduleTypes, Timed!Sm4ScheduleAssumption
<1>2. /\ pass.due \subseteq Schedule /\ pass.read \in Timed!Rows
      /\ \A s \in pass.due : /\ pass.now = now /\ pass.read[s].next # Timed!Unset /\ pass.read[s].next <= now
                             /\ Fires(pass.read[s]) /\ pass.read[s].enabled /\ Later(pass.read[s].next, s)
  BY <1>1 DEF ScheduleInv, PassAhead, PassSlot
<1>3. /\ row' = [s \in Schedule |-> IF s \in pass.due THEN Timed!Merged(row[s], pass.read[s], Timed!Advanced(s)) ELSE row[s]]
      /\ crossed' = (crossed \/ \E s \in pass.due : row[s] # pass.read[s])
      /\ pass' = [pass EXCEPT !.at = "create", !.due = @ \cap conn]
      /\ UNCHANGED <<conn, sess, now, started, requests, failures>>
  BY DEF Timed!Advance
<1>4. \A s \in pass.due : /\ Timed!Advanced(s) \in Timed!Row /\ now < Timed!Advanced(s).next /\ Timed!Advanced(s).next # pass.read[s].next
                          /\ Fires(Timed!Advanced(s))
  <2> SUFFICES ASSUME NEW s \in pass.due
               PROVE  /\ Timed!Advanced(s) \in Timed!Row /\ now < Timed!Advanced(s).next /\ Timed!Advanced(s).next # pass.read[s].next
                      /\ Fires(Timed!Advanced(s))
    OBVIOUS
  <2> DEFINE t == Timed!NextTime(s, pass.now)
             r == pass.read[s]
  <2>1. t \in Timed!Unset .. MaxNow + 2 /\ now < t /\ t # Timed!Unset
    <3>1. t \in now + 1 .. now + 2
      BY <1>1, <1>2, NextTimeLater
    <3> HIDE DEF t
    <3> QED
      BY <1>1, <3>1 DEF Timed!Unset
  <2>2. r \in Timed!Row /\ r.next <= now /\ Fires(r) /\ r.next \in Nat
    BY <1>2 DEF Timed!Rows, Timed!Row, Timed!Unset
  <2>3. Timed!Advanced(s) = [r EXCEPT !.next = t]
    BY DEF Timed!Advanced
  <2> HIDE DEF t, r
  <2>4. /\ Timed!Advanced(s) \in Timed!Row /\ Timed!Advanced(s).next = t /\ Timed!Advanced(s).archived = r.archived
        /\ Timed!Advanced(s).deleted = r.deleted /\ Timed!Advanced(s).enabled = r.enabled
    BY <2>1, <2>2, <2>3 DEF Timed!Row
  <2>5. t # r.next
    BY <1>1, <2>1, <2>2
  <2> QED
    BY <2>1, <2>2, <2>4, <2>5 DEF Fires, r
<1>5. \A s \in pass.due : /\ row'[s] \in Timed!Row /\ row'[s].next = Timed!Advanced(s).next
                          /\ row[s] = pass.read[s] => row'[s] = Timed!Advanced(s)
  BY SMTT(60), <1>2, <1>3, <1>4, MergedRow DEF ScheduleInv, ScheduleTypes, Timed!Rows
<1>6. \A s \in Schedule \ pass.due : row'[s] = row[s]
  BY <1>3
<1>7. /\ pass'.at = "create" /\ pass'.due = pass.due \cap conn /\ pass'.read = pass.read /\ pass'.now = pass.now
      /\ pass' \in PassSlot
  BY <1>1, <1>3 DEF PassSlot
<1>8. ScheduleTypes'
  <2>1. row' \in Timed!Rows
    <3>1. row' = [s \in Schedule |-> row'[s]]
      BY <1>3
    <3>2. \A s \in Schedule : row'[s] \in Timed!Row
      BY <1>5, <1>6 DEF ScheduleInv, ScheduleTypes, Timed!Rows
    <3> QED
      BY <3>1, <3>2 DEF Timed!Rows
  <2>2. crossed' \in BOOLEAN
    BY <1>3
  <2> QED
    BY <1>3, <1>7, <2>1, <2>2 DEF ScheduleInv, ScheduleTypes
<1>9. RowsAhead'
  <2> SUFFICES ASSUME NEW s \in Schedule, row'[s].next # Timed!Unset PROVE Later(row'[s].next, s)
    BY <1>3 DEF RowsAhead, Later
  <2>1. CASE s \in pass.due
    <3>1. Later(now + 1, s)
      BY DEF ScheduleInv, PastStarts
    <3>2. row'[s].next \in Nat /\ now + 1 <= row'[s].next /\ now + 1 \in Nat
      <4>1. row'[s] \in Timed!Row /\ now < row'[s].next
        BY <1>4, <1>5, <2>1
      <4>2. row'[s].next \in Nat
        BY <4>1 DEF Timed!Row, Timed!Unset
      <4> QED
        BY <1>1, <4>1, <4>2
    <3> QED
      BY <3>1, <3>2, LaterThanMore DEF ScheduleInv
  <2>2. CASE s \notin pass.due
    BY <1>6, <2>2 DEF ScheduleInv, RowsAhead
  <2> QED
    BY <2>1, <2>2
<1>10. PassAhead'
  <2> SUFFICES ASSUME NEW s \in pass.due
               PROVE  pass.read[s].next < row'[s].next
    BY <1>1, <1>2, <1>3, <1>7 DEF PassAhead, Later
  <2>1. /\ pass.read[s].next \in Nat /\ row'[s].next \in Nat /\ now \in Nat
        /\ pass.read[s].next <= now /\ now < row'[s].next
    <3>1. row'[s] \in Timed!Row /\ now < row'[s].next /\ s \in Schedule /\ pass.read[s] \in Timed!Row /\ pass.read[s].next <= now
      BY <1>2, <1>4, <1>5 DEF Timed!Rows
    <3> QED
      BY <1>1, <3>1 DEF Timed!Row, Timed!Unset
  <2> QED
    BY <2>1
<1>11. AllFire'
  <2> SUFFICES ASSUME ~crossed', NEW s \in Schedule PROVE Fires(row'[s])
    BY DEF AllFire
  <2>1. ~crossed /\ \A z \in pass.due : row[z] = pass.read[z]
    BY <1>3 DEF ScheduleInv, ScheduleTypes
  <2>2. CASE s \in pass.due
    BY <1>4, <1>5, <2>1, <2>2
  <2>3. CASE s \notin pass.due
    BY <1>6, <2>1, <2>3 DEF ScheduleInv, AllFire
  <2> QED
    BY <2>2, <2>3
<1>12. PassNow'
  BY <1>1, <1>3, <1>7 DEF ScheduleInv, PassNow
<1>13. PastStarts' /\ Ordered' /\ RequestsAhead'
  BY <1>3 DEF ScheduleInv, PastStarts, RequestsAhead, Ordered, Later
<1> QED
  BY <1>8, <1>9, <1>10, <1>11, <1>12, <1>13 DEF ScheduleInv
LEMMA StepCreate ==
    ASSUME ScheduleInv, NEW s \in Schedule, Timed!CreateBatch(s)
    PROVE  ScheduleInv'
<1> DEFINE t == pass.read[s].next
           q == started[s]
<1>1. pass \in PassSlot /\ pass # Timed!Resting /\ pass.at = "create" /\ now \in 1 .. MaxNow /\ MaxNow \in Nat
  <2>1. Timed!Resting.at # "create"
    BY DEF Timed!Resting
  <2> QED
    BY <2>1, PlatformAssumption DEF Timed!CreateBatch, ScheduleInv, ScheduleTypes, Timed!Sm4ScheduleAssumption
<1>2. /\ s \in pass.due /\ t # Timed!Unset /\ t <= pass.now /\ Later(t, s) /\ pass.now <= now
      /\ row[s].next = Timed!Unset \/ t < row[s].next
  BY <1>1 DEF Timed!CreateBatch, ScheduleInv, PassAhead, PassNow
<1>3. t \in 1 .. MaxNow /\ t \in Nat /\ t < now + 1 /\ now + 1 \in Nat
  <2>1. pass.read[s] \in Timed!Row /\ pass.now \in 1 .. MaxNow
    BY <1>1 DEF PassSlot, Timed!Rows
  <2> QED
    BY <1>1, <1>2, <2>1 DEF Timed!Row, Timed!Unset
<1>4. /\ started' = [started EXCEPT ![s] = Append(q, t)] /\ pass' = [pass EXCEPT !.due = @ \ {s}]
      /\ UNCHANGED <<row, conn, sess, now, crossed, requests, failures>>
  BY DEF Timed!CreateBatch
<1>5. pass' \in PassSlot /\ pass'.at = "create" /\ pass'.read = pass.read /\ pass'.now = pass.now
      /\ pass'.due = pass.due \ {s}
  BY <1>1, <1>4 DEF PassSlot
<1>6. q \in Seq(1 .. MaxNow) /\ started \in [Schedule -> Seq(1 .. MaxNow)]
  BY DEF ScheduleInv, ScheduleTypes
<1> HIDE DEF q, t
<1>7. /\ \A z \in Schedule : started'[z] = IF z = s THEN Append(q, t) ELSE started[z]
      /\ Append(q, t) \in Seq(1 .. MaxNow)
  BY <1>3, <1>4, <1>6 DEF q
<1>8. \A u \in Nat : Later(u, s) /\ t < u => Later(u, s)'
  <2> SUFFICES ASSUME NEW u \in Nat, Later(u, s), t < u, NEW i \in 1 .. Len(Append(q, t))
               PROVE  Append(q, t)[i] < u
    BY <1>7 DEF Later
  <2> QED
    BY <1>3, <1>6 DEF Later, q
<1>9. \A z \in Schedule \ {s}, u \in Nat : Later(u, z) => Later(u, z)'
  BY <1>7 DEF Later
<1>10. ScheduleTypes'
  BY <1>4, <1>5, <1>6, <1>7 DEF ScheduleInv, ScheduleTypes
<1>11. RowsAhead'
  <2> SUFFICES ASSUME NEW z \in Schedule, row[z].next # Timed!Unset PROVE Later(row[z].next, z)'
    BY <1>4 DEF RowsAhead
  <2>1. row[z].next \in Nat /\ Later(row[z].next, z) /\ UNCHANGED row
    BY <1>4 DEF ScheduleInv, ScheduleTypes, RowsAhead, Timed!Rows, Timed!Row, Timed!Unset
  <2>2. Later(row[z].next, z)' <=> \A i \in 1 .. Len(started'[z]) : started'[z][i] < row[z].next
    BY <2>1 DEF Later
  <2> QED
    BY <1>2, <1>7, <1>8, <1>9, <2>1, <2>2 DEF Later
<1>12. PassAhead'
  <2> SUFFICES ASSUME NEW z \in pass.due \ {s}
               PROVE  /\ pass.read[z].next # Timed!Unset /\ pass.read[z].next <= pass.now /\ Later(pass.read[z].next, z)'
                      /\ row[z].next = Timed!Unset \/ pass.read[z].next < row[z].next
    BY <1>4, <1>5 DEF PassAhead, Later
  <2>1. /\ pass.read[z].next # Timed!Unset /\ pass.read[z].next <= pass.now /\ Later(pass.read[z].next, z)
        /\ row[z].next = Timed!Unset \/ pass.read[z].next < row[z].next
    BY <1>1 DEF ScheduleInv, PassAhead
  <2>2. z \in Schedule \ {s} /\ started'[z] = started[z] /\ pass'.read = pass.read
    BY <1>1, <1>5, <1>7 DEF PassSlot
  <2> QED
    BY <2>1, <2>2, <1>5 DEF Later
<1>13. PastStarts'
  <2> SUFFICES ASSUME NEW z \in Schedule PROVE Later(now + 1, z)'
    BY <1>4 DEF PastStarts
  <2>1. Later(now + 1, z)
    BY DEF ScheduleInv, PastStarts
  <2> QED
    BY <1>3, <1>4, <1>8, <1>9, <2>1 DEF Later
<1>14. Ordered'
  <2>1. Increasing(Append(q, t))
    <3> SUFFICES ASSUME NEW i \in 1 .. Len(q) PROVE Append(q, t)[i] < Append(q, t)[i + 1]
      BY <1>3, <1>6 DEF Increasing
    <3>1. CASE i = Len(q)
      BY <1>2, <1>3, <1>6, <3>1 DEF Later, q
    <3>2. CASE i # Len(q)
      <4>1. Increasing(q) /\ i \in 1 .. Len(q) - 1
        BY <1>6, <3>2 DEF ScheduleInv, Ordered, q
      <4> QED
        BY <1>3, <1>6, <4>1 DEF Increasing
    <3> QED
      BY <3>1, <3>2
  <2> QED
    BY <1>7, <2>1 DEF ScheduleInv, Ordered
<1>15. RequestsAhead' /\ PassNow' /\ AllFire'
  <2>1. PassNow'
    BY <1>2, <1>4, <1>5 DEF PassNow
  <2>2. RequestsAhead'
    BY <1>4 DEF ScheduleInv, RequestsAhead
  <2>3. AllFire'
    BY <1>4 DEF ScheduleInv, AllFire
  <2> QED
    BY <2>1, <2>2, <2>3
<1> QED
  BY <1>10, <1>11, <1>12, <1>13, <1>14, <1>15 DEF ScheduleInv

LEMMA StepTick ==
    ASSUME ScheduleInv, Timed!Tick
    PROVE  ScheduleInv'
<1>1. /\ pass.at # "read" /\ \A r \in Session : sess[r] = Timed!Idle
      /\ now \in Nat /\ now' = now + 1 /\ now' \in 1 .. MaxNow /\ MaxNow \in Nat
      /\ UNCHANGED <<row, conn, pass, sess, started, crossed, requests, failures>>
  BY PlatformAssumption DEF Timed!Tick, ScheduleInv, ScheduleTypes, Timed!Sm4ScheduleAssumption
<1>2. ScheduleTypes'
  BY <1>1 DEF ScheduleInv, ScheduleTypes
<1>3. PastStarts'
  <2> SUFFICES ASSUME NEW s \in Schedule PROVE Later(now' + 1, s)
    BY <1>1 DEF PastStarts, Later
  <2>1. Later(now + 1, s) /\ now + 1 \in Nat /\ now' + 1 \in Nat /\ now + 1 <= now' + 1
    BY <1>1 DEF ScheduleInv, PastStarts
  <2> QED
    BY <2>1, LaterThanMore DEF ScheduleInv
<1>4. PassNow'
  <2>1. pass # Timed!Resting => pass.now \in Nat
    BY DEF ScheduleInv, ScheduleTypes, PassSlot
  <2> QED
    BY <1>1, <2>1 DEF ScheduleInv, PassNow
<1>5. RowsAhead' /\ PassAhead' /\ RequestsAhead' /\ AllFire' /\ Ordered'
  BY <1>1 DEF ScheduleInv, RowsAhead, PassAhead, RequestsAhead, AllFire, Ordered, Later
<1> QED
  BY <1>2, <1>3, <1>4, <1>5 DEF ScheduleInv

LEMMA StepOther ==
    ASSUME ScheduleInv,
           \/ \E s \in Schedule : Timed!DropConnection(s)
           \/ Timed!Restart \/ Timed!BatchRefused \/ Timed!EndPass \/ UNCHANGED Timed!vars
    PROVE  ScheduleInv'
<1>1. /\ UNCHANGED <<row, now, started, crossed>> /\ conn' \subseteq conn
      /\ pass' \in {pass, Timed!Resting}
      /\ sess' = sess \/ sess' = [r \in Session |-> Timed!Idle]
  BY DEF Timed!DropConnection, Timed!Restart, Timed!BatchRefused, Timed!EndPass, Timed!vars
<1>2. ScheduleTypes'
  BY <1>1 DEF ScheduleInv, ScheduleTypes
<1>3. PassAhead' /\ PassNow'
  BY <1>1 DEF ScheduleInv, PassAhead, PassNow, Later
<1>4. RequestsAhead'
  BY <1>1 DEF ScheduleInv, RequestsAhead
<1>5. RowsAhead' /\ PastStarts' /\ AllFire' /\ Ordered'
  BY <1>1 DEF ScheduleInv, RowsAhead, PastStarts, AllFire, Ordered, Later
<1> QED
  BY <1>2, <1>3, <1>4, <1>5 DEF ScheduleInv

LEMMA ScheduleSteps ==
    ASSUME ScheduleInv, [Timed!Next]_(Timed!vars)
    PROVE  ScheduleInv'
<1>1. CASE Timed!Tick
  BY <1>1, StepTick
<1>2. CASE Timed!ReadDue
  BY <1>2, StepRead
<1>3. CASE Timed!Advance
  BY <1>3, StepAdvance
<1>4. CASE \E s \in Schedule : Timed!CreateBatch(s)
  BY <1>4, StepCreate
<1>5. CASE \E r \in Session : Timed!Serve(r)
  BY <1>5, StepRequest, StepCommit DEF Timed!Serve
<1>6. CASE \/ \E s \in Schedule : Timed!DropConnection(s)
           \/ Timed!Restart \/ Timed!BatchRefused \/ Timed!EndPass \/ UNCHANGED Timed!vars
  BY <1>6, StepOther
<1> QED
  BY <1>1, <1>2, <1>3, <1>4, <1>5, <1>6 DEF Timed!Next

LEMMA SchedulesStart == ScheduleInv => Timed!StartedOnce /\ Timed!EnabledFires
<1> SUFFICES ASSUME ScheduleInv PROVE Timed!StartedOnce /\ Timed!EnabledFires
  OBVIOUS
<1>1. Timed!StartedOnce
  BY DEF ScheduleInv, Ordered, Increasing, Timed!StartedOnce
<1>2. Timed!EnabledFires
  BY DEF ScheduleInv, ScheduleTypes, Timed!Rows, Timed!Row, AllFire, Fires, Timed!EnabledFires, Timed!Usable
<1> QED
  BY <1>1, <1>2

-----------------------------------------------------------------------------
(* Side by side.                                                           *)

\* A run does nothing beside the versions and the schedules that it would not
\* do alone, so what is proved of Spec holds of PlatformSpec too.
LEMMA Alone == PlatformSpec => Spec
<1>1. PlatformInit => Init
  BY DEF PlatformInit
<1>2. [PlatformNext]_platformVars => [Next]_vars
  BY DEF PlatformNext, platformVars
<1> QED
  BY <1>1, <1>2, PTL DEF PlatformSpec, Spec

PlatformInv ==
    /\ active = "versions" => CatalogInv /\ Counted
    /\ active = "times" => ScheduleInv

LEMMA PlatformBegins == PlatformInit => PlatformInv
  BY CatalogBegins, CountedSteps, ScheduleBegins DEF PlatformInit, PlatformInv

LEMMA PlatformSteps ==
    ASSUME PlatformInv, [PlatformNext]_platformVars
    PROVE  PlatformInv'
<1>1. CASE active = "versions"
  <2>1. [Catalog!Next]_(Catalog!vars) /\ active' = active
    BY <1>1 DEF PlatformNext, platformVars, versionsOnly, shared, Catalog!vars
  <2> QED
    BY <1>1, <2>1, CatalogSteps, CountedSteps DEF PlatformInv
<1>2. CASE active = "times"
  <2>1. [Timed!Next]_(Timed!vars) /\ active' = active
    BY <1>2 DEF PlatformNext, platformVars, timesOnly, shared, Timed!vars
  <2> QED
    BY <1>2, <2>1, ScheduleSteps DEF PlatformInv
<1>3. CASE active \notin {"versions", "times"}
  <2>1. active' = active
    BY <1>3 DEF PlatformNext, platformVars
  <2> QED
    BY <1>3, <2>1 DEF PlatformInv
<1> QED
  BY <1>1, <1>2, <1>3

(* The inductive invariants of the versions and of the schedules hold in    *)
(* every state of a platform that is about them (data_platform.py,          *)
(* doris_encryption.py).                                                    *)
THEOREM PlatformInductive == PlatformSpec => []PlatformInv
<1>1. PlatformInit => PlatformInv
  BY PlatformBegins
<1>2. PlatformInv /\ [PlatformNext]_platformVars => PlatformInv'
  BY PlatformSteps
<1> QED
  BY <1>1, <1>2, PTL DEF PlatformSpec

(* As long as no publication committed over what it had not read, at most   *)
(* one version of a workflow starts by itself, and no version of a deleted  *)
(* trigger does; and the snapshot of an SM4 task is the content recorded    *)
(* for the revision it names, whatever edits overlap (publish_version,      *)
(* delete_node, update_sm4_task_definition).                                *)
THEOREM VersionsAreKept == PlatformSpec => []VersionsKept
<1>1. PlatformInv => VersionsKept
  BY CatalogStarts DEF PlatformInv, VersionsKept
<1> QED
  BY <1>1, PlatformInductive, PTL

(* No step changes what an online version executes, but a request that had  *)
(* read the version before; and the publication of a collection puts online *)
(* what was submitted, if no other request crossed it (update_version,      *)
(* publish_doris_sql_collection, backfill_data_platform_release_metadata).  *)
THEOREM FrozenWhenPublished == PlatformSpec => PublishedFrozen
<1>1. PlatformInv /\ [PlatformNext]_platformVars =>
          [active = "versions" => Catalog!FrozenStep /\ Catalog!ServedStep]_platformVars
  <2> SUFFICES ASSUME PlatformInv, PlatformNext, active = "versions"
               PROVE  Catalog!FrozenStep /\ Catalog!ServedStep
    OBVIOUS
  <2>1. Catalog!Next
    BY DEF PlatformNext
  <2> QED
    BY <2>1, CatalogFrozen, CatalogServes DEF PlatformInv
<1> QED
  BY <1>1, PlatformInductive, PTL DEF PlatformSpec, PublishedFrozen

(* The scheduler creates one batch at most for each time of a schedule, in  *)
(* their order, whatever requests and restarts come in between; and without *)
(* crossing requests an enabled schedule has a time it will start at        *)
(* (_run_due_sm4_schedules).                                                *)
THEOREM SchedulesAreKept == PlatformSpec => []SchedulesKept
<1>1. PlatformInv => SchedulesKept
  BY SchedulesStart DEF PlatformInv, SchedulesKept
<1> QED
  BY <1>1, PlatformInductive, PTL

=============================================================================

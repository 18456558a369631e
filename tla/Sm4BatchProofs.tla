---------------------------- MODULE Sm4BatchProofs ----------------------------
(***************************************************************************)
(* Proofs about DorisWork: Sm4Batch, for any number of batches, tables and *)
(* workers - type correctness, and that what a batch has written is        *)
(* complete when it is recorded as succeeded, and under the one key the    *)
(* batch is bound to - and DorisJob (below).                               *)
(*                                                                         *)
(* The argument is about the database guard.  Its holder is the refresh    *)
(* that changes the function or the worker that has passed the preflight,  *)
(* so while a worker encrypts the function keeps the key that was checked; *)
(* and whoever writes a row - scheduler, stop request, startup, worker -   *)
(* has it from a batch that had begun, whose key never changes.            *)
(***************************************************************************)
EXTENDS DorisWork, TLAPS

JobState == {"none", "flushed"} \cup InFlight \cup Final
JobRow == [state : JobState, key : Key \cup {NoKey}]

\* A batch that other processes may know of: its row is committed.
Begun(j) == job[j].state \notin {"none", "flushed"}

\* Who holds the guard.
Guarded == {"preflight", "table", "write"}
GuardInv ==
    /\ rot.pc # "idle" => guard = "rotation" /\ rot.key \in Key
    /\ \A w \in Worker : worker[w].pc \in Guarded => guard = w

\* Whatever a process has in hand has begun.
HandInv ==
    /\ \A j \in Job : stop[j] # "none" => Begun(j)
    /\ \A j \in sched.stale \cup sched.broken \cup sched.queue : Begun(j)
    /\ sched.pc = "send" => sched.job \in Job /\ Begun(sched.job)
    /\ \A w \in Worker : worker[w].pc # "idle" => worker[w].job \in Job /\ Begun(worker[w].job)

\* What is in the tables: nothing before the batch has begun, and behind a
\* worker that has not failed everything; under the bound key, which is that
\* of the function while a worker encrypts.
WriteInv ==
    /\ \A j \in Job : ~Begun(j) => \A t \in Table : wrote[j][t] = {}
    /\ \A w \in Worker : worker[w].pc \in {"table", "write"} => fn = job[worker[w].job].key
    /\ \A w \in Worker : worker[w].pc = "write" => worker[w].next <= Tables
    /\ \A w \in Worker : worker[w].pc # "idle" /\ ~worker[w].bad =>
          \A t \in Table : t < worker[w].next => wrote[worker[w].job][t] # {}

IInv == GuardInv /\ HandInv /\ WriteInv /\ BoundKeyOnly /\ SucceededIsComplete

-----------------------------------------------------------------------------
(* Rows.                                                                   *)

LEMMA Sets ==
    ASSUME job \in [Job -> JobRow], NEW j \in Job, NEW s \in JobState, SetState(j, s)
    PROVE  /\ job' \in [Job -> JobRow]
           /\ \A i \in Job : /\ job'[i].key = job[i].key
                             /\ job'[i].state = IF i = j THEN s ELSE job[i].state
  BY DEF SetState, JobRow

LEMMA Constants ==
    /\ "free" \notin Worker /\ "rotation" \notin Worker
    /\ Tables \in Nat /\ Tables >= 1 /\ Key \subseteq Nat /\ 1 \in Key /\ NoKey \notin Key
    /\ MaxRotations \in Nat /\ MaxStops \in Nat /\ MaxFaults \in Nat
  BY Sm4BatchAssumption DEF Key, NoKey

\* The parts of TypeOK, so that a step names those it disturbs.
JobsOK == job \in [Job -> JobRow] /\ msgs \in [Job -> Nat]
WorkersOK == worker \in [Worker -> Slot]
RequestsOK ==
    /\ stop \in [Job -> {"none", "cancelled", "stopping"}]
    /\ sched \in [pc : {"idle", "reset", "claim", "send", "starting"},
                  stale : SUBSET Job, broken : SUBSET Job, queue : SUBSET Job,
                  job : Job \cup {NoJob}]
KeysOK ==
    /\ guard \in {"free", "rotation"} \cup Worker
    /\ rot \in [pc : {"idle", "ddl", "record"}, key : Key \cup {NoKey},
                ok : BOOLEAN, encrypt : BOOLEAN]
    /\ fn \in Key \cup {NoKey}
    /\ keys \subseteq Key
    /\ deployed \in [usable : BOOLEAN, key : Key]
WroteOK == wrote \in [Job -> [Table -> SUBSET Key]]
BoundsOK ==
    rotations \in 0 .. MaxRotations /\ stops \in 0 .. MaxStops /\ faults \in 0 .. MaxFaults

Types == JobsOK /\ WorkersOK /\ RequestsOK /\ KeysOK /\ WroteOK /\ BoundsOK

LEMMA TypeParts == TypeOK <=> Types
  BY DEF Types, TypeOK, JobsOK, JobRow, JobState, WorkersOK, RequestsOK, KeysOK, WroteOK, BoundsOK

Inv == Types /\ IInv

\* A row moves on: what has begun stays begun and bound to its key.
Onward == \A j \in Job : Begun(j) => Begun(j)' /\ job'[j].key = job[j].key

LEMMA Moves ==
    ASSUME JobsOK, NEW j \in Job, NEW s \in JobState, SetState(j, s),
           Begun(j) => s \notin {"none", "flushed"}
    PROVE  Onward /\ job' \in [Job -> JobRow]
  BY Sets DEF Onward, Begun, JobsOK

\* What a step that only moves rows on leaves as it was.
LEMMA HandKept ==
    ASSUME HandInv, Onward, UNCHANGED <<stop, sched, worker>>, Types
    PROVE  HandInv'
  BY DEF HandInv, Onward, Types, RequestsOK

LEMMA WriteKept ==
    ASSUME HandInv, WriteInv, BoundKeyOnly, UNCHANGED <<worker, fn, wrote>>,
           \A j \in Job : Begun(j) => Begun(j)' /\ job'[j].key = job[j].key
    PROVE  WriteInv' /\ BoundKeyOnly'
<1>1. \A j \in Job : ~Begun(j)' => ~Begun(j)
  OBVIOUS
<1>2. \A w \in Worker : worker[w].pc # "idle" =>
          worker[w].job \in Job /\ job'[worker[w].job].key = job[worker[w].job].key
  BY DEF HandInv
<1>3. WriteInv'
  BY <1>1, <1>2 DEF WriteInv
<1>4. BoundKeyOnly'
  <2> SUFFICES ASSUME NEW j \in Job, NEW t \in Table
               PROVE  wrote[j][t] \subseteq {job'[j].key}
    BY DEF BoundKeyOnly
  <2>1. CASE Begun(j)
    BY <2>1 DEF BoundKeyOnly
  <2>2. CASE ~Begun(j)
    BY <2>2 DEF WriteInv
  <2> QED
    BY <2>1, <2>2
<1> QED
  BY <1>3, <1>4

-----------------------------------------------------------------------------
(* Creation of batches.                                                    *)

LEMMA StepCreate ==
    ASSUME Inv, NEW j \in Job,
           CreateBatch(j) \/ PrepareForAutomation(j)
    PROVE  Inv'
<1> USE DEF CreateBatch, PrepareForAutomation
<1>1. PICK k \in Key, s \in {"queued", "flushed"} :
          job' = [job EXCEPT ![j] = [state |-> s, key |-> k]]
  BY DEF Inv, Types, KeysOK, Resolved
<1>2. /\ job' \in [Job -> JobRow] /\ job[j].state = "none"
      /\ \A i \in Job \ {j} : job'[i] = job[i]
      /\ job'[j].state = s
  BY <1>1 DEF Inv, Types, JobsOK, JobRow, JobState, InFlight
<1>3. Onward
  BY <1>2 DEF Onward, Begun
<1>4. Types'
  BY <1>2 DEF Inv, Types, JobsOK, WorkersOK, RequestsOK, KeysOK, WroteOK, BoundsOK
<1>5. GuardInv' /\ HandInv'
  BY <1>3, HandKept DEF Inv, IInv, GuardInv
<1>6. WriteInv' /\ BoundKeyOnly'
  BY <1>3, WriteKept DEF Inv, IInv, Onward
<1>7. SucceededIsComplete'
  BY <1>2 DEF Inv, IInv, SucceededIsComplete
<1> QED
  BY <1>4, <1>5, <1>6, <1>7 DEF Inv, IInv

LEMMA StepCommit ==
    ASSUME Inv, NEW j \in Job, CommitForAutomation(j)
    PROVE  Inv'
<1>1. PICK s \in {"queued", "none"} : SetState(j, s)
  BY DEF CommitForAutomation
<1>2. /\ UNCHANGED <<msgs, worker, stop, sched, guard, rot, fn, keys, deployed, wrote, rotations, stops>>
      /\ faults' \in {faults, faults + 1} /\ (faults' = faults \/ faults < MaxFaults)
      /\ job[j].state = "flushed"
  BY DEF CommitForAutomation, Fault
<1>3. Onward /\ job' \in [Job -> JobRow]
  BY <1>1, <1>2, Moves DEF Inv, Types, Begun, JobState, InFlight
<1>4. Types'
  BY <1>2, <1>3, Constants
     DEF Inv, Types, JobsOK, WorkersOK, RequestsOK, KeysOK, WroteOK, BoundsOK
<1>5. GuardInv' /\ HandInv'
  BY <1>2, <1>3, HandKept DEF Inv, IInv, GuardInv
<1>6. WriteInv' /\ BoundKeyOnly'
  BY <1>2, <1>3, WriteKept DEF Inv, IInv, Onward
<1>7. SucceededIsComplete'
  BY <1>1, <1>2, Sets DEF Inv, Types, IInv, SucceededIsComplete, JobsOK, JobState, InFlight
<1> QED
  BY <1>4, <1>5, <1>6, <1>7 DEF Inv, IInv

-----------------------------------------------------------------------------
(* Refresh of the function.                                                *)

LEMMA StepRotation ==
    ASSUME Inv, Rotation
    PROVE  Inv'
<1> USE DEF Inv, IInv
<1>1. /\ UNCHANGED <<job, msgs, worker, stop, sched, wrote, stops>>
      /\ rotations' \in 0 .. MaxRotations /\ faults' \in 0 .. MaxFaults
  BY Constants DEF Rotation, Refresh, BeginRotation, ReplaceFunction, ReplaceFails,
     RecordDeployment, Fault, Types, BoundsOK
<1>2. KeysOK' /\ GuardInv' /\ \A w \in Worker : worker[w].pc \in Guarded => fn' = fn
  <2>1. ASSUME NEW k \in Key, NEW encrypt \in BOOLEAN, BeginRotation(k, encrypt)
        PROVE  KeysOK' /\ GuardInv' /\ fn' = fn
    <3>1. rot' = [pc |-> "ddl", key |-> k, ok |-> FALSE, encrypt |-> encrypt]
          /\ guard = "free" /\ guard' = "rotation" /\ UNCHANGED <<worker, fn, keys, deployed>>
      BY <2>1 DEF BeginRotation
    <3>2. \A w \in Worker : worker[w].pc \notin Guarded
      BY <3>1, Constants DEF GuardInv
    <3> QED
      BY <3>1, <3>2, Constants DEF KeysOK, GuardInv, Types
  <2>2. ASSUME rot.pc # "idle" PROVE \A w \in Worker : worker[w].pc \notin Guarded
    BY <2>2, Constants DEF GuardInv
  <2>3. CASE ReplaceFunction
    BY <2>2, <2>3, Constants DEF ReplaceFunction, KeysOK, GuardInv, Types
  <2>4. CASE ReplaceFails
    BY <2>2, <2>4, Constants DEF ReplaceFails, KeysOK, GuardInv, Types
  <2>5. CASE RecordDeployment
    BY <2>2, <2>5, Constants DEF RecordDeployment, Registered, RotIdle, KeysOK, GuardInv, Types
  <2> QED
    BY <2>1, <2>3, <2>4, <2>5 DEF Rotation, Refresh
<1>3. Types'
  BY <1>1, <1>2 DEF Types, JobsOK, WorkersOK, RequestsOK, WroteOK, BoundsOK
<1>4. HandInv' /\ BoundKeyOnly' /\ SucceededIsComplete'
  BY <1>1 DEF HandInv, BoundKeyOnly, SucceededIsComplete, Begun
<1>5. WriteInv'
  BY <1>1, <1>2 DEF WriteInv, Begun, Guarded
<1> QED
  BY <1>2, <1>3, <1>4, <1>5

-----------------------------------------------------------------------------
(* The scheduler, the startup of the API and stop requests.  What a batch  *)
(* has written and the key of the function stay.                           *)

\* A step that touches no worker, no key and no table.
LEMMA Aside ==
    ASSUME Inv, UNCHANGED <<worker, fn, wrote>>, JobsOK', RequestsOK', KeysOK', BoundsOK',
           GuardInv', HandInv', Onward,
           \A j \in Job : job'[j].state = "succeeded" => job[j].state = "succeeded"
    PROVE  Inv'
<1>1. Types'
  BY DEF Inv, Types, WorkersOK, WroteOK
<1>2. WriteInv' /\ BoundKeyOnly'
  BY WriteKept DEF Inv, IInv, Onward
<1>3. SucceededIsComplete'
  BY DEF Inv, IInv, SucceededIsComplete
<1> QED
  BY <1>1, <1>2, <1>3 DEF Inv, IInv

LEMMA Still == ASSUME job' = job PROVE Onward
  BY DEF Onward, Begun

LEMMA StepRead ==
    ASSUME Inv, ReadQueue
    PROVE  Inv'
<1> USE DEF Inv, IInv, Types
<1>1. PICK S \in SUBSET Job, closed \in SUBSET Windowed :
          LET waiting == {j \in Job : job[j].state = "queued"} \cup S
              free == \A j \in Job \ S : job[j].state \notin Active
          IN /\ Stale(S)
             /\ S # {} \/ (free /\ ~(waiting \subseteq closed))
             /\ sched' = [sched EXCEPT !.pc = IF S = {} THEN "claim" ELSE "reset",
                             !.stale = S, !.queue = IF free THEN waiting \ closed ELSE {}]
  BY DEF ReadQueue
<1>2. \A j \in S : job[j].state = "reserved"
  BY <1>1 DEF Stale
<1> DEFINE waiting == {j \in Job : job[j].state = "queued"} \cup S
           free == \A j \in Job \ S : job[j].state \notin Active
           ready == IF free THEN waiting \ closed ELSE {}
           pc == IF S = {} THEN "claim" ELSE "reset"
<1>3. /\ ready \in SUBSET Job /\ pc \in {"claim", "reset"}
      /\ \A j \in ready : Begun(j)
      /\ \A j \in S : Begun(j)
  BY <1>2 DEF Begun
<1>4. sched' = [sched EXCEPT !.pc = pc, !.stale = S, !.queue = ready]
  BY <1>1
<1> HIDE DEF waiting, free, ready, pc
<1>5. UNCHANGED <<job, msgs, worker, stop, guard, rot, fn, keys, deployed, wrote, rotations, stops>>
  BY DEF ReadQueue
<1>6. faults' \in 0 .. MaxFaults
  BY <1>1, Constants DEF Stale, Fault, BoundsOK
<1>7. RequestsOK' /\ HandInv'
  BY <1>3, <1>4, <1>5 DEF RequestsOK, HandInv, Begun
<1> QED
  BY <1>5, <1>6, <1>7, Still, Aside DEF JobsOK, KeysOK, BoundsOK, GuardInv

\* The rows of some batches are written back.
LEMMA Rewritten ==
    ASSUME JobsOK, NEW S \in SUBSET Job, NEW T \in SUBSET Job,
           \A j \in S \cup T : Begun(j), UNCHANGED msgs,
           job' = [j \in Job |-> [job[j] EXCEPT !.state =
                      IF j \in S THEN "queued" ELSE IF j \in T THEN "failed" ELSE @]]
    PROVE  /\ JobsOK' /\ Onward
           /\ \A j \in Job : job'[j].state = "succeeded" => job[j].state = "succeeded"
<1>1. \A j \in Job : /\ job'[j] \in JobRow /\ job'[j].key = job[j].key
                     /\ job'[j].state = IF j \in S THEN "queued"
                                        ELSE IF j \in T THEN "failed" ELSE job[j].state
  BY DEF JobsOK, JobRow, JobState, InFlight, Final
<1>2. JobsOK'
  BY <1>1 DEF JobsOK
<1>3. Onward
  BY <1>1 DEF Onward, Begun
<1> QED
  BY <1>1, <1>2, <1>3

\* What Rest leaves to the scheduler.
LEMMA RestFields ==
    ASSUME RequestsOK, NEW waiting \in SUBSET sched.queue
    PROVE  /\ Rest(waiting) \in [pc : {"idle", "reset", "claim", "send", "starting"},
                  stale : SUBSET Job, broken : SUBSET Job, queue : SUBSET Job,
                  job : Job \cup {NoJob}]
           /\ Rest(waiting).pc \in {"idle", "claim"}
           /\ Rest(waiting).stale = {} /\ Rest(waiting).queue = waiting
           /\ Rest(waiting).broken \in {{}, sched.broken}
  BY DEF Rest, RequestsOK, SchedIdle

LEMMA StepReset ==
    ASSUME Inv, ResetStale
    PROVE  Inv'
<1> USE DEF Inv, IInv, Types
<1>1. /\ UNCHANGED <<msgs, worker, stop, guard, rot, fn, keys, deployed, wrote, rotations, stops, faults>>
      /\ sched' = Rest(sched.queue)
      /\ sched.stale \in SUBSET Job /\ \A j \in sched.stale : Begun(j)
  BY DEF ResetStale, RequestsOK, HandInv
<1>2. job' = [j \in Job |-> [job[j] EXCEPT !.state =
                 IF j \in sched.stale THEN "queued" ELSE IF j \in {} THEN "failed" ELSE @]]
  <2>1. \A j \in Job : [job[j] EXCEPT !.state = job[j].state] = job[j]
    BY DEF JobsOK, JobRow
  <2> QED
    BY <2>1 DEF ResetStale
<1>3. /\ JobsOK' /\ Onward
      /\ \A j \in Job : job'[j].state = "succeeded" => job[j].state = "succeeded"
  BY <1>1, <1>2, Rewritten
<1>4. RequestsOK' /\ HandInv'
  BY <1>1, <1>3, RestFields DEF RequestsOK, HandInv, Onward
<1> QED
  BY <1>1, <1>3, <1>4, Aside DEF KeysOK, BoundsOK, GuardInv

LEMMA StepReserve ==
    ASSUME Inv, NEW j \in Job, Reserve(j)
    PROVE  Inv'
<1> USE DEF Inv, IInv, Types
<1>1. /\ UNCHANGED <<msgs, worker, stop, guard, rot, fn, keys, deployed, wrote, rotations, stops, faults>>
      /\ j \in sched.queue
  BY DEF Reserve
<1>2. CASE job[j].state = "queued"
  <2>1. /\ SetState(j, "reserved")
        /\ sched' = [sched EXCEPT !.pc = "send", !.queue = @ \ {j}, !.job = j]
    BY <1>2 DEF Reserve
  <2>2. /\ JobsOK' /\ Onward /\ Begun(j)
        /\ \A i \in Job : job'[i].state = "succeeded" => job[i].state = "succeeded"
    BY <1>1, <1>2, <2>1, Sets, Moves DEF JobsOK, JobState, InFlight, Active, Begun
  <2>3. RequestsOK' /\ HandInv'
    BY <1>1, <2>1, <2>2 DEF RequestsOK, HandInv, Onward
  <2> QED
    BY <1>1, <2>2, <2>3, Aside DEF KeysOK, BoundsOK, GuardInv
<1>3. CASE job[j].state # "queued"
  <2>1. job' = job /\ sched' = Rest(sched.queue \ {j})
    BY <1>3 DEF Reserve
  <2>2. RequestsOK' /\ HandInv'
    BY <1>1, <2>1, RestFields DEF RequestsOK, HandInv, Begun
  <2> QED
    BY <1>1, <2>1, <2>2, Still, Aside DEF JobsOK, KeysOK, BoundsOK, GuardInv
<1> QED
  BY <1>2, <1>3

LEMMA StepSend ==
    ASSUME Inv, Send \/ SendFails
    PROVE  Inv'
<1> USE DEF Inv, IInv, Types
<1>1. sched.pc = "send" /\ sched.job \in Job /\ Begun(sched.job)
  BY DEF Send, SendFails, HandInv
<1>2. CASE Send
  <2>1. RequestsOK' /\ HandInv'
    BY <1>2 DEF Send, RequestsOK, HandInv, SchedIdle, Begun
  <2>2. JobsOK'
    BY <1>1, <1>2 DEF Send, JobsOK
  <2> QED
    BY <1>2, <2>1, <2>2, Still, Aside DEF Send, KeysOK, BoundsOK, GuardInv
<1>3. CASE SendFails
  <2>1. /\ SetState(sched.job, "queued") /\ sched' = Rest(sched.queue)
        /\ UNCHANGED <<msgs, worker, stop, guard, rot, fn, keys, deployed, wrote, rotations, stops>>
        /\ faults' \in 0 .. MaxFaults
    BY <1>3, Constants DEF SendFails, Fault, BoundsOK
  <2>2. /\ JobsOK' /\ Onward
        /\ \A i \in Job : job'[i].state = "succeeded" => job[i].state = "succeeded"
    BY <1>1, <2>1, Sets, Moves DEF JobsOK, JobState, InFlight, Begun
  <2>3. RequestsOK' /\ HandInv'
    BY <2>1, <2>2, RestFields DEF RequestsOK, HandInv, Onward
  <2> QED
    BY <2>1, <2>2, <2>3, Aside DEF KeysOK, BoundsOK, GuardInv
<1> QED
  BY <1>2, <1>3

LEMMA StepRestart ==
    ASSUME Inv, Restart
    PROVE  Inv'
<1> USE DEF Inv, IInv, Types
<1>1. /\ UNCHANGED <<job, msgs, worker, fn, keys, deployed, wrote, rotations, stops>>
      /\ stop' = [j \in Job |-> "none"] /\ rot' = RotIdle
      /\ guard' = IF guard = "rotation" THEN "free" ELSE guard
      /\ faults' \in 0 .. MaxFaults
  BY Constants DEF Restart, Fault, BoundsOK
<1>2. sched' = [pc |-> "starting", queue |-> {}, job |-> NoJob,
                 stale |-> {j \in Job : job[j].state = "reserved"},
                 broken |-> {j \in Job : job[j].state \in {"running", "stopping"}}]
  BY DEF Restart
<1>3. RequestsOK' /\ HandInv'
  BY <1>1, <1>2 DEF RequestsOK, HandInv, Begun
<1>4. KeysOK' /\ GuardInv'
  BY <1>1, Constants DEF KeysOK, GuardInv, RotIdle, Guarded
<1> QED
  BY <1>1, <1>3, <1>4, Still, Aside DEF JobsOK, BoundsOK

LEMMA StepRecover ==
    ASSUME Inv, RecoverJobs
    PROVE  Inv'
<1> USE DEF Inv, IInv, Types
<1>1. /\ UNCHANGED <<msgs, worker, stop, guard, rot, fn, keys, deployed, wrote, rotations, stops, faults>>
      /\ sched' = SchedIdle
      /\ sched.stale \in SUBSET Job /\ sched.broken \in SUBSET Job
      /\ \A j \in sched.stale \cup sched.broken : Begun(j)
  BY DEF RecoverJobs, RequestsOK, HandInv
<1>2. /\ JobsOK' /\ Onward
      /\ \A j \in Job : job'[j].state = "succeeded" => job[j].state = "succeeded"
  BY <1>1, Rewritten DEF RecoverJobs
<1>3. RequestsOK' /\ HandInv'
  BY <1>1, <1>2 DEF RequestsOK, HandInv, Onward, SchedIdle
<1> QED
  BY <1>1, <1>2, <1>3, Aside DEF KeysOK, BoundsOK, GuardInv

LEMMA StepStop ==
    ASSUME Inv, NEW j \in Job, RequestStop(j) \/ CommitStop(j)
    PROVE  Inv'
<1> USE DEF Inv, IInv, Types
<1>1. UNCHANGED <<msgs, worker, sched, guard, rot, fn, keys, deployed, wrote, rotations, faults>>
  BY DEF RequestStop, CommitStop
<1>2. CASE RequestStop(j)
  <2>0. stops' \in 0 .. MaxStops
    BY <1>2, Constants DEF RequestStop, BoundsOK
  <2>1. /\ Begun(j) /\ job' = job /\ stops' \in 0 .. MaxStops
        /\ stop' = [stop EXCEPT ![j] = "cancelled"] \/ stop' = [stop EXCEPT ![j] = "stopping"]
    BY <1>2, <2>0 DEF RequestStop, InFlight, Active, Begun
  <2>2. RequestsOK' /\ HandInv'
    BY <1>1, <2>1 DEF RequestsOK, HandInv, Begun
  <2> QED
    BY <1>1, <2>1, <2>2, Still, Aside DEF JobsOK, KeysOK, BoundsOK, GuardInv
<1>3. CASE CommitStop(j)
  <2>1. /\ SetState(j, stop[j]) /\ stop' = [stop EXCEPT ![j] = "none"] /\ stops' = stops
        /\ Begun(j) /\ stop[j] \in {"cancelled", "stopping"}
    BY <1>3 DEF CommitStop, HandInv, RequestsOK
  <2>2. stop[j] \in JobState
    BY <2>1 DEF JobState, InFlight, Active, Final
  <2>3. /\ JobsOK' /\ Onward
        /\ \A i \in Job : job'[i].state = "succeeded" => job[i].state = "succeeded"
    BY <1>1, <2>1, <2>2, Sets, Moves DEF JobsOK
  <2>4. RequestsOK' /\ HandInv'
    BY <1>1, <2>1, <2>3 DEF RequestsOK, HandInv, Onward
  <2> QED
    BY <1>1, <2>1, <2>3, <2>4, Aside DEF KeysOK, BoundsOK, GuardInv
<1> QED
  BY <1>2, <1>3

\* Messages come and go.
LEMMA StepMessage ==
    ASSUME Inv,
           (\E j \in Job : LoseMessage(j)) \/ (\E w \in Worker : Redeliver(w))
    PROVE  Inv'
<1> USE DEF Inv, IInv, Types
<1>1. UNCHANGED <<job, worker, stop, sched, guard, rot, fn, keys, deployed, wrote, rotations, stops>>
  BY DEF LoseMessage, Redeliver
<1>2. msgs' \in [Job -> Nat] /\ faults' \in 0 .. MaxFaults
  BY Constants DEF LoseMessage, Redeliver, Fault, JobsOK, BoundsOK, HandInv
<1> QED
  BY <1>1, <1>2, Still, Aside DEF JobsOK, RequestsOK, KeysOK, BoundsOK, GuardInv, HandInv, Begun

-----------------------------------------------------------------------------
(* A worker.                                                               *)

\* The slots are edited only here.
LEMMA SlotFields ==
    /\ Idle \in Slot /\ Idle.pc = "idle"
    /\ \A x \in Slot : /\ x.pc \in {"idle", "claimed", "preflight", "table", "write"}
                       /\ x.next \in 1 .. Tables + 1
                       /\ x.bad \in BOOLEAN /\ x.ok \in BOOLEAN
  BY Constants DEF Slot, Idle

Taken(j) == [Idle EXCEPT !.pc = "claimed", !.job = j]
LEMMA TakenFields ==
    ASSUME NEW j \in Job
    PROVE  Taken(j) \in Slot /\ Taken(j).pc = "claimed" /\ Taken(j).job = j /\ Taken(j).next = 1
<1>1. Idle \in Slot /\ Idle.next = 1
  BY SlotFields DEF Idle
<1> QED
  BY <1>1 DEF Taken, Slot

At(x, p) == [x EXCEPT !.pc = p]
LEMMA AtFields ==
    ASSUME NEW x \in Slot, NEW p \in {"table", "write"}
    PROVE  /\ At(x, p) \in Slot /\ At(x, p).pc = p /\ At(x, p).job = x.job
           /\ At(x, p).next = x.next /\ At(x, p).bad = x.bad
  BY DEF At, Slot

Checking(x, s) == [x EXCEPT !.pc = "preflight", !.seen = s]
LEMMA CheckingFields ==
    ASSUME NEW x \in Slot, NEW s \in InFlight \cup Final
    PROVE  /\ Checking(x, s) \in Slot /\ Checking(x, s).pc = "preflight"
           /\ Checking(x, s).job = x.job
           /\ Checking(x, s).next = x.next /\ Checking(x, s).bad = x.bad
  BY DEF Checking, Slot

Encrypted(x) == [x EXCEPT !.pc = "table", !.next = @ + 1, !.ok = TRUE]
Skipped(x) == [x EXCEPT !.pc = "table", !.next = @ + 1, !.bad = TRUE]
LEMMA PastFields ==
    ASSUME NEW x \in Slot, x.next <= Tables
    PROVE  /\ Encrypted(x) \in Slot /\ Skipped(x) \in Slot
           /\ Encrypted(x).pc = "table" /\ Encrypted(x).job = x.job
           /\ Encrypted(x).next = x.next + 1 /\ Encrypted(x).bad = x.bad
           /\ Skipped(x).pc = "table" /\ Skipped(x).job = x.job /\ Skipped(x).bad
<1>1. x.next + 1 \in 1 .. Tables + 1
  BY Constants, SlotFields
<1> QED
  BY <1>1 DEF Encrypted, Skipped, Slot

\* What a worker's step may do to its slot, the guard, a row and the tables.
Step(w, y) ==
    /\ worker' = [worker EXCEPT ![w] = y] /\ y \in Slot
    /\ \/ guard' = guard
       \/ guard = w /\ guard' = "free"
       \/ guard = "free" /\ guard' = w
    /\ y.pc \in Guarded => guard' = w
    /\ y.pc # "idle" => y.job \in Job /\ job'[y.job].state \notin {"none", "flushed"}
    /\ y.pc \in {"table", "write"} => fn = job[y.job].key /\ Begun(y.job)
    /\ y.pc = "write" => y.next <= Tables
    /\ y.pc # "idle" /\ ~y.bad =>
          \A t \in Table : t < y.next => wrote'[y.job][t] # {}
Rows ==
    /\ JobsOK' /\ Onward /\ BoundsOK'
    /\ UNCHANGED <<stop, sched, rot, fn, keys, deployed>>
    /\ \A j \in Job : job'[j].state = "succeeded" =>
          job[j].state = "succeeded" \/ \A t \in Table : wrote[j][t] # {}
Filled ==
    /\ WroteOK'
    /\ \A j \in Job, t \in Table :
          \/ wrote'[j][t] = wrote[j][t]
          \/ Begun(j) /\ wrote'[j][t] = wrote[j][t] \cup {job[j].key}

LEMMA OfWorker ==
    ASSUME Inv, NEW w \in Worker, NEW y, Step(w, y), Rows, Filled
    PROVE  Inv'
<1> USE DEF Inv, IInv, Types
<1>1. /\ worker' \in [Worker -> Slot] /\ worker'[w] = y
      /\ \A v \in Worker \ {w} : worker'[v] = worker[v]
  BY DEF Step, WorkersOK
<1>2. Types'
  <2>1. guard' \in {"free", "rotation"} \cup Worker
    BY DEF Step, KeysOK
  <2> QED
    BY <1>1, <2>1 DEF Rows, Filled, WorkersOK, RequestsOK, KeysOK
<1>3. GuardInv'
  <2>1. rot.pc # "idle" => guard' = "rotation" /\ rot.key \in Key
    BY Constants DEF GuardInv, Step
  <2>2. \A v \in Worker \ {w} : worker[v].pc \in Guarded => guard' = v
    BY Constants DEF GuardInv, Step
  <2> QED
    BY <1>1, <2>1, <2>2 DEF GuardInv, Step, Rows
<1>4. HandInv'
  BY <1>1 DEF HandInv, Begun, Step, Rows, Onward, RequestsOK
<1>5. \A j \in Job, t \in Table :
          /\ wrote[j][t] \subseteq wrote'[j][t]
          /\ wrote'[j][t] \subseteq {job'[j].key}
          /\ ~Begun(j)' => wrote'[j][t] = {}
  BY DEF Filled, Rows, Onward, BoundKeyOnly, WriteInv
<1>6. WriteInv'
  <2>1. ASSUME NEW v \in Worker
        PROVE  /\ worker'[v].pc \in {"table", "write"} => fn' = job'[worker'[v].job].key
               /\ worker'[v].pc = "write" => worker'[v].next <= Tables
               /\ worker'[v].pc # "idle" /\ ~worker'[v].bad =>
                     \A t \in Table : t < worker'[v].next => wrote'[worker'[v].job][t] # {}
    <3>1. CASE v = w
      BY <1>1, <3>1 DEF Step, Rows, Onward
    <3>2. CASE v # w
      <4>1. worker'[v] = worker[v]
        BY <1>1, <3>2
      <4>2. worker[v].pc # "idle" =>
                worker[v].job \in Job /\ job'[worker[v].job].key = job[worker[v].job].key
        BY DEF HandInv, Rows, Onward
      <4> QED
        BY <1>5, <4>1, <4>2 DEF WriteInv, Rows
    <3> QED
      BY <3>1, <3>2
  <2> QED
    BY <1>5, <2>1 DEF WriteInv
<1>7. BoundKeyOnly' /\ SucceededIsComplete'
  <2>1. BoundKeyOnly'
    BY <1>5 DEF BoundKeyOnly
  <2>2. ASSUME NEW j \in Job, NEW t \in Table, job'[j].state = "succeeded" PROVE wrote'[j][t] # {}
    BY <1>5, <2>2 DEF Rows, SucceededIsComplete
  <2> QED
    BY <2>1, <2>2 DEF SucceededIsComplete
<1> QED
  BY <1>2, <1>3, <1>4, <1>6, <1>7

\* A worker that gives up its slot and the guard.
LEMMA LeaveStep ==
    ASSUME Inv, NEW w \in Worker, Leave(w)
    PROVE  Step(w, Idle)
<1>1. Idle \in Slot /\ Idle.pc = "idle"
  BY SlotFields
<1>2. \/ guard' = guard
      \/ guard = w /\ guard' = "free"
      \/ guard = "free" /\ guard' = w
  BY DEF Leave
<1> QED
  BY <1>1, <1>2 DEF Leave, Step, Guarded

\* A batch ends: its worker leaves.
LEMMA Ends ==
    ASSUME Inv, NEW w \in Worker, worker[w].pc # "idle",
           NEW s \in Final, SetState(worker[w].job, s), Leave(w),
           UNCHANGED <<msgs, stop, sched, rot, fn, keys, deployed, wrote, rotations, stops>>,
           faults' \in 0 .. MaxFaults,
           s = "succeeded" => \A t \in Table : wrote[worker[w].job][t] # {}
    PROVE  Inv'
<1> DEFINE j == worker[w].job
<1>1. j \in Job /\ Begun(j)
  BY DEF Inv, IInv, HandInv
<1>2. s \in JobState /\ s \notin {"none", "flushed"}
  BY DEF JobState, Final
<1>3. Onward /\ JobsOK'
  BY <1>1, <1>2, Moves DEF Inv, Types, JobsOK
<1>4. \A i \in Job : job'[i].state = IF i = j THEN s ELSE job[i].state
  BY <1>1, <1>2, Sets DEF Inv, Types, JobsOK
<1>5. Rows
  BY <1>3, <1>4 DEF Rows, Inv, Types, BoundsOK
<1>6. Filled
  BY DEF Filled, Inv, Types, WroteOK
<1> QED
  BY <1>5, <1>6, LeaveStep, OfWorker

\* The rows, the tables and the guard stay.
LEMMA Stays ==
    ASSUME Inv, UNCHANGED <<job, stop, sched, rot, fn, keys, deployed, wrote, rotations, stops>>,
           msgs' \in [Job -> Nat], faults' \in 0 .. MaxFaults
    PROVE  Rows /\ Filled /\ \A j \in Job : Begun(j)' <=> Begun(j)
  BY Still DEF Inv, Types, Rows, Filled, JobsOK, BoundsOK, WroteOK, Begun

LEMMA StepClaim ==
    ASSUME Inv, NEW w \in Worker, NEW j \in Job, Claim(w, j)
    PROVE  Inv'
<1> USE DEF Inv, IInv, Types
<1>1. /\ worker[w].pc = "idle"
      /\ msgs' \in [Job -> Nat]
      /\ UNCHANGED <<stop, sched, guard, rot, fn, keys, deployed, wrote, rotations, stops, faults>>
  BY DEF Claim, JobsOK
<1>2. CASE job[j].state = "reserved"
  <2>1. SetState(j, "running") /\ worker' = [worker EXCEPT ![w] = Taken(j)]
    BY <1>2 DEF Claim, Taken
  <2>2. /\ job' \in [Job -> JobRow] /\ Onward /\ Begun(j)
        /\ \A i \in Job : job'[i].state = "succeeded" => job[i].state = "succeeded"
    BY <1>2, <2>1, Sets, Moves DEF JobsOK, JobState, InFlight, Active, Begun
  <2>3. Rows /\ Filled
    BY <1>1, <2>2 DEF Rows, Filled, JobsOK, BoundsOK, WroteOK
  <2>4. Step(w, Taken(j))
    <3>1. \A t \in Table : ~(t < 1)
      BY Constants DEF Table
    <3> QED
      BY <1>1, <2>1, <2>2, <3>1, TakenFields DEF Step, Guarded, Onward, Begun
  <2> QED
    BY <2>3, <2>4, OfWorker
<1>3. CASE job[j].state # "reserved"
  <2>1. UNCHANGED <<job, worker>>
    BY <1>3 DEF Claim
  <2> QED
    BY <1>1, <2>1, Still, Aside DEF JobsOK, RequestsOK, KeysOK, BoundsOK, GuardInv, HandInv, Begun
<1> QED
  BY <1>2, <1>3

LEMMA StepGuard ==
    ASSUME Inv, NEW w \in Worker, TakeGuard(w) \/ GuardTimeout(w)
    PROVE  Inv'
<1> DEFINE j == worker[w].job
<1>1. /\ worker[w].pc = "claimed" /\ worker[w] \in Slot /\ j \in Job /\ Begun(j)
      /\ faults' = faults /\ faults \in 0 .. MaxFaults /\ msgs \in [Job -> Nat]
      /\ UNCHANGED <<msgs, stop, sched, rot, fn, keys, deployed, wrote, rotations, stops>>
  BY DEF TakeGuard, GuardTimeout, Inv, IInv, Types, WorkersOK, HandInv, BoundsOK, JobsOK
<1>2. CASE TakeGuard(w) /\ job[j].state \in Halted
  BY <1>1, <1>2, Ends DEF TakeGuard, StopState, Final
<1>3. CASE TakeGuard(w) /\ job[j].state \notin Halted
  <2>1. /\ job' = job /\ guard = "free" /\ guard' = w
        /\ worker' = [worker EXCEPT ![w] = Checking(worker[w], job[j].state)]
    BY <1>1, <1>3 DEF TakeGuard, Checking, Inv, Types, WorkersOK
  <2>2. job[j].state \in InFlight \cup Final
    BY <1>1 DEF Inv, Types, JobsOK, JobRow, JobState, Begun
  <2>3. Rows /\ Filled /\ \A i \in Job : Begun(i)' <=> Begun(i)
    BY <1>1, <2>1, Stays
  <2>4. \A t \in Table : t < worker[w].next /\ ~worker[w].bad => wrote'[j][t] # {}
    BY <1>1 DEF Inv, IInv, WriteInv
  <2>5. Step(w, Checking(worker[w], job[j].state))
    BY <1>1, <2>1, <2>2, <2>3, <2>4, CheckingFields DEF Step, Guarded, Begun
  <2> QED
    BY <2>3, <2>5, OfWorker
<1>4. CASE GuardTimeout(w)
  <2>1. worker' = [worker EXCEPT ![w] = Idle] /\ guard' = guard /\ job' = job
    BY <1>4 DEF GuardTimeout
  <2>2. Rows /\ Filled
    BY <1>1, <2>1, Stays
  <2>3. Step(w, Idle)
    BY <2>1, SlotFields DEF Step, Guarded
  <2> QED
    BY <2>2, <2>3, OfWorker
<1> QED
  BY <1>2, <1>3, <1>4

LEMMA StepFailed ==
    ASSUME Inv, NEW w \in Worker, NoProfile(w) \/ Abort(w)
    PROVE  Inv'
<1>1. faults' \in 0 .. MaxFaults
  BY Constants DEF NoProfile, Abort, Fault, Inv, Types, BoundsOK
<1> QED
  BY <1>1, Ends DEF NoProfile, Abort, Final

LEMMA StepCrash ==
    ASSUME Inv, NEW w \in Worker, Crash(w)
    PROVE  Inv'
<1>1. faults' \in 0 .. MaxFaults /\ msgs' \in [Job -> Nat]
  BY Constants DEF Crash, Fault, Inv, IInv, Types, JobsOK, BoundsOK, HandInv
<1>2. Rows /\ Filled
  BY <1>1, Stays DEF Crash
<1> QED
  BY <1>2, LeaveStep, OfWorker DEF Crash

LEMMA StepPreflight ==
    ASSUME Inv, NEW w \in Worker, Preflight(w)
    PROVE  Inv'
<1> DEFINE j == worker[w].job
           y == At(worker[w], "table")
<1>1. /\ worker[w].pc = "preflight" /\ worker[w] \in Slot /\ j \in Job /\ Begun(j) /\ guard = w
      /\ fn = job[j].key /\ guard' = guard
      /\ UNCHANGED <<msgs, stop, sched, guard, rot, fn, keys, deployed, wrote, rotations, stops, faults>>
  BY DEF Preflight, KeyMatches, Inv, IInv, Types, WorkersOK, HandInv, GuardInv, Guarded
<1>2. worker' = [worker EXCEPT ![w] = y]
  BY <1>1 DEF Preflight, Goto, At, Inv, Types, WorkersOK
<1>3. /\ job' \in [Job -> JobRow] /\ Onward
      /\ \A i \in Job : job'[i].state = "succeeded" => job[i].state = "succeeded"
  <2>1. CASE job' = job
    BY <2>1, Still DEF Inv, Types, JobsOK
  <2>2. CASE SetState(j, "running")
    BY <1>1, <2>2, Sets, Moves DEF Inv, Types, JobsOK, JobState, InFlight, Active
  <2> QED
    BY <2>1, <2>2 DEF Preflight
<1>4. Rows /\ Filled
  BY <1>1, <1>3 DEF Rows, Filled, Inv, Types, JobsOK, BoundsOK, WroteOK
<1>5. \A t \in Table : t < worker[w].next /\ ~worker[w].bad => wrote'[j][t] # {}
  BY <1>1 DEF Inv, IInv, WriteInv
<1>6. Step(w, y)
  <2>1. y \in Slot /\ y.pc = "table" /\ y.job = j /\ y.next = worker[w].next /\ y.bad = worker[w].bad
    BY <1>1, AtFields
  <2> HIDE DEF y
  <2> QED
    BY <1>1, <1>2, <1>3, <1>5, <2>1 DEF Step, Onward, Guarded, Begun
<1> QED
  BY <1>4, <1>6, OfWorker

LEMMA StepTable ==
    ASSUME Inv, NEW w \in Worker, StartTable(w)
    PROVE  Inv'
<1> DEFINE j == worker[w].job
           y == At(worker[w], "write")
<1>1. /\ worker[w].pc = "table" /\ worker[w] \in Slot /\ j \in Job /\ Begun(j) /\ guard = w
      /\ fn = job[j].key /\ worker[w].next <= Tables
      /\ faults' = faults /\ faults \in 0 .. MaxFaults /\ msgs \in [Job -> Nat]
      /\ UNCHANGED <<msgs, stop, sched, rot, fn, keys, deployed, wrote, rotations, stops>>
  BY DEF StartTable, Inv, IInv, Types, WorkersOK, HandInv, WriteInv, GuardInv, Guarded, BoundsOK, JobsOK
<1>2. CASE job[j].state \in Halted
  BY <1>1, <1>2, Ends DEF StartTable, StopState, Final
<1>3. CASE job[j].state \notin Halted
  <2>1. job' = job /\ guard' = guard /\ worker' = [worker EXCEPT ![w] = y]
    BY <1>1, <1>3 DEF StartTable, Goto, At, Inv, Types, WorkersOK
  <2>2. Rows /\ Filled /\ \A i \in Job : Begun(i)' <=> Begun(i)
    BY <1>1, <2>1, Stays
  <2>3. \A t \in Table : t < worker[w].next /\ ~worker[w].bad => wrote'[j][t] # {}
    BY <1>1 DEF Inv, IInv, WriteInv
  <2>4. y \in Slot /\ y.pc = "write" /\ y.job = j /\ y.next = worker[w].next /\ y.bad = worker[w].bad
    BY <1>1, AtFields
  <2> HIDE DEF y
  <2>5. Step(w, y)
    BY <1>1, <2>1, <2>2, <2>3, <2>4 DEF Step, Guarded, Begun
  <2> QED
    BY <2>2, <2>5, OfWorker
<1> QED
  BY <1>2, <1>3

LEMMA StepEncrypt ==
    ASSUME Inv, NEW w \in Worker, EncryptTable(w)
    PROVE  Inv'
<1> DEFINE j == worker[w].job
           n == worker[w].next
           y == Encrypted(worker[w])
<1>1. /\ worker[w].pc = "write" /\ worker[w] \in Slot /\ j \in Job /\ Begun(j) /\ guard = w
      /\ fn = job[j].key /\ n <= Tables /\ fn \in Key
      /\ wrote' = [wrote EXCEPT ![j][n] = @ \cup {fn}]
      /\ UNCHANGED <<job, msgs, stop, sched, guard, rot, fn, keys, deployed, rotations, stops, faults>>
  BY DEF EncryptTable, Inv, IInv, Types, WorkersOK, HandInv, WriteInv, GuardInv, Guarded, KeysOK
<1>2. worker' = [worker EXCEPT ![w] = y]
  BY <1>1 DEF EncryptTable, Encrypted, Inv, Types, WorkersOK
<1>3. n \in Table
  BY <1>1, SlotFields, Constants DEF Table
<1>4. Filled /\ \A t \in Table : wrote'[j][t] = IF t = n THEN wrote[j][t] \cup {fn} ELSE wrote[j][t]
  BY <1>1, <1>3 DEF Filled, Inv, Types, WroteOK
<1>5. Rows
  BY <1>1, Still DEF Rows, Inv, Types, JobsOK, BoundsOK
<1>6. \A t \in Table : t < n + 1 /\ ~worker[w].bad => wrote'[j][t] # {}
  <2> SUFFICES ASSUME NEW t \in Table, t < n + 1, ~worker[w].bad PROVE wrote'[j][t] # {}
    OBVIOUS
  <2>1. CASE t = n
    BY <1>4, <2>1
  <2>2. CASE t < n
    BY <1>1, <1>4, <2>2 DEF Inv, IInv, WriteInv
  <2> QED
    BY <1>3, <2>1, <2>2 DEF Table
<1>7. Step(w, y)
  <2>1. /\ y \in Slot /\ y.pc = "table" /\ y.job = j /\ y.next = n + 1 /\ y.bad = worker[w].bad
    BY <1>1, PastFields
  <2> HIDE DEF y
  <2> QED
    BY <1>1, <1>2, <1>6, <2>1 DEF Step, Guarded, Begun
<1> QED
  BY <1>4, <1>5, <1>7, OfWorker

LEMMA StepTableFails ==
    ASSUME Inv, NEW w \in Worker, TableFails(w)
    PROVE  Inv'
<1> DEFINE j == worker[w].job
           y == Skipped(worker[w])
<1>1. /\ worker[w].pc = "write" /\ worker[w] \in Slot /\ j \in Job /\ Begun(j) /\ guard = w
      /\ fn = job[j].key /\ worker[w].next <= Tables /\ msgs \in [Job -> Nat]
      /\ UNCHANGED <<msgs, stop, sched, rot, fn, keys, deployed, wrote, rotations, stops>>
  BY DEF TableFails, Inv, IInv, Types, WorkersOK, HandInv, WriteInv, GuardInv, Guarded, JobsOK
<1>2. faults' \in 0 .. MaxFaults
  BY Constants DEF TableFails, Fault, Inv, Types, BoundsOK
<1>3. CASE job[j].state \in Halted
  BY <1>1, <1>2, <1>3, Ends DEF TableFails, Final
<1>4. CASE job[j].state \notin Halted
  <2>1. job' = job /\ guard' = guard /\ worker' = [worker EXCEPT ![w] = y]
    BY <1>1, <1>4 DEF TableFails, Skipped, Inv, Types, WorkersOK
  <2>2. Rows /\ Filled /\ \A i \in Job : Begun(i)' <=> Begun(i)
    BY <1>1, <1>2, <2>1, Stays
  <2>3. y \in Slot /\ y.pc = "table" /\ y.job = j /\ y.bad
    BY <1>1, PastFields
  <2> HIDE DEF y
  <2>4. Step(w, y)
    BY <1>1, <2>1, <2>2, <2>3 DEF Step, Guarded, Begun
  <2> QED
    BY <2>2, <2>4, OfWorker
<1> QED
  BY <1>3, <1>4

LEMMA StepFinish ==
    ASSUME Inv, NEW w \in Worker, FinishBatch(w)
    PROVE  Inv'
<1>1. /\ worker[w].pc = "table" /\ worker[w].next > Tables /\ worker[w] \in Slot
      /\ faults' = faults /\ faults \in 0 .. MaxFaults
      /\ SetState(worker[w].job, Outcome(worker[w])) /\ Leave(w)
      /\ UNCHANGED <<msgs, stop, sched, rot, fn, keys, deployed, wrote, rotations, stops>>
  BY DEF FinishBatch, Inv, Types, WorkersOK, BoundsOK
<1>2. Outcome(worker[w]) \in Final
  BY DEF Outcome, Final
<1>3. ASSUME Outcome(worker[w]) = "succeeded", NEW t \in Table
      PROVE  wrote[worker[w].job][t] # {}
  <2>1. ~worker[w].bad
    BY <1>3 DEF Outcome
  <2>2. t < worker[w].next
    BY <1>1, SlotFields, Constants DEF Table
  <2> QED
    BY <1>1, <2>1, <2>2 DEF Inv, IInv, WriteInv
<1> QED
  BY <1>1, <1>2, <1>3, Ends

-----------------------------------------------------------------------------
(* The theorems.                                                           *)

LEMMA Start == ASSUME Init PROVE Inv
<1>1. Types
  BY Constants, SlotFields
     DEF Init, Types, JobsOK, JobRow, JobState, WorkersOK, RequestsOK, SchedIdle, KeysOK,
         RotIdle, WroteOK, BoundsOK
<1>2. GuardInv /\ HandInv
  BY SlotFields DEF Init, GuardInv, HandInv, RotIdle, SchedIdle, Guarded
<1>3. WriteInv /\ BoundKeyOnly /\ SucceededIsComplete
  BY SlotFields DEF Init, WriteInv, BoundKeyOnly, SucceededIsComplete, Begun
<1> QED
  BY <1>1, <1>2, <1>3 DEF Inv, IInv

LEMMA Preserved == ASSUME Inv, [Next]_vars PROVE Inv'
<1>1. ASSUME NEW j \in Job,
             \/ CreateBatch(j) \/ PrepareForAutomation(j) \/ CommitForAutomation(j)
             \/ RequestStop(j) \/ CommitStop(j) \/ LoseMessage(j)
      PROVE  Inv'
  BY <1>1, StepCreate, StepCommit, StepStop, StepMessage
<1>2. CASE Rotation \/ Dispatch \/ Restart \/ RecoverJobs
  BY <1>2, StepRotation, StepRead, StepReset, StepReserve, StepSend, StepRestart, StepRecover
     DEF Dispatch
<1>3. ASSUME NEW w \in Worker,
             Work(w) \/ NoProfile(w) \/ GuardTimeout(w) \/ Crash(w) \/ Redeliver(w)
      PROVE  Inv'
  BY <1>3, StepClaim, StepGuard, StepPreflight, StepFailed, StepTable, StepEncrypt,
     StepTableFails, StepFinish, StepCrash, StepMessage DEF Work
<1>4. CASE UNCHANGED vars
  BY <1>4 DEF vars, Inv, IInv, Types, JobsOK, WorkersOK, RequestsOK, KeysOK, WroteOK, BoundsOK,
     GuardInv, HandInv, WriteInv, BoundKeyOnly, SucceededIsComplete, Begun
<1> QED
  BY <1>1, <1>2, <1>3, <1>4 DEF Next

\* Whatever the batches, the requests and the refreshes do, types and
\* invariant hold.
THEOREM Inductive == Spec => []Inv
<1>1. Init => Inv
  BY Start
<1>2. Inv /\ [Next]_vars => Inv'
  BY Preserved
<1> QED
  BY <1>1, <1>2, PTL DEF Spec

\* Types: a slot of a worker, a reservation of the scheduler and a key of the
\* function are always what the code expects.
THEOREM TypeCorrect == Spec => []TypeOK
<1>1. Inv => TypeOK
  BY TypeParts DEF Inv
<1> QED
  BY <1>1, Inductive, PTL

\* What a batch has written is complete and under one key
\* (_verify_sm4_batch_key_binding under sm4_database_guard), whatever is
\* refreshed, stopped, restarted, lost or delivered twice.
THEOREM AsRecorded == Spec => []WrittenAsRecorded
<1>1. Inv => WrittenAsRecorded
  BY DEF Inv, IInv, WrittenAsRecorded
<1> QED
  BY <1>1, Inductive, PTL

\* No refresh changes the function under a worker that has taken the guard
\* (sm4_database_guard): list_inflight_sm4_batches alone, which sees committed
\* rows only, would not keep it away.
RefreshWaits == [][fn' # fn => \A w \in Worker : worker[w].pc \notin Guarded]_vars

THEOREM GuardHolds == Spec => RefreshWaits
<1>1. ASSUME Inv, [Next]_vars, fn' # fn PROVE \A w \in Worker : worker[w].pc \notin Guarded
  <2>1. ReplaceFunction \/ ReplaceFails
    BY <1>1 DEF Next, vars, CreateBatch, PrepareForAutomation, CommitForAutomation, RequestStop,
       CommitStop, LoseMessage, Rotation, Refresh, BeginRotation, RecordDeployment, Dispatch,
       ReadQueue, ResetStale, Reserve, Send, SendFails, Restart, RecoverJobs, Work, Claim,
       TakeGuard, Preflight, Abort, StartTable, EncryptTable, TableFails, FinishBatch,
       NoProfile, GuardTimeout, Crash, Redeliver
  <2>2. rot.pc # "idle"
    BY <2>1 DEF ReplaceFunction, ReplaceFails
  <2> QED
    BY <1>1, <2>2, Constants DEF Inv, IInv, GuardInv
<1>2. Inv /\ [Next]_vars => [fn' # fn => \A w \in Worker : worker[w].pc \notin Guarded]_vars
  BY <1>1
<1> QED
  BY <1>2, Inductive, PTL DEF Spec, RefreshWaits

-----------------------------------------------------------------------------
(* DorisJob.  A message may be delivered twice, so a job may be executed   *)
(* by two workers at a time; the tables a masking job makes bear its name, *)
(* so one execution at most has them in hand, and a second fails where it  *)
(* would make them.  What an execution has in hand then follows from where *)
(* it is.                                                                  *)

\* What the tables hold: blocks of the masked one, or of the result of a query.
Blocks == Seq({"plain", "masked", "twice"})
Masking == \E j \in Jobs!Jobs : kind[j] \in Jobs!Mask
Contents == {Jobs!NoTable} \cup (IF Masking THEN Blocks ELSE Seq({"first", "second"}))
Loaded == {<<>>, <<"first">>, Jobs!Result}
SlotOf ==
    [pc : Jobs!Pc, job : Jobs!Jobs \cup {0}, seen : BOOLEAN, src : {Jobs!NoTable} \cup Blocks, renamed : BOOLEAN,
     created : BOOLEAN, out : Loaded]
States == {"none"} \cup Jobs!RunningStates \cup Jobs!Terminal

JobTypes ==
    /\ kind \in Kinds
    /\ row \in [Jobs!Jobs -> [state : States, cancel : BOOLEAN]]
    /\ slot \in [Worker -> SlotOf]
    /\ table \in [Jobs!Names -> Contents] /\ (~Masking => table[Jobs!Source] # Jobs!NoTable)
    /\ part \in [Jobs!Jobs -> Worker \cup {Jobs!NoOne}] /\ DOMAIN file = Jobs!Jobs
    /\ mark \in [Jobs!Jobs -> SUBSET Jobs!Marks]

MaskPc == {"start", "ack", "failing", "restored", "finish"} \cup Jobs!MaskSteps
EtlPc == {"start", "prepare", "fetch", "ack"}
ExportPc == {"claim", "open", "fetch", "progress", "finish", "failing", "ack"}

\* What an execution x has done, by where it is.
ExecutionInv(x) ==
    /\ x.pc # "idle" =>
          /\ x.job \in Jobs!Jobs
          /\ kind[x.job] \in Jobs!Mask => x.pc \in MaskPc
          /\ kind[x.job] \in Jobs!Etl => x.pc \in EtlPc
          /\ kind[x.job] = "export" => x.pc \in ExportPc
    /\ x.renamed => x.pc # "idle" /\ kind[x.job] = "replace"
    /\ x.pc \in {"start", "prepare", "rename"} => ~x.renamed
    /\ x.pc \in {"start", "prepare", "rename", "create"} => ~x.created
    /\ x.pc = "rename" => kind[x.job] = "replace"
    /\ x.pc \in {"rename", "create", "fill", "verify", "finish"} /\ kind[x.job] \in Jobs!Mask => x.src \in Blocks
    /\ x.pc \in {"create", "fill", "verify", "finish"} /\ kind[x.job] = "replace" => x.renamed
    /\ x.pc \in {"start", "prepare", "claim", "open"} => x.out = <<>>

\* Of the executions of a job one at most has its new table, or its backup, in
\* hand.
Holds(x) ==
    \/ x.renamed /\ x.pc \in {"create", "fill", "verify", "finish", "failing"}
    \/ x.pc \in {"fill", "verify", "finish"} /\ kind[x.job] = "suffix"
OneHolds ==
    /\ \A w \in Worker : Holds(slot[w]) => Jobs!Exists(slot[w].job)
    /\ \A v, w \in Worker : Holds(slot[v]) /\ Holds(slot[w]) /\ slot[v].job = slot[w].job => v = w

\* Executions of two jobs on the table at a time are marked, and two of one job.
Overlaps ==
    \A v, w \in Worker : Jobs!Active(v) /\ Jobs!Active(w) /\ v # w =>
        IF slot[v].job = slot[w].job THEN "twin" \in mark[slot[w].job]
        ELSE Jobs!OnTable(slot[v].job, slot[w].job) => "shared" \in mark[slot[w].job]

Spared ==
    \A j \in Jobs!Jobs : /\ "spared" \in mark[j] /\ kind[j] \in Jobs!Mask => "touched" \notin mark[j] /\ row[j].cancel
                         /\ row[j].cancel => kind[j] \in Jobs!Mask

\* A source that lost its name is a backup whose execution will give it back,
\* unless it is known why not.
GivesBackLater(x) == x.renamed /\ ~x.created /\ x.pc \in {"create", "failing"}
Excused(j) == row[j].cancel \/ "nameless" \in mark[j]
Kept ==
    ~Jobs!Exists(Jobs!Source) =>
        \E j \in Jobs!Jobs : /\ Jobs!Exists(j)
                             /\ Excused(j) \/ \E w \in Worker : slot[w].job = j /\ GivesBackLater(slot[w])

\* What a masking execution has read is still the source, or the backup of it.
Unshared(x) == "shared" \notin mark[x.job]
MaskedRight(x) ==
    Unshared(x) /\ kind[x.job] \in Jobs!Mask =>
        /\ x.pc \in {"rename", "create", "fill", "verify", "finish"} /\ kind[x.job] = "replace" =>
              (IF Jobs!Exists(x.job) THEN table[x.job] ELSE table[Jobs!Source]) = x.src
        /\ x.pc \in {"create", "fill", "verify", "finish"} /\ kind[x.job] = "suffix" => table[Jobs!Source] = x.src
        /\ x.pc = "fill" => table[Jobs!Output(x.job)] = <<>>
        /\ x.pc \in {"verify", "finish"} => table[Jobs!Output(x.job)] = Jobs!Masked(x.src)

\* What an ETL run has fetched is in the table, at the end of it.
Ending(out, rows) ==
    /\ Len(out) <= Len(rows)
    /\ \A i \in 1 .. Len(out) : rows[Len(rows) - Len(out) + i] = out[i]
LoadedRight(x) ==
    x.pc = "fetch" /\ kind[x.job] \in Jobs!Etl /\ Unshared(x) /\ "twin" \notin mark[x.job] =>
        IF kind[x.job] = "truncate" THEN table[Jobs!Source] = x.out ELSE Ending(x.out, table[Jobs!Source])

\* An export of its own has its partial file, or none, until it has its file.
ExportRight(w, x) ==
    x.pc # "idle" /\ kind[x.job] = "export" /\ "twin" \notin mark[x.job] =>
        /\ x.pc \in {"open", "fetch", "progress", "finish", "failing"} => row[x.job].state # "succeeded"
        /\ x.pc \in {"fetch", "progress"} => part[x.job] \in {w, Jobs!NoOne}
        /\ x.pc = "finish" => file[x.job] = Jobs!Result
ExportsRight == \A w \in Worker : ExportRight(w, slot[w])

JobInv ==
    /\ JobTypes /\ OneHolds /\ Overlaps /\ Spared /\ Kept /\ ExportsRight
    /\ \A w \in Worker : ExecutionInv(slot[w]) /\ MaskedRight(slot[w]) /\ LoadedRight(slot[w])

-----------------------------------------------------------------------------
(* Jobs, executions and contents. *)

LEMMA JobFacts == Jobs!Source \notin Jobs!Jobs /\ Jobs!Jobs \subseteq Jobs!Names /\ Jobs!Source \in Jobs!Names
  BY DorisAssumption DEF Jobs!DorisJobAssumption, Jobs!Jobs, Jobs!Names, Jobs!Source

LEMMA KindFacts ==
    ASSUME kind \in Kinds
    PROVE  /\ kind \in [Jobs!Jobs -> Jobs!Kind]
           /\ \A i, j \in Jobs!Jobs : ~(kind[i] \in Jobs!Mask /\ kind[j] \in Jobs!Etl)
  BY DorisAssumption DEF Jobs!DorisJobAssumption

LEMMA Contained ==
    /\ Jobs!NoTable \notin Blocks /\ Jobs!NoTable \notin Seq({"first", "second"})
    /\ <<>> \in Blocks /\ <<>> \in Seq({"first", "second"}) /\ <<"plain">> \in Blocks
<1>1. Jobs!NoTable[1] = "none" /\ Len(Jobs!NoTable) = 1
  BY DEF Jobs!NoTable
<1>2. \A s \in Blocks : Len(s) = 1 => s[1] \in {"plain", "masked", "twice"}
  BY DEF Blocks
<1>3. \A s \in Seq({"first", "second"}) : Len(s) = 1 => s[1] \in {"first", "second"}
  OBVIOUS
<1>4. <<>> \in Blocks /\ <<>> \in Seq({"first", "second"}) /\ <<"plain">> \in Blocks
  BY DEF Blocks
<1> QED
  BY <1>1, <1>2, <1>3, <1>4

LEMMA MaskedRows ==
    ASSUME NEW r \in Blocks
    PROVE  Jobs!Masked(r) \in Blocks /\ Len(Jobs!Masked(r)) = Len(r) /\ <<>> \o Jobs!Masked(r) = Jobs!Masked(r)
<1>1. DOMAIN r = 1 .. Len(r) /\ Len(r) \in Nat
  BY DEF Blocks
<1>2. \A i \in DOMAIN r : Jobs!Sm3[r[i]] \in {"plain", "masked", "twice"}
  BY DEF Blocks, Jobs!Sm3
<1>3. Jobs!Masked(r) \in [1 .. Len(r) -> {"plain", "masked", "twice"}]
  BY <1>1, <1>2 DEF Jobs!Masked
<1>4. Jobs!Masked(r) \in Blocks /\ Len(Jobs!Masked(r)) = Len(r)
  BY <1>1, <1>3 DEF Blocks
<1> QED
  BY <1>4 DEF Blocks

LEMMA Appended ==
    ASSUME NEW S, NEW s \in Seq(S), NEW e \in S
    PROVE  /\ Append(s, e) \in Seq(S) /\ Len(Append(s, e)) = Len(s) + 1
           /\ Append(s, e)[Len(s) + 1] = e /\ \A i \in 1 .. Len(s) : Append(s, e)[i] = s[i]
  OBVIOUS

LEMMA LoadedRows ==
    ASSUME NEW out \in Loaded
    PROVE  /\ Len(out) \in Nat /\ out \in Seq({"first", "second"}) /\ (Len(out) = Len(Jobs!Result) => out = Jobs!Result)
           /\ Len(out) < Len(Jobs!Result) =>
                 /\ Append(out, Jobs!Result[Len(out) + 1]) \in Loaded
                 /\ Jobs!Result[Len(out) + 1] \in {"first", "second"}
<1>1. Len(Jobs!Result) = 2 /\ Jobs!Result[1] = "first" /\ Jobs!Result[2] = "second" /\ Jobs!Result \in Seq({"first", "second"})
  BY DEF Jobs!Result
<1>2. CASE out = <<>>
  BY <1>1, <1>2 DEF Loaded
<1>3. CASE out = <<"first">>
  <2>1. Len(out) = 1 /\ out \in Seq({"first", "second"})
    BY <1>3
  <2>2. Append(<<"first">>, "second") = Jobs!Result
    <3> DEFINE s == <<"first">>
    <3>1. s \in Seq({"first", "second"}) /\ Len(s) = 1 /\ s[1] = "first"
      OBVIOUS
    <3> HIDE DEF s
    <3> DEFINE a == Append(s, "second")
    <3>2. a \in Seq({"first", "second"}) /\ Len(a) = 2 /\ a[1] = "first" /\ a[2] = "second"
      <4>1. "second" \in {"first", "second"}
        OBVIOUS
      <4>2. /\ Append(s, "second") \in Seq({"first", "second"}) /\ Len(Append(s, "second")) = Len(s) + 1
            /\ Append(s, "second")[Len(s) + 1] = "second"
            /\ \A i \in 1 .. Len(s) : Append(s, "second")[i] = s[i]
        BY ZenonT(60), <3>1, <4>1, Appended
      <4>3. 1 \in 1 .. Len(s) /\ Len(s) + 1 = 2
        BY <3>1
      <4> QED
        BY <3>1, <4>2, <4>3 DEF a
    <3> HIDE DEF a
    <3>3. a = Jobs!Result
      BY <1>1, <3>2
    <3> QED
      BY <3>3 DEF a, s
  <2> QED
    BY <1>1, <1>3, <2>1, <2>2 DEF Loaded
<1>4. CASE out = Jobs!Result
  BY <1>1, <1>4
<1> QED
  BY <1>2, <1>3, <1>4 DEF Loaded

LEMMA IdleFields ==
    /\ Jobs!Idle \in SlotOf /\ Jobs!Idle.pc = "idle" /\ ~Jobs!Idle.renamed /\ ~Jobs!Idle.created /\ Jobs!Idle.job = 0 /\ Jobs!Idle.out = <<>>
    /\ \A x : x = Jobs!Idle => ExecutionInv(x)
  BY DEF Jobs!Idle, SlotOf, Jobs!Pc, Loaded, ExecutionInv

LEMMA SlotEdits ==
    ASSUME NEW x \in SlotOf, NEW pc \in Jobs!Pc
    PROVE  LET y == [x EXCEPT !.pc = pc]
           IN  /\ y \in SlotOf /\ y.pc = pc /\ y.job = x.job /\ y.src = x.src /\ (y.renamed <=> x.renamed)
               /\ (y.created <=> x.created) /\ y.out = x.out
  BY DEF SlotOf

\* A worker goes on to x, or is free again.
Shifts(w, x) ==
    /\ slot' = [slot EXCEPT ![w] = x] /\ x \in SlotOf
    /\ x = Jobs!Idle \/ (x.pc # "idle" /\ x.job = slot[w].job)

\* What has happened is remembered.
Grows ==
    /\ kind' = kind /\ row' \in [Jobs!Jobs -> [state : States, cancel : BOOLEAN]]
    /\ mark' \in [Jobs!Jobs -> SUBSET Jobs!Marks]
    /\ \A j \in Jobs!Jobs : mark[j] \subseteq mark'[j] /\ (row[j].cancel => row'[j].cancel)

LEMMA Moved ==
    ASSUME JobInv, NEW w \in Worker, NEW x, Jobs!Active(w), Shifts(w, x)
    PROVE  /\ slot'[w] = x /\ \A v \in Worker : v # w => slot'[v] = slot[v]
           /\ slot' \in [Worker -> SlotOf]
           /\ \A v \in Worker : Jobs!Active(v)' => Jobs!Active(v) /\ slot'[v].job = slot[v].job
           /\ slot[w].job \in Jobs!Jobs
  BY IdleFields DEF Shifts, JobInv, JobTypes, Jobs!Active, ExecutionInv

LEMMA OverlapsKept ==
    ASSUME JobInv, NEW w \in Worker, NEW x, Jobs!Active(w), Shifts(w, x), Grows
    PROVE  Overlaps'
<1>1. \A v \in Worker : Jobs!Active(v)' => Jobs!Active(v) /\ slot'[v].job = slot[v].job /\ slot[v].job \in Jobs!Jobs
  BY Moved DEF JobInv, ExecutionInv, Jobs!Active
<1>2. \A v, u \in Worker : Jobs!OnTable(slot[v].job, slot[u].job)' <=> Jobs!OnTable(slot'[v].job, slot'[u].job)
  BY DEF Jobs!OnTable, Grows
<1> SUFFICES ASSUME NEW v \in Worker, NEW u \in Worker, Jobs!Active(v)', Jobs!Active(u)', v # u
             PROVE  IF slot'[v].job = slot'[u].job THEN "twin" \in mark'[slot'[u].job]
                    ELSE Jobs!OnTable(slot[v].job, slot[u].job)' => "shared" \in mark'[slot'[u].job]
  BY DEF Overlaps
<1> QED
  BY <1>1 DEF JobInv, Overlaps, Grows, Jobs!OnTable

LEMMA HoldsKept ==
    ASSUME JobInv, NEW w \in Worker, NEW x, Jobs!Active(w), Shifts(w, x), Grows, NEW j, j = slot[w].job,
           Holds(x) => (Holds(slot[w]) \/ ~Jobs!Exists(j)) /\ Jobs!Exists(j)',
           \A k \in Jobs!Jobs : Jobs!Exists(k) => Jobs!Exists(k)' \/ (k = j /\ Holds(slot[w]))
    PROVE  OneHolds'
<1>1. /\ slot'[w] = x /\ \A v \in Worker : v # w => slot'[v] = slot[v]
      /\ Holds(x) => x.job = slot[w].job
  BY Moved, IdleFields DEF Shifts, Holds
<1>2. \A v \in Worker : Holds(slot[v])' <=> Holds(slot'[v])
  BY DEF Holds, Grows
<1>3. \A v \in Worker : Holds(slot[v]) => slot[v].job \in Jobs!Jobs
  BY IdleFields DEF JobInv, ExecutionInv, Holds
<1>4. \A v \in Worker : Jobs!Exists(slot[v].job)' <=> table'[slot'[v].job] # Jobs!NoTable
  BY DEF Jobs!Exists
<1>5. \A v \in Worker : Holds(slot[v])' => Jobs!Exists(slot[v].job)'
  BY <1>1, <1>2, <1>3, <1>4 DEF JobInv, OneHolds, Jobs!Exists
<1>6. \A v \in Worker : v # w /\ Holds(slot'[v]) /\ Holds(x) => slot'[v].job # x.job
  BY <1>1 DEF JobInv, OneHolds
<1>7. \A u, v \in Worker : Holds(slot[v])' /\ Holds(slot[u])' /\ slot'[v].job = slot'[u].job => v = u
  BY <1>1, <1>2, <1>6 DEF JobInv, OneHolds
<1> QED
  BY <1>5, <1>7 DEF OneHolds

LEMMA KeptKept ==
    ASSUME JobInv, NEW w \in Worker, NEW x, Jobs!Active(w), Shifts(w, x), Grows, NEW j, j = slot[w].job,
           ~Jobs!Exists(Jobs!Source)' =>
               \/ /\ ~Jobs!Exists(Jobs!Source) /\ \A k \in Jobs!Jobs : Jobs!Exists(k) => Jobs!Exists(k)'
                  /\ GivesBackLater(slot[w]) => GivesBackLater(x) \/ Excused(j)'
               \/ Jobs!Exists(j)' /\ GivesBackLater(x)
    PROVE  Kept'
<1>1. /\ slot'[w] = x /\ \A v \in Worker : v # w => slot'[v] = slot[v]
      /\ slot[w].job \in Jobs!Jobs
  BY Moved
<1>2. GivesBackLater(x) => x.job = slot[w].job
  BY IdleFields DEF Shifts, GivesBackLater
<1>3. \A i \in Jobs!Jobs : Excused(i) => Excused(i)'
  BY DEF Excused, Grows
<1>4. \A v \in Worker : GivesBackLater(slot[v])' <=> GivesBackLater(slot'[v])
  BY DEF GivesBackLater
<1> SUFFICES ASSUME ~Jobs!Exists(Jobs!Source)'
             PROVE  \E i \in Jobs!Jobs : /\ Jobs!Exists(i)'
                                         /\ Excused(i)' \/ \E v \in Worker : slot'[v].job = i /\ GivesBackLater(slot'[v])
  BY <1>4 DEF Kept
<1>5. CASE Jobs!Exists(j)' /\ GivesBackLater(x)
  BY <1>1, <1>2, <1>5
<1>6. CASE /\ ~Jobs!Exists(Jobs!Source) /\ \A k \in Jobs!Jobs : Jobs!Exists(k) => Jobs!Exists(k)'
           /\ GivesBackLater(slot[w]) => GivesBackLater(x) \/ Excused(j)'
  <2>1. PICK i \in Jobs!Jobs : /\ Jobs!Exists(i)
                               /\ Excused(i) \/ \E v \in Worker : slot[v].job = i /\ GivesBackLater(slot[v])
    BY <1>6 DEF JobInv, Kept
  <2>2. CASE Excused(i)
    BY <1>3, <1>6, <2>1, <2>2
  <2>3. CASE \E v \in Worker : slot[v].job = i /\ GivesBackLater(slot[v])
    <3>1. PICK v \in Worker : slot[v].job = i /\ GivesBackLater(slot[v])
      BY <2>3
    <3>2. CASE v = w
      BY <1>1, <1>2, <1>6, <2>1, <3>1, <3>2
    <3>3. CASE v # w
      BY <1>1, <1>6, <2>1, <3>1, <3>3
    <3> QED
      BY <3>2, <3>3
  <2> QED
    BY <2>1, <2>2, <2>3
<1> QED
  BY <1>5, <1>6

\* A step that leaves the tables alone.
LEMMA QuietStep ==
    ASSUME JobInv, NEW w \in Worker, NEW x, Jobs!Active(w), Shifts(w, x), Grows, NEW j, j = slot[w].job,
           table' = table, part' \in [Jobs!Jobs -> Worker \cup {Jobs!NoOne}], DOMAIN file' = Jobs!Jobs,
           ExecutionInv(x), Holds(x) => Holds(slot[w]), MaskedRight(x), LoadedRight(x),
           ~Jobs!Exists(Jobs!Source) /\ GivesBackLater(slot[w]) => GivesBackLater(x) \/ Excused(j)',
           Spared', ExportsRight'
    PROVE  JobInv'
<1>1. /\ slot'[w] = x /\ \A v \in Worker : v # w => slot'[v] = slot[v]
      /\ slot' \in [Worker -> SlotOf] /\ j \in Jobs!Jobs
  BY Moved
<1>2. \A k : Jobs!Exists(k)' <=> Jobs!Exists(k)
  BY DEF Jobs!Exists
<1>3. Overlaps'
  BY OverlapsKept
<1>4. OneHolds'
  <2>1. Holds(x) => Jobs!Exists(j)
    BY DEF JobInv, OneHolds
  <2> QED
    BY <1>2, <2>1, HoldsKept
<1>5. Kept'
  BY <1>2, KeptKept
<1>6. JobTypes'
  BY <1>1 DEF JobInv, JobTypes, Grows, Masking, Contents
<1>7. \A v \in Worker : ExecutionInv(slot'[v]) /\ MaskedRight(slot'[v]) /\ LoadedRight(slot'[v])
  BY <1>1 DEF JobInv
<1>8. \A v \in Worker : slot'[v].pc # "idle" => slot'[v].job \in Jobs!Jobs
  BY <1>7 DEF ExecutionInv
<1>9. \A v \in Worker : ExecutionInv(slot[v])'
  BY <1>7 DEF ExecutionInv, Grows
<1>10. \A v \in Worker : MaskedRight(slot[v])'
  <2> SUFFICES ASSUME NEW v \in Worker, NEW y, y = slot'[v] PROVE MaskedRight(slot[v])'
    OBVIOUS
  <2>1. MaskedRight(y) /\ (y.pc # "idle" => y.job \in Jobs!Jobs)
    BY <1>7, <1>8
  <2> QED
    BY <2>1 DEF MaskedRight, Unshared, Jobs!Output, Jobs!Exists, Grows
<1>11. \A v \in Worker : LoadedRight(slot[v])'
  <2> SUFFICES ASSUME NEW v \in Worker, NEW y, y = slot'[v] PROVE LoadedRight(slot[v])'
    OBVIOUS
  <2>1. LoadedRight(y) /\ (y.pc # "idle" => y.job \in Jobs!Jobs)
    BY <1>7, <1>8
  <2> QED
    BY <2>1 DEF LoadedRight, Unshared, Grows
<1> QED
  BY <1>3, <1>4, <1>5, <1>6, <1>9, <1>10, <1>11 DEF JobInv

\* The exports of other executions are left alone.
LEMMA ExportsKept ==
    ASSUME JobInv, NEW w \in Worker, NEW x, Jobs!Active(w), Shifts(w, x), Grows, part' = part, file' = file,
           \A k \in Jobs!Jobs : kind[k] = "export" /\ row'[k].state = "succeeded" => row[k].state = "succeeded",
           ExportRight(w, x)
    PROVE  ExportsRight'
<1>1. slot'[w] = x /\ \A v \in Worker : v # w => slot'[v] = slot[v]
  BY Moved
<1>2. \A v \in Worker : ExportRight(v, slot'[v]) /\ (slot'[v].pc # "idle" => slot'[v].job \in Jobs!Jobs)
  <2>1. \A v \in Worker : ExportRight(v, slot'[v])
    BY <1>1 DEF JobInv, ExportsRight
  <2>2. \A v \in Worker : slot[v].pc # "idle" => slot[v].job \in Jobs!Jobs
    BY DEF JobInv, ExecutionInv
  <2>3. \A v \in Worker : slot'[v].pc # "idle" => slot[v].pc # "idle" /\ slot'[v].job = slot[v].job
    BY Moved DEF Jobs!Active
  <2> QED
    BY <2>1, <2>2, <2>3
<1> SUFFICES ASSUME NEW v \in Worker, NEW y, y = slot'[v] PROVE ExportRight(v, slot[v])'
  BY DEF ExportsRight
<1>3. ExportRight(v, y) /\ (y.pc # "idle" => y.job \in Jobs!Jobs)
  BY <1>2
<1> QED
  BY <1>3 DEF ExportRight, Grows

LEMMA Became ==
    ASSUME JobInv, NEW j \in Jobs!Jobs, NEW state \in States, Jobs!Becomes(j, state), kind' = kind
    PROVE  /\ row' \in [Jobs!Jobs -> [state : States, cancel : BOOLEAN]] /\ row'[j].state = state
           /\ \A k \in Jobs!Jobs : (row'[k].cancel <=> row[k].cancel) /\ (k # j => row'[k] = row[k])
           /\ mark' = mark => Grows /\ Spared'
<1>1. row \in [Jobs!Jobs -> [state : States, cancel : BOOLEAN]] /\ row' = [row EXCEPT ![j].state = state]
  BY DEF JobInv, JobTypes, Jobs!Becomes
<1>2. /\ row' \in [Jobs!Jobs -> [state : States, cancel : BOOLEAN]] /\ row'[j].state = state
      /\ \A k \in Jobs!Jobs : (row'[k].cancel <=> row[k].cancel) /\ (k # j => row'[k] = row[k])
  BY <1>1
<1>3. mark' = mark => Grows /\ Spared'
  BY <1>2 DEF JobInv, JobTypes, Spared, Grows
<1> QED
  BY <1>2, <1>3

LEMMA SameJobs ==
    ASSUME JobInv, row' = row, kind' = kind, mark' = mark
    PROVE  Grows /\ Spared'
  BY DEF JobInv, JobTypes, Spared, Grows

-----------------------------------------------------------------------------
(* Masking. *)

\* An execution of a masking job or of an ETL run goes on, without a statement.
LEMMA GoesOn ==
    ASSUME JobInv, NEW w \in Worker, NEW pc \in Jobs!Pc, pc # "idle", Jobs!Active(w), Jobs!Goto(w, pc), Grows, Spared',
           NEW j, j = slot[w].job, kind[j] \in Jobs!Mask \cup Jobs!Etl, UNCHANGED <<table, part, file>>,
           NEW y, y = [slot[w] EXCEPT !.pc = pc],
           ExecutionInv(y), Holds(y) => Holds(slot[w]), MaskedRight(y), LoadedRight(y),
           ~Jobs!Exists(Jobs!Source) /\ GivesBackLater(slot[w]) => GivesBackLater(y) \/ Excused(j)',
           \A k \in Jobs!Jobs : kind[k] = "export" => row'[k] = row[k]
    PROVE  JobInv'
<1>1. y \in SlotOf /\ y.pc = pc /\ y.job = slot[w].job
  BY SlotEdits DEF JobInv, JobTypes
<1>2. Shifts(w, y)
  BY <1>1 DEF Shifts, Jobs!Goto
<1>3. ExportRight(w, y)
  BY <1>1 DEF ExportRight, Jobs!Mask, Jobs!Etl
<1>4. ExportsRight'
  BY <1>2, <1>3, ExportsKept
<1> QED
  BY <1>2, <1>4, QuietStep DEF JobInv, JobTypes

LEMMA StepMask ==
    ASSUME JobInv, NEW w \in Worker, NEW j, j = slot[w].job,
           Jobs!StartMask(w) \/ Jobs!StopMask(w) \/ Jobs!FinishMask(w) \/ Jobs!FailedMask(w)
    PROVE  JobInv'
<1>1. PICK pc \in {"prepare", "ack"}, state \in States :
         /\ Jobs!Becomes(j, state) /\ Jobs!Goto(w, pc) /\ (pc = "prepare" => slot[w].pc = "start")
         /\ slot[w].pc \in {"start", "finish", "restored"} \cup Jobs!MaskSteps
         /\ slot[w].pc \in {"create", "failing"} => row[j].cancel
         /\ slot[w].pc # "restored" => kind[j] \in Jobs!Mask
  BY DEF Jobs!StartMask, Jobs!StopMask, Jobs!FinishMask, Jobs!FailedMask, Jobs!Finish, States, Jobs!RunningStates, Jobs!Terminal, Jobs!AtStep, Jobs!At,
         Jobs!MaskSteps, Jobs!Cancelled
<1>2. /\ slot[w] \in SlotOf /\ ExecutionInv(slot[w]) /\ kind \in [Jobs!Jobs -> Jobs!Kind]
      /\ kind' = kind /\ mark' = mark /\ UNCHANGED <<table, part, file>>
  BY KindFacts DEF JobInv, JobTypes, Jobs!StartMask, Jobs!StopMask, Jobs!FinishMask, Jobs!FailedMask, Jobs!Rest, Jobs!Files
<1>3. j \in Jobs!Jobs /\ kind[j] \in Jobs!Mask /\ Jobs!Active(w)
  BY <1>1, <1>2 DEF ExecutionInv, Jobs!Active, Jobs!MaskSteps, Jobs!Kind, EtlPc, ExportPc, Jobs!Mask, Jobs!Etl
<1> DEFINE y == [slot[w] EXCEPT !.pc = pc]
<1>4. /\ y.pc = pc /\ y.job = j /\ y.src = slot[w].src /\ (y.renamed <=> slot[w].renamed)
      /\ (y.created <=> slot[w].created) /\ y.out = slot[w].out
  BY <1>1, <1>2, SlotEdits DEF Jobs!Pc
<1>5. y = [slot[w] EXCEPT !.pc = pc]
  OBVIOUS
<1> HIDE DEF y
<1>6. ExecutionInv(y) /\ MaskedRight(y) /\ LoadedRight(y) /\ ~Holds(y)
  BY <1>1, <1>2, <1>3, <1>4 DEF ExecutionInv, MaskedRight, LoadedRight, Holds, MaskPc, Jobs!MaskSteps, Jobs!Mask, Jobs!Etl
<1>7. /\ Grows /\ Spared' /\ \A k \in Jobs!Jobs : k # j => row'[k] = row[k]
      /\ row[j].cancel => row'[j].cancel
  BY <1>1, <1>2, <1>3, Became
<1>8. \A k \in Jobs!Jobs : kind[k] = "export" => row'[k] = row[k]
  BY <1>3, <1>7 DEF Jobs!Mask
<1>9. GivesBackLater(slot[w]) => Excused(j)'
  BY <1>1, <1>7 DEF GivesBackLater, Excused
<1>10. pc \in Jobs!Pc /\ pc # "idle" /\ kind[j] \in Jobs!Mask \cup Jobs!Etl
  BY <1>1, <1>3 DEF Jobs!Pc
<1> QED
  BY <1>1, <1>2, <1>3, <1>5, <1>6, <1>7, <1>8, <1>9, <1>10, GoesOn

LEMMA StepFailing ==
    ASSUME JobInv, NEW w \in Worker, NEW j, j = slot[w].job, kind[j] \in Jobs!Mask, slot[w].pc \in Jobs!MaskSteps,
           Jobs!Goto(w, "failing"), UNCHANGED <<kind, row, mark, table, part, file>>
    PROVE  JobInv'
<1>1. slot[w] \in SlotOf /\ ExecutionInv(slot[w]) /\ j \in Jobs!Jobs /\ Jobs!Active(w)
  BY DEF JobInv, JobTypes, ExecutionInv, Jobs!Active, Jobs!MaskSteps
<1> DEFINE y == [slot[w] EXCEPT !.pc = "failing"]
<1>2. /\ y.pc = "failing" /\ y.job = j /\ y.src = slot[w].src /\ (y.renamed <=> slot[w].renamed)
      /\ (y.created <=> slot[w].created) /\ y.out = slot[w].out
  BY <1>1, SlotEdits DEF Jobs!Pc
<1>3. y = [slot[w] EXCEPT !.pc = "failing"]
  OBVIOUS
<1> HIDE DEF y
<1>4. ExecutionInv(y) /\ MaskedRight(y) /\ LoadedRight(y)
  BY <1>1, <1>2 DEF ExecutionInv, MaskedRight, LoadedRight, MaskPc, Jobs!MaskSteps, Jobs!Mask, Jobs!Etl
<1>5. (Holds(y) => Holds(slot[w])) /\ (GivesBackLater(slot[w]) => GivesBackLater(y))
  BY <1>1, <1>2 DEF Holds, GivesBackLater, ExecutionInv, Jobs!MaskSteps
<1>6. Grows /\ Spared' /\ "failing" \in Jobs!Pc /\ kind[j] \in Jobs!Mask \cup Jobs!Etl
  BY SameJobs DEF Jobs!Pc
<1> QED
  BY <1>1, <1>3, <1>4, <1>5, <1>6, GoesOn

LEMMA StepPrepare ==
    ASSUME JobInv, NEW w \in Worker, NEW j, j = slot[w].job, Jobs!Prepare(w), Jobs!Exists(Jobs!Source), ~Jobs!Exists(j)
    PROVE  JobInv'
<1>1. /\ slot[w] \in SlotOf /\ ExecutionInv(slot[w]) /\ slot[w].pc = "prepare" /\ kind[j] \in Jobs!Mask
      /\ UNCHANGED <<kind, row, mark, table, part, file>>
  BY DEF JobInv, JobTypes, Jobs!Prepare, Jobs!MaskStep, Jobs!At, Jobs!Rest, Jobs!Files
<1> DEFINE pc == IF kind[j] = "replace" THEN "rename" ELSE "create"
           x == [[slot[w] EXCEPT !.src = table[Jobs!Source]] EXCEPT !.pc = pc]
<1>2. slot' = [slot EXCEPT ![w] = x]
  <2>1. slot' = [slot EXCEPT ![w].src = table[Jobs!Source], ![w].pc = pc]
    BY DEF Jobs!Prepare, Jobs!MaskStep
  <2>2. slot' = [slot EXCEPT ![w] = [slot[w] EXCEPT !.src = table[Jobs!Source], !.pc = pc]]
    BY <2>1 DEF JobInv, JobTypes
  <2> QED
    BY <1>1, <2>2 DEF SlotOf
<1>3. j \in Jobs!Jobs /\ Jobs!Active(w) /\ table[Jobs!Source] \in Blocks
  <2>1. j \in Jobs!Jobs /\ Jobs!Active(w)
    BY <1>1 DEF ExecutionInv, Jobs!Active
  <2>2. Masking /\ table[Jobs!Source] \in Contents
    BY <1>1, <2>1, JobFacts DEF Masking, JobInv, JobTypes
  <2> QED
    BY <2>1, <2>2 DEF Contents, Jobs!Exists
<1>4. /\ x \in SlotOf /\ x.pc = pc /\ x.job = j /\ x.src = table[Jobs!Source] /\ (x.renamed <=> slot[w].renamed)
      /\ (x.created <=> slot[w].created) /\ x.out = slot[w].out
  BY <1>1, <1>3 DEF SlotOf, Jobs!Pc
<1> HIDE DEF x
<1>5. /\ pc \in {"rename", "create"} /\ (pc = "create" => kind[j] = "suffix") /\ (pc = "rename" => kind[j] = "replace")
  BY <1>1 DEF Jobs!Mask
<1> HIDE DEF pc
<1>6. ~slot[w].renamed /\ ~slot[w].created
  BY <1>1 DEF ExecutionInv
<1>7. ExecutionInv(x)
  BY <1>3, <1>4, <1>5, <1>6 DEF ExecutionInv, MaskPc, Jobs!MaskSteps, Jobs!Mask, Jobs!Etl
<1>8. MaskedRight(x) /\ LoadedRight(x)
  BY <1>1, <1>4, <1>5 DEF MaskedRight, LoadedRight, Jobs!Mask, Jobs!Etl
<1>9. ~Holds(x) /\ ~GivesBackLater(slot[w])
  BY <1>4, <1>5, <1>6 DEF Holds, GivesBackLater
<1>10. Grows /\ Spared'
  BY <1>1, SameJobs
<1>11. Shifts(w, x)
  BY <1>2, <1>4, <1>5 DEF Shifts
<1>12. ExportsRight'
  <2>1. ExportRight(w, x)
    BY <1>1, <1>4 DEF ExportRight, Jobs!Mask
  <2> QED
    BY <1>1, <1>3, <1>10, <1>11, <2>1, ExportsKept
<1> QED
  BY <1>1, <1>3, <1>7, <1>8, <1>9, <1>10, <1>11, <1>12, QuietStep DEF JobInv, JobTypes

LEMMA StepVerify ==
    ASSUME JobInv, NEW w \in Worker, NEW j, j = slot[w].job, kind[j] \in Jobs!Mask, slot[w].pc = "verify",
           Jobs!Goto(w, "finish"), UNCHANGED <<kind, row, mark, table, part, file>>
    PROVE  JobInv'
<1>1. slot[w] \in SlotOf /\ ExecutionInv(slot[w]) /\ MaskedRight(slot[w]) /\ j \in Jobs!Jobs /\ Jobs!Active(w)
  BY DEF JobInv, JobTypes, ExecutionInv, Jobs!Active
<1> DEFINE y == [slot[w] EXCEPT !.pc = "finish"]
<1>2. /\ y.pc = "finish" /\ y.job = j /\ y.src = slot[w].src /\ (y.renamed <=> slot[w].renamed)
      /\ (y.created <=> slot[w].created) /\ y.out = slot[w].out
  BY <1>1, SlotEdits DEF Jobs!Pc
<1>3. y = [slot[w] EXCEPT !.pc = "finish"]
  OBVIOUS
<1> HIDE DEF y
<1>4. ExecutionInv(y) /\ LoadedRight(y)
  BY <1>1, <1>2 DEF ExecutionInv, LoadedRight, MaskPc, Jobs!Mask, Jobs!Etl
<1>5. MaskedRight(y)
  BY <1>1, <1>2 DEF MaskedRight, Unshared
<1>6. (Holds(y) => Holds(slot[w])) /\ ~GivesBackLater(slot[w])
  BY <1>1, <1>2 DEF Holds, GivesBackLater
<1>7. Grows /\ Spared' /\ "finish" \in Jobs!Pc /\ kind[j] \in Jobs!Mask \cup Jobs!Etl
  BY SameJobs DEF Jobs!Pc
<1> QED
  BY <1>1, <1>3, <1>4, <1>5, <1>6, <1>7, GoesOn

\* What MaskedRight says of an execution x if the tables hold t.
MaskedIn(x, t) ==
    /\ x.pc \in {"rename", "create", "fill", "verify", "finish"} /\ kind[x.job] = "replace" =>
          (IF t[x.job] # Jobs!NoTable THEN t[x.job] ELSE t[Jobs!Source]) = x.src
    /\ x.pc \in {"create", "fill", "verify", "finish"} /\ kind[x.job] = "suffix" => t[Jobs!Source] = x.src
    /\ x.pc = "fill" => t[Jobs!Output(x.job)] = <<>>
    /\ x.pc \in {"verify", "finish"} => t[Jobs!Output(x.job)] = Jobs!Masked(x.src)

LEMMA MaskedNow == \A x : MaskedRight(x) <=> (Unshared(x) /\ kind[x.job] \in Jobs!Mask => MaskedIn(x, table))
  BY DEF MaskedRight, MaskedIn, Jobs!Exists

\* A masking execution goes on with a statement that changes the tables.
LEMMA TableStep ==
    ASSUME JobInv, NEW w \in Worker, NEW x, Jobs!Active(w), Shifts(w, x), x.pc # "idle",
           NEW j, j = slot[w].job, kind[j] \in Jobs!Mask,
           kind' = kind, row' = row, UNCHANGED <<part, file>>, Grows, Spared', table' \in [Jobs!Names -> Contents],
           ExecutionInv(x),
           Holds(x) => (Holds(slot[w]) \/ ~Jobs!Exists(j)) /\ Jobs!Exists(j)',
           \A k \in Jobs!Jobs : Jobs!Exists(k) => Jobs!Exists(k)' \/ (k = j /\ Holds(slot[w])),
           Jobs!Exists(Jobs!Source)' \/ (Jobs!Exists(j)' /\ GivesBackLater(x)),
           "shared" \notin mark[j] =>
               \A v \in Worker : slot'[v].pc # "idle" /\ slot[v].job = j => MaskedIn(slot'[v], table')
    PROVE  JobInv'
<1>1. /\ slot'[w] = x /\ \A v \in Worker : v # w => slot'[v] = slot[v]
      /\ slot' \in [Worker -> SlotOf] /\ j \in Jobs!Jobs
      /\ \A v \in Worker : Jobs!Active(v)' => Jobs!Active(v) /\ slot'[v].job = slot[v].job
  BY Moved
<1>2. Masking /\ kind \in Kinds /\ kind \in [Jobs!Jobs -> Jobs!Kind] /\ \A k \in Jobs!Jobs : kind[k] \notin Jobs!Etl
  BY <1>1, KindFacts DEF Masking, JobInv, JobTypes
<1>3. Overlaps' /\ OneHolds' /\ Kept'
  BY OverlapsKept, HoldsKept, KeptKept
<1>4. JobTypes'
  BY <1>1, <1>2 DEF JobInv, JobTypes, Grows, Masking, Contents
<1>5. \A v \in Worker : ExecutionInv(slot'[v])
  BY <1>1 DEF JobInv
<1>6. \A v \in Worker : ExecutionInv(slot[v])'
  BY <1>5 DEF ExecutionInv
<1>7. ExportRight(w, x)
  BY <1>1, IdleFields DEF ExportRight, Jobs!Mask, Shifts
<1>8. ExportsRight'
  BY <1>7, ExportsKept
<1>9. \A v \in Worker : MaskedRight(slot[v])'
  <2> SUFFICES ASSUME NEW v \in Worker, NEW y, y = slot'[v] PROVE MaskedRight(slot[v])'
    OBVIOUS
  <2>1. CASE y.pc = "idle"
    BY <2>1 DEF MaskedRight
  <2>2. CASE y.pc # "idle"
    <3>1. Jobs!Active(v) /\ y.job = slot[v].job /\ y.job \in Jobs!Jobs
      BY <1>1, <1>5, <2>2 DEF Jobs!Active, ExecutionInv
    <3>2. CASE "shared" \in mark[y.job]
      BY <3>1, <3>2 DEF MaskedRight, Unshared, Grows
    <3>3. CASE "shared" \notin mark[y.job] /\ y.job = j
      <4>1. MaskedIn(y, table')
        BY <2>2, <3>1, <3>3
      <4> QED
        BY <4>1 DEF MaskedRight, MaskedIn, Jobs!Exists, Jobs!Output
    <3>4. CASE "shared" \notin mark[y.job] /\ y.job # j
      <4>1. ~Jobs!OnTable(slot[w].job, slot[v].job)
        BY <3>1, <3>4 DEF JobInv, Overlaps
      <4>2. kind[y.job] \notin Jobs!Mask
        BY <3>1, <4>1 DEF Jobs!OnTable, Jobs!Mask
      <4> QED
        BY <4>2 DEF MaskedRight
    <3> QED
      BY <3>2, <3>3, <3>4
  <2> QED
    BY <2>1, <2>2
<1>10. \A v \in Worker : LoadedRight(slot[v])'
  <2> SUFFICES ASSUME NEW v \in Worker, NEW y, y = slot'[v] PROVE LoadedRight(slot[v])'
    OBVIOUS
  <2>1. y.pc = "fetch" => y.job \in Jobs!Jobs
    BY <1>5 DEF ExecutionInv
  <2> QED
    BY <1>2, <2>1 DEF LoadedRight
<1> QED
  BY <1>3, <1>4, <1>6, <1>8, <1>9, <1>10 DEF JobInv

\* Whoever is past the creation of a table, or has the backup, holds it.
LEMMA Alone ==
    ASSUME JobInv, NEW w \in Worker, NEW j \in Jobs!Jobs, j = slot[w].job, NEW v \in Worker, v # w, slot[v].job = j,
           Holds(slot[w]) \/ ~Jobs!Exists(j)
    PROVE  /\ slot[v].pc \in {"fill", "verify", "finish"} => kind[j] \notin Jobs!Mask
           /\ slot[v].pc = "create" => kind[j] # "replace"
<1>1. ~Holds(slot[v])
  BY DEF JobInv, OneHolds
<1>2. ExecutionInv(slot[v])
  BY DEF JobInv
<1> QED
  BY <1>1, <1>2 DEF Holds, ExecutionInv, Jobs!Mask

\* The marks of a step that changes the tables.
LEMMA Touches ==
    ASSUME JobInv, NEW j \in Jobs!Jobs, kind' = kind, row' = row, mark' = mark \/ (Jobs!Mark(j, {"touched"}) /\ ~row[j].cancel)
    PROVE  Grows /\ Spared'
<1>1. CASE mark' = mark
  BY <1>1, SameJobs
<1>2. CASE Jobs!Mark(j, {"touched"}) /\ ~row[j].cancel
  <2>1. mark \in [Jobs!Jobs -> SUBSET Jobs!Marks] /\ mark' = [mark EXCEPT ![j] = mark[j] \cup {"touched"}] /\ "touched" \in Jobs!Marks
    BY <1>2 DEF JobInv, JobTypes, Jobs!Mark, Jobs!Marks
  <2>2. /\ mark' \in [Jobs!Jobs -> SUBSET Jobs!Marks]
        /\ \A k \in Jobs!Jobs : mark[k] \subseteq mark'[k] /\ (k # j => mark'[k] = mark[k])
        /\ mark'[j] = mark[j] \cup {"touched"}
    BY <2>1
  <2> QED
    BY <1>2, <2>2 DEF JobInv, JobTypes, Spared, Grows
<1> QED
  BY <1>1, <1>2

\* What a masking step that can be done has.
LEMMA MaskFacts ==
    ASSUME JobInv, NEW w \in Worker, NEW j, j = slot[w].job, kind[j] \in Jobs!Mask, slot[w].pc \in Jobs!MaskSteps \cup {"failing"}
    PROVE  /\ j \in Jobs!Jobs /\ Jobs!Active(w) /\ j # Jobs!Source /\ j \in Jobs!Names /\ Jobs!Source \in Jobs!Names
           /\ slot[w] \in SlotOf /\ ExecutionInv(slot[w]) /\ kind[j] \in {"replace", "suffix"}
           /\ Contents = {Jobs!NoTable} \cup Blocks /\ table \in [Jobs!Names -> Contents]
           /\ \A v \in Worker : slot[v].job = j /\ "shared" \notin mark[j] => MaskedIn(slot[v], table)
<1>1. j \in Jobs!Jobs /\ Jobs!Active(w) /\ slot[w] \in SlotOf /\ ExecutionInv(slot[w])
  BY DEF JobInv, JobTypes, ExecutionInv, Jobs!Active, Jobs!MaskSteps
<1>2. Masking
  BY <1>1 DEF Masking
<1>3. \A v \in Worker : slot[v].job = j /\ "shared" \notin mark[j] => MaskedIn(slot[v], table)
  BY MaskedNow DEF JobInv, Unshared
<1> QED
  BY <1>1, <1>2, <1>3, JobFacts DEF JobInv, JobTypes, Contents, Jobs!Mask

LEMMA StepRename ==
    ASSUME JobInv, NEW w \in Worker, NEW j, j = slot[w].job, Jobs!Rename(w), Jobs!Exists(Jobs!Source), ~Jobs!Exists(j)
    PROVE  JobInv'
<1>1. /\ slot[w].pc = "rename" /\ kind[j] \in Jobs!Mask /\ ~row[j].cancel
      /\ UNCHANGED <<kind, row, part, file>>
      /\ table' = [table EXCEPT ![j] = table[Jobs!Source], ![Jobs!Source] = Jobs!NoTable]
      /\ slot' = [slot EXCEPT ![w].renamed = TRUE, ![w].pc = "create"]
      /\ mark' = mark \/ Jobs!Mark(j, {"touched"})
  BY DEF Jobs!Rename, Jobs!MaskStep, Jobs!At, Jobs!Rest, Jobs!Files, Jobs!Cancelled
<1>2. /\ j \in Jobs!Jobs /\ Jobs!Active(w) /\ j # Jobs!Source /\ j \in Jobs!Names /\ Jobs!Source \in Jobs!Names
      /\ slot[w] \in SlotOf /\ ExecutionInv(slot[w])
      /\ Contents = {Jobs!NoTable} \cup Blocks /\ table \in [Jobs!Names -> Contents]
      /\ \A v \in Worker : slot[v].job = j /\ "shared" \notin mark[j] => MaskedIn(slot[v], table)
  BY <1>1, MaskFacts DEF Jobs!MaskSteps
<1> DEFINE x == [[slot[w] EXCEPT !.renamed = TRUE] EXCEPT !.pc = "create"]
<1>3. slot' = [slot EXCEPT ![w] = x]
  <2>1. slot' = [slot EXCEPT ![w] = [slot[w] EXCEPT !.renamed = TRUE, !.pc = "create"]]
    BY <1>1 DEF JobInv, JobTypes
  <2> QED
    BY <1>2, <2>1 DEF SlotOf
<1>4. /\ x \in SlotOf /\ x.pc = "create" /\ x.job = j /\ x.src = slot[w].src /\ x.renamed
      /\ (x.created <=> slot[w].created) /\ x.out = slot[w].out
  BY <1>2 DEF SlotOf, Jobs!Pc
<1> HIDE DEF x
<1>5. kind[j] = "replace" /\ ~slot[w].created /\ slot[w].src \in Blocks
  BY <1>1, <1>2 DEF ExecutionInv
<1>6. ExecutionInv(x) /\ Holds(x) /\ GivesBackLater(x)
  BY <1>2, <1>4, <1>5 DEF ExecutionInv, MaskPc, Jobs!MaskSteps, Jobs!Mask, Jobs!Etl, Holds, GivesBackLater
<1>7. /\ table' \in [Jobs!Names -> Contents] /\ table'[j] = table[Jobs!Source] /\ table'[Jobs!Source] = Jobs!NoTable
      /\ \A k \in Jobs!Jobs : k # j => table'[k] = table[k]
  BY <1>1, <1>2, JobFacts
<1>8. Grows /\ Spared'
  BY <1>1, <1>2, Touches
<1>9. Shifts(w, x)
  BY <1>3, <1>4 DEF Shifts
<1>10. ASSUME "shared" \notin mark[j], NEW v \in Worker, slot'[v].pc # "idle", slot[v].job = j
       PROVE  MaskedIn(slot'[v], table')
  <2>1. slot'[w] = x /\ \A u \in Worker : u # w => slot'[u] = slot[u]
    BY <1>2, <1>9, Moved
  <2>2. CASE v = w
    <3>1. MaskedIn(slot[w], table)
      BY <1>2, <1>10
    <3>2. table[Jobs!Source] = slot[w].src
      BY <1>1, <1>5, <3>1 DEF MaskedIn, Jobs!Exists
    <3> QED
      BY <1>4, <1>5, <1>7, <2>1, <2>2, <3>2 DEF MaskedIn, Jobs!Exists
  <2>3. CASE v # w
    <3>1. MaskedIn(slot[v], table) /\ slot'[v] = slot[v]
      BY <1>2, <1>10, <2>1, <2>3
    <3>2. slot[v].pc \notin {"create", "fill", "verify", "finish"}
      BY <1>1, <1>2, <1>5, <1>10, <2>3, Alone
    <3> QED
      BY <1>5, <1>7, <1>10, <3>1, <3>2 DEF MaskedIn, Jobs!Exists
  <2> QED
    BY <2>2, <2>3
<1>11. Jobs!Exists(j)' /\ \A k \in Jobs!Jobs : Jobs!Exists(k) => Jobs!Exists(k)'
  BY <1>7 DEF Jobs!Exists
<1> QED
  BY <1>1, <1>2, <1>4, <1>6, <1>7, <1>8, <1>9, <1>10, <1>11, TableStep

LEMMA StepCreateTable ==
    ASSUME JobInv, NEW w \in Worker, NEW j, j = slot[w].job, Jobs!CreateTable(w), Jobs!Exists(Jobs!From(w)), ~Jobs!Exists(Jobs!Output(j))
    PROVE  JobInv'
<1> DEFINE n == Jobs!Output(j)
<1>1. /\ slot[w].pc = "create" /\ kind[j] \in Jobs!Mask /\ ~row[j].cancel
      /\ UNCHANGED <<kind, row, part, file>>
      /\ table' = [table EXCEPT ![n] = <<>>]
      /\ slot' = [slot EXCEPT ![w].created = TRUE, ![w].pc = "fill"]
      /\ mark' = mark \/ Jobs!Mark(j, {"touched"})
  BY DEF Jobs!CreateTable, Jobs!MaskStep, Jobs!At, Jobs!Rest, Jobs!Files, Jobs!Cancelled
<1>2. /\ j \in Jobs!Jobs /\ Jobs!Active(w) /\ j # Jobs!Source /\ j \in Jobs!Names /\ Jobs!Source \in Jobs!Names
      /\ slot[w] \in SlotOf /\ ExecutionInv(slot[w]) /\ kind[j] \in {"replace", "suffix"}
      /\ Contents = {Jobs!NoTable} \cup Blocks /\ table \in [Jobs!Names -> Contents]
      /\ \A v \in Worker : slot[v].job = j /\ "shared" \notin mark[j] => MaskedIn(slot[v], table)
  BY <1>1, MaskFacts DEF Jobs!MaskSteps
<1> DEFINE x == [[slot[w] EXCEPT !.created = TRUE] EXCEPT !.pc = "fill"]
<1>3. slot' = [slot EXCEPT ![w] = x]
  <2>1. slot' = [slot EXCEPT ![w] = [slot[w] EXCEPT !.created = TRUE, !.pc = "fill"]]
    BY <1>1 DEF JobInv, JobTypes
  <2> QED
    BY <1>2, <2>1 DEF SlotOf
<1>4. /\ x \in SlotOf /\ x.pc = "fill" /\ x.job = j /\ x.src = slot[w].src /\ (x.renamed <=> slot[w].renamed)
      /\ x.created /\ x.out = slot[w].out
  BY <1>2 DEF SlotOf, Jobs!Pc
<1> HIDE DEF x
<1>5. slot[w].src \in Blocks /\ (kind[j] = "replace" <=> slot[w].renamed)
  BY <1>1, <1>2 DEF ExecutionInv
<1>6. ExecutionInv(x) /\ Holds(x) /\ (kind[j] = "replace" => Holds(slot[w]))
  BY <1>1, <1>2, <1>4, <1>5 DEF ExecutionInv, MaskPc, Jobs!MaskSteps, Jobs!Mask, Jobs!Etl, Holds
<1>7. n \in Jobs!Names /\ (kind[j] = "replace" => n = Jobs!Source) /\ (kind[j] = "suffix" => n = j)
  BY <1>2 DEF Jobs!Output
<1> HIDE DEF n
<1>8. /\ table' \in [Jobs!Names -> Contents] /\ table'[n] = <<>>
      /\ \A k \in Jobs!Names : k # n => table'[k] = table[k]
  BY <1>1, <1>2, <1>7, Contained
<1>9. Grows /\ Spared'
  BY <1>1, <1>2, Touches
<1>10. Shifts(w, x)
  BY <1>3, <1>4 DEF Shifts
<1>11. /\ kind[j] = "replace" => Jobs!Exists(j) /\ table'[Jobs!Source] = <<>> /\ table'[j] = table[j]
       /\ kind[j] = "suffix" => ~Jobs!Exists(j) /\ Jobs!Exists(Jobs!Source) /\ table'[Jobs!Source] = table[Jobs!Source] /\ table'[j] = <<>>
  <2>1. Jobs!Exists(Jobs!From(w)) /\ ~Jobs!Exists(n)
    BY DEF n
  <2> QED
    BY <1>2, <1>5, <1>7, <1>8, <2>1 DEF Jobs!From
<1>12. ASSUME "shared" \notin mark[j], NEW v \in Worker, slot'[v].pc # "idle", slot[v].job = j
       PROVE  MaskedIn(slot'[v], table')
  <2>1. slot'[w] = x /\ \A u \in Worker : u # w => slot'[u] = slot[u]
    BY <1>2, <1>10, Moved
  <2>2. CASE v = w
    <3>1. MaskedIn(slot[w], table)
      BY <1>2, <1>12
    <3> QED
      BY <1>1, <1>2, <1>4, <1>11, <2>1, <2>2, <3>1 DEF MaskedIn, Jobs!Exists, Jobs!Output
  <2>3. CASE v # w
    <3>1. MaskedIn(slot[v], table) /\ slot'[v] = slot[v]
      BY <1>2, <1>12, <2>1, <2>3
    <3>2. /\ slot[v].pc \notin {"fill", "verify", "finish"}
          /\ slot[v].pc = "create" => kind[j] # "replace"
      BY <1>1, <1>2, <1>6, <1>11, <1>12, <2>3, Alone
    <3> QED
      BY <1>2, <1>11, <1>12, <3>1, <3>2 DEF MaskedIn, Jobs!Exists
  <2> QED
    BY <2>2, <2>3
<1>13. /\ Jobs!Exists(j)' /\ Jobs!Exists(Jobs!Source)' /\ \A k \in Jobs!Jobs : Jobs!Exists(k) => Jobs!Exists(k)'
  <2>1. <<>> # Jobs!NoTable
    BY Contained
  <2>2. \A k \in Jobs!Jobs : Jobs!Exists(k) => Jobs!Exists(k)'
    BY <1>8, <2>1, JobFacts DEF Jobs!Exists
  <2> QED
    BY <1>2, <1>11, <2>1, <2>2 DEF Jobs!Exists
<1>14. Holds(slot[w]) \/ ~Jobs!Exists(j)
  BY <1>2, <1>6, <1>11
<1> QED
  BY <1>1, <1>2, <1>4, <1>6, <1>8, <1>9, <1>10, <1>12, <1>13, <1>14, TableStep

LEMMA Joined ==
    ASSUME NEW r \in Blocks, NEW s \in Blocks
    PROVE  r \o s \in Blocks
  BY DEF Blocks

LEMMA StepFill ==
    ASSUME JobInv, NEW w \in Worker, NEW j, j = slot[w].job, Jobs!Fill(w), Jobs!Exists(Jobs!From(w)), Jobs!Exists(Jobs!Output(j))
    PROVE  JobInv'
<1> DEFINE n == Jobs!Output(j)
           f == Jobs!From(w)
<1>1. /\ slot[w].pc = "fill" /\ kind[j] \in Jobs!Mask /\ ~row[j].cancel
      /\ UNCHANGED <<kind, row, part, file>>
      /\ table' = [table EXCEPT ![n] = table[n] \o Jobs!Masked(table[f])]
      /\ Jobs!Goto(w, "verify")
      /\ mark' = mark \/ Jobs!Mark(j, {"touched"})
  BY DEF Jobs!Fill, Jobs!MaskStep, Jobs!At, Jobs!Rest, Jobs!Files, Jobs!Cancelled
<1>2. /\ j \in Jobs!Jobs /\ Jobs!Active(w) /\ j # Jobs!Source /\ j \in Jobs!Names /\ Jobs!Source \in Jobs!Names
      /\ slot[w] \in SlotOf /\ ExecutionInv(slot[w]) /\ kind[j] \in {"replace", "suffix"}
      /\ Contents = {Jobs!NoTable} \cup Blocks /\ table \in [Jobs!Names -> Contents]
      /\ \A v \in Worker : slot[v].job = j /\ "shared" \notin mark[j] => MaskedIn(slot[v], table)
  BY <1>1, MaskFacts DEF Jobs!MaskSteps
<1> DEFINE x == [slot[w] EXCEPT !.pc = "verify"]
<1>3. slot' = [slot EXCEPT ![w] = x]
  BY <1>1 DEF Jobs!Goto, JobInv, JobTypes
<1>4. /\ x \in SlotOf /\ x.pc = "verify" /\ x.job = j /\ x.src = slot[w].src /\ (x.renamed <=> slot[w].renamed)
      /\ (x.created <=> slot[w].created) /\ x.out = slot[w].out
  BY ZenonT(60), <1>2, SlotEdits DEF Jobs!Pc
<1> HIDE DEF x
<1>5. slot[w].src \in Blocks /\ (kind[j] = "replace" <=> slot[w].renamed)
  BY <1>1, <1>2 DEF ExecutionInv
<1>6. ExecutionInv(x) /\ Holds(x) /\ Holds(slot[w])
  BY <1>1, <1>2, <1>4, <1>5 DEF ExecutionInv, MaskPc, Jobs!MaskSteps, Jobs!Mask, Jobs!Etl, Holds
<1>7. /\ n \in Jobs!Names /\ (kind[j] = "replace" => n = Jobs!Source /\ f = j) /\ (kind[j] = "suffix" => n = j /\ f = Jobs!Source)
      /\ f \in Jobs!Names /\ table[n] \in Blocks /\ table[f] \in Blocks
  <2>1. table[n] # Jobs!NoTable /\ table[f] # Jobs!NoTable
    BY DEF Jobs!Exists
  <2>2. n \in Jobs!Names /\ (kind[j] = "replace" => n = Jobs!Source /\ f = j) /\ (kind[j] = "suffix" => n = j /\ f = Jobs!Source) /\ f \in Jobs!Names
    BY <1>2, <1>5 DEF Jobs!Output, Jobs!From
  <2> HIDE DEF n, f
  <2> QED
    BY <1>2, <2>1, <2>2
<1> HIDE DEF n, f
<1>8. /\ table' \in [Jobs!Names -> Contents] /\ table'[n] = table[n] \o Jobs!Masked(table[f]) /\ table'[n] \in Blocks
      /\ \A k \in Jobs!Names : k # n => table'[k] = table[k]
  <2>1. Jobs!Masked(table[f]) \in Blocks
    BY <1>7, MaskedRows
  <2>2. table[n] \o Jobs!Masked(table[f]) \in Blocks
    BY <1>7, <2>1, Joined
  <2> QED
    BY <1>1, <1>2, <1>7, <2>2
<1>9. Grows /\ Spared'
  BY <1>1, <1>2, Touches
<1>10. Shifts(w, x)
  BY <1>3, <1>4 DEF Shifts
<1>11. /\ \A k \in Jobs!Jobs : Jobs!Exists(k) => Jobs!Exists(k)'
       /\ Jobs!Exists(Jobs!Source)' /\ Jobs!Exists(j) /\ Jobs!Exists(j)'
  <2>1. \A k \in Jobs!Names : table[k] # Jobs!NoTable => table'[k] # Jobs!NoTable
    BY <1>7, <1>8, Contained
  <2>2. table[Jobs!Source] # Jobs!NoTable /\ table[j] # Jobs!NoTable
    BY <1>2, <1>7, Contained
  <2> QED
    BY <1>2, <2>1, <2>2, JobFacts DEF Jobs!Exists
<1>12. ASSUME "shared" \notin mark[j], NEW v \in Worker, slot'[v].pc # "idle", slot[v].job = j
       PROVE  MaskedIn(slot'[v], table')
  <2>1. slot'[w] = x /\ \A u \in Worker : u # w => slot'[u] = slot[u]
    BY <1>2, <1>10, Moved
  <2>2. CASE v = w
    <3>1. MaskedIn(slot[w], table)
      BY <1>2, <1>12
    <3>2. table[n] = <<>> /\ table[f] = slot[w].src
      BY <1>1, <1>2, <1>7, <1>11, <3>1 DEF MaskedIn, Jobs!Exists, n
    <3>3. table'[n] = Jobs!Masked(slot[w].src) /\ table'[f] = slot[w].src
      BY <1>2, <1>5, <1>7, <1>8, <3>2, MaskedRows
    <3> QED
      BY <1>2, <1>4, <1>7, <1>11, <2>1, <2>2, <3>3 DEF MaskedIn, Jobs!Exists, Jobs!Output
  <2>3. CASE v # w
    <3>1. MaskedIn(slot[v], table) /\ slot'[v] = slot[v]
      BY <1>2, <1>12, <2>1, <2>3
    <3>2. /\ slot[v].pc \notin {"fill", "verify", "finish"}
          /\ slot[v].pc = "create" => kind[j] # "replace"
      BY <1>1, <1>2, <1>6, <1>12, <2>3, Alone
    <3> QED
      BY <1>2, <1>7, <1>8, <1>11, <1>12, <3>1, <3>2 DEF MaskedIn, Jobs!Exists
  <2> QED
    BY <2>2, <2>3
<1> QED
  BY <1>1, <1>2, <1>4, <1>6, <1>9, <1>10, <1>8, <1>11, <1>12, TableStep

\* The backup gets the name of the source back.
LEMMA StepGivesBack ==
    ASSUME JobInv, NEW w \in Worker, NEW j, j = slot[w].job, slot[w].pc = "failing", kind[j] \in Jobs!Mask,
           Jobs!GivesBack(w), Jobs!Goto(w, "restored"), UNCHANGED <<kind, row, mark, part, file>>,
           table' = [table EXCEPT ![Jobs!Source] = table[j], ![j] = Jobs!NoTable]
    PROVE  JobInv'
<1>2. /\ j \in Jobs!Jobs /\ Jobs!Active(w) /\ j # Jobs!Source /\ j \in Jobs!Names /\ Jobs!Source \in Jobs!Names
      /\ slot[w] \in SlotOf /\ ExecutionInv(slot[w])
      /\ Contents = {Jobs!NoTable} \cup Blocks /\ table \in [Jobs!Names -> Contents]
      /\ \A v \in Worker : slot[v].job = j /\ "shared" \notin mark[j] => MaskedIn(slot[v], table)
  BY MaskFacts
<1> DEFINE x == [slot[w] EXCEPT !.pc = "restored"]
<1>3. slot' = [slot EXCEPT ![w] = x]
  BY DEF Jobs!Goto, JobInv, JobTypes
<1>4. /\ x \in SlotOf /\ x.pc = "restored" /\ x.job = j /\ x.src = slot[w].src /\ (x.renamed <=> slot[w].renamed)
      /\ (x.created <=> slot[w].created) /\ x.out = slot[w].out
  BY <1>2, SlotEdits DEF Jobs!Pc
<1> HIDE DEF x
<1>5. slot[w].renamed /\ kind[j] = "replace" /\ Jobs!Exists(j) /\ ~Jobs!Exists(Jobs!Source)
  BY <1>2 DEF ExecutionInv, Jobs!GivesBack
<1>6. ExecutionInv(x) /\ ~Holds(x) /\ Holds(slot[w])
  BY <1>2, <1>4, <1>5 DEF ExecutionInv, MaskPc, Jobs!MaskSteps, Jobs!Mask, Jobs!Etl, Holds
<1>7. /\ table' \in [Jobs!Names -> Contents] /\ table'[j] = Jobs!NoTable /\ table'[Jobs!Source] = table[j]
      /\ \A k \in Jobs!Jobs : k # j => table'[k] = table[k]
  BY <1>2, JobFacts
<1>8. Grows /\ Spared'
  BY SameJobs
<1>9. Shifts(w, x)
  BY <1>3, <1>4 DEF Shifts
<1>10. ASSUME "shared" \notin mark[j], NEW v \in Worker, slot'[v].pc # "idle", slot[v].job = j
       PROVE  MaskedIn(slot'[v], table')
  <2>1. slot'[w] = x /\ \A u \in Worker : u # w => slot'[u] = slot[u]
    BY <1>2, <1>9, Moved
  <2>2. CASE v = w
    BY <1>4, <2>1, <2>2 DEF MaskedIn
  <2>3. CASE v # w
    <3>1. MaskedIn(slot[v], table) /\ slot'[v] = slot[v]
      BY <1>2, <1>10, <2>1, <2>3
    <3>2. slot[v].pc \notin {"create", "fill", "verify", "finish"}
      BY <1>2, <1>5, <1>6, <1>10, <2>3, Alone
    <3> QED
      BY <1>5, <1>7, <1>10, <3>1, <3>2 DEF MaskedIn, Jobs!Exists
  <2> QED
    BY <2>2, <2>3
<1>11. Jobs!Exists(Jobs!Source)' /\ \A k \in Jobs!Jobs : Jobs!Exists(k) => Jobs!Exists(k)' \/ (k = j /\ Holds(slot[w]))
  BY <1>5, <1>6, <1>7 DEF Jobs!Exists
<1>12. /\ kind' = kind /\ row' = row /\ UNCHANGED <<part, file>> /\ x.pc # "idle"
       /\ Jobs!Exists(Jobs!Source)' \/ (Jobs!Exists(j)' /\ GivesBackLater(x))
       /\ Holds(x) => (Holds(slot[w]) \/ ~Jobs!Exists(j)) /\ Jobs!Exists(j)'
  BY <1>4, <1>6, <1>11
<1>13. table' \in [Jobs!Names -> Contents]
  BY <1>7
<1>14. "shared" \notin mark[j] =>
          \A v \in Worker : slot'[v].pc # "idle" /\ slot[v].job = j => MaskedIn(slot'[v], table')
  BY <1>10
<1>15. Jobs!Active(w) /\ Shifts(w, x) /\ x.pc # "idle" /\ j = slot[w].job /\ kind[j] \in Jobs!Mask
  BY <1>2, <1>9, <1>12
<1>16. kind' = kind /\ row' = row /\ UNCHANGED <<part, file>> /\ Grows /\ Spared' /\ table' \in [Jobs!Names -> Contents]
  BY <1>8, <1>12, <1>13
<1>17. ExecutionInv(x) /\ (Holds(x) => (Holds(slot[w]) \/ ~Jobs!Exists(j)) /\ Jobs!Exists(j)')
  BY <1>6, <1>12
<1>18. \A k \in Jobs!Jobs : Jobs!Exists(k) => Jobs!Exists(k)' \/ (k = j /\ Holds(slot[w]))
  BY <1>11
<1>19. Jobs!Exists(Jobs!Source)' \/ (Jobs!Exists(j)' /\ GivesBackLater(x))
  BY <1>11
<1> QED
  BY <1>14, <1>15, <1>16, <1>17, <1>18, <1>19, TableStep

LEMMA StepFailMask ==
    ASSUME JobInv, NEW w \in Worker, NEW j, j = slot[w].job, Jobs!FailMask(w)
    PROVE  JobInv'
<1>1. /\ slot[w].pc = "failing" /\ kind[j] \in Jobs!Mask
      /\ UNCHANGED <<kind, part, file>>
  BY DEF Jobs!FailMask, Jobs!At, Jobs!Rest, Jobs!Files
<1>2. /\ j \in Jobs!Jobs /\ Jobs!Active(w) /\ slot[w] \in SlotOf /\ ExecutionInv(slot[w])
  BY <1>1, MaskFacts
<1>3. CASE row[j].cancel
  <2>1. Jobs!Becomes(j, "cancelled") /\ Jobs!Goto(w, "ack") /\ mark' = mark /\ table' = table
    BY <1>3 DEF Jobs!FailMask, Jobs!Finish
  <2> DEFINE y == [slot[w] EXCEPT !.pc = "ack"]
  <2>2. y.pc = "ack" /\ y.job = j /\ (y.renamed <=> slot[w].renamed)
    BY <1>2, SlotEdits DEF Jobs!Pc
  <2>3. y = [slot[w] EXCEPT !.pc = "ack"]
    OBVIOUS
  <2> HIDE DEF y
  <2>4. ExecutionInv(y) /\ MaskedRight(y) /\ LoadedRight(y) /\ ~Holds(y)
    BY <1>1, <1>2, <2>2 DEF ExecutionInv, MaskedRight, LoadedRight, Holds, MaskPc, Jobs!Mask, Jobs!Etl
  <2>5. /\ Grows /\ Spared' /\ \A k \in Jobs!Jobs : k # j => row'[k] = row[k]
        /\ row'[j].cancel
    BY <1>1, <1>2, <1>3, <2>1, Became DEF States, Jobs!Terminal
  <2>6. \A k \in Jobs!Jobs : kind[k] = "export" => row'[k] = row[k]
    BY <1>1, <2>5 DEF Jobs!Mask
  <2>7. Excused(j)' /\ "ack" \in Jobs!Pc /\ kind[j] \in Jobs!Mask \cup Jobs!Etl
    BY <1>1, <2>5 DEF Excused, Jobs!Pc
  <2> QED
    BY <1>1, <1>2, <2>1, <2>3, <2>4, <2>5, <2>6, <2>7, GoesOn
<1>4. CASE ~row[j].cancel /\ Jobs!GivesBack(w) /\ table' # table
  <2>1. /\ Jobs!Goto(w, "restored") /\ row' = row /\ mark' = mark
        /\ table' = [table EXCEPT ![Jobs!Source] = table[j], ![j] = Jobs!NoTable]
    BY <1>4 DEF Jobs!FailMask
  <2> QED
    BY <1>1, <1>4, <2>1, StepGivesBack
<1>5. CASE ~row[j].cancel /\ (table' = table)
  <2>1. /\ Jobs!Goto(w, "restored") /\ row' = row /\ table' = table
        /\ mark' = mark \/ Jobs!Mark(j, {"nameless"})
        /\ Jobs!GivesBack(w) => Jobs!Mark(j, {"nameless"}) \/ table' = [table EXCEPT ![Jobs!Source] = table[j], ![j] = Jobs!NoTable]
    <3>1. /\ Jobs!Goto(w, "restored") /\ row' = row /\ table' = table
          /\ IF Jobs!GivesBack(w)
             THEN (table' = [table EXCEPT ![Jobs!Source] = table[j], ![j] = Jobs!NoTable] /\ mark' = mark) \/ Jobs!Mark(j, {"nameless"})
             ELSE mark' = mark
      BY <1>5 DEF Jobs!FailMask
    <3> QED
      BY <3>1
  <2> DEFINE y == [slot[w] EXCEPT !.pc = "restored"]
  <2>2. y.pc = "restored" /\ y.job = j /\ (y.renamed <=> slot[w].renamed)
    BY <1>2, SlotEdits DEF Jobs!Pc
  <2>3. y = [slot[w] EXCEPT !.pc = "restored"]
    OBVIOUS
  <2> HIDE DEF y
  <2>4. ExecutionInv(y) /\ MaskedRight(y) /\ LoadedRight(y) /\ ~Holds(y)
    BY <1>1, <1>2, <2>2 DEF ExecutionInv, MaskedRight, LoadedRight, Holds, MaskPc, Jobs!Mask, Jobs!Etl
  <2>5. Grows /\ Spared' /\ (Jobs!Mark(j, {"nameless"}) => "nameless" \in mark'[j])
    <3>1. CASE ~Jobs!Mark(j, {"nameless"})
      BY <1>1, <2>1, <3>1, SameJobs
    <3>2. CASE Jobs!Mark(j, {"nameless"})
      <4>1. mark \in [Jobs!Jobs -> SUBSET Jobs!Marks] /\ mark' = [mark EXCEPT ![j] = mark[j] \cup {"nameless"}] /\ "nameless" \in Jobs!Marks
        BY <3>2 DEF JobInv, JobTypes, Jobs!Mark, Jobs!Marks
      <4>2. /\ mark' \in [Jobs!Jobs -> SUBSET Jobs!Marks]
            /\ \A k \in Jobs!Jobs : mark[k] \subseteq mark'[k] /\ (k # j => mark'[k] = mark[k])
            /\ mark'[j] = mark[j] \cup {"nameless"}
        BY <1>2, <4>1
      <4> QED
        BY <1>1, <2>1, <4>2 DEF JobInv, JobTypes, Spared, Grows
    <3> QED
      BY <2>1, <3>1, <3>2
  <2>6. ASSUME ~Jobs!Exists(Jobs!Source), GivesBackLater(slot[w]) PROVE Excused(j)'
    <3>1. Holds(slot[w]) /\ Jobs!Exists(j)
      BY <1>1, <2>6 DEF Holds, GivesBackLater, JobInv, OneHolds
    <3>2. Jobs!GivesBack(w)
      BY <2>6, <3>1 DEF GivesBackLater, Jobs!GivesBack
    <3>3. Jobs!Mark(j, {"nameless"})
      <4>1. j \in Jobs!Names /\ Jobs!Source \in Jobs!Names /\ j # Jobs!Source /\ table \in [Jobs!Names -> Contents]
        BY <1>1, MaskFacts
      <4>2. [table EXCEPT ![Jobs!Source] = table[j], ![j] = Jobs!NoTable][j] = Jobs!NoTable
        BY <4>1
      <4> QED
        BY <2>1, <3>1, <3>2, <4>2 DEF Jobs!Exists
    <3> QED
      BY <2>5, <3>3 DEF Excused
  <2>7. "restored" \in Jobs!Pc /\ kind[j] \in Jobs!Mask \cup Jobs!Etl /\ \A k \in Jobs!Jobs : kind[k] = "export" => row'[k] = row[k]
    BY <1>1, <2>1 DEF Jobs!Pc
  <2> QED
    BY <1>1, <1>2, <2>1, <2>3, <2>4, <2>5, <2>6, <2>7, GoesOn
<1>6. table' = table \/ Jobs!GivesBack(w)
  BY DEF Jobs!FailMask
<1> QED
  BY <1>3, <1>4, <1>5, <1>6

LEMMA StepMaskWork ==
    ASSUME JobInv, NEW w \in Worker, Jobs!MaskWork(w) \/ Jobs!StepFails(w)
    PROVE  JobInv'
<1> DEFINE j == slot[w].job
<1>1. CASE Jobs!StartMask(w) \/ Jobs!StopMask(w) \/ Jobs!FinishMask(w) \/ Jobs!FailedMask(w)
  BY <1>1, StepMask
<1>2. CASE Jobs!Prepare(w) \/ Jobs!Rename(w) \/ Jobs!CreateTable(w) \/ Jobs!Fill(w) \/ Jobs!Verify(w)
  <2>1. CASE Jobs!Goto(w, "failing") /\ table' = table
    <3>1. /\ kind[j] \in Jobs!Mask /\ slot[w].pc \in Jobs!MaskSteps
          /\ UNCHANGED <<kind, row, mark, table, part, file>>
      BY <1>2, <2>1 DEF Jobs!Prepare, Jobs!Rename, Jobs!CreateTable, Jobs!Fill, Jobs!Verify, Jobs!MaskStep, Jobs!At, Jobs!Rest, Jobs!Files, Jobs!MaskSteps
    <3> QED
      BY <2>1, <3>1, StepFailing
  <2>2. CASE Jobs!Prepare(w) /\ ~(Jobs!Goto(w, "failing") /\ table' = table)
    BY <2>2, StepPrepare DEF Jobs!Prepare, Jobs!MaskStep
  <2>3. CASE Jobs!Rename(w) /\ ~(Jobs!Goto(w, "failing") /\ table' = table)
    BY <2>3, StepRename DEF Jobs!Rename, Jobs!MaskStep
  <2>4. CASE Jobs!CreateTable(w) /\ ~(Jobs!Goto(w, "failing") /\ table' = table)
    BY <2>4, StepCreateTable DEF Jobs!CreateTable, Jobs!MaskStep
  <2>5. CASE Jobs!Fill(w) /\ ~(Jobs!Goto(w, "failing") /\ table' = table)
    BY <2>5, StepFill DEF Jobs!Fill, Jobs!MaskStep
  <2>6. CASE Jobs!Verify(w) /\ ~(Jobs!Goto(w, "failing") /\ table' = table)
    <3>1. /\ kind[j] \in Jobs!Mask /\ slot[w].pc = "verify" /\ Jobs!Goto(w, "finish")
          /\ UNCHANGED <<kind, row, mark, table, part, file>>
      BY <2>6 DEF Jobs!Verify, Jobs!MaskStep, Jobs!At, Jobs!Rest, Jobs!Files
    <3> QED
      BY <3>1, StepVerify
  <2> QED
    BY <1>2, <2>1, <2>2, <2>3, <2>4, <2>5, <2>6
<1>3. CASE Jobs!FailMask(w)
  BY <1>3, StepFailMask
<1>4. CASE Jobs!StepFails(w)
  <2>1. /\ kind[j] \in Jobs!Mask /\ slot[w].pc \in Jobs!MaskSteps /\ Jobs!Goto(w, "failing")
        /\ UNCHANGED <<kind, row, mark, table, part, file>>
    BY <1>4 DEF Jobs!StepFails, Jobs!AtStep, Jobs!At, Jobs!Rest, Jobs!Files
  <2> QED
    BY <2>1, StepFailing
<1> QED
  BY <1>1, <1>2, <1>3, <1>4 DEF Jobs!MaskWork

-----------------------------------------------------------------------------
(* ETL runs. *)

LEMMA EtlFacts ==
    ASSUME JobInv, NEW w \in Worker, NEW j, j = slot[w].job, kind[j] \in Jobs!Etl, Jobs!Active(w)
    PROVE  /\ j \in Jobs!Jobs /\ slot[w] \in SlotOf /\ ExecutionInv(slot[w]) /\ ~slot[w].renamed /\ ~Masking
           /\ Contents = {Jobs!NoTable} \cup Seq({"first", "second"}) /\ table \in [Jobs!Names -> Contents]
           /\ table[Jobs!Source] \in Seq({"first", "second"}) /\ table[Jobs!Source] # Jobs!NoTable
<1>1. j \in Jobs!Jobs /\ slot[w] \in SlotOf /\ ExecutionInv(slot[w]) /\ kind \in Kinds
  BY DEF JobInv, JobTypes, ExecutionInv, Jobs!Active
<1>2. ~Masking
  BY <1>1, KindFacts DEF Masking
<1>3. ~slot[w].renamed
  BY <1>1 DEF ExecutionInv, SlotOf, Jobs!Etl
<1> QED
  BY <1>1, <1>2, <1>3, JobFacts DEF JobInv, JobTypes, Contents

LEMMA StepEtl ==
    ASSUME JobInv, NEW w \in Worker, Jobs!StartEtl(w) \/ Jobs!FinishEtl(w) \/ Jobs!FailEtl(w)
    PROVE  JobInv'
<1> DEFINE j == slot[w].job
<1>1. PICK pc \in {"prepare", "ack"}, state \in States :
         /\ Jobs!Becomes(j, state) /\ Jobs!Goto(w, pc) /\ (pc = "prepare" => slot[w].pc = "start")
         /\ slot[w].pc \in {"start", "prepare", "fetch"} /\ kind[j] \in Jobs!Etl
  BY DEF Jobs!StartEtl, Jobs!FinishEtl, Jobs!FailEtl, States, Jobs!RunningStates, Jobs!Terminal, Jobs!At
<1>2. UNCHANGED <<kind, mark, table, part, file>>
  BY DEF Jobs!StartEtl, Jobs!FinishEtl, Jobs!FailEtl, Jobs!Rest, Jobs!Files
<1>3. Jobs!Active(w)
  BY <1>1 DEF Jobs!Active
<1>4. j \in Jobs!Jobs /\ slot[w] \in SlotOf /\ ExecutionInv(slot[w]) /\ ~slot[w].renamed
  BY <1>1, <1>3, EtlFacts
<1> DEFINE y == [slot[w] EXCEPT !.pc = pc]
<1>5. /\ y.pc = pc /\ y.job = j /\ y.src = slot[w].src /\ (y.renamed <=> slot[w].renamed)
      /\ (y.created <=> slot[w].created) /\ y.out = slot[w].out
  BY <1>1, <1>4, SlotEdits DEF Jobs!Pc
<1>6. y = [slot[w] EXCEPT !.pc = pc]
  OBVIOUS
<1> HIDE DEF y
<1>7. ExecutionInv(y) /\ MaskedRight(y) /\ LoadedRight(y) /\ ~Holds(y)
  BY <1>1, <1>4, <1>5 DEF ExecutionInv, MaskedRight, LoadedRight, Holds, EtlPc, Jobs!Mask, Jobs!Etl
<1>8. /\ Grows /\ Spared' /\ \A k \in Jobs!Jobs : k # j => row'[k] = row[k]
  BY <1>1, <1>2, <1>4, Became
<1>9. \A k \in Jobs!Jobs : kind[k] = "export" => row'[k] = row[k]
  BY <1>1, <1>8 DEF Jobs!Etl
<1>10. ~GivesBackLater(slot[w])
  BY <1>4 DEF GivesBackLater
<1>11. pc \in Jobs!Pc /\ pc # "idle" /\ kind[j] \in Jobs!Mask \cup Jobs!Etl
  BY <1>1 DEF Jobs!Pc
<1> QED
  BY <1>1, <1>2, <1>3, <1>6, <1>7, <1>8, <1>9, <1>10, <1>11, GoesOn

\* A statement of an ETL run on its table.
LEMMA LoadStep ==
    ASSUME JobInv, NEW w \in Worker, NEW x, Jobs!Active(w), Shifts(w, x), x.pc = "fetch",
           NEW j, j = slot[w].job, kind[j] \in Jobs!Etl, UNCHANGED <<kind, row, mark, part, file>>,
           NEW rows \in Seq({"first", "second"}), table' = [table EXCEPT ![Jobs!Source] = rows],
           ExecutionInv(x),
           "shared" \notin mark[j] /\ "twin" \notin mark[j] =>
               IF kind[j] = "truncate" THEN rows = x.out ELSE Ending(x.out, rows)
    PROVE  JobInv'
<1>1. /\ slot'[w] = x /\ \A v \in Worker : v # w => slot'[v] = slot[v]
      /\ slot' \in [Worker -> SlotOf] /\ j \in Jobs!Jobs
      /\ \A v \in Worker : Jobs!Active(v)' => Jobs!Active(v) /\ slot'[v].job = slot[v].job
  BY Moved
<1>2. /\ ~Masking /\ Contents = {Jobs!NoTable} \cup Seq({"first", "second"}) /\ table \in [Jobs!Names -> Contents]
      /\ table[Jobs!Source] # Jobs!NoTable
  BY EtlFacts
<1>3. /\ table' \in [Jobs!Names -> Contents] /\ table'[Jobs!Source] = rows /\ rows # Jobs!NoTable
      /\ \A k \in Jobs!Jobs : table'[k] = table[k]
  BY <1>2, JobFacts, Contained
<1>4. Grows /\ Spared'
  BY SameJobs
<1>5. x.job = j
  BY IdleFields DEF Shifts
<1>6. ~x.renamed /\ ~Holds(x) /\ ~GivesBackLater(x)
  BY <1>5 DEF ExecutionInv, Holds, GivesBackLater, Jobs!Etl
<1>7. Overlaps'
  BY <1>4, OverlapsKept
<1>8. OneHolds'
  <2>1. \A k \in Jobs!Jobs : Jobs!Exists(k) => Jobs!Exists(k)'
    BY <1>3 DEF Jobs!Exists
  <2> QED
    BY <1>4, <1>6, <2>1, HoldsKept
<1>9. Kept'
  <2>1. Jobs!Exists(Jobs!Source)'
    BY <1>3 DEF Jobs!Exists
  <2> QED
    BY <2>1 DEF Kept
<1>10. JobTypes'
  BY <1>1, <1>2, <1>3, <1>4 DEF JobInv, JobTypes, Masking, Contents
<1>11. \A v \in Worker : ExecutionInv(slot'[v])
  BY <1>1 DEF JobInv
<1>12. \A v \in Worker : ExecutionInv(slot[v])'
  BY <1>11 DEF ExecutionInv
<1>13. ExportsRight'
  <2>1. ExportRight(w, x)
    BY <1>5 DEF ExportRight, Jobs!Etl
  <2> QED
    BY <1>4, <2>1, ExportsKept
<1>14. \A v \in Worker : MaskedRight(slot[v])'
  <2> SUFFICES ASSUME NEW v \in Worker, NEW y, y = slot'[v] PROVE MaskedRight(slot[v])'
    OBVIOUS
  <2>1. y.pc # "idle" => kind[y.job] \notin Jobs!Mask
    BY <1>2, <1>11 DEF ExecutionInv, Masking
  <2> QED
    BY <2>1 DEF MaskedRight
<1>15. \A v \in Worker : LoadedRight(slot[v])'
  <2> SUFFICES ASSUME NEW v \in Worker, NEW y, y = slot'[v], y.pc = "fetch", kind[y.job] \in Jobs!Etl,
                      "shared" \notin mark[y.job], "twin" \notin mark[y.job]
               PROVE  IF kind[y.job] = "truncate" THEN table'[Jobs!Source] = y.out ELSE Ending(y.out, table'[Jobs!Source])
    BY DEF LoadedRight, Unshared
  <2>1. CASE v = w
    BY <1>1, <1>3, <1>5, <2>1
  <2>2. CASE v # w
    <3>1. Jobs!Active(v) /\ y.job = slot[v].job /\ y.job \in Jobs!Jobs
      BY <1>1, <1>11 DEF Jobs!Active, ExecutionInv
    <3>2. Jobs!OnTable(slot[w].job, slot[v].job)
      BY <3>1 DEF Jobs!OnTable, Jobs!Etl
    <3> QED
      BY <2>2, <3>1, <3>2 DEF JobInv, Overlaps
  <2> QED
    BY <2>1, <2>2
<1> QED
  BY <1>4, <1>7, <1>8, <1>9, <1>10, <1>12, <1>13, <1>14, <1>15 DEF JobInv

LEMMA EndingGrows ==
    ASSUME NEW S, NEW out \in Seq(S), NEW rows \in Seq(S), NEW e \in S
    PROVE  Ending(<<>>, rows) /\ (Ending(out, rows) => Ending(Append(out, e), Append(rows, e)))
<1>1. Len(out) \in Nat /\ Len(rows) \in Nat
  OBVIOUS
<1>2. /\ Len(Append(out, e)) = Len(out) + 1 /\ Append(out, e)[Len(out) + 1] = e
      /\ \A i \in 1 .. Len(out) : Append(out, e)[i] = out[i]
  BY Appended
<1>3. /\ Len(Append(rows, e)) = Len(rows) + 1 /\ Append(rows, e)[Len(rows) + 1] = e
      /\ \A i \in 1 .. Len(rows) : Append(rows, e)[i] = rows[i]
  BY Appended
<1>4. Ending(<<>>, rows)
  BY <1>1 DEF Ending
<1>5. ASSUME Ending(out, rows) PROVE Ending(Append(out, e), Append(rows, e))
  <2>1. Len(out) <= Len(rows) /\ \A i \in 1 .. Len(out) : rows[Len(rows) - Len(out) + i] = out[i]
    BY <1>5 DEF Ending
  <2>2. ASSUME NEW i \in 1 .. Len(out) + 1
        PROVE  Append(rows, e)[(Len(rows) + 1) - (Len(out) + 1) + i] = Append(out, e)[i]
    <3>1. CASE i = Len(out) + 1
      <4>1. (Len(rows) + 1) - (Len(out) + 1) + i = Len(rows) + 1
        BY <1>1, <3>1
      <4> QED
        BY <1>2, <1>3, <3>1, <4>1
    <3>2. CASE i # Len(out) + 1
      <4>1. i \in 1 .. Len(out) /\ Len(rows) - Len(out) + i \in 1 .. Len(rows)
        BY <1>1, <2>1, <3>2
      <4>2. (Len(rows) + 1) - (Len(out) + 1) + i = Len(rows) - Len(out) + i
        BY <1>1, <4>1
      <4> QED
        BY <1>2, <1>3, <2>1, <4>1, <4>2
    <3> QED
      BY <3>1, <3>2
  <2>3. Len(out) + 1 <= Len(rows) + 1
    BY <1>1, <2>1
  <2> DEFINE written == Append(out, e)
             loaded == Append(rows, e)
  <2>4. /\ Len(written) = Len(out) + 1 /\ Len(loaded) = Len(rows) + 1
        /\ \A i \in 1 .. Len(out) + 1 : loaded[(Len(rows) + 1) - (Len(out) + 1) + i] = written[i]
    BY <1>2, <1>3, <2>2
  <2> HIDE DEF written, loaded
  <2>5. Ending(written, loaded)
    BY <2>3, <2>4 DEF Ending
  <2> QED
    BY <2>5 DEF written, loaded
<1> QED
  BY <1>4, <1>5

LEMMA StepLoad ==
    ASSUME JobInv, NEW w \in Worker, Jobs!PrepareTarget(w) \/ Jobs!InsertBatch(w)
    PROVE  JobInv'
<1> DEFINE j == slot[w].job
<1>1. /\ slot[w].pc \in {"prepare", "fetch"} /\ kind[j] \in Jobs!Etl /\ UNCHANGED <<kind, row, mark, part, file>>
  BY DEF Jobs!PrepareTarget, Jobs!InsertBatch, Jobs!At, Jobs!Rest, Jobs!Files
<1>2. Jobs!Active(w)
  BY <1>1 DEF Jobs!Active
<1>3. /\ j \in Jobs!Jobs /\ slot[w] \in SlotOf /\ ExecutionInv(slot[w]) /\ ~slot[w].renamed
      /\ table[Jobs!Source] \in Seq({"first", "second"}) /\ table \in [Jobs!Names -> Contents] /\ LoadedRight(slot[w])
  BY <1>1, <1>2, EtlFacts DEF JobInv
<1>4. CASE Jobs!PrepareTarget(w)
  <2> DEFINE x == [slot[w] EXCEPT !.pc = "fetch"]
             rows == Jobs!Target(kind[j])
  <2>1. /\ slot[w].pc = "prepare" /\ slot' = [slot EXCEPT ![w] = x]
        /\ table' = [table EXCEPT ![Jobs!Source] = rows]
    BY <1>4 DEF Jobs!PrepareTarget, Jobs!Goto, Jobs!At, JobInv, JobTypes
  <2>2. /\ x \in SlotOf /\ x.pc = "fetch" /\ x.job = j /\ x.src = slot[w].src /\ (x.renamed <=> slot[w].renamed)
        /\ (x.created <=> slot[w].created) /\ x.out = slot[w].out
    BY <1>3, SlotEdits DEF Jobs!Pc
  <2> HIDE DEF x
  <2>3. x.out = <<>>
    BY <1>3, <2>1, <2>2 DEF ExecutionInv
  <2>4. /\ rows \in Seq({"first", "second"})
        /\ kind[j] = "truncate" => rows = <<>>
    BY <1>3 DEF Jobs!Target
  <2> HIDE DEF rows
  <2>5. Ending(<<>>, rows)
    BY <2>4, EndingGrows
  <2>6. ExecutionInv(x)
    BY <1>1, <1>3, <2>2 DEF ExecutionInv, EtlPc, Jobs!Mask, Jobs!Etl
  <2>7. Shifts(w, x)
    BY <2>1, <2>2 DEF Shifts
  <2> QED
    BY <1>1, <1>2, <2>1, <2>2, <2>3, <2>4, <2>5, <2>6, <2>7, LoadStep
<1>5. CASE Jobs!InsertBatch(w)
  <2> DEFINE out == slot[w].out
             e == Jobs!Result[Len(out) + 1]
             x == [slot[w] EXCEPT !.out = Append(out, e)]
             rows == Append(table[Jobs!Source], e)
  <2>1. /\ slot[w].pc = "fetch" /\ slot' = [slot EXCEPT ![w] = x] /\ Len(out) < Len(Jobs!Result)
        /\ table' = [table EXCEPT ![Jobs!Source] = rows]
    BY <1>5 DEF Jobs!InsertBatch, Jobs!At, JobInv, JobTypes
  <2>2. out \in Loaded
    BY <1>3 DEF SlotOf
  <2>3. /\ out \in Seq({"first", "second"}) /\ Append(out, e) \in Loaded /\ e \in {"first", "second"}
    BY <2>1, <2>2, LoadedRows
  <2>4. /\ x \in SlotOf /\ x.pc = "fetch" /\ x.job = j /\ x.src = slot[w].src /\ (x.renamed <=> slot[w].renamed)
        /\ (x.created <=> slot[w].created) /\ x.out = Append(out, e)
    BY <1>3, <2>1, <2>3 DEF SlotOf
  <2> HIDE DEF x, e
  <2>5. rows \in Seq({"first", "second"})
    BY <1>3, <2>3, Appended
  <2>6. ASSUME "shared" \notin mark[j], "twin" \notin mark[j]
        PROVE  IF kind[j] = "truncate" THEN rows = x.out ELSE Ending(x.out, rows)
    <3>1. IF kind[j] = "truncate" THEN table[Jobs!Source] = out ELSE Ending(out, table[Jobs!Source])
      BY <1>1, <1>3, <2>1, <2>6 DEF LoadedRight, Unshared
    <3>2. Ending(out, table[Jobs!Source]) => Ending(Append(out, e), rows)
      BY <1>3, <2>3, EndingGrows
    <3> QED
      BY <2>4, <3>1, <3>2
  <2> HIDE DEF rows
  <2>7. ExecutionInv(x)
    BY <1>1, <1>3, <2>4 DEF ExecutionInv, EtlPc, Jobs!Mask, Jobs!Etl
  <2>8. Shifts(w, x)
    BY <2>1, <2>4 DEF Shifts
  <2> QED
    BY <1>1, <1>2, <2>1, <2>4, <2>5, <2>6, <2>7, <2>8, LoadStep
<1> QED
  BY <1>4, <1>5

-----------------------------------------------------------------------------
(* Exports. *)

\* The job of an export, and what is behind its names, are of no other job.
LEMMA ExportsMove ==
    ASSUME JobInv, NEW w \in Worker, NEW x, Jobs!Active(w), Shifts(w, x), NEW j, j = slot[w].job,
           kind' = kind, mark' = mark,
           \A k \in Jobs!Jobs : k # j => row'[k] = row[k] /\ part'[k] = part[k] /\ file'[k] = file[k],
           ExportRight(w, x)'
    PROVE  ExportsRight'
<1>1. /\ slot'[w] = x /\ \A v \in Worker : v # w => slot'[v] = slot[v]
      /\ j \in Jobs!Jobs
  BY Moved
<1> SUFFICES ASSUME NEW v \in Worker, NEW y, y = slot'[v] PROVE ExportRight(v, slot[v])'
  BY DEF ExportsRight
<1>2. CASE v = w
  BY <1>1, <1>2
<1>3. CASE v # w /\ y.pc = "idle"
  BY <1>3 DEF ExportRight
<1>4. CASE v # w /\ y.pc # "idle"
  <2>1. y = slot[v] /\ Jobs!Active(v) /\ y.job \in Jobs!Jobs
    BY <1>1, <1>4 DEF JobInv, ExecutionInv, Jobs!Active
  <2>2. CASE y.job = j
    <3>1. "twin" \in mark[y.job]
      BY <1>4, <2>1, <2>2 DEF JobInv, Overlaps
    <3> QED
      BY <3>1 DEF ExportRight
  <2>3. CASE y.job # j
    <3>1. ExportRight(v, y)
      BY <2>1 DEF JobInv, ExportsRight
    <3> QED
      BY <2>1, <2>3, <3>1 DEF ExportRight
  <2> QED
    BY <2>2, <2>3
<1> QED
  BY <1>2, <1>3, <1>4

LEMMA ExportStep ==
    ASSUME JobInv, NEW w \in Worker, NEW x, Jobs!Active(w), Shifts(w, x), NEW j, j = slot[w].job, kind[j] = "export",
           UNCHANGED <<kind, mark, table>>, Grows, Spared',
           part' \in [Jobs!Jobs -> Worker \cup {Jobs!NoOne}], DOMAIN file' = Jobs!Jobs,
           \A k \in Jobs!Jobs : k # j => row'[k] = row[k] /\ part'[k] = part[k] /\ file'[k] = file[k],
           ExecutionInv(x), ExportRight(w, x)'
    PROVE  JobInv'
<1>1. ExportsRight'
  BY ExportsMove
<1>2. x.pc # "idle" => kind[x.job] = "export"
  BY IdleFields DEF Shifts
<1>3. ~x.renamed /\ ~Holds(x) /\ MaskedRight(x) /\ LoadedRight(x)
  BY <1>2 DEF ExecutionInv, Holds, MaskedRight, LoadedRight, Jobs!Mask, Jobs!Etl
<1>4. ~GivesBackLater(slot[w])
  BY DEF JobInv, ExecutionInv, GivesBackLater
<1> QED
  BY <1>1, <1>3, <1>4, QuietStep

\* An export goes on to another place.
LEMMA ExportGoes ==
    ASSUME JobInv, NEW w \in Worker, NEW j, j = slot[w].job, kind[j] = "export", Jobs!Active(w),
           NEW pc \in {"open", "fetch", "finish", "failing", "ack"}, Jobs!Goto(w, pc), pc = "open" => slot[w].pc = "claim",
           UNCHANGED <<kind, mark, table>>, Grows, Spared',
           part' \in [Jobs!Jobs -> Worker \cup {Jobs!NoOne}], DOMAIN file' = Jobs!Jobs,
           \A k \in Jobs!Jobs : k # j => row'[k] = row[k] /\ part'[k] = part[k] /\ file'[k] = file[k],
           "twin" \notin mark[j] =>
               /\ pc \in {"open", "fetch", "finish", "failing"} => row'[j].state # "succeeded"
               /\ pc = "fetch" => part'[j] \in {w, Jobs!NoOne}
               /\ pc = "finish" => file'[j] = Jobs!Result
    PROVE  JobInv'
<1>1. j \in Jobs!Jobs /\ slot[w] \in SlotOf /\ ExecutionInv(slot[w])
  BY DEF JobInv, JobTypes, ExecutionInv, Jobs!Active
<1>0. PICK x : x = [slot[w] EXCEPT !.pc = pc]
  OBVIOUS
<1>2. pc \in Jobs!Pc
  BY DEF Jobs!Pc
<1>3. /\ x \in SlotOf /\ x.pc = pc /\ x.job = j /\ (x.renamed <=> slot[w].renamed)
      /\ (x.created <=> slot[w].created) /\ x.out = slot[w].out
  BY <1>0, <1>1, <1>2, SlotEdits
<1>4. slot' = [slot EXCEPT ![w] = x]
  BY <1>0 DEF Jobs!Goto, JobInv, JobTypes
<1>5. Shifts(w, x)
  BY <1>3, <1>4 DEF Shifts
<1>6. ExecutionInv(x)
  BY <1>1, <1>3 DEF ExecutionInv, ExportPc, Jobs!Mask, Jobs!Etl
<1>7. ExportRight(w, x)'
  <2>1. mark' = mark
    OBVIOUS
  <2> QED
    BY <1>3, <2>1 DEF ExportRight
<1> QED
  BY <1>5, <1>6, <1>7, ExportStep

\* Edits of the row and of the files of an export.
LEMMA ExportEdits ==
    ASSUME JobInv, NEW j \in Jobs!Jobs, NEW w \in Worker, UNCHANGED <<kind, mark>>,
           row' = row \/ \E s \in States : Jobs!Becomes(j, s),
           part' = part \/ \E o \in {w, Jobs!NoOne} : part' = [part EXCEPT ![j] = o],
           file' = file \/ \E f : file' = [file EXCEPT ![j] = f]
    PROVE  /\ Grows /\ Spared' /\ part' \in [Jobs!Jobs -> Worker \cup {Jobs!NoOne}] /\ DOMAIN file' = Jobs!Jobs
           /\ \A k \in Jobs!Jobs : k # j => row'[k] = row[k] /\ part'[k] = part[k] /\ file'[k] = file[k]
<1>6. /\ Grows /\ Spared' /\ \A k \in Jobs!Jobs : k # j => row'[k] = row[k]
  <2>1. CASE row' = row
    BY <2>1, SameJobs
  <2>2. CASE \E s \in States : Jobs!Becomes(j, s)
    BY <2>2, Became
  <2> QED
    BY <2>1, <2>2
<1>7. /\ part' \in [Jobs!Jobs -> Worker \cup {Jobs!NoOne}]
      /\ \A k \in Jobs!Jobs : k # j => part'[k] = part[k]
  BY DEF JobInv, JobTypes
<1>8. DOMAIN file' = Jobs!Jobs /\ \A k \in Jobs!Jobs : k # j => file'[k] = file[k]
  BY DEF JobInv, JobTypes
<1> QED
  BY <1>6, <1>7, <1>8

LEMMA StepExportWork ==
    ASSUME JobInv, NEW w \in Worker, NEW j, j = slot[w].job,
           Jobs!Claim(w) \/ Jobs!Open(w) \/ Jobs!Progress(w) \/ Jobs!Publish(w) \/ Jobs!FinishExport(w) \/ Jobs!ExportBreaks(w) \/ Jobs!FailExport(w)
    PROVE  JobInv'
<1>1. /\ UNCHANGED <<kind, mark, table>>
      /\ slot[w].pc \in {"claim", "open", "fetch", "progress", "finish", "failing"}
      /\ slot[w].pc \in {"fetch", "finish", "failing"} => kind[j] = "export"
  BY DEF Jobs!Claim, Jobs!Open, Jobs!Progress, Jobs!Publish, Jobs!FinishExport, Jobs!ExportBreaks, Jobs!FailExport, Jobs!Others, Jobs!At
<1>2. /\ j \in Jobs!Jobs /\ slot[w] \in SlotOf /\ ExecutionInv(slot[w]) /\ ExportRight(w, slot[w]) /\ Jobs!Active(w)
      /\ row \in [Jobs!Jobs -> [state : States, cancel : BOOLEAN]] /\ part \in [Jobs!Jobs -> Worker \cup {Jobs!NoOne}]
      /\ DOMAIN file = Jobs!Jobs
  BY <1>1 DEF JobInv, JobTypes, ExecutionInv, Jobs!Active, ExportsRight
<1>3. kind[j] = "export"
  <2>1. kind[j] \in Jobs!Kind
    BY <1>2, KindFacts DEF JobInv, JobTypes
  <2> QED
    BY <1>1, <1>2, <2>1 DEF ExecutionInv, Jobs!Kind, MaskPc, Jobs!MaskSteps, EtlPc, Jobs!Mask, Jobs!Etl
<1>4. "twin" \notin mark[j] =>
         /\ slot[w].pc \in {"open", "fetch", "progress", "finish", "failing"} => row[j].state # "succeeded"
         /\ slot[w].pc \in {"fetch", "progress"} => part[j] \in {w, Jobs!NoOne}
         /\ slot[w].pc = "finish" => file[j] = Jobs!Result
  BY <1>1, <1>3 DEF ExportRight, JobInv, ExportsRight
<1>5. CASE Jobs!Claim(w)
  <2>1. slot[w].pc = "claim" /\ Jobs!Becomes(j, "running") /\ Jobs!Goto(w, "open") /\ part' = part /\ file' = file
    BY <1>5 DEF Jobs!Claim, Jobs!Files
  <2>2. row'[j].state = "running" /\ "running" \in States
    BY <1>2, <2>1 DEF Jobs!Becomes, States, Jobs!RunningStates
  <2>3. /\ Grows /\ Spared' /\ part' \in [Jobs!Jobs -> Worker \cup {Jobs!NoOne}] /\ DOMAIN file' = Jobs!Jobs
        /\ \A k \in Jobs!Jobs : k # j => row'[k] = row[k] /\ part'[k] = part[k] /\ file'[k] = file[k]
    BY <1>1, <1>2, <2>1, <2>2, ExportEdits
  <2> QED
    BY <1>1, <1>2, <1>3, <2>1, <2>2, <2>3, ExportGoes
<1>6. CASE Jobs!Open(w)
  <2>1. slot[w].pc = "open" /\ row' = row /\ Jobs!Goto(w, "fetch") /\ part' = [part EXCEPT ![j] = w] /\ file' = file
    BY <1>6 DEF Jobs!Open
  <2>2. part'[j] = w
    BY <1>2, <2>1
  <2>3. /\ Grows /\ Spared' /\ part' \in [Jobs!Jobs -> Worker \cup {Jobs!NoOne}] /\ DOMAIN file' = Jobs!Jobs
        /\ \A k \in Jobs!Jobs : k # j => row'[k] = row[k] /\ part'[k] = part[k] /\ file'[k] = file[k]
    BY <1>1, <1>2, <2>1, ExportEdits
  <2> QED
    BY <1>1, <1>2, <1>3, <1>4, <2>1, <2>2, <2>3, ExportGoes
<1>7. CASE Jobs!Progress(w)
  <2>1. PICK pc \in {"ack", "fetch"} :
           /\ slot[w].pc = "progress" /\ row' = row /\ Jobs!Goto(w, pc) /\ file' = file
           /\ part' = part \/ (pc = "ack" /\ part' = [part EXCEPT ![j] = Jobs!NoOne])
    BY <1>7 DEF Jobs!Progress
  <2>2. pc = "fetch" => part'[j] = part[j]
    BY <2>1
  <2>3. /\ Grows /\ Spared' /\ part' \in [Jobs!Jobs -> Worker \cup {Jobs!NoOne}] /\ DOMAIN file' = Jobs!Jobs
        /\ \A k \in Jobs!Jobs : k # j => row'[k] = row[k] /\ part'[k] = part[k] /\ file'[k] = file[k]
    BY <1>1, <1>2, <2>1, ExportEdits
  <2> QED
    BY <1>1, <1>2, <1>3, <1>4, <2>1, <2>2, <2>3, ExportGoes
<1>8. CASE Jobs!Publish(w)
  <2>1. slot[w].pc = "fetch" /\ Len(slot[w].out) = Len(Jobs!Result) /\ row' = row
    BY <1>8 DEF Jobs!Publish, Jobs!At
  <2>2. CASE part[j] = Jobs!NoOne
    <3>1. Jobs!Goto(w, "failing") /\ part' = part /\ file' = file
      BY <1>8, <2>2 DEF Jobs!Publish, Jobs!Files
    <3>2. /\ Grows /\ Spared' /\ part' \in [Jobs!Jobs -> Worker \cup {Jobs!NoOne}] /\ DOMAIN file' = Jobs!Jobs
          /\ \A k \in Jobs!Jobs : k # j => row'[k] = row[k] /\ part'[k] = part[k] /\ file'[k] = file[k]
      BY <1>1, <1>2, <2>1, <3>1, ExportEdits
    <3> QED
      BY <1>1, <1>2, <1>3, <1>4, <2>1, <3>1, <3>2, ExportGoes
  <2>3. CASE part[j] # Jobs!NoOne
    <3>1. Jobs!Goto(w, "finish") /\ part' = [part EXCEPT ![j] = Jobs!NoOne] /\ file' = [file EXCEPT ![j] = Jobs!WrittenBy(part[j])]
      BY <1>8, <2>3 DEF Jobs!Publish
    <3>2. /\ Grows /\ Spared' /\ part' \in [Jobs!Jobs -> Worker \cup {Jobs!NoOne}] /\ DOMAIN file' = Jobs!Jobs
          /\ \A k \in Jobs!Jobs : k # j => row'[k] = row[k] /\ part'[k] = part[k] /\ file'[k] = file[k]
      BY <1>1, <1>2, <2>1, <3>1, ExportEdits
    <3>3. "twin" \notin mark[j] => file'[j] = Jobs!Result
      <4>1. file'[j] = Jobs!WrittenBy(part[j])
        BY <1>2, <3>1
      <4>2. slot[w].out = Jobs!Result
        BY <1>2, <2>1, LoadedRows DEF SlotOf
      <4> QED
        BY <1>2, <1>4, <2>1, <2>3, <4>1, <4>2 DEF Jobs!WrittenBy
    <3> QED
      BY <1>1, <1>2, <1>3, <1>4, <2>1, <3>1, <3>2, <3>3, ExportGoes
  <2> QED
    BY <2>2, <2>3
<1>9. CASE Jobs!FinishExport(w) \/ Jobs!FailExport(w)
  <2>1. PICK s \in States : Jobs!Becomes(j, s) /\ Jobs!Goto(w, "ack") /\ part' = part /\ file' = file
    BY <1>9 DEF Jobs!FinishExport, Jobs!FailExport, Jobs!Files, States, Jobs!Terminal
  <2>2. /\ Grows /\ Spared' /\ part' \in [Jobs!Jobs -> Worker \cup {Jobs!NoOne}] /\ DOMAIN file' = Jobs!Jobs
        /\ \A k \in Jobs!Jobs : k # j => row'[k] = row[k] /\ part'[k] = part[k] /\ file'[k] = file[k]
    BY <1>1, <1>2, <2>1, ExportEdits
  <2> QED
    BY <1>1, <1>2, <1>3, <2>1, <2>2, ExportGoes
<1>10. CASE Jobs!ExportBreaks(w)
  <2>1. /\ slot[w].pc \in {"open", "fetch"} /\ row' = row /\ Jobs!Goto(w, "failing")
        /\ part' = [part EXCEPT ![j] = Jobs!NoOne] /\ file' = file
    BY <1>10 DEF Jobs!ExportBreaks, Jobs!At
  <2>2. /\ Grows /\ Spared' /\ part' \in [Jobs!Jobs -> Worker \cup {Jobs!NoOne}] /\ DOMAIN file' = Jobs!Jobs
        /\ \A k \in Jobs!Jobs : k # j => row'[k] = row[k] /\ part'[k] = part[k] /\ file'[k] = file[k]
    BY <1>1, <1>2, <2>1, ExportEdits
  <2> QED
    BY <1>1, <1>2, <1>3, <1>4, <2>1, <2>2, ExportGoes
<1> QED
  BY <1>5, <1>6, <1>7, <1>8, <1>9, <1>10

LEMMA StepFetchBlock ==
    ASSUME JobInv, NEW w \in Worker, NEW j, j = slot[w].job, Jobs!FetchBlock(w)
    PROVE  JobInv'
<1>1. /\ slot[w].pc = "fetch" /\ kind[j] = "export" /\ Len(slot[w].out) < Len(Jobs!Result)
      /\ UNCHANGED <<kind, mark, table, row, part, file>>
      /\ slot' = [slot EXCEPT ![w].out = Append(@, Jobs!Result[Len(slot[w].out) + 1]), ![w].pc = "progress"]
  BY DEF Jobs!FetchBlock, Jobs!At, Jobs!Others, Jobs!Files
<1>2. /\ j \in Jobs!Jobs /\ slot[w] \in SlotOf /\ ExecutionInv(slot[w]) /\ Jobs!Active(w)
      /\ part \in [Jobs!Jobs -> Worker \cup {Jobs!NoOne}] /\ DOMAIN file = Jobs!Jobs
  BY <1>1 DEF JobInv, JobTypes, ExecutionInv, Jobs!Active
<1> DEFINE out == Append(slot[w].out, Jobs!Result[Len(slot[w].out) + 1])
<1>3. out \in Loaded
  BY <1>1, <1>2, LoadedRows DEF SlotOf
<1>4. PICK x : x = [[slot[w] EXCEPT !.out = out] EXCEPT !.pc = "progress"]
  OBVIOUS
<1>5. slot' = [slot EXCEPT ![w] = x]
  <2>1. slot' = [slot EXCEPT ![w] = [slot[w] EXCEPT !.out = out, !.pc = "progress"]]
    BY <1>1 DEF JobInv, JobTypes
  <2> QED
    BY <1>2, <1>4, <2>1 DEF SlotOf
<1> HIDE DEF out
<1>6. /\ x \in SlotOf /\ x.pc = "progress" /\ x.job = j /\ (x.renamed <=> slot[w].renamed)
      /\ (x.created <=> slot[w].created)
  BY <1>2, <1>3, <1>4 DEF SlotOf, Jobs!Pc
<1>7. Shifts(w, x)
  BY <1>5, <1>6 DEF Shifts
<1>8. ExecutionInv(x)
  BY <1>1, <1>2, <1>6 DEF ExecutionInv, ExportPc, Jobs!Mask, Jobs!Etl
<1>9. ExportRight(w, slot[w])
  BY DEF JobInv, ExportsRight
<1>10. ExportRight(w, x)'
  BY <1>1, <1>6, <1>9 DEF ExportRight
<1>11. Grows /\ Spared'
  BY <1>1, SameJobs
<1> QED
  BY <1>1, <1>2, <1>7, <1>8, <1>10, <1>11, ExportStep

-----------------------------------------------------------------------------
(* Ends of executions, requests, messages. *)

LEMMA StepEnds ==
    ASSUME JobInv, NEW w \in Worker, NEW j, j = slot[w].job, Jobs!Ack(w) \/ Jobs!Crash(w)
    PROVE  JobInv'
<1>1. /\ Jobs!Active(w) /\ slot' = [slot EXCEPT ![w] = Jobs!Idle]
      /\ UNCHANGED <<kind, row, table, part, file>>
      /\ mark' = mark \/ \E ms \in SUBSET {"abandoned", "nameless"} : Jobs!Mark(j, ms)
      /\ slot[w].pc = "ack" \/ (slot[w].renamed => \E ms : "nameless" \in ms /\ Jobs!Mark(j, ms))
  BY DEF Jobs!Ack, Jobs!Crash, Jobs!Files, Jobs!Active
<1>2. j \in Jobs!Jobs /\ mark \in [Jobs!Jobs -> SUBSET Jobs!Marks]
  BY <1>1 DEF JobInv, JobTypes, ExecutionInv, Jobs!Active
<1>3. Shifts(w, Jobs!Idle)
  BY <1>1, IdleFields DEF Shifts
<1>4. /\ mark' \in [Jobs!Jobs -> SUBSET Jobs!Marks] /\ \A k \in Jobs!Jobs : mark[k] \subseteq mark'[k]
      /\ \A k \in Jobs!Jobs, m \in {"spared", "touched"} : m \in mark'[k] => m \in mark[k]
  <2>1. CASE mark' = mark
    BY <1>2, <2>1
  <2>2. CASE \E ms \in SUBSET {"abandoned", "nameless"} : Jobs!Mark(j, ms)
    BY ZenonT(60), <1>2, <2>2 DEF Jobs!Mark, Jobs!Marks
  <2> QED
    BY <1>1, <2>1, <2>2
<1>5. Grows /\ Spared'
  BY <1>1, <1>4 DEF JobInv, JobTypes, Grows, Spared
<1>6. GivesBackLater(slot[w]) => Excused(j)'
  <2> SUFFICES ASSUME GivesBackLater(slot[w]) PROVE "nameless" \in mark'[j]
    BY DEF Excused
  <2>1. PICK ms : "nameless" \in ms /\ Jobs!Mark(j, ms)
    BY <1>1 DEF GivesBackLater
  <2> QED
    BY <1>2, <2>1 DEF Jobs!Mark
<1>7. ExecutionInv(Jobs!Idle) /\ ~Holds(Jobs!Idle) /\ MaskedRight(Jobs!Idle) /\ LoadedRight(Jobs!Idle) /\ ExportRight(w, Jobs!Idle)
  BY IdleFields DEF Holds, MaskedRight, LoadedRight, ExportRight
<1>8. ExportsRight'
  BY <1>1, <1>3, <1>5, <1>7, ExportsKept
<1> QED
  BY <1>1, <1>3, <1>5, <1>6, <1>7, <1>8, QuietStep DEF JobInv, JobTypes

\* Rows and messages change; the executions, the tables and the files do not.
LEMMA RequestStep ==
    ASSUME JobInv, Grows, Spared', UNCHANGED <<slot, table, part>>, DOMAIN file' = Jobs!Jobs, ExportsRight'
    PROVE  JobInv'
<1>1. \A k : Jobs!Exists(k)' <=> Jobs!Exists(k)
  BY DEF Jobs!Exists
<1>2. JobTypes'
  BY DEF JobInv, JobTypes, Grows, Masking, Contents
<1>3. \A v \in Worker : slot[v].pc # "idle" => slot[v].job \in Jobs!Jobs
  BY DEF JobInv, ExecutionInv
<1>4. Overlaps'
  BY <1>3 DEF JobInv, Overlaps, Jobs!Active, Jobs!OnTable, Grows
<1>5. \A v \in Worker : Holds(slot[v])' <=> Holds(slot[v])
  BY DEF Holds, Grows
<1>6. OneHolds'
  BY <1>1, <1>5 DEF JobInv, OneHolds, Jobs!Exists
<1>7. Kept'
  <2>1. \A k \in Jobs!Jobs : Excused(k) => Excused(k)'
    BY DEF Excused, Grows
  <2> QED
    BY <1>1, <2>1 DEF JobInv, Kept, GivesBackLater
<1>8. \A v \in Worker : ExecutionInv(slot[v])' /\ MaskedRight(slot[v])' /\ LoadedRight(slot[v])'
  <2> SUFFICES ASSUME NEW v \in Worker, NEW y, y = slot[v]
               PROVE  ExecutionInv(slot[v])' /\ MaskedRight(slot[v])' /\ LoadedRight(slot[v])'
    OBVIOUS
  <2>1. /\ ExecutionInv(y) /\ MaskedRight(y) /\ LoadedRight(y) /\ (y.pc # "idle" => y.job \in Jobs!Jobs)
        /\ slot'[v] = y
    BY <1>3 DEF JobInv
  <2>2. ExecutionInv(slot[v])'
    BY <2>1 DEF ExecutionInv, Grows
  <2>3. MaskedRight(slot[v])'
    BY <2>1 DEF MaskedRight, Unshared, Jobs!Output, Jobs!Exists, Grows
  <2>4. LoadedRight(slot[v])'
    BY <2>1 DEF LoadedRight, Unshared, Grows
  <2> QED
    BY <2>2, <2>3, <2>4
<1> QED
  BY <1>2, <1>4, <1>6, <1>7, <1>8 DEF JobInv

\* No state an export has not had becomes succeeded.
LEMMA ExportsStay ==
    ASSUME JobInv, Grows, UNCHANGED <<slot, part, file>>,
           \A k \in Jobs!Jobs : row'[k].state = "succeeded" => row[k].state = "succeeded"
    PROVE  ExportsRight'
<1> SUFFICES ASSUME NEW v \in Worker, NEW y, y = slot'[v] PROVE ExportRight(v, slot[v])'
  BY DEF ExportsRight
<1>1. ExportRight(v, y) /\ (y.pc # "idle" => y.job \in Jobs!Jobs)
  BY DEF JobInv, ExportsRight, ExecutionInv
<1> QED
  BY <1>1 DEF ExportRight, Grows

LEMMA StepRequest ==
    ASSUME JobInv, NEW j \in Jobs!Jobs,
           \/ Jobs!Check(j) \/ Jobs!InsertMask(j) \/ Jobs!InsertEtl(j) \/ Jobs!InsertExport(j) \/ Jobs!Enqueue(j) \/ Jobs!EnqueueFails(j)
           \/ Jobs!CancelMask(j) \/ Jobs!CancelExport(j) \/ Jobs!Discard(j)
    PROVE  JobInv'
<1>1. /\ UNCHANGED <<kind, slot, table, part, file>>
      /\ (row' = row /\ (mark' = mark \/ \E ms \in SUBSET {"revoked"} : Jobs!Mark(j, ms))) \/ (mark' = mark /\ Jobs!Becomes(j, "queued"))
  BY DEF Jobs!Check, Jobs!InsertMask, Jobs!InsertEtl, Jobs!InsertExport, Jobs!Inserted, Jobs!Enqueue, Jobs!EnqueueFails, Jobs!CancelMask, Jobs!CancelExport,
         Jobs!CancelRead, Jobs!Discard, Jobs!Becomes, Jobs!Files
<1>2. Grows /\ Spared' /\ \A k \in Jobs!Jobs : row'[k].state = "succeeded" => row[k].state = "succeeded"
  <2>1. CASE mark' = mark /\ Jobs!Becomes(j, "queued")
    BY <1>1, <2>1, Became DEF States, Jobs!RunningStates
  <2>2. CASE mark' = mark /\ row' = row
    BY <1>1, <2>2, SameJobs
  <2>3. CASE row' = row /\ \E ms \in SUBSET {"revoked"} : Jobs!Mark(j, ms)
    <3>1. /\ mark' \in [Jobs!Jobs -> SUBSET Jobs!Marks] /\ \A k \in Jobs!Jobs : mark[k] \subseteq mark'[k]
          /\ \A k \in Jobs!Jobs, m \in {"spared", "touched"} : m \in mark'[k] => m \in mark[k]
      BY <2>3 DEF Jobs!Mark, Jobs!Marks, JobInv, JobTypes
    <3> QED
      BY <1>1, <2>3, <3>1 DEF JobInv, JobTypes, Grows, Spared
  <2> QED
    BY <1>1, <2>1, <2>2, <2>3
<1>3. ExportsRight'
  BY <1>1, <1>2, ExportsStay
<1> QED
  BY <1>1, <1>2, <1>3, RequestStep DEF JobInv, JobTypes

LEMMA StepCancelWrite ==
    ASSUME JobInv, NEW j \in Jobs!Jobs, Jobs!CancelWrite(j)
    PROVE  JobInv'
<1>0. PICK ms : ms = (IF row[j].state \in Jobs!Terminal THEN {"overtaken"} ELSE {})
                     \cup (IF "touched" \in mark[j] THEN {} ELSE {"spared"})
  OBVIOUS
<1>1. UNCHANGED <<kind, slot, table, part, file>> /\ Jobs!Mark(j, ms)
  BY <1>0 DEF Jobs!CancelWrite, Jobs!Files
<1>2. row \in [Jobs!Jobs -> [state : States, cancel : BOOLEAN]] /\ mark \in [Jobs!Jobs -> SUBSET Jobs!Marks]
  BY DEF JobInv, JobTypes
<1>3. /\ row' \in [Jobs!Jobs -> [state : States, cancel : BOOLEAN]] /\ (row'[j].cancel <=> kind[j] \in Jobs!Mask)
      /\ row'[j].state # "succeeded" /\ \A k \in Jobs!Jobs : k # j => row'[k] = row[k]
  <2>1. PICK s : s = IF kind[j] = "export" \/ canc[j] = "queued" THEN "cancelled" ELSE "cancelling"
    OBVIOUS
  <2>2. s \in {"cancelled", "cancelling"}
    BY <2>1
  <2>3. s \in States /\ s # "succeeded"
    BY <2>2 DEF States, Jobs!RunningStates, Jobs!Terminal
  <2>4. row' = [row EXCEPT ![j] = [state |-> s, cancel |-> kind[j] \in Jobs!Mask]]
    BY <2>1 DEF Jobs!CancelWrite
  <2>5. CASE kind[j] \in Jobs!Mask
    <3>1. row' = [row EXCEPT ![j] = [state |-> s, cancel |-> TRUE]]
      BY <2>4, <2>5
    <3> QED
      BY <1>2, <2>3, <2>5, <3>1
  <2>6. CASE kind[j] \notin Jobs!Mask
    <3>0. (kind[j] \in Jobs!Mask) = FALSE
      BY <2>6
    <3>1. row' = [row EXCEPT ![j] = [state |-> s, cancel |-> FALSE]]
      BY <2>4, <3>0, Zenon
    <3> QED
      BY <1>2, <2>3, <2>6, <3>1
  <2> QED
    BY <2>5, <2>6
<1>4. /\ mark' \in [Jobs!Jobs -> SUBSET Jobs!Marks] /\ \A k \in Jobs!Jobs : mark[k] \subseteq mark'[k] /\ (k # j => mark'[k] = mark[k])
      /\ "touched" \in mark'[j] => "touched" \in mark[j]
      /\ "spared" \in mark'[j] => "spared" \in mark[j] \/ "touched" \notin mark[j]
  <2>1. mark' = [mark EXCEPT ![j] = mark[j] \cup ms]
    BY <1>1 DEF Jobs!Mark
  <2>2. ms \subseteq Jobs!Marks /\ "touched" \notin ms /\ ("spared" \in ms => "touched" \notin mark[j])
    BY <1>0 DEF Jobs!Marks
  <2>3. mark'[j] = mark[j] \cup ms
    BY <1>2, <2>1
  <2> QED
    BY <1>2, <2>1, <2>2, <2>3
<1>5. Grows
  BY <1>1, <1>3, <1>4 DEF Grows, JobInv, Spared
<1>6. Spared'
  BY <1>1, <1>3, <1>4 DEF JobInv, Spared
<1>7. ExportsRight'
  BY <1>1, <1>3, <1>5, ExportsStay
<1> QED
  BY <1>1, <1>5, <1>6, <1>7, RequestStep DEF JobInv, JobTypes

LEMMA StepExpire ==
    ASSUME JobInv, NEW j \in Jobs!Jobs, Jobs!Expire(j)
    PROVE  JobInv'
<1>1. /\ UNCHANGED <<kind, slot, table, part, mark>> /\ kind[j] = "export" /\ row[j].state = "succeeded"
      /\ Jobs!Becomes(j, "expired") /\ file' = [file EXCEPT ![j] = Jobs!NoFile]
  BY DEF Jobs!Expire
<1>2. /\ Grows /\ Spared' /\ row'[j].state = "expired" /\ \A k \in Jobs!Jobs : k # j => row'[k] = row[k]
  BY <1>1, Became DEF States, Jobs!Terminal
<1>3. DOMAIN file' = Jobs!Jobs /\ \A k \in Jobs!Jobs : k # j => file'[k] = file[k]
  BY <1>1 DEF JobInv, JobTypes
<1>4. ExportsRight'
  <2> SUFFICES ASSUME NEW v \in Worker, NEW y, y = slot'[v] PROVE ExportRight(v, slot[v])'
    BY DEF ExportsRight
  <2>1. ExportRight(v, y) /\ (y.pc # "idle" => y.job \in Jobs!Jobs)
    BY <1>1 DEF JobInv, ExportsRight, ExecutionInv
  <2>2. CASE y.job = j
    BY <1>1, <1>2, <2>1, <2>2 DEF ExportRight
  <2>3. CASE y.job # j
    BY <1>1, <1>2, <1>3, <2>1, <2>3 DEF ExportRight
  <2> QED
    BY <2>2, <2>3
<1> QED
  BY <1>1, <1>2, <1>3, <1>4, RequestStep

LEMMA StepReceive ==
    ASSUME JobInv, NEW j \in Jobs!Jobs, Jobs!Receive(j)
    PROVE  JobInv'
<1>1. CASE UNCHANGED <<slot, mark>>
  <2>1. UNCHANGED <<kind, row, table, part, file>>
    BY DEF Jobs!Receive, Jobs!Files
  <2>2. Grows /\ Spared'
    BY <1>1, <2>1, SameJobs
  <2>3. ExportsRight'
    BY <1>1, <2>1, <2>2, ExportsStay
  <2> QED
    BY <1>1, <2>1, <2>2, <2>3, RequestStep DEF JobInv, JobTypes
<1>2. CASE ~UNCHANGED <<slot, mark>>
  <2> DEFINE twins == \E v \in Worker : Jobs!Active(v) /\ slot[v].job = j
             others == {slot[v].job : v \in {u \in Worker : Jobs!Active(u) /\ slot[u].job # j /\ Jobs!OnTable(slot[u].job, j)}}
  <2>0. PICK w \in Worker : w = Jobs!Free /\ ~Jobs!Active(w)
    BY DEF Jobs!Receive, Jobs!Free
  <2>1. PICK x : /\ x = [Jobs!Idle EXCEPT !.pc = IF kind[j] = "export" THEN "claim" ELSE "start", !.job = j, !.seen = row[j].cancel]
                 /\ slot' = [slot EXCEPT ![w] = x]
    BY <1>2, <2>0 DEF Jobs!Receive
  <2>2. /\ mark' = [k \in Jobs!Jobs |-> mark[k]
                  \cup (IF k \in others \/ (k = j /\ others # {}) THEN {"shared"} ELSE {})
                  \cup (IF k = j /\ twins THEN {"twin"} ELSE {})]
        /\ UNCHANGED <<kind, row, table, part, file>>
    BY <1>2 DEF Jobs!Receive, Jobs!Files
  <2>3. kind \in [Jobs!Jobs -> Jobs!Kind] /\ mark \in [Jobs!Jobs -> SUBSET Jobs!Marks] /\ slot \in [Worker -> SlotOf] /\ row[j].cancel \in BOOLEAN
    BY KindFacts DEF JobInv, JobTypes
  <2>4. /\ x.pc = (IF kind[j] = "export" THEN "claim" ELSE "start") /\ x.job = j /\ ~x.renamed /\ ~x.created
        /\ x.out = <<>> /\ x \in SlotOf
    BY <2>1, <2>3 DEF Jobs!Idle, SlotOf, Jobs!Pc, Loaded
  <2>5. /\ slot'[w] = x /\ \A v \in Worker : v # w => slot'[v] = slot[v]
        /\ slot' \in [Worker -> SlotOf]
    BY <2>1, <2>3, <2>4
  <2>6. /\ mark' \in [Jobs!Jobs -> SUBSET Jobs!Marks] /\ \A k \in Jobs!Jobs : mark[k] \subseteq mark'[k]
        /\ \A k \in Jobs!Jobs, m \in {"spared", "touched"} : m \in mark'[k] => m \in mark[k]
        /\ \A k \in Jobs!Jobs : k \in others => "shared" \in mark'[k] /\ "shared" \in mark'[j]
        /\ twins => "twin" \in mark'[j]
    BY <2>2, <2>3 DEF Jobs!Marks
  <2> HIDE DEF twins, others
  <2>7. Grows /\ Spared'
    BY <2>2, <2>6 DEF JobInv, JobTypes, Grows, Spared
  <2>8. \A v \in Worker : Jobs!Active(v) => slot[v].job \in Jobs!Jobs
    BY DEF JobInv, ExecutionInv, Jobs!Active
  <2>9. /\ \A v \in Worker : Jobs!Active(v) /\ slot[v].job = j => "twin" \in mark'[j]
        /\ \A v \in Worker : Jobs!Active(v) /\ slot[v].job # j /\ Jobs!OnTable(slot[v].job, j) =>
               "shared" \in mark'[slot[v].job] /\ "shared" \in mark'[j]
    BY <2>6, <2>8 DEF twins, others
  <2>10. ExecutionInv(x) /\ ~Holds(x) /\ MaskedRight(x) /\ LoadedRight(x) /\ ExportRight(w, x)
    BY <2>3, <2>4 DEF ExecutionInv, Holds, MaskedRight, LoadedRight, ExportRight, Jobs!Kind, MaskPc, EtlPc, ExportPc, Jobs!Mask, Jobs!Etl
  <2>11. \A v \in Worker :
            /\ ExecutionInv(slot'[v]) /\ MaskedRight(slot'[v]) /\ LoadedRight(slot'[v]) /\ ExportRight(v, slot'[v])
            /\ Holds(slot'[v]) => v # w
    BY <2>5, <2>10 DEF JobInv, ExportsRight
  <2>12. JobTypes'
    BY <2>2, <2>5, <2>6 DEF JobInv, JobTypes, Masking, Contents
  <2>13. OneHolds'
    <3>1. \A v \in Worker : Holds(slot[v])' <=> Holds(slot'[v])
      BY <2>2 DEF Holds
    <3> QED
      BY <2>2, <2>5, <2>11, <3>1 DEF JobInv, OneHolds, Jobs!Exists
  <2>14. Overlaps'
    <3> SUFFICES ASSUME NEW v \in Worker, NEW u \in Worker, Jobs!Active(v)', Jobs!Active(u)', v # u
                 PROVE  IF slot'[v].job = slot'[u].job THEN "twin" \in mark'[slot'[u].job]
                        ELSE Jobs!OnTable(slot'[v].job, slot'[u].job) => "shared" \in mark'[slot'[u].job]
      BY <2>2 DEF Overlaps, Jobs!OnTable
    <3>1. CASE v # w /\ u # w
      <4>1. Jobs!Active(v) /\ Jobs!Active(u) /\ slot'[v] = slot[v] /\ slot'[u] = slot[u] /\ slot[u].job \in Jobs!Jobs
        BY <2>5, <2>8, <3>1 DEF Jobs!Active
      <4> QED
        BY <2>6, <4>1 DEF JobInv, Overlaps
    <3>2. CASE v = w
      <4>1. Jobs!Active(u) /\ slot'[u] = slot[u] /\ slot'[v].job = j
        BY <2>4, <2>5, <3>2 DEF Jobs!Active
      <4> QED
        BY <2>9, <4>1 DEF Jobs!OnTable
    <3>3. CASE u = w
      <4>1. Jobs!Active(v) /\ slot'[v] = slot[v] /\ slot'[u].job = j
        BY <2>4, <2>5, <3>3 DEF Jobs!Active
      <4> QED
        BY <2>9, <4>1
    <3> QED
      BY <3>1, <3>2, <3>3
  <2>15. Kept'
    <3>1. ~GivesBackLater(slot[w])
      BY <2>0, <2>3 DEF JobInv, ExecutionInv, GivesBackLater, Jobs!Active
    <3>2. \A v \in Worker : GivesBackLater(slot[v]) => slot'[v] = slot[v]
      BY <2>5, <3>1
    <3>3. \A k \in Jobs!Jobs : Excused(k) => Excused(k)'
      BY <2>7 DEF Excused, Grows
    <3> QED
      BY <2>2, <3>2, <3>3 DEF JobInv, Kept, Jobs!Exists, GivesBackLater
  <2>16. \A v \in Worker :
            ExecutionInv(slot[v])' /\ MaskedRight(slot[v])' /\ LoadedRight(slot[v])' /\ ExportRight(v, slot[v])'
    <3> SUFFICES ASSUME NEW v \in Worker, NEW y, y = slot'[v]
                 PROVE  ExecutionInv(slot[v])' /\ MaskedRight(slot[v])' /\ LoadedRight(slot[v])' /\ ExportRight(v, slot[v])'
      OBVIOUS
    <3>1. ExecutionInv(y) /\ MaskedRight(y) /\ LoadedRight(y) /\ ExportRight(v, y) /\ (y.pc # "idle" => y.job \in Jobs!Jobs)
      BY <2>11 DEF ExecutionInv
    <3>2. ExecutionInv(slot[v])'
      BY <2>2, <3>1 DEF ExecutionInv
    <3>3. MaskedRight(slot[v])'
      BY <2>2, <2>6, <3>1 DEF MaskedRight, Unshared, Jobs!Output, Jobs!Exists
    <3>4. LoadedRight(slot[v])'
      BY <2>2, <2>6, <3>1 DEF LoadedRight, Unshared
    <3>5. ExportRight(v, slot[v])'
      BY <2>2, <2>6, <3>1 DEF ExportRight
    <3> QED
      BY <3>2, <3>3, <3>4, <3>5
  <2> QED
    BY <2>7, <2>12, <2>13, <2>14, <2>15, <2>16 DEF JobInv, ExportsRight
<1> QED
  BY <1>1, <1>2

-----------------------------------------------------------------------------
(* The invariant, and what it says. *)

LEMMA JobBegins == Jobs!Init => JobInv
<1> SUFFICES ASSUME Jobs!Init PROVE JobInv
  OBVIOUS
<1>1. /\ kind \in Kinds /\ row = [j \in Jobs!Jobs |-> [state |-> "none", cancel |-> FALSE]]
      /\ slot = [w \in Worker |-> Jobs!Idle] /\ file = [j \in Jobs!Jobs |-> Jobs!NoFile] /\ part = [j \in Jobs!Jobs |-> Jobs!NoOne]
      /\ mark = [j \in Jobs!Jobs |-> {}]
      /\ table = [n \in Jobs!Names |-> IF n # Jobs!Source THEN Jobs!NoTable ELSE IF kind[1] \in Jobs!Mask THEN <<"plain">> ELSE <<>>]
  BY DEF Jobs!Init
<1>2. 1 \in Jobs!Jobs /\ kind \in [Jobs!Jobs -> Jobs!Kind]
  BY <1>1, DorisAssumption, KindFacts DEF Jobs!DorisJobAssumption, Jobs!Jobs
<1>3. table[Jobs!Source] # Jobs!NoTable /\ table \in [Jobs!Names -> Contents]
  <2>1. table[Jobs!Source] \in {<<"plain">>, <<>>} /\ (~Masking => table[Jobs!Source] = <<>>)
    BY <1>1, <1>2, JobFacts DEF Masking
  <2>2. table[Jobs!Source] \in Contents /\ table[Jobs!Source] # Jobs!NoTable
    BY <2>1, Contained DEF Contents
  <2>3. \A n \in Jobs!Names : n # Jobs!Source => table[n] \in Contents
    BY <1>1 DEF Contents
  <2> QED
    BY <1>1, <2>2, <2>3
<1>4. /\ \A w \in Worker : slot[w] = Jobs!Idle /\ slot[w].pc = "idle"
      /\ slot \in [Worker -> SlotOf]
  BY <1>1, IdleFields
<1>5. JobTypes
  BY <1>1, <1>3, <1>4 DEF JobTypes, States, Jobs!Marks
<1>6. \A w \in Worker : ExecutionInv(slot[w]) /\ MaskedRight(slot[w]) /\ LoadedRight(slot[w]) /\ ExportRight(w, slot[w]) /\ ~Holds(slot[w])
  BY <1>4, IdleFields DEF MaskedRight, LoadedRight, ExportRight, Holds
<1>7. Spared
  BY <1>1 DEF Spared
<1>8. OneHolds /\ Overlaps /\ Kept /\ ExportsRight
  BY <1>3, <1>4, <1>6 DEF OneHolds, Overlaps, Kept, ExportsRight, Jobs!Active, Jobs!Exists
<1> QED
  BY <1>5, <1>6, <1>7, <1>8 DEF JobInv

LEMMA JobSteps ==
    ASSUME JobInv, [Jobs!Next]_(Jobs!vars)
    PROVE  JobInv'
<1>1. CASE UNCHANGED Jobs!vars
  <2>1. UNCHANGED <<kind, row, slot, table, file, part, mark>>
    BY <1>1 DEF Jobs!vars
  <2>2. Grows /\ Spared'
    BY <2>1, SameJobs
  <2>3. ExportsRight'
    BY <2>1, <2>2, ExportsStay
  <2> QED
    BY <2>1, <2>2, <2>3, RequestStep DEF JobInv, JobTypes
<1>2. ASSUME NEW j \in Jobs!Jobs, Jobs!Request(j) \/ Jobs!Receive(j) \/ Jobs!EnqueueFails(j) \/ Jobs!Cancel(j) \/ Jobs!Expire(j)
      PROVE  JobInv'
  BY <1>2, StepRequest, StepCancelWrite, StepReceive, StepExpire DEF Jobs!Request, Jobs!Cancel
<1>3. ASSUME NEW w \in Worker, Jobs!Work(w) \/ Jobs!Faults(w)
      PROVE  JobInv'
  <2>1. CASE Jobs!MaskWork(w) \/ Jobs!StepFails(w)
    BY <2>1, StepMaskWork
  <2>2. CASE Jobs!EtlWork(w) \/ Jobs!FailEtl(w)
    BY <2>2, StepEtl, StepLoad DEF Jobs!EtlWork
  <2>3. CASE Jobs!ExportWork(w) \/ Jobs!ExportBreaks(w)
    BY <2>3, StepExportWork, StepFetchBlock DEF Jobs!ExportWork
  <2>4. CASE Jobs!Ack(w) \/ Jobs!Crash(w)
    BY <2>4, StepEnds
  <2>5. CASE Jobs!Redeliver(w)
    <3>1. UNCHANGED <<kind, row, slot, table, file, part, mark>>
      BY <2>5 DEF Jobs!Redeliver, Jobs!Files
    <3>2. Grows /\ Spared'
      BY <3>1, SameJobs
    <3>3. ExportsRight'
      BY <3>1, <3>2, ExportsStay
    <3> QED
      BY <3>1, <3>2, <3>3, RequestStep DEF JobInv, JobTypes
  <2> QED
    BY <1>3, <2>1, <2>2, <2>3, <2>4, <2>5 DEF Jobs!Work, Jobs!Faults
<1> QED
  BY <1>1, <1>2, <1>3 DEF Jobs!Next

LEMMA EndingIsSuffix ==
    ASSUME NEW S, NEW s \in Seq(S), NEW t \in Seq(S), Ending(s, t)
    PROVE  Jobs!IsSuffix(s, t)
<1>1. Len(s) \in Nat /\ Len(t) \in Nat /\ Len(s) <= Len(t)
  BY DEF Ending
<1>2. /\ Jobs!Reverse(s) \in [1 .. Len(s) -> S] /\ Jobs!Reverse(t) \in [1 .. Len(t) -> S]
      /\ \A i \in 1 .. Len(s) : Jobs!Reverse(s)[i] = s[(Len(s) - i) + 1]
      /\ \A i \in 1 .. Len(t) : Jobs!Reverse(t)[i] = t[(Len(t) - i) + 1]
  BY <1>1 DEF Jobs!Reverse
<1>3. /\ Jobs!Reverse(s) \in Seq(S) /\ Len(Jobs!Reverse(s)) = Len(s)
      /\ Jobs!Reverse(t) \in Seq(S) /\ Len(Jobs!Reverse(t)) = Len(t)
  <2>1. \A r, n : n \in Nat /\ r \in [1 .. n -> S] => r \in Seq(S) /\ Len(r) = n
    OBVIOUS
  <2> HIDE DEF Jobs!Reverse
  <2> QED
    BY <1>1, <1>2, <2>1
<1>4. ASSUME NEW i \in 1 .. Len(s) PROVE Jobs!Reverse(s)[i] = Jobs!Reverse(t)[i]
  <2>1. (Len(s) - i) + 1 \in 1 .. Len(s) /\ i \in 1 .. Len(t)
    BY <1>1
  <2>2. Len(t) - Len(s) + ((Len(s) - i) + 1) = (Len(t) - i) + 1
    BY <1>1
  <2> QED
    BY <1>2, <2>1, <2>2 DEF Ending
<1>5. SubSeq(Jobs!Reverse(s), 1, Len(s)) = SubSeq(Jobs!Reverse(t), 1, Len(s))
  <2>1. \A r \in Seq(S), n \in Nat : n <= Len(r) => SubSeq(r, 1, n) \in Seq(S) /\ Len(SubSeq(r, 1, n)) = n
    OBVIOUS
  <2>2. \A r \in Seq(S), n \in Nat : n <= Len(r) => \A i \in 1 .. n : SubSeq(r, 1, n)[i] = r[i]
    OBVIOUS
  <2>3. \A p, q \in Seq(S) : Len(p) = Len(q) /\ (\A i \in 1 .. Len(p) : p[i] = q[i]) => p = q
    OBVIOUS
  <2> DEFINE p == SubSeq(Jobs!Reverse(s), 1, Len(s))
             q == SubSeq(Jobs!Reverse(t), 1, Len(s))
  <2>4. p \in Seq(S) /\ q \in Seq(S) /\ Len(p) = Len(s) /\ Len(q) = Len(s)
    BY <1>1, <1>3, <2>1
  <2>5. \A i \in 1 .. Len(s) : p[i] = q[i]
    BY <1>1, <1>3, <1>4, <2>2
  <2> HIDE DEF p, q
  <2>6. p = q
    BY <2>3, <2>4, <2>5
  <2> QED
    BY <2>6 DEF p, q
<1> QED
  BY <1>1, <1>3, <1>5 DEF Jobs!IsSuffix, Jobs!IsPrefix

LEMMA JobHolds == JobInv => Jobs!JobsFaithful
<1> SUFFICES ASSUME JobInv PROVE Jobs!JobsFaithful
  OBVIOUS
<1>1. Jobs!Faithful
  <2> SUFFICES ASSUME NEW w \in Worker, NEW j, j = slot[w].job, Jobs!Finishing(w), "shared" \notin mark[j],
                      kind[j] \in Jobs!Mask \/ "twin" \notin mark[j]
               PROVE  Jobs!Right(w)
    BY DEF Jobs!Faithful
  <2>1. /\ slot[w].pc \in {"finish", "fetch"} /\ j \in Jobs!Jobs /\ slot[w] \in SlotOf /\ ExecutionInv(slot[w])
        /\ MaskedRight(slot[w]) /\ LoadedRight(slot[w]) /\ ExportRight(w, slot[w])
    BY DEF JobInv, JobTypes, Jobs!Finishing, Jobs!At, ExportsRight, ExecutionInv
  <2>2. kind[j] \in Jobs!Kind
    BY <2>1, KindFacts DEF JobInv, JobTypes
  <2>3. CASE kind[j] \in Jobs!Mask
    <3>1. slot[w].pc = "finish"
      BY <2>3 DEF Jobs!Finishing, Jobs!At, Jobs!Mask, Jobs!Etl
    <3>2. kind[j] = "replace" => Jobs!Exists(j)
      BY <2>1, <3>1 DEF JobInv, OneHolds, Holds, ExecutionInv, Jobs!Mask
    <3> QED
      BY <2>1, <2>3, <3>1, <3>2 DEF MaskedRight, Unshared, Jobs!Right, Jobs!Output, Jobs!Mask
  <2>4. CASE kind[j] \in Jobs!Etl
    <3>1. slot[w].pc = "fetch" /\ Len(slot[w].out) = Len(Jobs!Result)
      BY <2>1, <2>4 DEF Jobs!Finishing, Jobs!At, ExecutionInv, EtlPc
    <3>2. slot[w].out = Jobs!Result /\ Jobs!Result \in Seq({"first", "second"})
      BY <2>1, <3>1, LoadedRows DEF SlotOf
    <3>3. table[Jobs!Source] \in Seq({"first", "second"})
      BY <2>4, <3>1, EtlFacts DEF Jobs!Active
    <3>4. IF kind[j] = "truncate" THEN table[Jobs!Source] = Jobs!Result ELSE Ending(Jobs!Result, table[Jobs!Source])
      BY <2>1, <2>4, <3>1, <3>2 DEF LoadedRight, Unshared, Jobs!Mask, Jobs!Etl
    <3>5. Ending(Jobs!Result, table[Jobs!Source]) => Jobs!IsSuffix(Jobs!Result, table[Jobs!Source])
      BY <3>2, <3>3, EndingIsSuffix
    <3> QED
      BY <2>4, <3>4, <3>5 DEF Jobs!Right, Jobs!Etl
  <2>5. CASE kind[j] = "export"
    <3>1. slot[w].pc = "finish"
      BY <2>5 DEF Jobs!Finishing, Jobs!At, Jobs!Etl
    <3> QED
      BY <2>1, <2>5, <3>1 DEF ExportRight, Jobs!Right, Jobs!Mask
  <2> QED
    BY <2>2, <2>3, <2>4, <2>5 DEF Jobs!Kind
<1>2. Jobs!TableKept
  <2> SUFFICES ASSUME \A w \in Worker : ~Jobs!Active(w), ~Jobs!Exists(Jobs!Source)
               PROVE  \E j \in Jobs!Jobs : Jobs!Exists(j) /\ (row[j].cancel \/ "nameless" \in mark[j])
    BY DEF Jobs!TableKept
  <2>1. \A w \in Worker : ~GivesBackLater(slot[w])
    BY DEF Jobs!Active, GivesBackLater
  <2> QED
    BY <2>1 DEF JobInv, Kept, Excused
<1>3. Jobs!CancelHolds
  BY DEF JobInv, Spared, Jobs!CancelHolds
<1> QED
  BY <1>1, <1>2, <1>3 DEF Jobs!JobsFaithful

-----------------------------------------------------------------------------
(* Side by side.                                                           *)

\* A batch does nothing beside the jobs that it would not do alone, so what is
\* proved of Spec holds of DorisSpec too.
LEMMA BatchAlone == DorisSpec => Spec
<1>1. DorisInit => Init
  BY DEF DorisInit
<1>2. [DorisNext]_dorisVars => [Next]_vars
  BY DEF DorisNext, dorisVars
<1> QED
  BY <1>1, <1>2, PTL DEF DorisSpec, Spec

DorisInv == active = "jobs" => JobInv

LEMMA DorisBegins == DorisInit => DorisInv
  BY JobBegins DEF DorisInit, DorisInv

LEMMA DorisSteps ==
    ASSUME DorisInv, [DorisNext]_dorisVars
    PROVE  DorisInv'
<1>1. CASE active = "jobs"
  <2>1. [Jobs!Next]_(Jobs!vars) /\ active' = active
    BY <1>1 DEF DorisNext, dorisVars, jobVars, Jobs!vars
  <2> QED
    BY <1>1, <2>1, JobSteps DEF DorisInv
<1>2. CASE active # "jobs"
  <2>1. active' = active
    BY <1>2 DEF DorisNext, dorisVars
  <2> QED
    BY <1>2, <2>1 DEF DorisInv
<1> QED
  BY <1>1, <1>2

(* The inductive invariant of the jobs holds in every state that is about    *)
(* them: an execution that has renamed, created or filled a table has it in *)
(* hand alone, and the source is never lost (run_sm3_mapping_job,           *)
(* run_doris_sql_etl, run_query_export).                                    *)
THEOREM JobsInductive == DorisSpec => []DorisInv
<1>1. DorisInit => DorisInv
  BY DorisBegins
<1>2. DorisInv /\ [DorisNext]_dorisVars => DorisInv'
  BY DorisSteps
<1> QED
  BY <1>1, <1>2, PTL DEF DorisSpec

(* A job that is about to succeed has written the image of what it has      *)
(* read, unless another job works on the table; the source table is there   *)
(* when all is quiet; and a masking job cancelled before its first          *)
(* statement never has one (run_sm3_mapping_job, run_doris_sql_etl,         *)
(* run_query_export, cancel_sm3_mapping_job).                               *)
THEOREM JobsAreFaithful == DorisSpec => []JobsFaithful
<1>1. DorisInv => JobsFaithful
  BY JobHolds DEF DorisInv, JobsFaithful
<1> QED
  BY <1>1, JobsInductive, PTL

=============================================================================

---------------------------- MODULE DataSyncProofs ----------------------------
(***************************************************************************)
(* Proofs about DataSync, for any number of tables, batches, threads,      *)
(* attempts and faults: type correctness, RowsAccounted (no batch is       *)
(* loaded twice, no table is lost or misreported, an outage is probed      *)
(* once) and OutageStops.                                                  *)
(***************************************************************************)
EXTENDS DataSync, FiniteSetTheorems, TLAPS

Probing == {"announcing", "probing"}

\* What was loaded, told by where the thread of the table is: nothing while it
\* has not written, the batches before next while it loads.
Untouched(t) == \A b \in Batch : target[t].copies[b] = 0
Complete(t) == /\ \A b \in Batch : target[t].copies[b] = 1
               /\ config.truncate => ~target[t].old
LoadInv(t) ==
    /\ \A b \in Batch : target[t].copies[b] <= 1
    /\ ~thread[t].wrote => Untouched(t)
    /\ thread[t].pc \in {"none", "start", "ready", "connect"} => ~thread[t].wrote
    /\ thread[t].pc = "truncate" => Untouched(t) /\ thread[t].next = 1
    /\ thread[t].pc = "load" =>
          /\ \A b \in Batch : target[t].copies[b] = IF b < thread[t].next THEN 1 ELSE 0
          /\ config.truncate => ~target[t].old
    /\ row[t] = "succeeded" => thread[t].pc \in {"done", "collected"} /\ Complete(t)

\* What the thread of a table, its row and its result say of each other.
TableInv(t) ==
    /\ thread[t].pc = "none" => thread[t] = NotStarted
    /\ thread[t].pc = "done" => row[t] \in {"succeeded", "failed"}
    /\ thread[t].pc = "collected" => row[t] \in {"succeeded", "failed"} /\ result[t] = row[t]
    /\ run.pc \in {"prepared", "running"} =>
          /\ thread[t].pc = "none" <=> t >= run.next
          /\ thread[t].pc # "collected" => result[t] = "none"
    /\ thread[t].stop => thread[t].pc \in {"failing", "raised", "done", "collected"}
    /\ thread[t].stop /\ thread[t].pc \in {"done", "collected"} => row[t] = "failed"
    /\ thread[t].stop /\ thread[t].pc = "collected" => run.stop

\* What the loop of the main thread says of the tables.
Settled(t) ==
    /\ thread[t].pc \in {"none", "collected"}
    /\ result[t] = row[t] /\ row[t] \in Closed
    /\ row[t] = "skipped" => thread[t] = NotStarted /\ run.status # "succeeded"
    /\ row[t] = "failed" => run.status # "succeeded"
Raised == \E t \in Table : thread[t].pc = "raised"
RunInv ==
    /\ run.pc = "prepared" => run.next = 1 /\ ~run.stop
    /\ run.stop => \E t \in Table : result[t] = "failed"
    /\ run.pc = "unwinding" => Raised
    /\ run.pc = "ended" => Raised \/ \A t \in Table : Settled(t)

\* The thread that probes holds the barrier.
BarrierInv ==
    /\ \A t \in Table : thread[t].pc \in Probing => barrier.recovering /\ ~barrier.failed
    /\ \A t, u \in Table : thread[t].pc \in Probing /\ thread[u].pc \in Probing => t = u
    /\ barrier.rounds <= barrier.generation + 1
    /\ ~barrier.recovering /\ ~barrier.failed => barrier.rounds <= barrier.generation

IInv ==
    /\ \A t \in Table : LoadInv(t)
    /\ \A t \in Table : TableInv(t)
    /\ RunInv
    /\ BarrierInv

-----------------------------------------------------------------------------
(* Types.  The records are edited only here; elsewhere Thread and Target   *)
(* stay opaque.                                                            *)

RunRec == [pc : {"prepared", "running", "unwinding", "ended", "crashed"},
           next : 1 .. Tables + 1, stop : BOOLEAN,
           status : {"running", "succeeded", "partial", "failed"}]
BarrierRec == [recovering : BOOLEAN, generation : Nat, failed : BOOLEAN,
               probes : 0 .. MaxProbes, rounds : Nat]

LEMMA ThreadFields ==
    \A th \in Thread :
        /\ th.attempt \in 1 .. MaxAttempts /\ th.generation \in Nat
        /\ th.next \in 1 .. Batches + 1 /\ th.wrote \in BOOLEAN /\ th.stop \in BOOLEAN
BY DEF Thread

LEMMA NotStartedType == NotStarted \in Thread
BY DataSyncAssumption DEF NotStarted, Thread

Pc == {"none", "start", "ready", "connect", "truncate", "load", "interrupted", "waiting",
       "announcing", "probing", "failing", "done", "raised", "collected"}

LEMMA ThreadEdits ==
    /\ \A th \in Thread, pc \in Pc : [th EXCEPT !.pc = pc] \in Thread
    /\ \A th \in Thread, pc \in Pc, b \in BOOLEAN :
          [th EXCEPT !.pc = pc, !.wrote = b] \in Thread
    /\ \A th \in Thread, pc \in Pc, b \in BOOLEAN : [th EXCEPT !.pc = pc, !.stop = b] \in Thread
    /\ \A th \in Thread, pc \in Pc, a \in 1 .. MaxAttempts :
          [th EXCEPT !.pc = pc, !.attempt = a] \in Thread
    /\ \A th \in Thread, b \in BOOLEAN, n \in 1 .. Batches + 1 :
          [th EXCEPT !.next = n, !.wrote = b] \in Thread
    /\ \A th \in Thread, pc \in Pc, b \in BOOLEAN, n \in 1 .. Batches + 1 :
          [th EXCEPT !.pc = pc, !.wrote = b, !.next = n] \in Thread
<1>1. /\ \A th \in Thread, pc \in Pc : [th EXCEPT !.pc = pc] \in Thread
      /\ \A th \in Thread, pc \in Pc, b \in BOOLEAN :
            [th EXCEPT !.pc = pc, !.wrote = b] \in Thread
      /\ \A th \in Thread, pc \in Pc, b \in BOOLEAN :
            [th EXCEPT !.pc = pc, !.stop = b] \in Thread
  BY ZenonT(60), SMTT(60) DEF Thread, Pc
<1>2. /\ \A th \in Thread, pc \in Pc, a \in 1 .. MaxAttempts :
            [th EXCEPT !.pc = pc, !.attempt = a] \in Thread
      /\ \A th \in Thread, b \in BOOLEAN, n \in 1 .. Batches + 1 :
            [th EXCEPT !.next = n, !.wrote = b] \in Thread
      /\ \A th \in Thread, pc \in Pc, b \in BOOLEAN, n \in 1 .. Batches + 1 :
            [th EXCEPT !.pc = pc, !.wrote = b, !.next = n] \in Thread
  BY ZenonT(60), SMTT(60) DEF Thread, Pc
<1> QED
  BY <1>1, <1>2

LEMMA TargetEdits ==
    /\ \A x \in Target : /\ x.shape \in Shape /\ x.old \in BOOLEAN
                         /\ x.copies \in [Batch -> Nat]
    /\ \A x \in Target : [x EXCEPT !.shape = "fits"] \in Target
    /\ \A x \in Target : [x EXCEPT !.old = FALSE, !.copies = [b \in Batch |-> 0]] \in Target
    /\ \A x \in Target, i \in Batch : [x EXCEPT !.copies[i] = @ + 1] \in Target
<1>1. \A x \in Target : x.shape \in Shape /\ x.old \in BOOLEAN /\ x.copies \in [Batch -> Nat]
  BY DEF Target
<1>2. \A x \in Target : [x EXCEPT !.shape = "fits"] \in Target
  BY DEF Target, Shape
<1>3. \A x \in Target : [x EXCEPT !.old = FALSE, !.copies = [b \in Batch |-> 0]] \in Target
  BY DEF Target
<1>4. ASSUME NEW x \in Target, NEW i \in Batch PROVE [x EXCEPT !.copies[i] = @ + 1] \in Target
  <2>1. [x.copies EXCEPT ![i] = @ + 1] \in [Batch -> Nat]
    BY <1>1
  <2> QED
    BY <2>1 DEF Target
<1> QED
  BY <1>1, <1>2, <1>3, <1>4

LEMMA Bounds ==
    /\ Tables \in Nat \ {0} /\ Batches \in Nat /\ Parallelism \in Nat \ {0}
    /\ MaxAttempts \in Nat \ {0} /\ MaxProbes \in Nat /\ MaxFaults \in Nat
BY DataSyncAssumption

LEMMA RunEdits ==
    /\ \A r \in RunRec : r.next \in 1 .. Tables + 1 /\ r.stop \in BOOLEAN
    /\ \A r \in RunRec, pc \in {"unwinding", "crashed"} : [r EXCEPT !.pc = pc] \in RunRec
    /\ \A r \in RunRec, n \in 1 .. Tables + 1 :
          [r EXCEPT !.pc = "running", !.next = n] \in RunRec
    /\ \A r \in RunRec, n \in 1 .. Tables + 1, b \in BOOLEAN :
          [r EXCEPT !.stop = b, !.next = n] \in RunRec
    /\ \A r \in RunRec, st \in {"succeeded", "partial", "failed"} :
          [r EXCEPT !.pc = "ended", !.status = st] \in RunRec
BY DEF RunRec

LEMMA BarrierFields ==
    \A x \in BarrierRec :
        /\ x.generation \in Nat /\ x.rounds \in Nat /\ x.probes \in 0 .. MaxProbes
        /\ x.recovering \in BOOLEAN /\ x.failed \in BOOLEAN
BY DEF BarrierRec

LEMMA BarrierEdits ==
    /\ \A x \in BarrierRec : [x EXCEPT !.recovering = FALSE, !.failed = TRUE] \in BarrierRec
    /\ \A x \in BarrierRec, g \in Nat :
          [x EXCEPT !.recovering = FALSE, !.failed = FALSE, !.generation = g] \in BarrierRec
    /\ \A x \in BarrierRec, p \in 0 .. MaxProbes : [x EXCEPT !.probes = p] \in BarrierRec
    /\ \A x \in BarrierRec, p \in 0 .. MaxProbes, r \in Nat :
          [x EXCEPT !.recovering = TRUE, !.probes = p, !.rounds = r] \in BarrierRec
<1>1. /\ \A x \in BarrierRec : [x EXCEPT !.recovering = FALSE, !.failed = TRUE] \in BarrierRec
      /\ \A x \in BarrierRec, g \in Nat :
            [x EXCEPT !.recovering = FALSE, !.failed = FALSE, !.generation = g] \in BarrierRec
  BY DEF BarrierRec
<1>2. /\ \A x \in BarrierRec, p \in 0 .. MaxProbes : [x EXCEPT !.probes = p] \in BarrierRec
      /\ \A x \in BarrierRec, p \in 0 .. MaxProbes, r \in Nat :
            [x EXCEPT !.recovering = TRUE, !.probes = p, !.rounds = r] \in BarrierRec
  BY DEF BarrierRec
<1> QED
  BY <1>1, <1>2

\* TypeOK with its records as names.
Typed == /\ config \in Config /\ run \in RunRec
         /\ thread \in [Table -> Thread]
         /\ result \in [Table -> {"none"} \cup Closed]
         /\ row \in [Table -> {"queued", "running"} \cup Closed]
         /\ barrier \in BarrierRec /\ target \in [Table -> Target]
         /\ faults \in 0 .. MaxFaults

LEMMA TypedIsTypeOK == Typed <=> TypeOK
BY DEF Typed, TypeOK, RunRec, BarrierRec

LEMMA InitTyped == Init => Typed
<1> SUFFICES ASSUME Init PROVE Typed
  OBVIOUS
<1>1. thread \in [Table -> Thread]
  BY NotStartedType DEF Init
<1>2. config \in Config /\ config.shape \in Shape
  BY DataSyncAssumption DEF Init
<1>3. target \in [Table -> Target]
  BY <1>2 DEF Init, Target
<1>4. run \in RunRec /\ barrier \in BarrierRec
  BY DataSyncAssumption DEF Init, RunRec, BarrierRec
<1>5. /\ result \in [Table -> {"none"} \cup Closed]
      /\ row \in [Table -> {"queued", "running"} \cup Closed] /\ faults \in 0 .. MaxFaults
  BY DataSyncAssumption DEF Init
<1> QED
  BY <1>1, <1>2, <1>3, <1>4, <1>5 DEF Typed

\* A step of the thread of one table, with or without a write to its target.
LEMMA OneThreadTyped ==
    ASSUME Typed, NEW t \in Table, NEW th \in Thread,
           thread' = [thread EXCEPT ![t] = th],
           UNCHANGED <<config, run, result>>,
           target' \in [Table -> Target], row' \in [Table -> {"queued", "running"} \cup Closed],
           barrier' \in BarrierRec, faults' \in 0 .. MaxFaults
    PROVE  Typed'
BY DEF Typed

LEMMA StepTyped == Typed /\ IInv /\ [Next]_vars => Typed'
<1> SUFFICES ASSUME Typed, IInv, [Next]_vars PROVE Typed'
  OBVIOUS
<1> USE DEF Typed, Pc
<1>1. CASE Prepare
  <2> DEFINE first == {t \in Table : t <= Parallelism}
  <2>1. IsFiniteSet(Table) /\ Cardinality(Table) = Tables
    BY DataSyncAssumption, FS_Interval DEF Table
  <2>2. first \in SUBSET Table
    OBVIOUS
  <2>3. run' = [run EXCEPT !.pc = "running", !.next = Cardinality(first) + 1]
    BY <1>1 DEF Prepare
  <2> HIDE DEF first
  <2>4. Cardinality(first) \in Nat /\ Cardinality(first) <= Tables
    BY <2>1, <2>2, FS_Subset, FS_CardinalityType
  <2>5. Cardinality(first) + 1 \in 1 .. Tables + 1
    BY <2>4, DataSyncAssumption
  <2>6. run' \in RunRec
    BY <2>3, <2>5, RunEdits
  <2>7. \A t \in Table : thread[t] \in Thread /\ [thread[t] EXCEPT !.pc = "start"] \in Thread
    BY ThreadEdits, Bounds
  <2>8. thread' \in [Table -> Thread]
    BY <1>1, <2>7 DEF Prepare
  <2> QED
    BY <1>1, <2>6, <2>8 DEF Prepare
<1>2. ASSUME NEW t \in Table, Collect(t) PROVE Typed'
  <2>1. run' \in RunRec
    <3>1. run \in RunRec /\ run.next \in 1 .. Tables + 1
      BY RunEdits
    <3>2. run.next <= Tables => run.next + 1 \in 1 .. Tables + 1
      BY <3>1, Bounds
    <3>3. PICK b \in BOOLEAN, n \in {run.next, run.next + 1} :
              /\ run' = [run EXCEPT !.stop = b, !.next = n]
              /\ n # run.next => run.next <= Tables
      BY <1>2 DEF Collect
    <3> QED
      BY <3>1, <3>2, <3>3, RunEdits
  <2>2. thread' \in [Table -> Thread]
    <3>1. \A s \in Table : \/ thread'[s] = thread[s]
                            \/ thread'[s] = [thread[s] EXCEPT !.pc = "collected"]
                            \/ thread'[s] = [thread[s] EXCEPT !.pc = "start"]
      BY <1>2 DEF Collect
    <3>2. \A s \in Table : /\ thread[s] \in Thread
                            /\ [thread[s] EXCEPT !.pc = "collected"] \in Thread
                            /\ [thread[s] EXCEPT !.pc = "start"] \in Thread
      BY ThreadEdits, Bounds
    <3>3. thread' = [s \in Table |-> thread'[s]]
      BY <1>2 DEF Collect
    <3> QED
      BY <3>1, <3>2, <3>3
  <2>3. row[t] \in Closed
    BY <1>2 DEF Collect, IInv, TableInv, Closed
  <2> QED
    BY <1>2, <2>1, <2>2, <2>3 DEF Collect
<1>3. CASE Finish
  <2>1. run' \in RunRec
    BY <1>3, RunEdits DEF Finish, Status
  <2>2. /\ result' \in [Table -> {"none"} \cup Closed]
        /\ row' \in [Table -> {"queued", "running"} \cup Closed]
    BY <1>3 DEF Finish, Closed
  <2> QED
    BY <1>3, <2>1, <2>2 DEF Finish
<1>4. CASE Unwind \/ Crash \/ \E t \in Table : Raise(t)
  <2>1. run' \in RunRec
    BY <1>4, RunEdits DEF Unwind, Crash, Raise
  <2> QED
    BY <1>4, <2>1, DataSyncAssumption DEF Unwind, Crash, Raise, Fault
<1>5. ASSUME NEW t \in Table,
             \/ Start(t) \/ Truncate(t) \/ FinishTable(t) \/ FailTable(t) \/ Announce(t)
      PROVE  Typed'
  <2>1. \E pc \in {"ready", "load", "failing", "done", "probing"} :
          \/ thread' = [thread EXCEPT ![t] = [thread[t] EXCEPT !.pc = pc]]
          \/ thread' = [thread EXCEPT ![t] = [thread[t] EXCEPT !.pc = pc, !.wrote = TRUE]]
    BY <1>5 DEF Start, Truncate, FinishTable, FailTable, Announce, Goto
  <2>2. \E th \in Thread : thread' = [thread EXCEPT ![t] = th]
    BY <2>1, ThreadEdits, Bounds
  <2>3. \/ target' = target
        \/ target' = [target EXCEPT ![t] =
               [target[t] EXCEPT !.old = FALSE, !.copies = [b \in Batch |-> 0]]]
    BY <1>5 DEF Start, Truncate, FinishTable, FailTable, Announce
  <2>6. [target[t] EXCEPT !.old = FALSE, !.copies = [b \in Batch |-> 0]] \in Target
    BY TargetEdits
  <2>4. target' \in [Table -> Target]
    BY <2>3, <2>6
  <2>5. row' \in [Table -> {"queued", "running"} \cup Closed]
    BY <1>5 DEF Start, Truncate, FinishTable, FailTable, Announce, Closed
  <2> QED
    BY <1>5, <2>2, <2>4, <2>5, OneThreadTyped
       DEF Start, Truncate, FinishTable, FailTable, Announce
<1>6. ASSUME NEW t \in Table, Ready(t) PROVE Typed'
  <2>1. thread[t].wrote \in BOOLEAN /\ barrier.failed \in BOOLEAN /\ barrier.generation \in Nat
    BY ThreadFields, BarrierFields
  <2> DEFINE b == IF barrier.failed THEN thread[t].wrote ELSE FALSE
             c == barrier.failed
             pc == IF barrier.failed THEN "failing" ELSE "connect"
             th == [thread[t] EXCEPT !.generation = barrier.generation, !.wrote = b,
                                     !.stop = c, !.pc = pc]
  <2>2. thread' = [thread EXCEPT ![t] = th]
    BY <1>6 DEF Ready
  <2>4. b \in BOOLEAN /\ c \in BOOLEAN /\ pc \in Pc /\ thread[t] \in Thread
    BY <2>1
  <2> HIDE DEF b, c, pc
  <2>5. th \in Thread
    BY <2>1, <2>4 DEF Thread
  <2>3. \E x \in Thread : thread' = [thread EXCEPT ![t] = x]
    BY <2>2, <2>5
  <2> QED
    BY <1>6, <2>3, OneThreadTyped DEF Ready
<1>7. ASSUME NEW t \in Table, PrepareTable(t) PROVE Typed'
  <2>1. 1 \in 1 .. Batches + 1
    BY Bounds
  <2> DEFINE b == target[t].shape # "fits"
             pc == IF config.truncate THEN "truncate" ELSE "load"
             th == [thread[t] EXCEPT !.pc = pc, !.wrote = b, !.next = 1]
  <2>2. \/ thread' = [thread EXCEPT ![t] = [thread[t] EXCEPT !.pc = "failing"]]
        \/ thread' = [thread EXCEPT ![t] = th]
    BY <1>7 DEF PrepareTable, Goto
  <2>6. b \in BOOLEAN /\ pc \in Pc /\ thread[t] \in Thread
    OBVIOUS
  <2> HIDE DEF b, pc
  <2>7. th \in Thread /\ [thread[t] EXCEPT !.pc = "failing"] \in Thread
    BY ZenonT(60), <2>1, <2>6, ThreadEdits
  <2>3. \E x \in Thread : thread' = [thread EXCEPT ![t] = x]
    BY <2>2, <2>7
  <2>4. \/ target' = target
        \/ target' = [target EXCEPT ![t] = [target[t] EXCEPT !.shape = "fits"]]
    BY <1>7 DEF PrepareTable
  <2>8. [target[t] EXCEPT !.shape = "fits"] \in Target
    BY TargetEdits
  <2>5. target' \in [Table -> Target]
    BY <2>4, <2>8
  <2> QED
    BY <1>7, <2>3, <2>5, OneThreadTyped DEF PrepareTable
<1>8. ASSUME NEW t \in Table, Load(t) PROVE Typed'
  <2>1. thread[t].next \in Batch /\ thread[t].next + 1 \in 1 .. Batches + 1
    BY <1>8, ThreadFields, Bounds DEF Load, Batch
  <2>2. \/ thread' = [thread EXCEPT ![t] = [thread[t] EXCEPT !.pc = "failing", !.wrote = TRUE]]
        \/ thread' = [thread EXCEPT ![t] =
              [thread[t] EXCEPT !.next = thread[t].next + 1, !.wrote = TRUE]]
    BY <1>8 DEF Load
  <2>3. \E th \in Thread : thread' = [thread EXCEPT ![t] = th]
    BY <2>1, <2>2, ThreadEdits
  <2>4. \/ target' = target
        \/ target' = [target EXCEPT ![t] = [target[t] EXCEPT !.copies[thread[t].next] = @ + 1]]
    BY <1>8 DEF Load, Loaded
  <2>6. [target[t] EXCEPT !.copies[thread[t].next] = @ + 1] \in Target
    BY <2>1, TargetEdits
  <2>5. target' \in [Table -> Target]
    BY <2>4, <2>6
  <2> QED
    BY <1>8, <2>3, <2>5, OneThreadTyped DEF Load
<1>9. ASSUME NEW t \in Table, Interrupt(t) PROVE Typed'
  <2>1. \/ thread' = [thread EXCEPT ![t] = [thread[t] EXCEPT !.pc = "interrupted"]]
        \/ thread' = [thread EXCEPT ![t] =
              [thread[t] EXCEPT !.pc = "interrupted", !.wrote = TRUE]]
    BY <1>9 DEF Interrupt, Goto
  <2>2. \E th \in Thread : thread' = [thread EXCEPT ![t] = th]
    BY <2>1, ThreadEdits
  <2>3. thread[t].next <= Batches => thread[t].next \in Batch
    BY ThreadFields, Bounds DEF Batch
  <2>4. \/ target' = target
        \/ target' = [target EXCEPT ![t] = [target[t] EXCEPT !.shape = "fits"]]
        \/ target' = [target EXCEPT ![t] =
               [target[t] EXCEPT !.old = FALSE, !.copies = [b \in Batch |-> 0]]]
        \/ /\ thread[t].next <= Batches
           /\ target' = [target EXCEPT ![t] = [target[t] EXCEPT !.copies[thread[t].next] = @ + 1]]
    BY <1>9 DEF Interrupt, Loaded
  <2>7. /\ [target[t] EXCEPT !.shape = "fits"] \in Target
        /\ [target[t] EXCEPT !.old = FALSE, !.copies = [b \in Batch |-> 0]] \in Target
    BY TargetEdits
  <2>8. thread[t].next <= Batches =>
            [target[t] EXCEPT !.copies[thread[t].next] = @ + 1] \in Target
    BY <2>3, TargetEdits
  <2>5. target' \in [Table -> Target]
    BY <2>4, <2>7, <2>8
  <2>6. faults' \in 0 .. MaxFaults
    BY <1>9, Bounds DEF Interrupt, Fault
  <2> QED
    BY <1>9, <2>2, <2>5, <2>6, OneThreadTyped DEF Interrupt
\* What a recovery does to the thread of a table.
<1>10. ASSUME NEW t \in Table, Resume(t) \/ GiveUp(t) \/ \E pc \in Pc : Goto(t, pc)
       PROVE  \E th \in Thread : thread' = [thread EXCEPT ![t] = th]
  <2>1. MayAttempt(t) => thread[t].attempt + 1 \in 1 .. MaxAttempts
    BY ThreadFields, Bounds DEF MayAttempt
  <2>2. \/ \E pc \in Pc : thread' = [thread EXCEPT ![t] = [thread[t] EXCEPT !.pc = pc]]
        \/ thread' = [thread EXCEPT ![t] = [thread[t] EXCEPT !.pc = "failing", !.stop = TRUE]]
        \/ /\ MayAttempt(t)
           /\ thread' = [thread EXCEPT ![t] =
                 [thread[t] EXCEPT !.pc = "ready", !.attempt = thread[t].attempt + 1]]
    BY <1>10 DEF Resume, GiveUp, Goto
  <2> QED
    BY ZenonT(60), <2>1, <2>2, ThreadEdits
<1>11. ASSUME NEW t \in Table, Recover(t) \/ Wait(t) \/ ProbeSucceeds(t) PROVE Typed'
  <2>1. \E th \in Thread : thread' = [thread EXCEPT ![t] = th]
    BY <1>10, <1>11 DEF Recover, Wait, ProbeSucceeds
  <2>2. barrier.generation + 1 \in Nat /\ barrier.rounds + 1 \in Nat /\ 0 \in 0 .. MaxProbes
    BY BarrierFields, Bounds
  <2>3. \/ barrier' = barrier
        \/ barrier' = [barrier EXCEPT !.recovering = FALSE, !.failed = FALSE,
                                      !.generation = barrier.generation + 1]
        \/ barrier' = [barrier EXCEPT !.recovering = TRUE, !.probes = 0,
                                      !.rounds = barrier.rounds + 1]
    BY <1>11 DEF Recover, Wait, ProbeSucceeds, Recovered
  <2>5. /\ [barrier EXCEPT !.recovering = FALSE, !.failed = FALSE,
                            !.generation = barrier.generation + 1] \in BarrierRec
        /\ [barrier EXCEPT !.recovering = TRUE, !.probes = 0,
                            !.rounds = barrier.rounds + 1] \in BarrierRec
    BY <2>2, BarrierEdits
  <2>4. barrier' \in BarrierRec
    BY <2>3, <2>5
  <2> QED
    BY <1>11, <2>1, <2>4, OneThreadTyped DEF Recover, Wait, ProbeSucceeds
<1>12. ASSUME NEW t \in Table, ProbeFails(t) PROVE Typed'
  <2>1. CASE barrier.probes + 1 < MaxProbes
    <3>1. barrier.probes + 1 \in 0 .. MaxProbes
      BY <2>1, BarrierFields, Bounds
    <3>2. barrier' = [barrier EXCEPT !.probes = barrier.probes + 1]
      BY <1>12, <2>1 DEF ProbeFails
    <3>3. barrier' \in BarrierRec
      BY <3>1, <3>2, BarrierEdits
    <3> QED
      BY <1>12, <2>1, <3>3 DEF ProbeFails
  <2>2. CASE ~(barrier.probes + 1 < MaxProbes)
    <3>1. \E th \in Thread : thread' = [thread EXCEPT ![t] = th]
      BY <1>10, <1>12, <2>2 DEF ProbeFails
    <3>2. barrier' \in BarrierRec
      BY <1>12, <2>2, BarrierEdits DEF ProbeFails, NotRecovered
    <3> QED
      BY <1>12, <3>1, <3>2, OneThreadTyped DEF ProbeFails
  <2> QED
    BY <2>1, <2>2
<1>13. ASSUME NEW t \in Table, EventFails(t) PROVE Typed'
  <2>1. \E th \in Thread : thread' = [thread EXCEPT ![t] = th]
    BY <1>10, <1>13 DEF EventFails
  <2>2. barrier.generation + 1 \in Nat
    BY BarrierFields
  <2>3. \/ barrier' = barrier
        \/ barrier' = [barrier EXCEPT !.recovering = FALSE, !.failed = TRUE]
        \/ barrier' = [barrier EXCEPT !.recovering = FALSE, !.failed = FALSE,
                                      !.generation = barrier.generation + 1]
    BY <1>13 DEF EventFails, Recovered, NotRecovered
  <2>4. barrier' \in BarrierRec
    BY <2>2, <2>3, BarrierEdits
  <2>5. faults' \in 0 .. MaxFaults
    BY <1>13, Bounds DEF EventFails, Fault
  <2> QED
    BY <1>13, <2>1, <2>4, <2>5, OneThreadTyped DEF EventFails
<1>14. CASE UNCHANGED vars
  BY <1>14 DEF vars
<1> QED
  BY <1>1, <1>2, <1>3, <1>4, <1>5, <1>6, <1>7, <1>8, <1>9, <1>11, <1>12, <1>13, <1>14
     DEF Next, MainStep, ThreadStep

-----------------------------------------------------------------------------
(* The invariant.                                                          *)

LEMMA InitInv == Init => IInv
<1> SUFFICES ASSUME Init PROVE IInv
  OBVIOUS
<1>1. \A t \in Table : LoadInv(t)
  BY Bounds DEF Init, LoadInv, Untouched, NotStarted
<1>2. \A t \in Table : TableInv(t)
  BY Bounds DEF Init, TableInv, NotStarted, Table
<1>3. RunInv
  BY DEF Init, RunInv
<1>4. BarrierInv
  BY DEF Init, BarrierInv, NotStarted, Probing
<1> QED
  BY <1>1, <1>2, <1>3, <1>4 DEF IInv

\* A table that a step leaves alone keeps its part of the invariant.
LEMMA OtherTable ==
    ASSUME NEW u \in Table, LoadInv(u), TableInv(u), UNCHANGED <<config, run>>,
           thread'[u] = thread[u], row'[u] = row[u], target'[u] = target[u],
           result'[u] = result[u]
    PROVE  LoadInv(u)' /\ TableInv(u)'
<1>1. LoadInv(u)'
  BY DEF LoadInv, Untouched, Complete
<1>2. TableInv(u)'
  BY DEF TableInv
<1> QED
  BY <1>1, <1>2

\* A step of the thread of table t, which was at work.
LEMMA ThreadStepInv ==
    ASSUME IInv, NEW t \in Table,
           thread[t].pc \notin {"none", "raised", "done", "collected"},
           UNCHANGED <<config, run, result>>,
           \A u \in Table \ {t} : /\ thread'[u] = thread[u] /\ row'[u] = row[u]
                                  /\ target'[u] = target[u],
           LoadInv(t)', TableInv(t)', BarrierInv'
    PROVE  IInv'
<1>1. \A u \in Table \ {t} : LoadInv(u)' /\ TableInv(u)'
  BY OtherTable DEF IInv
<1>2. RunInv'
  <2>1. Raised => Raised'
    BY DEF Raised
  <2>2. ~(\A u \in Table : Settled(u))
    BY DEF Settled
  <2> QED
    BY <2>1, <2>2 DEF RunInv, IInv
<1> QED
  BY <1>1, <1>2 DEF IInv

\* A step that leaves the barrier alone, and makes no thread probe.
LEMMA BarrierKept ==
    ASSUME BarrierInv, barrier' = barrier,
           \A u \in Table : thread'[u].pc \in Probing => thread[u].pc \in Probing
    PROVE  BarrierInv'
BY DEF BarrierInv

\* A step that moves the thread of table t among the states in which it neither
\* loads nor has come to its end.
LEMMA Moved ==
    ASSUME NEW t \in Table, LoadInv(t), TableInv(t), UNCHANGED <<config, run, result>>,
           target'[t] = target[t], row'[t] \in {row[t], "running"},
           thread[t].pc \notin {"none", "done", "collected", "raised"},
           thread'[t].pc \in {"failing", "interrupted", "waiting", "announcing", "probing",
                             "raised", "ready"},
           thread'[t].wrote = thread[t].wrote \/ thread'[t].wrote = TRUE,
           thread'[t].pc = "ready" => ~thread'[t].wrote,
           thread'[t].stop => thread'[t].pc \in {"failing", "raised"}
    PROVE  LoadInv(t)' /\ TableInv(t)'
<1>1. LoadInv(t)'
  BY DEF LoadInv, Untouched, Complete
<1>2. TableInv(t)'
  BY DEF TableInv
<1> QED
  BY <1>1, <1>2

\* The tables the main thread submits first are the ones before a limit.
LEMMA FirstTables ==
    LET first == {t \in Table : t <= Parallelism}
    IN  /\ Cardinality(first) \in Nat
        /\ \A t \in Table : t \in first <=> t < Cardinality(first) + 1
<1> DEFINE n == IF Parallelism <= Tables THEN Parallelism ELSE Tables
<1>1. n \in Nat /\ {t \in Table : t <= Parallelism} = 1 .. n
  BY Bounds DEF Table
<1> HIDE DEF n
<1>2. Cardinality(1 .. n) = n
  <2>1. 1 \in Int /\ n \in Int
    BY <1>1
  <2>2. Cardinality(1 .. n) = IF 1 > n THEN 0 ELSE n - 1 + 1
    BY <2>1, FS_Interval
  <2> QED
    BY <1>1, <2>2
<1>3. \A t \in Table : t \in 1 .. n <=> t < n + 1
  BY <1>1 DEF Table
<1> QED
  BY <1>1, <1>2, <1>3

LEMMA StepInv == Typed /\ IInv /\ [Next]_vars => IInv'
<1> SUFFICES ASSUME Typed, IInv, [Next]_vars PROVE IInv'
  OBVIOUS
<1> USE DEF Typed
<1>1. ASSUME NEW t \in Table, Start(t) PROVE IInv'
  <2>1. /\ thread[t].pc = "start" /\ thread' = [thread EXCEPT ![t].pc = "ready"]
        /\ row' = [row EXCEPT ![t] = "running"]
        /\ UNCHANGED <<config, run, result, barrier, target>>
    BY <1>1 DEF Start, At, Goto
  <2>2. thread'[t] = [thread[t] EXCEPT !.pc = "ready"]
    BY <2>1
  <2>3. LoadInv(t) /\ TableInv(t) /\ BarrierInv
    BY DEF IInv
  <2>4. LoadInv(t)'
    BY <2>1, <2>2, <2>3 DEF LoadInv, Untouched, Complete, Thread
  <2>5. TableInv(t)'
    BY <2>1, <2>2, <2>3 DEF TableInv, Thread
  <2>6. BarrierInv'
    BY <2>1, <2>2, <2>3, BarrierKept DEF Probing, Thread
  <2> QED
    BY <2>1, <2>4, <2>5, <2>6, ThreadStepInv
<1>2. ASSUME NEW t \in Table, Ready(t) PROVE IInv'
  <2>1. /\ thread[t].pc = "ready"
        /\ \A u \in Table \ {t} : thread'[u] = thread[u]
        /\ UNCHANGED <<config, run, result, row, barrier, target>>
    BY <1>2 DEF Ready, At
  <2>2. LoadInv(t) /\ TableInv(t) /\ BarrierInv
    BY DEF IInv
  <2>3. ~thread[t].wrote
    BY <2>1, <2>2 DEF LoadInv
  <2>4. /\ thread'[t].pc = IF barrier.failed THEN "failing" ELSE "connect"
        /\ ~thread'[t].wrote
        /\ thread'[t].stop => thread'[t].pc = "failing"
    BY <1>2, <2>3 DEF Ready, Thread
  <2>5. LoadInv(t)'
    BY <2>1, <2>2, <2>3, <2>4 DEF LoadInv, Untouched, Complete
  <2>6. TableInv(t)'
    BY <2>1, <2>2, <2>4 DEF TableInv
  <2>7. BarrierInv'
    BY <2>1, <2>2, <2>4, BarrierKept DEF Probing
  <2> QED
    BY <2>1, <2>5, <2>6, <2>7, ThreadStepInv
<1>3. ASSUME NEW t \in Table, PrepareTable(t) PROVE IInv'
  <2>1. /\ thread[t].pc = "connect"
        /\ \A u \in Table \ {t} : thread'[u] = thread[u] /\ target'[u] = target[u]
        /\ UNCHANGED <<config, run, result, row, barrier>>
    BY <1>3 DEF PrepareTable, At, Goto
  <2>2. LoadInv(t) /\ TableInv(t) /\ BarrierInv
    BY DEF IInv
  <2>3. ~thread[t].wrote /\ Untouched(t) /\ ~thread[t].stop
    BY <2>1, <2>2 DEF LoadInv, TableInv
  <2>4. /\ target'[t].copies = target[t].copies /\ target'[t].old = target[t].old
        /\ thread'[t].stop = thread[t].stop
        /\ \/ thread'[t].pc = "failing"
           \/ thread'[t].pc = (IF config.truncate THEN "truncate" ELSE "load")
              /\ thread'[t].next = 1
    BY <1>3 DEF PrepareTable, Thread, Target, Goto
  <2>5. LoadInv(t)'
    BY <2>1, <2>2, <2>3, <2>4 DEF LoadInv, Untouched, Complete, Batch
  <2>6. TableInv(t)'
    BY <2>1, <2>2, <2>3, <2>4 DEF TableInv
  <2>7. BarrierInv'
    BY <2>1, <2>2, <2>4, BarrierKept DEF Probing
  <2> QED
    BY <2>1, <2>5, <2>6, <2>7, ThreadStepInv
<1>4. ASSUME NEW t \in Table, Truncate(t) PROVE IInv'
  <2>1. /\ thread[t].pc = "truncate"
        /\ \A u \in Table \ {t} : thread'[u] = thread[u] /\ target'[u] = target[u]
        /\ UNCHANGED <<config, run, result, row, barrier>>
    BY <1>4 DEF Truncate, At
  <2>2. LoadInv(t) /\ TableInv(t) /\ BarrierInv
    BY DEF IInv
  <2>3. thread[t].next = 1 /\ Untouched(t) /\ ~thread[t].stop
    BY <2>1, <2>2 DEF LoadInv, TableInv
  <2>4. /\ thread'[t].stop = thread[t].stop /\ thread'[t].next = 1 /\ thread'[t].wrote
        /\ \/ thread'[t].pc = "failing" /\ target' = target
           \/ /\ thread'[t].pc = "load" /\ ~target'[t].old
              /\ target'[t].copies = [b \in Batch |-> 0]
    BY <1>4, <2>3 DEF Truncate, Thread, Target
  <2>8. \A b \in Batch : ~(b < 1) /\ target'[t].copies[b] = 0
    <3>1. \A b \in Batch : ~(b < 1)
      BY DEF Batch
    <3> QED
      BY <2>3, <2>4, <3>1 DEF Untouched
  <2>5. LoadInv(t)'
    BY <2>1, <2>2, <2>3, <2>4, <2>8 DEF LoadInv, Untouched, Complete
  <2>6. TableInv(t)'
    BY <2>1, <2>2, <2>3, <2>4 DEF TableInv
  <2>7. BarrierInv'
    BY <2>1, <2>2, <2>4, BarrierKept DEF Probing
  <2> QED
    BY <2>1, <2>5, <2>6, <2>7, ThreadStepInv
<1>5. ASSUME NEW t \in Table, Load(t) PROVE IInv'
  <2>1. /\ thread[t].pc = "load" /\ thread[t].next \in Batch
        /\ \A u \in Table \ {t} : thread'[u] = thread[u] /\ target'[u] = target[u]
        /\ UNCHANGED <<config, run, result, row, barrier>>
    BY <1>5, ThreadFields, Bounds DEF Load, Loaded, At, Batch
  <2>2. LoadInv(t) /\ TableInv(t) /\ BarrierInv
    BY DEF IInv
  <2>3. /\ \A b \in Batch : target[t].copies[b] = IF b < thread[t].next THEN 1 ELSE 0
        /\ config.truncate => ~target[t].old
        /\ ~thread[t].stop
    BY <2>1, <2>2 DEF LoadInv, TableInv
  <2>4. /\ thread'[t].stop = thread[t].stop /\ thread'[t].wrote
        /\ \/ thread'[t].pc = "failing" /\ target' = target
           \/ /\ thread'[t].pc = "load" /\ thread'[t].next = thread[t].next + 1
              /\ target'[t].old = target[t].old
              /\ target'[t].copies = [target[t].copies EXCEPT ![thread[t].next] = @ + 1]
    BY <1>5, <2>1 DEF Load, Loaded, Thread, Target
  <2>5. \A b \in Batch : [target[t].copies EXCEPT ![thread[t].next] = @ + 1][b] =
            IF b < thread[t].next + 1 THEN 1 ELSE 0
    <3> DEFINE f == target[t].copies
               n == thread[t].next
    <3>1. f \in [Batch -> Nat] /\ n \in Batch /\ \A b \in Batch : f[b] = IF b < n THEN 1 ELSE 0
      BY <2>1, <2>3, TargetEdits
    <3> HIDE DEF f, n
    <3>2. \A b \in Batch : [f EXCEPT ![n] = @ + 1][b] = IF b < n + 1 THEN 1 ELSE 0
      BY <3>1 DEF Batch
    <3> QED
      BY <3>2 DEF f, n
  <2>6. LoadInv(t)'
    <3>1. CASE thread'[t].pc = "failing" /\ target' = target
      BY <2>1, <2>2, <2>4, <3>1 DEF LoadInv, Untouched, Complete
    <3>2. CASE /\ thread'[t].pc = "load" /\ thread'[t].next = thread[t].next + 1
               /\ target'[t].old = target[t].old
               /\ target'[t].copies = [target[t].copies EXCEPT ![thread[t].next] = @ + 1]
      <4>1. \A b \in Batch : target'[t].copies[b] = IF b < thread'[t].next THEN 1 ELSE 0
        BY <2>5, <3>2
      <4> QED
        BY <2>1, <2>2, <2>3, <2>4, <3>2, <4>1 DEF LoadInv
    <3> QED
      BY <2>4, <3>1, <3>2
  <2>7. TableInv(t)'
    BY <2>1, <2>2, <2>3, <2>4 DEF TableInv
  <2>8. BarrierInv'
    BY <2>1, <2>2, <2>4, BarrierKept DEF Probing
  <2> QED
    BY <2>1, <2>6, <2>7, <2>8, ThreadStepInv
<1>6. ASSUME NEW t \in Table, FinishTable(t) \/ FailTable(t) PROVE IInv'
  <2>1. /\ thread[t].pc \in {"load", "failing"}
        /\ thread' = [thread EXCEPT ![t].pc = "done"]
        /\ row' = [row EXCEPT ![t] = IF thread[t].pc = "load" THEN "succeeded" ELSE "failed"]
        /\ thread[t].pc = "load" => thread[t].next > Batches
        /\ UNCHANGED <<config, run, result, barrier, target>>
    BY <1>6 DEF FinishTable, FailTable, At, Goto
  <2>2. LoadInv(t) /\ TableInv(t) /\ BarrierInv
    BY DEF IInv
  <2>3. thread'[t] = [thread[t] EXCEPT !.pc = "done"]
    BY <2>1
  <2>4. thread[t].pc = "load" => Complete(t) /\ ~thread[t].stop
    BY <2>1, <2>2, ThreadFields, Bounds DEF LoadInv, TableInv, Complete, Batch
  <2>5. LoadInv(t)'
    BY <2>1, <2>2, <2>3, <2>4 DEF LoadInv, Untouched, Complete, Thread
  <2>6. TableInv(t)'
    BY <2>1, <2>2, <2>3, <2>4 DEF TableInv, Thread
  <2>7. BarrierInv'
    BY <2>1, <2>2, <2>3, BarrierKept DEF Probing, Thread
  <2> QED
    BY <2>1, <2>5, <2>6, <2>7, ThreadStepInv
<1>7. ASSUME NEW t \in Table, Interrupt(t) PROVE IInv'
  <2>1. /\ thread[t].pc \in {"connect", "truncate", "load"}
        /\ \A u \in Table \ {t} : thread'[u] = thread[u] /\ target'[u] = target[u]
        /\ UNCHANGED <<config, run, result, row, barrier>>
    BY <1>7 DEF Interrupt, Loaded, At, Goto
  <2>2. LoadInv(t) /\ TableInv(t) /\ BarrierInv
    BY DEF IInv
  <2>3. ~thread[t].stop
    BY <2>1, <2>2 DEF TableInv
  <2>4. /\ thread'[t].pc = "interrupted" /\ thread'[t].stop = thread[t].stop
        /\ thread'[t].wrote = thread[t].wrote \/ thread'[t].wrote = TRUE
    BY <1>7 DEF Interrupt, Goto, Thread
  <2>5. \/ target' = target
        \/ target'[t].copies = target[t].copies /\ thread'[t].wrote
        \/ target'[t].copies = [b \in Batch |-> 0] /\ thread'[t].wrote
        \/ /\ target'[t].copies = [target[t].copies EXCEPT ![thread[t].next] = @ + 1]
           /\ thread'[t].wrote /\ thread[t].pc = "load" /\ thread[t].next <= Batches
    BY SMTT(60), <1>7 DEF Interrupt, Loaded, Goto, At, Thread, Target
  <2>6. \A b \in Batch : target'[t].copies[b] <= 1
    <3>1. CASE target'[t].copies = [target[t].copies EXCEPT ![thread[t].next] = @ + 1]
               /\ thread[t].pc = "load" /\ thread[t].next <= Batches
      <4>1. thread[t].next \in Batch
        BY <3>1, ThreadFields, Bounds DEF Batch
      <4>2. target[t].copies \in [Batch -> Nat]
        BY TargetEdits
      <4>3. \A b \in Batch : target[t].copies[b] = IF b < thread[t].next THEN 1 ELSE 0
        BY <2>2, <3>1 DEF LoadInv
      <4> QED
        BY <3>1, <4>1, <4>2, <4>3 DEF Batch
    <3> QED
      BY <2>2, <2>5, <3>1 DEF LoadInv
  <2>7. LoadInv(t)'
    BY <2>1, <2>2, <2>4, <2>5, <2>6 DEF LoadInv, Untouched, Complete
  <2>8. TableInv(t)'
    BY <2>1, <2>2, <2>3, <2>4 DEF TableInv
  <2>9. BarrierInv'
    BY <2>1, <2>2, <2>4, BarrierKept DEF Probing
  <2> QED
    BY <2>1, <2>7, <2>8, <2>9, ThreadStepInv
\* What the operators of a recovery do to the thread of a table.
<1>8. ASSUME NEW t \in Table, thread[t].pc \notin {"none", "done", "collected", "raised"},
             ~thread[t].stop, Resume(t) \/ GiveUp(t)
      PROVE  /\ \A u \in Table \ {t} : thread'[u] = thread[u]
             /\ thread'[t].pc \in {"ready", "failing"}
             /\ thread'[t].wrote = thread[t].wrote
             /\ thread'[t].pc = "ready" => ~thread'[t].wrote
             /\ thread'[t].stop => thread'[t].pc = "failing"
  BY <1>8 DEF Resume, GiveUp, Goto, MayAttempt, Thread
<1>9. ASSUME NEW t \in Table, thread[t].pc \notin {"none", "done", "collected", "raised"},
             ~thread[t].stop \/ thread[t].pc = "failing",
             NEW pc \in {"failing", "waiting", "announcing", "probing", "raised"}, Goto(t, pc),
             thread[t].stop => pc = "raised"
      PROVE  /\ \A u \in Table \ {t} : thread'[u] = thread[u]
             /\ thread'[t].pc = pc
             /\ thread'[t].wrote = thread[t].wrote
             /\ thread'[t].stop => thread'[t].pc = "raised"
  BY <1>9 DEF Goto, Thread
<1>10. ASSUME NEW t \in Table, Recover(t) PROVE IInv'
  <2>1. thread[t].pc = "interrupted" /\ UNCHANGED <<config, run, result, row, target>>
    BY <1>10 DEF Recover, At
  <2>2. LoadInv(t) /\ TableInv(t) /\ BarrierInv
    BY DEF IInv
  <2>3. ~thread[t].stop
    BY <2>1, <2>2 DEF TableInv
  <2>4. /\ \A u \in Table \ {t} : thread'[u] = thread[u]
        /\ thread'[t].pc \in {"ready", "failing", "waiting", "announcing"}
        /\ thread'[t].wrote = thread[t].wrote
        /\ thread'[t].pc = "ready" => ~thread'[t].wrote
        /\ thread'[t].stop => thread'[t].pc \in {"failing", "raised"}
        /\ thread'[t].pc = "announcing" \/ barrier' = barrier
    BY <1>8, <1>9, <1>10, <2>1, <2>3 DEF Recover
  <2>5. LoadInv(t)' /\ TableInv(t)'
    BY <2>1, <2>2, <2>4, Moved
  <2>6. BarrierInv'
    <3>1. CASE thread'[t].pc # "announcing"
      BY <2>2, <2>4, <3>1, BarrierKept DEF Probing
    <3>2. CASE thread'[t].pc = "announcing"
      <4>1. /\ ~barrier.failed /\ ~barrier.recovering
            /\ barrier' = [barrier EXCEPT !.recovering = TRUE, !.probes = 0, !.rounds = @ + 1]
        BY <1>10, <2>1, <2>3, <3>2, <1>8 DEF Recover, Goto, Thread
      <4>2. /\ barrier'.recovering /\ ~barrier'.failed
            /\ barrier'.rounds = barrier.rounds + 1 /\ barrier'.generation = barrier.generation
        BY <4>1 DEF BarrierRec
      <4>3. \A u \in Table : thread'[u].pc \in Probing => u = t
        BY <2>2, <2>4, <4>1 DEF BarrierInv
      <4> QED
        BY <2>2, <4>1, <4>2, <4>3, BarrierFields DEF BarrierInv
    <3> QED
      BY <3>1, <3>2
  <2> QED
    BY <2>1, <2>4, <2>5, <2>6, ThreadStepInv
<1>11. ASSUME NEW t \in Table, Wait(t) \/ Announce(t) PROVE IInv'
  <2>1. /\ thread[t].pc \in {"waiting", "announcing"}
        /\ UNCHANGED <<config, run, result, row, barrier, target>>
    BY <1>11 DEF Wait, Announce, At
  <2>2. LoadInv(t) /\ TableInv(t) /\ BarrierInv
    BY DEF IInv
  <2>3. ~thread[t].stop
    BY <2>1, <2>2 DEF TableInv
  <2>4. /\ \A u \in Table \ {t} : thread'[u] = thread[u]
        /\ \/ thread'[t].pc \in {"ready", "failing"}
           \/ thread'[t].pc = "probing" /\ thread[t].pc = "announcing"
        /\ thread'[t].wrote = thread[t].wrote
        /\ thread'[t].pc = "ready" => ~thread'[t].wrote
        /\ thread'[t].stop => thread'[t].pc \in {"failing", "raised"}
    <3>1. CASE Announce(t)
      <4>1. thread[t].pc = "announcing" /\ Goto(t, "probing")
        BY <3>1 DEF Announce, At
      <4> QED
        BY <2>3, <4>1 DEF Goto, Thread
    <3>2. CASE Wait(t)
      <4>1. Resume(t) \/ GiveUp(t)
        BY <3>2 DEF Wait
      <4>2. /\ \A u \in Table \ {t} : thread'[u] = thread[u]
            /\ thread'[t].pc \in {"ready", "failing"}
            /\ thread'[t].wrote = thread[t].wrote
            /\ thread'[t].pc = "ready" => ~thread'[t].wrote
            /\ thread'[t].stop => thread'[t].pc = "failing"
        BY <1>8, <2>1, <2>3, <4>1
      <4> QED
        BY <4>2
    <3> QED
      BY <1>11, <3>1, <3>2
  <2>5. LoadInv(t)' /\ TableInv(t)'
    BY <2>1, <2>2, <2>4, Moved
  <2>7. \A u \in Table : thread'[u].pc \in Probing => thread[u].pc \in Probing
    BY <2>4 DEF Probing
  <2>6. BarrierInv'
    BY <2>1, <2>2, <2>7, BarrierKept
  <2> QED
    BY <2>1, <2>4, <2>5, <2>6, ThreadStepInv
\* The thread that probes ends the round.
<1>12. ASSUME NEW t \in Table, thread[t].pc = "probing", thread'[t].pc \notin Probing,
              \A u \in Table \ {t} : thread'[u] = thread[u],
              barrier' \in {Recovered, NotRecovered}
       PROVE  BarrierInv'
  <2>1. BarrierInv
    BY DEF IInv
  <2>2. barrier.recovering
    BY <1>12, <2>1 DEF BarrierInv, Probing
  <2>3. \A u \in Table : thread'[u].pc \notin Probing
    BY <1>12, <2>1 DEF BarrierInv, Probing
  <2>4. /\ barrier'.rounds = barrier.rounds
        /\ \/ barrier'.generation = barrier.generation + 1
           \/ barrier'.generation = barrier.generation /\ barrier'.failed
    BY <1>12 DEF Recovered, NotRecovered, BarrierRec
  <2> QED
    BY <2>1, <2>3, <2>4, BarrierFields DEF BarrierInv
<1>13. ASSUME NEW t \in Table, ProbeSucceeds(t) \/ ProbeFails(t) PROVE IInv'
  <2>1. thread[t].pc = "probing" /\ UNCHANGED <<config, run, result, row, target>>
    BY <1>13 DEF ProbeSucceeds, ProbeFails, At
  <2>2. LoadInv(t) /\ TableInv(t) /\ BarrierInv
    BY DEF IInv
  <2>3. ~thread[t].stop
    BY <2>1, <2>2 DEF TableInv
  <2>4. CASE thread' = thread /\ barrier' = [barrier EXCEPT !.probes = @ + 1]
    <3>1. /\ barrier'.recovering = barrier.recovering /\ barrier'.failed = barrier.failed
          /\ barrier'.rounds = barrier.rounds /\ barrier'.generation = barrier.generation
      BY <2>4 DEF BarrierRec
    <3>2. BarrierInv'
      BY <2>2, <2>4, <3>1 DEF BarrierInv
    <3>3. LoadInv(t)' /\ TableInv(t)'
      BY <2>1, <2>2, <2>4, OtherTable
    <3> QED
      BY <2>1, <2>4, <3>2, <3>3, ThreadStepInv
  <2>5. CASE (Resume(t) \/ GiveUp(t)) /\ barrier' \in {Recovered, NotRecovered}
    <3>1. /\ \A u \in Table \ {t} : thread'[u] = thread[u]
          /\ thread'[t].pc \in {"ready", "failing"}
          /\ thread'[t].wrote = thread[t].wrote
          /\ thread'[t].pc = "ready" => ~thread'[t].wrote
          /\ thread'[t].stop => thread'[t].pc = "failing"
      BY <1>8, <2>1, <2>3, <2>5
    <3>2. LoadInv(t)' /\ TableInv(t)'
      BY <2>1, <2>2, <3>1, Moved
    <3>3. BarrierInv'
      BY <1>12, <2>1, <2>5, <3>1 DEF Probing
    <3> QED
      BY <2>1, <3>1, <3>2, <3>3, ThreadStepInv
  <2> QED
    BY <1>13, <2>4, <2>5 DEF ProbeSucceeds, ProbeFails
<1>14. ASSUME NEW t \in Table, EventFails(t) PROVE IInv'
  <2>1. /\ thread[t].pc \in {"start", "interrupted", "announcing", "failing", "ready",
                            "probing", "load"}
        /\ UNCHANGED <<config, run, result, row, target>>
    BY <1>14 DEF EventFails, At
  <2>2. LoadInv(t) /\ TableInv(t) /\ BarrierInv
    BY DEF IInv
  <2>3. ~thread[t].stop \/ thread[t].pc = "failing"
    BY <2>1, <2>2 DEF TableInv
  <2>4. /\ \A u \in Table \ {t} : thread'[u] = thread[u]
        /\ thread'[t].pc \in {"failing", "raised"}
        /\ thread'[t].wrote = thread[t].wrote
        /\ thread'[t].stop => thread'[t].pc = "raised"
    BY <1>9, <1>14, <2>1, <2>3 DEF EventFails, At
  <2>5. LoadInv(t)' /\ TableInv(t)'
    BY <2>1, <2>2, <2>4, Moved
  <2>6. BarrierInv'
    <3>1. CASE barrier' = barrier
      BY <2>2, <2>4, <3>1, BarrierKept DEF Probing
    <3>2. CASE thread[t].pc = "probing" /\ barrier' \in {Recovered, NotRecovered}
      BY <1>12, <2>4, <3>2 DEF Probing
    <3> QED
      BY <1>14, <3>1, <3>2 DEF EventFails, At
  <2> QED
    BY <2>1, <2>4, <2>5, <2>6, ThreadStepInv
<1>15. CASE Prepare
  <2> DEFINE first == {t \in Table : t <= Parallelism}
  <2>1. /\ run.pc = "prepared" /\ run.next = 1 /\ ~run.stop
        /\ UNCHANGED <<config, result, row, barrier, target>>
        /\ run' = [run EXCEPT !.pc = "running", !.next = Cardinality(first) + 1]
        /\ thread' = [t \in Table |->
               IF t \in first THEN [thread[t] EXCEPT !.pc = "start"] ELSE thread[t]]
    BY <1>15 DEF Prepare, IInv, RunInv
  <2>2. Cardinality(first) \in Nat /\ \A t \in Table : t \in first <=> t < Cardinality(first) + 1
    BY FirstTables
  <2>3. run'.pc = "running" /\ run'.next = Cardinality(first) + 1 /\ run'.stop = run.stop
    BY <2>1 DEF RunRec
  <2> HIDE DEF first
  <2>4. ASSUME NEW t \in Table PROVE LoadInv(t)' /\ TableInv(t)'
    <3>1. LoadInv(t) /\ TableInv(t)
      BY DEF IInv
    <3>2. thread[t] = NotStarted /\ result[t] = "none" /\ thread[t].pc = "none"
      BY <2>1, <3>1 DEF TableInv, Table
    <3>7. thread'[t] = IF t \in first THEN [NotStarted EXCEPT !.pc = "start"] ELSE NotStarted
      BY <2>1, <3>2
    <3>3. /\ thread'[t].pc = IF t \in first THEN "start" ELSE "none"
          /\ ~thread'[t].stop /\ ~thread'[t].wrote
          /\ t \notin first => thread'[t] = NotStarted
      BY <3>7 DEF NotStarted
    <3>4. LoadInv(t)'
      BY <2>1, <3>1, <3>2, <3>3 DEF LoadInv, Untouched, Complete, NotStarted
    <3>5. t >= run'.next <=> t \notin first
      BY <2>2, <2>3 DEF Table
    <3>6. TableInv(t)'
      BY <2>1, <2>3, <3>1, <3>2, <3>3, <3>5 DEF TableInv
    <3> QED
      BY <3>4, <3>6
  <2>5. RunInv'
    BY <2>1, <2>3 DEF RunInv
  <2>6. \A t \in Table : thread'[t].pc \in Probing => thread[t].pc \in Probing
    BY <2>1 DEF Probing, Thread
  <2>7. BarrierInv'
    BY <2>1, <2>6, BarrierKept DEF IInv
  <2> QED
    BY <2>4, <2>5, <2>7 DEF IInv
<1>16. ASSUME NEW t \in Table, Collect(t) PROVE IInv'
  <2> DEFINE stop == run.stop \/ Stops(t)
             submit == ~stop /\ run.next <= Tables
  <2>1. /\ run.pc = "running" /\ thread[t].pc = "done"
        /\ UNCHANGED <<config, row, barrier, target>>
        /\ result' = [result EXCEPT ![t] = row[t]]
        /\ run' = [run EXCEPT !.stop = stop, !.next = IF submit THEN @ + 1 ELSE @]
        /\ thread' = [s \in Table |->
               IF s = t THEN [thread[s] EXCEPT !.pc = "collected"]
               ELSE IF submit /\ s = run.next THEN [thread[s] EXCEPT !.pc = "start"]
               ELSE thread[s]]
    BY <1>16 DEF Collect
  <2>2. /\ run'.pc = "running" /\ run'.stop = stop
        /\ run'.next = IF submit THEN run.next + 1 ELSE run.next
    BY <2>1 DEF RunRec
  <2>3. Stops(t) <=> row[t] = "failed" /\ (thread[t].stop \/ ~config.continue)
    BY <2>1 DEF Stops
  <2>4. run.next \in 1 .. Tables + 1
    BY RunEdits
  <2> HIDE DEF stop, submit
  <2>5. ASSUME NEW s \in Table PROVE LoadInv(s)' /\ TableInv(s)'
    <3>1. LoadInv(s) /\ TableInv(s)
      BY DEF IInv
    <3>2. CASE s = t
      <4>1. /\ thread'[s].pc = "collected" /\ thread'[s].wrote = thread[s].wrote
            /\ thread'[s].stop = thread[s].stop
        BY <2>1, <3>2 DEF Thread
      <4>2. LoadInv(s)'
        BY <2>1, <3>1, <3>2, <4>1 DEF LoadInv, Untouched, Complete
      <4>3. result'[s] = row[s]
        BY <2>1, <3>2
      <4>4. ~(s >= run'.next)
        BY <2>1, <2>2, <2>4, <3>1, <3>2 DEF TableInv, Table
      <4>5. thread[s].stop => run'.stop
        BY <2>1, <2>2, <2>3, <3>1, <3>2 DEF TableInv, stop
      <4>6. TableInv(s)'
        BY <2>1, <3>1, <3>2, <4>1, <4>3, <4>4, <4>5 DEF TableInv
      <4> QED
        BY <4>2, <4>6
    <3>3. CASE s # t /\ submit /\ s = run.next
      <4>1. thread[s] = NotStarted /\ thread[s].pc = "none" /\ result[s] = "none"
        BY <2>1, <2>4, <3>1, <3>3 DEF TableInv, Table
      <4>2. thread'[s].pc = "start" /\ ~thread'[s].stop /\ ~thread'[s].wrote
        BY <2>1, <3>3, <4>1 DEF NotStarted
      <4>3. LoadInv(s)'
        BY <2>1, <3>1, <4>1, <4>2 DEF LoadInv, Untouched, Complete, NotStarted
      <4>4. ~(s >= run'.next) /\ result'[s] = "none"
        BY <2>1, <2>2, <2>4, <3>3, <4>1
      <4>5. TableInv(s)'
        BY <2>1, <3>1, <4>2, <4>4 DEF TableInv
      <4> QED
        BY <4>3, <4>5
    <3>4. CASE s # t /\ ~(submit /\ s = run.next)
      <4>1. thread'[s] = thread[s] /\ result'[s] = result[s]
        BY <2>1, <3>4
      <4>2. LoadInv(s)'
        BY <2>1, <3>1, <4>1 DEF LoadInv, Untouched, Complete
      <4>3. s >= run'.next <=> s >= run.next
        BY <2>2, <2>4, <3>4 DEF Table
      <4>4. run.stop => run'.stop
        BY <2>2 DEF stop
      <4>5. TableInv(s)'
        BY <2>1, <2>2, <3>1, <4>1, <4>3, <4>4 DEF TableInv
      <4> QED
        BY <4>2, <4>5
    <3> QED
      BY <3>2, <3>3, <3>4
  <2>6. RunInv'
    <3>1. result[t] # "failed"
      BY <2>1 DEF IInv, TableInv
    <3>2. run.stop => \E u \in Table : result'[u] = "failed"
      BY <2>1, <3>1 DEF IInv, RunInv
    <3>3. Stops(t) => result'[t] = "failed"
      BY <2>1, <2>3
    <3> QED
      BY <2>2, <3>2, <3>3 DEF RunInv, stop
  <2>7. \A u \in Table : thread'[u].pc \in Probing => thread[u].pc \in Probing
    BY <2>1 DEF Probing, Thread
  <2>8. BarrierInv'
    BY <2>1, <2>7, BarrierKept DEF IInv
  <2> QED
    BY <2>5, <2>6, <2>8 DEF IInv
<1>17. CASE Finish
  <2>1. /\ run.pc = "running" /\ (run.stop \/ run.next > Tables)
        /\ \A t \in Table : thread[t].pc \in {"none", "collected"}
        /\ UNCHANGED <<config, thread, barrier, target>>
        /\ result' = [t \in Table |-> IF t >= run.next THEN "skipped" ELSE result[t]]
        /\ row' = [t \in Table |-> IF t >= run.next THEN "skipped" ELSE row[t]]
        /\ run' = [run EXCEPT !.pc = "ended", !.status = Status(result')]
    BY <1>17 DEF Finish, Outstanding, Skipped
  <2>2. run'.pc = "ended" /\ run'.stop = run.stop /\ run'.status = Status(result')
    BY <2>1 DEF RunRec
  <2>3. ASSUME NEW t \in Table PROVE LoadInv(t)' /\ TableInv(t)'
    <3>1. LoadInv(t) /\ TableInv(t)
      BY DEF IInv
    <3>2. row'[t] = "succeeded" => row[t] = "succeeded"
      BY <2>1
    <3>3. LoadInv(t)'
      BY <2>1, <3>1, <3>2 DEF LoadInv, Untouched, Complete
    <3>4. thread[t].pc = "collected" => row'[t] = row[t] /\ result'[t] = result[t]
      BY <2>1, <3>1 DEF TableInv
    <3>5. TableInv(t)'
      BY <2>1, <2>2, <3>1, <3>4 DEF TableInv
    <3> QED
      BY <3>3, <3>5
  <2>4. (\E t \in Table : result'[t] = "failed") => run'.status # "succeeded"
    BY <2>2 DEF Status
  <2>5. run.stop => \E t \in Table : result'[t] = "failed"
    <3>1. ASSUME NEW t \in Table, result[t] = "failed" PROVE result'[t] = "failed"
      BY <2>1, <3>1 DEF IInv, TableInv
    <3> QED
      BY <3>1 DEF IInv, RunInv
  <2>6. ASSUME NEW t \in Table PROVE Settled(t)'
    <3>1. TableInv(t)
      BY DEF IInv
    <3>2. CASE thread[t].pc = "none"
      <4>1. t >= run.next /\ thread[t] = NotStarted
        BY <2>1, <3>1, <3>2 DEF TableInv
      <4>6. run.next \in Int
        <5>1. run \in RunRec
          OBVIOUS
        <5>2. run.next \in 1 .. Tables + 1
          BY <5>1, RunEdits
        <5> QED
          BY <5>2
      <4>7. t \in Int /\ t <= Tables /\ Tables \in Int
        BY Bounds DEF Table
      <4>5. ~(run.next > Tables)
        BY <4>1, <4>6, <4>7
      <4>2. run.stop
        BY <2>1, <4>5
      <4>3. result'[t] = "skipped" /\ row'[t] = "skipped"
        BY <2>1, <4>1
      <4> QED
        BY <2>1, <2>4, <2>5, <3>2, <4>1, <4>2, <4>3 DEF Settled, Closed
    <3>3. CASE thread[t].pc = "collected"
      <4>1. ~(t >= run.next) /\ row[t] \in {"succeeded", "failed"} /\ result[t] = row[t]
        BY <2>1, <3>1, <3>3 DEF TableInv
      <4>2. result'[t] = row[t] /\ row'[t] = row[t]
        BY <2>1, <4>1
      <4> QED
        BY <2>1, <2>4, <3>3, <4>1, <4>2 DEF Settled, Closed
    <3> QED
      BY <2>1, <3>2, <3>3
  <2>7. RunInv'
    BY <2>2, <2>5, <2>6 DEF RunInv
  <2>8. BarrierInv'
    BY <2>1, BarrierKept DEF IInv
  <2> QED
    BY <2>3, <2>7, <2>8 DEF IInv
<1>18. CASE Unwind \/ Crash \/ \E t \in Table : Raise(t)
  <2>1. /\ UNCHANGED <<config, thread, result, row, barrier, target>>
        /\ run'.stop = run.stop
        /\ \/ run'.pc \in {"unwinding", "ended"} /\ Raised
           \/ run'.pc = "crashed"
    BY <1>18 DEF Unwind, Crash, Raise, IInv, RunInv, Raised, RunRec
  <2>2. ASSUME NEW t \in Table PROVE LoadInv(t)' /\ TableInv(t)'
    <3>1. LoadInv(t) /\ TableInv(t)
      BY DEF IInv
    <3>2. LoadInv(t)'
      BY <2>1, <3>1 DEF LoadInv, Untouched, Complete
    <3>3. TableInv(t)'
      BY <2>1, <3>1 DEF TableInv
    <3> QED
      BY <3>2, <3>3
  <2>3. Raised => Raised'
    BY <2>1 DEF Raised
  <2>4. RunInv'
    BY <2>1, <2>3 DEF RunInv, IInv
  <2>5. BarrierInv'
    BY <2>1, BarrierKept DEF IInv
  <2> QED
    BY <2>2, <2>4, <2>5 DEF IInv
<1>19. CASE UNCHANGED vars
  BY <1>19 DEF vars, IInv, LoadInv, TableInv, RunInv, BarrierInv, Untouched, Complete, Settled,
               Raised
<1> QED
  BY <1>1, <1>2, <1>3, <1>4, <1>5, <1>6, <1>7, <1>10, <1>11, <1>13, <1>14, <1>15, <1>16,
     <1>17, <1>18, <1>19 DEF Next, MainStep, ThreadStep

-----------------------------------------------------------------------------
(* What holds of every run.                                                *)

(* The inductive invariant: what is in a target follows from where its      *)
(* thread is (LoadInv), what is recorded of a table from how it ended       *)
(* (TableInv), the run from its results (RunInv), and the barrier from the  *)
(* thread that probes (BarrierInv).                                         *)
THEOREM Inductive == Spec => [](Typed /\ IInv)
<1>1. Init => Typed /\ IInv
  BY InitTyped, InitInv
<1>2. Typed /\ IInv /\ [Next]_vars => (Typed /\ IInv)'
  BY StepTyped, StepInv
<1> QED
  BY <1>1, <1>2, PTL DEF Spec

(* Every variable keeps its type: the records of threads, targets and the  *)
(* recovery, the statuses of rows and results (execute_data_sync).         *)
THEOREM TypeCorrect == Spec => []TypeOK
BY Inductive, TypedIsTypeOK, PTL

LEMMA AtMostOne ==
    ASSUME NEW S, \A x, y \in S : x = y
    PROVE  Cardinality(S) <= 1
<1>1. CASE S = {}
  BY <1>1, FS_EmptySet
<1>2. CASE S # {}
  <2>1. PICK x \in S : TRUE
    BY <1>2
  <2>2. S = {x}
    BY <2>1
  <2> QED
    BY <2>2, FS_Singleton
<1> QED
  BY <1>1, <1>2

(* No batch is loaded twice whatever is lost and attempted again, no table  *)
(* is lost or reported as something else, and an outage is probed by one    *)
(* thread in one round (execute_data_sync, _DataSyncConnectionRecovery).    *)
THEOREM Rows == Spec => []RowsAccounted
<1>1. Typed /\ IInv => RowsAccounted
  <2> SUFFICES ASSUME Typed, IInv PROVE RowsAccounted
    OBVIOUS
  <2>1. LoadedOnce
    BY DEF IInv, LoadInv, LoadedOnce, Complete
  <2>2. Accounted
    BY DEF IInv, RunInv, Settled, Raised, Accounted
  <2>3. ProbedOnce
    <3> DEFINE S == {t \in Table : thread[t].pc \in {"announcing", "probing"}}
    <3>1. \A x, y \in S : x = y
      BY DEF IInv, BarrierInv, Probing
    <3>2. Cardinality(S) <= 1
      BY <3>1, AtMostOne
    <3> QED
      BY <3>2 DEF IInv, BarrierInv, ProbedOnce
  <2> QED
    BY <2>1, <2>2, <2>3 DEF RowsAccounted
<1> QED
  BY <1>1, Inductive, PTL

\* What a thread does to the pool: it moves nobody but itself, and connects only
\* while no round of probes has failed.
LEMMA OwnThread ==
    ASSUME Typed, NEW t \in Table, ThreadStep(t) \/ Interrupt(t) \/ EventFails(t)
    PROVE  /\ thread[t].pc # "none"
           /\ \A u \in Table \ {t} : thread'[u] = thread[u]
           /\ thread'[t].pc = "connect" => thread[t].pc = "connect" \/ ~barrier.failed
<1> USE DEF Typed, At
<1>1. CASE Start(t) \/ FinishTable(t) \/ FailTable(t) \/ Announce(t)
  BY <1>1 DEF Start, FinishTable, FailTable, Announce, Goto, Thread
<1>2. CASE Ready(t)
  BY <1>2 DEF Ready, Thread
<1>3. CASE PrepareTable(t) \/ Truncate(t)
  BY <1>3 DEF PrepareTable, Truncate, Goto, Thread
<1>4. CASE Load(t)
  BY <1>4 DEF Load, Thread
<1>5. CASE Interrupt(t)
  BY <1>5 DEF Interrupt, Goto, Thread
<1>6. CASE EventFails(t)
  BY <1>6 DEF EventFails, Goto, Thread
<1>7. ASSUME Resume(t) \/ GiveUp(t)
      PROVE  /\ \A u \in Table \ {t} : thread'[u] = thread[u]
             /\ thread'[t].pc # "connect"
  BY <1>7 DEF Resume, GiveUp, Goto, Thread
<1>8. CASE Recover(t)
  <2>1. thread[t].pc = "interrupted"
    BY <1>8 DEF Recover
  <2>2. Resume(t) \/ GiveUp(t) \/ Goto(t, "waiting") \/ Goto(t, "announcing")
    BY <1>8 DEF Recover
  <2>3. CASE Goto(t, "waiting") \/ Goto(t, "announcing")
    BY <2>1, <2>3 DEF Goto, Thread
  <2> QED
    BY <1>7, <2>1, <2>2, <2>3
<1>9. CASE Wait(t) \/ ProbeSucceeds(t)
  <2>1. thread[t].pc # "none" /\ (Resume(t) \/ GiveUp(t))
    BY <1>9 DEF Wait, ProbeSucceeds
  <2> QED
    BY <1>7, <2>1
<1>10. CASE ProbeFails(t)
  <2>1. thread[t].pc = "probing" /\ (thread' = thread \/ GiveUp(t))
    BY <1>10 DEF ProbeFails
  <2> QED
    BY <1>7, <2>1
<1> QED
  BY <1>1, <1>2, <1>3, <1>4, <1>5, <1>6, <1>8, <1>9, <1>10 DEF ThreadStep

(* Once a round of probes has failed the outage is never taken for over, no *)
(* table opens a connection, and no table is submitted after the first     *)
(* result that says so (_DataSyncConnectionRecovery, execute_data_sync).   *)
THEOREM Outage == Spec => OutageStops
<1> DEFINE Stopping ==
        barrier.failed =>
            /\ barrier'.failed
            /\ \A t \in Table : thread'[t].pc = "connect" => thread[t].pc = "connect"
            /\ (\E t \in Table : thread'[t].pc = "collected" /\ thread'[t].stop) =>
                  \A t \in Table : thread[t].pc = "none" => thread'[t].pc = "none"
<1>1. Typed /\ IInv /\ [Next]_vars => [Stopping]_vars
  <2> SUFFICES ASSUME Typed, IInv, Next, barrier.failed PROVE Stopping
    BY DEF vars
  <2> USE DEF Typed
  <2>1. \A t \in Table : thread[t].pc \notin {"announcing", "probing"}
    BY DEF IInv, BarrierInv, Probing
  <2>2. ASSUME NEW t \in Table, ThreadStep(t) \/ Interrupt(t) \/ EventFails(t)
        PROVE  Stopping
    <3>1. barrier' = barrier
      BY <2>1, <2>2 DEF ThreadStep, Interrupt, EventFails, Start, Ready, PrepareTable, Truncate,
             Load, FinishTable, FailTable, Recover, Wait, Announce, ProbeSucceeds, ProbeFails, At
    <3>2. /\ thread[t].pc # "none"
          /\ \A u \in Table \ {t} : thread'[u] = thread[u]
          /\ thread'[t].pc = "connect" => thread[t].pc = "connect"
      BY <2>2, OwnThread
    <3> QED
      BY <3>1, <3>2
  <2>3. CASE Finish \/ Unwind \/ Crash \/ \E t \in Table : Raise(t)
    BY <2>3 DEF Finish, Unwind, Crash, Raise
  <2>4. CASE Prepare
    <3>1. \A t \in Table : thread[t].pc = "none"
      <4>1. run.pc = "prepared" /\ run.next = 1
        BY <2>4 DEF Prepare, IInv, RunInv
      <4>2. \A t \in Table : t >= run.next
        BY <4>1 DEF Table
      <4> QED
        BY <4>1, <4>2 DEF IInv, TableInv
    <3>2. barrier' = barrier /\ \A t \in Table : thread'[t].pc \in {"none", "start"}
      BY <2>4, <3>1 DEF Prepare, Thread
    <3> QED
      BY <3>1, <3>2
  <2>5. ASSUME NEW t \in Table, Collect(t) PROVE Stopping
    <3>1. /\ barrier' = barrier /\ run.pc = "running" /\ thread[t].pc = "done"
          /\ \A s \in Table :
                IF s = t THEN thread'[s] = [thread[s] EXCEPT !.pc = "collected"]
                ELSE \/ thread'[s] = thread[s]
                     \/ /\ ~run.stop /\ ~Stops(t)
                        /\ thread'[s] = [thread[s] EXCEPT !.pc = "start"]
      BY <2>5 DEF Collect
    <3>2. \A s \in Table : thread'[s].pc = "connect" => thread[s].pc = "connect"
      BY <3>1 DEF Thread
    <3>3. ASSUME NEW s \in Table, thread'[s].pc = "collected" /\ thread'[s].stop
          PROVE  run.stop \/ Stops(t)
      <4>1. CASE s = t
        <5>1. thread[t].stop
          BY <3>1, <3>3, <4>1 DEF Thread
        <5>2. row[t] = "failed"
          BY <3>1, <5>1 DEF IInv, TableInv
        <5>3. result'[t] = "failed"
          BY <2>5, <5>2 DEF Collect
        <5> QED
          BY <5>1, <5>3 DEF Stops
      <4>2. CASE s # t
        <5>1. thread[s].pc = "collected" /\ thread[s].stop
          BY ZenonT(60), <3>1, <3>3, <4>2 DEF Thread
        <5> QED
          BY <5>1 DEF IInv, TableInv
      <4> QED
        BY <4>1, <4>2
    <3>4. run.stop \/ Stops(t) =>
              \A s \in Table : thread[s].pc = "none" => thread'[s].pc = "none"
      BY <3>1
    <3> QED
      BY <3>1, <3>2, <3>3, <3>4
  <2> QED
    BY <2>2, <2>3, <2>4, <2>5 DEF Next, MainStep
<1> QED
  BY <1>1, Inductive, PTL DEF OutageStops, Spec

===============================================================================

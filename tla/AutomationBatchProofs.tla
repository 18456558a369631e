------------------------ MODULE AutomationBatchProofs ------------------------
(***************************************************************************)
(* Proofs about the loops of data automation.                              *)
(*                                                                         *)
(* AutomationBatch, for any number of batches, scheduler threads and       *)
(* requests and any settings of the pipeline: type correctness and that    *)
(* stages follow each other (StageOrder, CompletedIsComplete), though      *)
(* every operation works on a row it has read some time ago.               *)
(*                                                                         *)
(* MetadataOutbox, for any assets, writers and workers: a snapshot that is *)
(* recorded as copied was copied.  AssistantBatch, for any plans, files    *)
(* and schedulers: a stage runs once, in its turn and as it was confirmed. *)
(***************************************************************************)
EXTENDS AutomationWork, FiniteSetTheorems, TLAPS

\* What a state promises of the batch's runs: in the column state, in the
\* column resume, and in the copy an operation holds.
Earned(b, state) ==
    /\ state \in {"sync_queued", "syncing"} => Succeeded(b, "restore")
    /\ state \in {"standardize_queued", "standardizing"} =>
          \A s \in Requires(b, "standard") : Succeeded(b, s)
    /\ state = "encryption_ready" => \A s \in Requires(b, "encrypt") : Succeeded(b, s)
    /\ state = "standard_ready" => b \notin protected /\ Succeeded(b, "standard")
    /\ state = "completed" =>
          /\ Succeeded(b, "standard")
          /\ b \in protected => Succeeded(b, "encrypt")
Promises(b, r) ==
    "absent" \notin {r.state, r.resume} /\ Earned(b, r.state) /\ Earned(b, r.resume)

\* The current runs of a row are runs of the batch and of their stage.
PointsTo(b, r) ==
    \A s \in Stage : r.run[s] # 0 =>
        /\ r.run[s] \in DOMAIN runs
        /\ runs[r.run[s]].batch = b /\ runs[r.run[s]].stage = s

Good(b, r) == Promises(b, r) /\ PointsTo(b, r)

\* The stage whose run an operation has read.
StageSeen(x) == IF x.op = "activate" THEN "encrypt" ELSE StageOf(x.seen)

\* What an operation has read was true of the row, and of the run.
ReadRight(x) ==
    /\ Good(x.batch, x.seen)
    /\ StageSeen(x) # "none" =>
          /\ x.seen.run[StageSeen(x)] # 0 /\ x.run # "none"
          /\ x.run = "succeeded" => Succeeded(x.batch, StageSeen(x))
    /\ x.op = "submit" => x.seen.state = "encryption_ready"
    /\ x.op = "generate" => x.seen.state = "standard_ready"

RowInv(b) == row[b] = NoRow \/ Good(b, row[b])
RunInv(i) == row[runs[i].batch].state # "absent"
ActorInv(a) ==
    actor[a].op # "idle" => row[actor[a].batch].state # "absent" /\ ReadRight(actor[a])

IInv ==
    /\ \A b \in Batch : RowInv(b)
    /\ \A i \in DOMAIN runs : RunInv(i)
    /\ \A a \in Actor : ActorInv(a)
    /\ StageOrder

-----------------------------------------------------------------------------
(* Records.  They are edited only here.                                    *)

AnyState == BatchState \cup {"none"}

LEMMA RowFields ==
    /\ \A r \in Row : r.state \in BatchState /\ r.resume \in AnyState /\ r.run \in [Stage -> Nat]
    /\ NoRow \in Row
BY DEF Row, NoRow, AnyState, BatchState

LEMMA RowIn ==
    \A r \in Row, st \in BatchState :
        /\ In(r, st) \in Row /\ In(r, st).state = st
        /\ In(r, st).resume = r.resume /\ In(r, st).run = r.run
BY DEF In, Row

Stopped(r, st, from) == [r EXCEPT !.state = st, !.resume = from]
LEMMA RowStop ==
    \A r \in Row, st \in BatchState, from \in AnyState :
        /\ Stopped(r, st, from) \in Row
        /\ Stopped(r, st, from).state = st /\ Stopped(r, st, from).resume = from
        /\ Stopped(r, st, from).run = r.run
BY DEF Row, AnyState, Stopped

LEMMA RowRun ==
    ASSUME NEW r \in Row, NEW s \in Stage, NEW n \in Nat
    PROVE  /\ [r EXCEPT !.run[s] = n] \in Row
           /\ [r EXCEPT !.run[s] = n].state = r.state
           /\ [r EXCEPT !.run[s] = n].resume = r.resume
           /\ [r EXCEPT !.run[s] = n].run = [r.run EXCEPT ![s] = n]
<1>1. [r.run EXCEPT ![s] = n] \in [Stage -> Nat]
  BY RowFields
<1> QED
  BY <1>1 DEF Row

LEMMA FlushFields ==
    \A current, seen, new \in Row :
        /\ Flush(current, seen, new) \in Row
        /\ Flush(current, seen, new).state \in {current.state, new.state}
        /\ Flush(current, seen, new).resume \in {current.resume, new.resume}
        /\ \A s \in Stage : Flush(current, seen, new).run[s] =
              IF new.run[s] = seen.run[s] THEN current.run[s] ELSE new.run[s]
<1> SUFFICES ASSUME NEW current \in Row, NEW seen \in Row, NEW new \in Row
             PROVE  /\ Flush(current, seen, new) \in Row
                    /\ Flush(current, seen, new).state \in {current.state, new.state}
                    /\ Flush(current, seen, new).resume \in {current.resume, new.resume}
                    /\ \A s \in Stage : Flush(current, seen, new).run[s] =
                          IF new.run[s] = seen.run[s] THEN current.run[s] ELSE new.run[s]
  OBVIOUS
<1>1. \A r \in {current, seen, new} : /\ r.state \in BatchState
                                      /\ r.resume \in BatchState \cup {"none"}
                                      /\ r.run \in [Stage -> Nat]
  BY RowFields DEF AnyState
<1> DEFINE run == [s \in Stage |-> IF new.run[s] = seen.run[s] THEN current.run[s]
                                  ELSE new.run[s]]
<1>2. run \in [Stage -> Nat]
  BY <1>1
<1>3. Flush(current, seen, new).run = run
  BY DEF Flush
<1> HIDE DEF run
<1>4. Flush(current, seen, new) \in Row
  BY <1>1, <1>2, <1>3 DEF Flush, Row
<1> QED
  BY <1>1, <1>3, <1>4 DEF Flush, run

AnyOp == {"idle", "advance", "scan", "resume", "submit", "activate", "generate", "match"}
LEMMA SlotFields ==
    /\ \A x \in ActorSlot : /\ x.op \in AnyOp /\ x.batch \in Batch /\ x.seen \in Row
                            /\ x.run \in RunState \cup {"none"} /\ x.busy \in BOOLEAN
    /\ \A b \in Batch : Idle(b) \in ActorSlot /\ Idle(b).op = "idle"
    /\ \A op \in AnyOp, b \in Batch, r \in Row, run \in RunState \cup {"none"}, busy \in BOOLEAN :
          [op |-> op, batch |-> b, seen |-> r, run |-> run, busy |-> busy] \in ActorSlot
BY RowFields DEF ActorSlot, Idle, AnyOp

LEMMA RunFields ==
    /\ \A x \in Run : x.batch \in Batch /\ x.stage \in Stage /\ x.state \in RunState
    /\ \A x \in Run, st \in RunState : /\ [x EXCEPT !.state = st] \in Run
                                       /\ [x EXCEPT !.state = st].batch = x.batch
                                       /\ [x EXCEPT !.state = st].stage = x.stage
    /\ \A b \in Batch, s \in Stage :
          [batch |-> b, stage |-> s, state |-> "queued"] \in Run
BY DEF Run, RunState

-----------------------------------------------------------------------------
(* Every outcome of an operation keeps the promises of the row it read, and *)
(* registers only a run whose stage is due.                                *)

Fits(b, r, o) ==
    /\ o.row \in Row /\ o.row.run = r.run /\ Promises(b, o.row)
    /\ o.prepare \in Stage \cup {"none"}
    /\ o.prepare # "none" => \A s \in Requires(b, o.prepare) : Succeeded(b, s)

\* States that promise nothing.
Free == BatchState \ {"absent", "sync_queued", "syncing", "standardize_queued", "standardizing",
                      "encryption_ready", "standard_ready", "completed"}

LEMMA FreeEarned == \A b \in Batch, st \in Free \cup {"none"} : Earned(b, st)
BY DEF Free, Earned

\* A row moved to a state it has earned.
LEMMA Move ==
    ASSUME NEW b \in Batch, NEW r \in Row, Promises(b, r), NEW st \in BatchState \ {"absent"},
           Earned(b, st)
    PROVE  In(r, st) \in Row /\ In(r, st).run = r.run /\ Promises(b, In(r, st))
BY RowIn DEF Promises

LEMMA JustFits ==
    ASSUME NEW b \in Batch, NEW r, NEW new \in Row, new.run = r.run, Promises(b, new)
    PROVE  Fits(b, r, Just(new))
BY DEF Fits, Just, Outcome

LEMMA PrepareFits ==
    ASSUME NEW b \in Batch, NEW r, NEW new \in Row, new.run = r.run, Promises(b, new),
           NEW stage \in Stage, \A s \in Requires(b, stage) : Succeeded(b, s)
    PROVE  Fits(b, r, Outcome(new, stage))
BY DEF Fits, Outcome

LEMMA StopFits ==
    ASSUME NEW b \in Batch, NEW r \in Row, NEW st \in {"blocked", "failed"},
           NEW from \in BatchState \ {"absent"}, Earned(b, from)
    PROVE  Fits(b, r, Stop(r, st, from))
<1> DEFINE new == Stopped(r, st, from)
<1>1. st \in BatchState /\ st \in Free /\ from \in AnyState
  BY DEF BatchState, TerminalState, Free, AnyState
<1>2. new \in Row /\ new.state = st /\ new.resume = from /\ new.run = r.run
  BY <1>1, RowStop
<1>3. Promises(b, new)
  BY <1>1, <1>2, FreeEarned DEF Promises, Free
<1>4. Stop(r, st, from) = Just(new)
  BY DEF Stop, Stopped
<1> HIDE DEF new
<1> QED
  BY <1>2, <1>3, <1>4, JustFits

LEMMA RaiseFits ==
    ASSUME NEW b \in Batch, NEW r, NEW at \in Row, at.run = r.run, Promises(b, at)
    PROVE  Fits(b, r, Raise(at))
<1> DEFINE from == IF at.resume = "none" THEN at.state ELSE at.resume
           new == Stopped(at, "failed", from)
<1>1. "failed" \in BatchState /\ "failed" \in Free /\ from \in AnyState
  BY RowFields DEF BatchState, TerminalState, Free, AnyState
<1>2. Earned(b, from) /\ from # "absent"
  BY DEF Promises
<1>3. Raise(at) = [row |-> new, prepare |-> "none", raised |-> TRUE]
  BY DEF Raise, Stopped
<1> HIDE DEF from
<1>4. new \in Row /\ new.state = "failed" /\ new.resume = from /\ new.run = at.run
  BY <1>1, RowStop
<1>5. Promises(b, new)
  BY <1>1, <1>2, <1>4, FreeEarned DEF Promises, Free
<1> HIDE DEF new
<1> QED
  BY <1>3, <1>4, <1>5 DEF Fits

\* A run that was registered, succeeded or not, has what its stage requires.
LEMMA StartedEarned ==
    ASSUME TypeOK, StageOrder, NEW b \in Batch, NEW stage \in Stage,
           NEW i \in DOMAIN runs, runs[i].batch = b, runs[i].stage = stage
    PROVE  \A s \in Requires(b, stage) : Succeeded(b, s)
<1>1. runs \in Seq(Run)
  BY DEF TypeOK
<1>2. \A j \in 1 .. (i - 1) : j \in DOMAIN runs
  BY <1>1
<1> QED
  BY <1>2 DEF StageOrder, Succeeded

LEMMA SucceededEarned ==
    ASSUME TypeOK, StageOrder, NEW b \in Batch, NEW stage \in Stage, Succeeded(b, stage)
    PROVE  \A s \in Requires(b, stage) : Succeeded(b, s)
<1>1. PICK i \in DOMAIN runs : runs[i].batch = b /\ runs[i].stage = stage
  BY DEF Succeeded
<1> QED
  BY <1>1, StartedEarned

LEMMA QueueFits ==
    ASSUME NEW b \in Batch, NEW r, NEW at \in Row, at.run = r.run, Promises(b, at), NEW busy,
           \A s \in Requires(b, "standard") : Succeeded(b, s),
           NEW o \in QueueStandardization(at, busy)
    PROVE  Fits(b, r, o)
<1>1. CASE o = Raise(at)
  BY <1>1, RaiseFits
<1>2. CASE o = Outcome(In(at, "standardize_queued"), "standard")
  <2>1. /\ In(at, "standardize_queued") \in Row /\ In(at, "standardize_queued").run = at.run
        /\ Promises(b, In(at, "standardize_queued"))
    <3>1. "standardize_queued" \in BatchState \ {"absent"} /\ Earned(b, "standardize_queued")
      BY DEF BatchState, Earned
    <3> QED
      BY <3>1, Move
  <2> QED
    BY <1>2, <2>1, PrepareFits DEF Stage
<1> QED
  BY <1>1, <1>2 DEF QueueStandardization

\* A row moved to a state it has earned, without a run.
LEMMA MoveFits ==
    ASSUME NEW b \in Batch, NEW r \in Row, Promises(b, r),
           NEW st \in BatchState \ {"absent"}, Earned(b, st)
    PROVE  Fits(b, r, Just(In(r, st)))
BY Move, JustFits

LEMMA CompletionFits ==
    ASSUME TypeOK, StageOrder, NEW b \in Batch, NEW r \in Row, Good(b, r),
           r.run["encrypt"] # 0, NEW run \in RunState, NEW busy,
           run = "succeeded" => Succeeded(b, "encrypt"),
           NEW o \in CompleteEncryption(r, b, run, busy)
    PROVE  Fits(b, r, o)
<1>0. Promises(b, r)
  BY DEF Good
<1>1. \A s \in Requires(b, "encrypt") : Succeeded(b, s)
  <2>1. PointsTo(b, r) /\ "encrypt" \in Stage
    BY DEF Good, Stage
  <2> QED
    BY <2>1, StartedEarned DEF PointsTo
<1>2. CASE run \in {"queued", "running"}
  BY <1>0, <1>2, JustFits DEF CompleteEncryption
<1>3. CASE run = "failed"
  <2> DEFINE from == IF b \in protected THEN "encryption_ready" ELSE "standard_ready"
  <2>1. from \in BatchState \ {"absent"} /\ Earned(b, from)
    BY <1>1 DEF BatchState, Earned, Requires
  <2>2. o = Stop(r, "failed", from)
    BY <1>3 DEF CompleteEncryption
  <2> HIDE DEF from
  <2> QED
    BY <2>1, <2>2, StopFits
<1>4. CASE run = "succeeded"
  <2>1. CASE o = Raise(r)
    BY <1>0, <2>1, RaiseFits
  <2>2. CASE b \in protected /\ o \in QueueStandardization(In(r, "security_access_active"), busy)
    <3>1. \A s \in Requires(b, "standard") : Succeeded(b, s)
      BY <1>1, <1>4, <2>2 DEF Requires
    <3>2. "security_access_active" \in BatchState \ {"absent"}
          /\ "security_access_active" \in Free
      BY DEF BatchState, Free
    <3>3. /\ In(r, "security_access_active") \in Row
          /\ In(r, "security_access_active").run = r.run
          /\ Promises(b, In(r, "security_access_active"))
      BY <1>0, <3>2, FreeEarned, Move
    <3> QED
      BY <2>2, <3>1, <3>3, QueueFits
  <2>3. CASE b \notin protected /\ o = Just(In(r, "completed"))
    <3>1. "completed" \in BatchState \ {"absent"} /\ Earned(b, "completed")
      BY <1>1, <2>3 DEF BatchState, TerminalState, Earned, Requires
    <3> QED
      BY <1>0, <2>3, <3>1, MoveFits
  <2> QED
    BY <1>4, <2>1, <2>2, <2>3 DEF CompleteEncryption
<1> QED
  BY <1>2, <1>3, <1>4 DEF RunState, Ended

LEMMA RestoredFits ==
    ASSUME NEW b \in Batch, NEW r \in Row, Promises(b, r), Succeeded(b, "restore"),
           NEW o \in AfterRestore(r)
    PROVE  Fits(b, r, o)
<1>1. CASE o = Stop(r, "blocked", "asset_registered")
  <2>1. "asset_registered" \in BatchState \ {"absent"} /\ "asset_registered" \in Free
    BY DEF BatchState, Free
  <2> QED
    BY <1>1, <2>1, FreeEarned, StopFits
<1>2. CASE o = Outcome(In(r, "sync_queued"), "sync")
  <2>1. "sync_queued" \in BatchState \ {"absent"} /\ Earned(b, "sync_queued")
    BY DEF BatchState, Earned
  <2>2. \A s \in Requires(b, "sync") : Succeeded(b, s)
    BY DEF Requires
  <2> QED
    BY <1>2, <2>1, <2>2, Move, PrepareFits DEF Stage
<1>3. CASE o = Raise(In(r, "restored"))
  <2>1. "restored" \in BatchState \ {"absent"} /\ "restored" \in Free
    BY DEF BatchState, Free
  <2> QED
    BY <1>3, <2>1, FreeEarned, Move, RaiseFits
<1>4. CASE o = Just(In(r, "raw_ready"))
  <2>1. "raw_ready" \in BatchState \ {"absent"} /\ "raw_ready" \in Free
    BY DEF BatchState, Free
  <2> QED
    BY <1>4, <2>1, FreeEarned, MoveFits
<1> QED
  BY <1>1, <1>2, <1>3, <1>4 DEF AfterRestore

LEMMA SyncedFits ==
    ASSUME NEW b \in Batch, NEW r \in Row, Promises(b, r), Succeeded(b, "sync"), NEW busy,
           NEW o \in AfterSync(r, b, busy)
    PROVE  Fits(b, r, o)
<1>1. /\ "raw_ready" \in BatchState \ {"absent"} /\ "raw_ready" \in Free
      /\ "encryption_ready" \in BatchState \ {"absent"}
  BY DEF BatchState, Free
<1>2. /\ In(r, "raw_ready") \in Row /\ In(r, "raw_ready").run = r.run
      /\ Promises(b, In(r, "raw_ready"))
  BY <1>1, FreeEarned, Move
<1>3. CASE o \in {Raise(r), Raise(In(r, "raw_ready")), Just(In(r, "raw_ready"))}
  BY <1>2, <1>3, RaiseFits, JustFits
<1>4. CASE b \in protected /\ o = Just(In(r, "encryption_ready"))
  <2>1. Earned(b, "encryption_ready")
    BY <1>4 DEF Earned, Requires
  <2> QED
    BY <1>1, <1>4, <2>1, MoveFits
<1>5. CASE b \notin protected /\ o \in QueueStandardization(In(r, "raw_ready"), busy)
  <2>1. \A s \in Requires(b, "standard") : Succeeded(b, s)
    BY <1>5 DEF Requires
  <2> QED
    BY <1>2, <1>5, <2>1, QueueFits
<1> QED
  BY <1>3, <1>4, <1>5 DEF AfterSync

LEMMA StandardFits ==
    ASSUME TypeOK, StageOrder, NEW b \in Batch, NEW r \in Row, Promises(b, r),
           Succeeded(b, "standard"), NEW o \in AfterStandard(r, b)
    PROVE  Fits(b, r, o)
<1>1. \A s \in Requires(b, "standard") : Succeeded(b, s)
  BY SucceededEarned DEF Stage
<1>2. {"completed", "standard_ready", "encryption_ready"} \subseteq BatchState \ {"absent"}
  BY DEF BatchState, TerminalState
<1>3. CASE o = Raise(r)
  BY <1>3, RaiseFits
<1>4. CASE b \in protected /\ o = Just(In(r, "completed"))
  <2>1. Earned(b, "completed")
    BY <1>1, <1>4 DEF Earned, Requires
  <2> QED
    BY <1>2, <1>4, <2>1, MoveFits
<1>5. CASE /\ b \notin protected
           /\ o \in {Just(In(r, "standard_ready")), Just(In(r, "encryption_ready")),
                     Stop(r, "blocked", "standard_ready"), Raise(In(r, "standard_ready"))}
  <2>1. Earned(b, "standard_ready") /\ Earned(b, "encryption_ready")
    BY <1>5 DEF Earned, Requires
  <2>2. /\ In(r, "standard_ready") \in Row /\ In(r, "standard_ready").run = r.run
        /\ Promises(b, In(r, "standard_ready"))
    BY <1>2, <2>1, Move
  <2> QED
    BY <1>2, <1>5, <2>1, <2>2, MoveFits, StopFits, RaiseFits
<1> QED
  BY <1>3, <1>4, <1>5 DEF AfterStandard

LEMMA WaitingFits ==
    ASSUME NEW b \in Batch, NEW r \in Row, Promises(b, r), NEW run,
           NEW queued \in BatchState \ {"absent"}, NEW executing \in BatchState \ {"absent"},
           Earned(b, queued), Earned(b, executing), NEW o \in Waiting(r, run, queued, executing)
    PROVE  Fits(b, r, o)
BY MoveFits DEF Waiting

LEMMA AdvancedFits ==
    ASSUME TypeOK, StageOrder, NEW b \in Batch, NEW r \in Row, Good(b, r), NEW busy,
           NEW run \in RunState \cup {"none"},
           StageOf(r) # "none" =>
              /\ r.run[StageOf(r)] # 0 /\ run # "none"
              /\ run = "succeeded" => Succeeded(b, StageOf(r)),
           NEW o \in Advanced(r, b, run, busy)
    PROVE  Fits(b, r, o)
<1> DEFINE stage == StageOf(r)
           ongoing == run \in {"queued", "running"}
<1>1. Promises(b, r) /\ Earned(b, r.state)
  BY DEF Good, Promises
<1>2. /\ {"restore_queued", "restoring", "sync_queued", "syncing", "standardize_queued",
          "standardizing", "encrypting", "completed"} \subseteq BatchState \ {"absent"}
      /\ {"restore_queued", "restoring", "encrypting"} \subseteq Free
  BY DEF BatchState, TerminalState, Free
<1>8. stage # "none" => ongoing \/ run = "failed" \/ run = "succeeded"
  BY DEF RunState, Ended
<1>9. stage # "none" => r.state \notin {"encryption_ready", "standard_ready"}
  BY DEF StageOf
<1> HIDE DEF stage, ongoing
<1>3. CASE stage = "restore"
  <2>1. \/ ongoing /\ o \in Waiting(r, run, "restore_queued", "restoring")
        \/ run = "failed" /\ o = Stop(r, "failed", "restore_queued")
        \/ run = "succeeded" /\ o \in AfterRestore(r)
    BY <1>3, <1>8, <1>9 DEF Advanced, stage, ongoing
  <2>2. Earned(b, "restore_queued") /\ Earned(b, "restoring")
    BY <1>2, FreeEarned
  <2> QED
    BY <1>1, <1>2, <1>3, <2>1, <2>2, WaitingFits, StopFits, RestoredFits DEF stage
<1>4. CASE stage = "sync"
  <2>1. \/ ongoing /\ o \in Waiting(r, run, "sync_queued", "syncing")
        \/ run = "failed" /\ o = Stop(r, "failed", "sync_queued")
        \/ run = "succeeded" /\ o \in AfterSync(r, b, busy)
    BY <1>4, <1>8, <1>9 DEF Advanced, stage, ongoing
  <2>2. r.state \in {"sync_queued", "syncing"}
    BY <1>4 DEF StageOf, stage
  <2>3. Earned(b, "sync_queued") /\ Earned(b, "syncing")
    BY <1>1, <2>2 DEF Earned
  <2> QED
    BY <1>1, <1>2, <1>4, <2>1, <2>3, WaitingFits, StopFits, SyncedFits DEF stage
<1>5. CASE stage = "standard"
  <2>1. \/ ongoing /\ o \in Waiting(r, run, "standardize_queued", "standardizing")
        \/ run = "failed" /\ o = Stop(r, "failed", "standardize_queued")
        \/ run = "succeeded" /\ o \in AfterStandard(r, b)
    BY <1>5, <1>8, <1>9 DEF Advanced, stage, ongoing
  <2>2. r.state \in {"standardize_queued", "standardizing"}
    BY <1>5 DEF StageOf, stage
  <2>3. Earned(b, "standardize_queued") /\ Earned(b, "standardizing")
    BY <1>1, <2>2 DEF Earned
  <2> QED
    BY <1>1, <1>2, <1>5, <2>1, <2>3, WaitingFits, StopFits, StandardFits DEF stage
<1>6. CASE stage = "encrypt"
  <2>1. o \in CompleteEncryption(r, b, run, busy)
    BY <1>6, <1>9 DEF Advanced, stage, ongoing
  <2> QED
    BY <1>6, <2>1, CompletionFits DEF stage
<1>7. CASE stage = "none"
  <2>1. \/ r.state = "encryption_ready" /\ o \in {Raise(r), Outcome(In(r, "encrypting"), "encrypt")}
        \/ r.state = "standard_ready" /\ o = Just(In(r, "completed"))
        \/ o = Just(r)
    BY <1>7 DEF Advanced, stage, ongoing
  <2>2. CASE o = Raise(r) \/ o = Just(r)
    BY <1>1, <2>2, RaiseFits, JustFits
  <2>3. CASE r.state = "encryption_ready" /\ o = Outcome(In(r, "encrypting"), "encrypt")
    <3>1. \A s \in Requires(b, "encrypt") : Succeeded(b, s)
      BY <1>1, <2>3 DEF Earned
    <3>2. /\ In(r, "encrypting") \in Row /\ In(r, "encrypting").run = r.run
          /\ Promises(b, In(r, "encrypting"))
      BY <1>1, <1>2, FreeEarned, Move
    <3> QED
      BY <2>3, <3>1, <3>2, PrepareFits DEF Stage
  <2>4. CASE r.state = "standard_ready" /\ o = Just(In(r, "completed"))
    <3>1. Earned(b, "completed")
      BY <1>1, <2>4 DEF Earned
    <3> QED
      BY <1>1, <1>2, <2>4, <3>1, MoveFits
  <2> QED
    BY <2>1, <2>2, <2>3, <2>4
<1> QED
  BY <1>3, <1>4, <1>5, <1>6, <1>7 DEF StageOf, stage

\* A row moved to a state it has earned, that no longer says where to resume.
LEMMA Again ==
    ASSUME NEW b \in Batch, NEW r \in Row, NEW st \in BatchState \ {"absent"}, Earned(b, st)
    PROVE  LET new == [r EXCEPT !.state = st, !.resume = "none"]
           IN  new \in Row /\ new.run = r.run /\ Promises(b, new)
<1> DEFINE new == Stopped(r, st, "none")
<1>1. new \in Row /\ new.state = st /\ new.resume = "none" /\ new.run = r.run
  BY RowStop DEF AnyState
<1> HIDE DEF new
<1>2. Promises(b, new)
  BY <1>1, FreeEarned DEF Promises
<1> QED
  BY <1>1, <1>2 DEF new, Stopped

LEMMA ResumedFits ==
    ASSUME NEW b \in Batch, NEW r \in Row, Promises(b, r), NEW busy, NEW o \in Resumed(r, busy)
    PROVE  Fits(b, r, o)
<1> DEFINE from == IF r.resume = "none" THEN r.state ELSE r.resume
           To(st) == [r EXCEPT !.state = st, !.resume = "none"]
<1>1. from \in BatchState \ {"absent"} /\ Earned(b, from)
  BY RowFields DEF Promises, AnyState
<1>2. \/ o = Outcome(To("restore_queued"), "restore")
      \/ from \in {"sync_queued", "syncing"} /\ o = Outcome(To("sync_queued"), "sync")
      \/ /\ from \in {"standardize_queued", "standardizing"}
         /\ o = Outcome(To("standardize_queued"), "standard")
      \/ o = Just(To(from))
  BY DEF Resumed
<1>3. \A st \in BatchState \ {"absent"} :
          Earned(b, st) => To(st) \in Row /\ To(st).run = r.run /\ Promises(b, To(st))
  BY Again
<1>4. /\ {"restore_queued", "sync_queued", "standardize_queued"} \subseteq BatchState \ {"absent"}
      /\ "restore_queued" \in Free
  BY DEF BatchState, Free
<1> HIDE DEF from, To
<1>5. CASE o = Outcome(To("restore_queued"), "restore")
  <2>1. \A s \in Requires(b, "restore") : Succeeded(b, s)
    BY DEF Requires
  <2> QED
    BY <1>3, <1>4, <1>5, <2>1, FreeEarned, PrepareFits DEF Stage
<1>6. CASE from \in {"sync_queued", "syncing"} /\ o = Outcome(To("sync_queued"), "sync")
  <2>1. /\ \A s \in Requires(b, "sync") : Succeeded(b, s)
        /\ Earned(b, "sync_queued")
    BY <1>1, <1>6 DEF Requires, Earned
  <2> QED
    BY <1>3, <1>4, <1>6, <2>1, PrepareFits DEF Stage
<1>7. CASE /\ from \in {"standardize_queued", "standardizing"}
           /\ o = Outcome(To("standardize_queued"), "standard")
  <2>1. /\ \A s \in Requires(b, "standard") : Succeeded(b, s)
        /\ Earned(b, "standardize_queued")
    BY <1>1, <1>7 DEF Earned
  <2> QED
    BY <1>3, <1>4, <1>7, <2>1, PrepareFits DEF Stage
<1>8. CASE o = Just(To(from))
  BY <1>1, <1>3, <1>8, JustFits
<1> QED
  BY <1>2, <1>5, <1>6, <1>7, <1>8

LEMMA OutcomesFit ==
    ASSUME TypeOK, IInv, NEW a \in Actor, actor[a].op # "idle", NEW o \in Outcomes(a)
    PROVE  Fits(actor[a].batch, actor[a].seen, o)
<1> DEFINE x == actor[a]
           b == x.batch
           r == x.seen
<1>1. /\ x.op \in AnyOp /\ b \in Batch /\ r \in Row /\ x.run \in RunState \cup {"none"}
  BY SlotFields DEF TypeOK
<1>2. ReadRight(x) /\ Good(b, r) /\ Promises(b, r) /\ StageOrder
  BY DEF IInv, ActorInv, ReadRight, Good
<1>3. x.op # "idle"
  OBVIOUS
<1> HIDE DEF x
<1>4. CASE x.op = "advance"
  <2>1. o \in Advanced(r, b, x.run, x.busy)
    BY <1>4 DEF Outcomes, x
  <2>2. StageOf(r) # "none" =>
            /\ r.run[StageOf(r)] # 0 /\ x.run # "none"
            /\ x.run = "succeeded" => Succeeded(b, StageOf(r))
    BY <1>2, <1>4 DEF ReadRight, StageSeen
  <2> QED
    BY <1>1, <1>2, <2>1, <2>2, AdvancedFits DEF x
<1>5. CASE x.op = "scan"
  <2> DEFINE new == [r EXCEPT !.state = "restore_queued", !.resume = "none"]
  <2>1. o = Outcome(new, "restore") \/ o = Just(In(r, "discovered"))
    BY <1>5 DEF Outcomes, Scanned, x
  <2>2. /\ {"restore_queued", "discovered"} \subseteq BatchState \ {"absent"}
        /\ {"restore_queued", "discovered"} \subseteq Free
    BY DEF BatchState, Free
  <2>3. CASE o = Just(In(r, "discovered"))
    BY <1>1, <1>2, <2>2, <2>3, FreeEarned, MoveFits DEF x
  <2>4. CASE o = Outcome(new, "restore")
    <3>1. new \in Row /\ new.run = r.run /\ Promises(b, new)
      BY <1>1, <2>2, FreeEarned, Again
    <3>2. \A s \in Requires(b, "restore") : Succeeded(b, s)
      BY DEF Requires
    <3> HIDE DEF new
    <3> QED
      BY <1>1, <2>4, <3>1, <3>2, PrepareFits DEF Stage, x
  <2> QED
    BY <2>1, <2>3, <2>4
<1>6. CASE x.op = "resume"
  <2>1. o \in Resumed(r, x.busy)
    BY <1>6 DEF Outcomes, x
  <2> QED
    BY <1>1, <1>2, <2>1, ResumedFits DEF x
<1>7. CASE x.op = "submit"
  <2>1. o = Outcome(In(r, "encrypting"), "encrypt")
    BY <1>7 DEF Outcomes, x
  <2>2. "encrypting" \in BatchState \ {"absent"} /\ "encrypting" \in Free
    BY DEF BatchState, Free
  <2>3. r.state = "encryption_ready"
    BY <1>2, <1>7 DEF ReadRight
  <2>4. \A s \in Requires(b, "encrypt") : Succeeded(b, s)
    BY <1>2, <2>3 DEF Promises, Earned
  <2>5. /\ In(r, "encrypting") \in Row /\ In(r, "encrypting").run = r.run
        /\ Promises(b, In(r, "encrypting"))
    BY <1>1, <1>2, <2>2, FreeEarned, Move
  <2> QED
    BY <1>1, <2>1, <2>4, <2>5, PrepareFits DEF Stage, x
<1>8. CASE x.op = "activate"
  <2>1. StageSeen(x) = "encrypt"
    BY <1>8 DEF StageSeen
  <2>2. o \in CompleteEncryption(r, b, x.run, x.busy)
    BY <1>8 DEF Outcomes, x
  <2>3. /\ r.run["encrypt"] # 0 /\ x.run \in RunState
        /\ x.run = "succeeded" => Succeeded(b, "encrypt")
    BY <1>1, <1>2, <2>1 DEF ReadRight
  <2> QED
    BY <1>1, <1>2, <2>2, <2>3, CompletionFits DEF x
<1>9. CASE x.op = "generate"
  <2>1. o = Just(In(r, "encryption_ready"))
    BY <1>9 DEF Outcomes, x
  <2>2. r.state = "standard_ready"
    BY <1>2, <1>9 DEF ReadRight
  <2>3. Earned(b, "encryption_ready") /\ "encryption_ready" \in BatchState \ {"absent"}
    BY <1>2, <2>2 DEF Promises, Earned, Requires, BatchState
  <2> QED
    BY <1>1, <1>2, <2>1, <2>3, MoveFits DEF x
<1>10. CASE x.op = "match"
  <2>1. \E st \in {"path_matched", "awaiting_confirmation", "blocked"} : o = Just(In(r, st))
    BY <1>10 DEF Outcomes, x
  <2>2. /\ {"path_matched", "awaiting_confirmation", "blocked"} \subseteq BatchState \ {"absent"}
        /\ {"path_matched", "awaiting_confirmation", "blocked"} \subseteq Free
    BY DEF BatchState, TerminalState, Free
  <2> QED
    BY <1>1, <1>2, <2>1, <2>2, FreeEarned, MoveFits DEF x
<1> QED
  BY <1>1, <1>3, <1>4, <1>5, <1>6, <1>7, <1>8, <1>9, <1>10 DEF AnyOp

-----------------------------------------------------------------------------
(* Runs are only added, and a run that has succeeded stays as it is: what  *)
(* was earned once stays earned.                                           *)

Grows ==
    /\ runs' \in Seq(Run)
    /\ \A i \in DOMAIN runs :
          /\ i \in DOMAIN runs'
          /\ runs'[i].batch = runs[i].batch /\ runs'[i].stage = runs[i].stage
          /\ runs[i].state = "succeeded" => runs'[i] = runs[i]

LEMMA GrowsSame == ASSUME TypeOK, runs' = runs PROVE Grows
BY DEF TypeOK, Grows

LEMMA GrowsAppend ==
    ASSUME TypeOK, NEW e \in Run, runs' = Append(runs, e)
    PROVE  /\ Grows /\ DOMAIN runs = 1 .. Len(runs) /\ DOMAIN runs' = 1 .. Len(runs) + 1
           /\ Len(runs) \in Nat /\ runs'[Len(runs) + 1] = e
           /\ \A i \in DOMAIN runs : runs'[i] = runs[i]
BY DEF TypeOK, Grows

LEMMA Kept ==
    ASSUME TypeOK, Grows
    PROVE  /\ \A b \in Batch, s \in Stage : Succeeded(b, s) => Succeeded(b, s)'
           /\ \A b \in Batch, r \in Row : PointsTo(b, r) => PointsTo(b, r)'
<1>1. \A b \in Batch, s \in Stage : Succeeded(b, s) => Succeeded(b, s)'
  BY DEF Grows, Succeeded
<1>2. \A b \in Batch, r \in Row : PointsTo(b, r) => PointsTo(b, r)'
  BY DEF Grows, PointsTo
<1> QED
  BY <1>1, <1>2

LEMMA KeptGood ==
    ASSUME TypeOK, Grows, NEW b \in Batch, b \in protected <=> b \in protected'
    PROVE  /\ \A st \in AnyState : Earned(b, st) => Earned(b, st)'
           /\ \A r \in Row : Good(b, r) => Good(b, r)'
<1>1. \A s \in Stage : Succeeded(b, s) => Succeeded(b, s)'
  BY Kept
<1>2. /\ \A s \in Stage : Requires(b, s)' = Requires(b, s) /\ Requires(b, s) \subseteq Stage
      /\ {"restore", "sync", "standard", "encrypt"} \subseteq Stage
  BY DEF Requires, Stage
<1>3. \A st \in AnyState : Earned(b, st) => Earned(b, st)'
  BY <1>1, <1>2 DEF Earned
<1>4. \A r \in Row : Promises(b, r) => Promises(b, r)'
  BY <1>3, RowFields DEF Promises, AnyState
<1> QED
  BY <1>3, <1>4, Kept DEF Good

\* What an operation has read stays right.
LEMMA KeptRead ==
    ASSUME TypeOK, Grows, NEW x \in ActorSlot, x.batch \in protected <=> x.batch \in protected',
           ReadRight(x)
    PROVE  ReadRight(x)'
<1>1. x.batch \in Batch /\ x.seen \in Row
  BY SlotFields
<1>2. Good(x.batch, x.seen)'
  BY <1>1, KeptGood DEF ReadRight
<1>3. StageSeen(x) # "none" => StageSeen(x) \in Stage
  BY DEF StageSeen, StageOf, Stage
<1>4. StageSeen(x) # "none" /\ x.run = "succeeded" => Succeeded(x.batch, StageSeen(x))'
  BY <1>1, <1>3, Kept DEF ReadRight
<1>5. StageSeen(x)' = StageSeen(x)
  BY DEF StageSeen, StageOf
<1> QED
  BY <1>2, <1>4, <1>5 DEF ReadRight

LEMMA KeptOrder ==
    ASSUME TypeOK, StageOrder, Grows, DOMAIN runs' = DOMAIN runs, UNCHANGED protected
    PROVE  StageOrder'
<1> SUFFICES ASSUME NEW i \in DOMAIN runs', NEW s \in Requires(runs[i].batch, runs[i].stage)'
             PROVE  \E j \in 1 .. (i - 1) :
                        runs'[j] = [batch |-> runs'[i].batch, stage |-> s, state |-> "succeeded"]
  BY DEF StageOrder
<1>1. i \in DOMAIN runs /\ runs'[i].batch = runs[i].batch /\ runs'[i].stage = runs[i].stage
  BY DEF Grows
<1>2. s \in Requires(runs[i].batch, runs[i].stage)
  BY <1>1 DEF Requires
<1>3. PICK j \in 1 .. (i - 1) :
          runs[j] = [batch |-> runs[i].batch, stage |-> s, state |-> "succeeded"]
  BY <1>1, <1>2 DEF StageOrder
<1>4. j \in DOMAIN runs
  BY <1>1, <1>3 DEF TypeOK
<1>5. runs'[j] = runs[j]
  BY <1>3, <1>4 DEF Grows
<1> QED
  BY <1>1, <1>3, <1>5

-----------------------------------------------------------------------------
(* The invariant is inductive.                                             *)

LEMMA InitInv == Init => TypeOK /\ IInv
<1> SUFFICES ASSUME Init PROVE TypeOK /\ IInv
  OBVIOUS
<1>1. PICK b \in Batch : actor = [a \in Actor |-> Idle(b)]
  BY DEF Init
<1>2. actor \in [Actor -> ActorSlot] /\ \A a \in Actor : actor[a].op = "idle"
  BY <1>1, SlotFields
<1>3. row \in [Batch -> Row] /\ runs = <<>>
  BY RowFields DEF Init
<1>4. TypeOK
  BY <1>2, <1>3 DEF Init, TypeOK
<1>5. StageOrder /\ \A i \in DOMAIN runs : RunInv(i)
  BY <1>3 DEF StageOrder
<1>6. \A k \in Batch : RowInv(k)
  BY DEF Init, RowInv
<1> QED
  BY <1>2, <1>4, <1>5, <1>6 DEF IInv, ActorInv

\* A step that changes neither rows nor what is frozen, and makes no operation
\* hold what it has not read.
LEMMA RowsKept ==
    ASSUME TypeOK, IInv, Grows, DOMAIN runs' = DOMAIN runs, UNCHANGED <<row, protected>>,
           actor' \in [Actor -> ActorSlot],
           \A a \in Actor : \/ actor'[a] = actor[a] \/ actor'[a].op = "idle"
                            \/ row[actor'[a].batch].state # "absent" /\ ReadRight(actor'[a])
    PROVE  IInv'
<1>1. \A b \in Batch : RowInv(b)'
  BY KeptGood DEF IInv, RowInv, TypeOK
<1>2. \A i \in DOMAIN runs' : RunInv(i)'
  BY DEF IInv, RunInv, Grows
<1>3. StageOrder'
  BY KeptOrder DEF IInv
<1>4. ASSUME NEW a \in Actor PROVE ActorInv(a)'
  <2>1. CASE actor'[a].op = "idle"
    BY <2>1 DEF ActorInv
  <2>2. CASE actor'[a].op # "idle"
    <3>1. row[actor'[a].batch].state # "absent" /\ ReadRight(actor'[a])
      BY <2>2 DEF IInv, ActorInv
    <3>2. PICK x \in ActorSlot : x = actor'[a]
      OBVIOUS
    <3>3. ReadRight(x)'
      BY <3>1, <3>2, KeptRead
    <3> QED
      BY <2>2, <3>1, <3>2, <3>3 DEF ActorInv
  <2> QED
    BY <2>1, <2>2
<1> QED
  BY <1>1, <1>2, <1>3, <1>4 DEF IInv

LEMMA StepInv == TypeOK /\ IInv /\ [Next]_vars => (TypeOK /\ IInv)'
<1> SUFFICES ASSUME TypeOK, IInv, [Next]_vars PROVE (TypeOK /\ IInv)'
  OBVIOUS
<1>0. /\ row \in [Batch -> Row] /\ runs \in Seq(Run) /\ actor \in [Actor -> ActorSlot]
      /\ protected \subseteq Batch /\ requests \in Nat
  BY DEF TypeOK
<1>1. ASSUME NEW b \in Batch, Discover(b) PROVE (TypeOK /\ IInv)'
  <2>1. /\ row[b].state = "absent" /\ row' = [row EXCEPT ![b] = In(row[b], "stabilizing")]
        /\ protected' \in {protected, protected \cup {b}}
        /\ UNCHANGED <<runs, actor, requests>>
    BY <1>1 DEF Discover, In
  <2>2. row[b] = NoRow
    BY <2>1 DEF IInv, RowInv, Good, Promises
  <2>3. /\ In(row[b], "stabilizing") \in Row /\ row'[b].state = "stabilizing"
        /\ row'[b].resume = "none" /\ row'[b].run = [s \in Stage |-> 0]
    <3>1. "stabilizing" \in BatchState
      BY DEF BatchState
    <3> QED
      BY <1>0, <2>1, <2>2, <3>1, RowIn DEF NoRow
  <2>4. TypeOK'
    BY <1>0, <2>1, <2>3 DEF TypeOK
  <2>5. Grows
    BY <2>1, GrowsSame
  <2>6. RowInv(b)'
    BY <2>3 DEF RowInv, Good, Promises, Earned, PointsTo
  <2>7. \A k \in Batch \ {b} : RowInv(k)'
    <3>1. ASSUME NEW k \in Batch \ {b} PROVE RowInv(k)'
      <4>1. row'[k] = row[k] /\ (k \in protected <=> k \in protected') /\ row[k] \in Row
        BY <1>0, <2>1
      <4> QED
        BY <2>5, <4>1, KeptGood DEF IInv, RowInv
    <3> QED
      BY <3>1
  <2>8. \A i \in DOMAIN runs : runs[i].batch # b /\ runs[i].batch \in Batch
    BY <1>0, <2>1, RunFields DEF IInv, RunInv
  <2>9. \A i \in DOMAIN runs' : RunInv(i)'
    BY <2>1, <2>8 DEF IInv, RunInv
  <2>10. StageOrder'
    <3>1. \A i \in DOMAIN runs :
              Requires(runs[i].batch, runs[i].stage)' = Requires(runs[i].batch, runs[i].stage)
      BY <2>1, <2>8 DEF Requires
    <3> QED
      BY <2>1, <3>1 DEF IInv, StageOrder
  <2>11. ASSUME NEW a \in Actor, actor[a].op # "idle" PROVE ActorInv(a)'
    <3>1. row[actor[a].batch].state # "absent" /\ ReadRight(actor[a])
      BY <2>11 DEF IInv, ActorInv
    <3>2. actor[a] \in ActorSlot /\ actor[a].batch \in Batch /\ actor[a].batch # b
      BY <1>0, <2>1, <3>1, SlotFields
    <3>3. PICK x \in ActorSlot : x = actor[a]
      BY <3>2
    <3>4. x.batch \in protected <=> x.batch \in protected'
      BY <2>1, <3>2, <3>3
    <3>5. ReadRight(x)'
      BY <2>5, <3>1, <3>3, <3>4, KeptRead
    <3>6. row'[actor'[a].batch] = row[actor[a].batch]
      BY <1>0, <2>1, <3>2
    <3> QED
      BY <2>1, <3>1, <3>3, <3>5, <3>6 DEF ActorInv
  <2>12. \A a \in Actor : ActorInv(a)'
    BY <2>1, <2>11 DEF ActorInv
  <2> QED
    BY <2>4, <2>6, <2>7, <2>9, <2>10, <2>12 DEF IInv
<1>2. ASSUME NEW a \in Actor, NEW op \in Ops(a), NEW b \in Batch, Load(a, op, b)
      PROVE  (TypeOK /\ IInv)'
  <2> DEFINE stage == IF op = "activate" THEN "encrypt" ELSE StageOf(row[b])
             run == IF stage = "none" THEN "none" ELSE StateOfRun(row[b].run[stage])
             x == [op |-> op, batch |-> b, seen |-> row[b], run |-> run, busy |-> WorkflowBusy]
  <2>1. /\ row[b].state # "absent" /\ Accepts(op, row[b])
        /\ actor' = [actor EXCEPT ![a] = x]
        /\ UNCHANGED <<row, runs, protected>>
        /\ requests' \in {requests, requests + 1}
    BY <1>2 DEF Load
  <2>2. op \in AnyOp \ {"idle"}
    BY BatchAssumption DEF Ops, AnyOp
  <2>3. Good(b, row[b]) /\ row[b] \in Row
    BY <1>0, <2>1 DEF IInv, RowInv, NoRow
  <2>4. stage # "none" => stage \in Stage /\ row[b].run[stage] # 0
    BY <2>1 DEF StageOf, Stage, Accepts
  <2>5. stage # "none" => /\ row[b].run[stage] \in DOMAIN runs
                          /\ runs[row[b].run[stage]].batch = b
                          /\ runs[row[b].run[stage]].stage = stage
                          /\ run = runs[row[b].run[stage]].state
    BY <2>3, <2>4 DEF Good, PointsTo, StateOfRun
  <2>6. run \in RunState \cup {"none"} /\ (stage # "none" => run # "none")
    BY <1>0, <2>5, RunFields DEF RunState, Ended
  <2>7. stage # "none" /\ run = "succeeded" => Succeeded(b, stage)
    <3> SUFFICES ASSUME stage # "none", run = "succeeded" PROVE Succeeded(b, stage)
      OBVIOUS
    <3> DEFINE i == row[b].run[stage]
    <3> HIDE DEF stage, run
    <3>1. i \in DOMAIN runs /\ runs[i] \in Run /\ runs[i].batch = b /\ runs[i].stage = stage
          /\ runs[i].state = "succeeded"
      BY <1>0, <2>5
    <3> HIDE DEF i
    <3>2. runs[i] = [batch |-> b, stage |-> stage, state |-> "succeeded"]
      BY <3>1 DEF Run
    <3> QED
      BY <3>1, <3>2 DEF Succeeded
  <2>8. WorkflowBusy \in BOOLEAN
    BY DEF WorkflowBusy
  <2> HIDE DEF run
  <2>9. x \in ActorSlot
    BY <2>2, <2>3, <2>6, <2>8, SlotFields
  <2>10. StageSeen(x) = stage
    BY DEF StageSeen
  <2>11. /\ op = "submit" => row[b].state = "encryption_ready"
         /\ op = "generate" => row[b].state = "standard_ready"
    BY <2>1 DEF Accepts
  <2> HIDE DEF stage
  <2>12. ReadRight(x)
    BY <2>3, <2>4, <2>6, <2>7, <2>10, <2>11 DEF ReadRight
  <2>13. x.batch = b
    OBVIOUS
  <2> HIDE DEF x
  <2>14. TypeOK'
    BY <1>0, <2>1, <2>9 DEF TypeOK
  <2>15. \A k \in Actor : actor'[k] = actor[k] \/ (k = a /\ actor'[k] = x)
    BY <1>0, <2>1
  <2>16. Grows
    BY <2>1, GrowsSame
  <2>17. IInv'
    BY <2>1, <2>9, <2>12, <2>13, <2>14, <2>15, <2>16, RowsKept DEF TypeOK
  <2> QED
    BY <2>14, <2>17
<1>3. ASSUME NEW a \in Actor, Commit(a) PROVE (TypeOK /\ IInv)'
  <2>1. actor[a].batch \in Batch /\ actor[a].seen \in Row /\ Len(runs) \in Nat
    BY <1>0, SlotFields
  <2>2. PICK b \in Batch, seen \in Row, n \in Nat :
            b = actor[a].batch /\ seen = actor[a].seen /\ n = Len(runs)
    BY <2>1
  <2> DEFINE New(o) == IF o.prepare = "none" THEN o.row
                       ELSE [o.row EXCEPT !.run[o.prepare] = n + 1]
  <2>3. PICK o \in Outcomes(a) :
            /\ runs' = IF o.prepare = "none" THEN runs
                       ELSE Append(runs, [batch |-> b, stage |-> o.prepare, state |-> "queued"])
            /\ row' = [row EXCEPT ![b] = Flush(row[b], seen, New(o))]
    BY <1>3, <2>2 DEF Commit
  <2>4. /\ actor[a].op # "idle" /\ actor' = [actor EXCEPT ![a] = Idle(b)]
        /\ UNCHANGED <<protected, requests>>
    BY <1>3, <2>2 DEF Commit
  <2>5. Fits(b, seen, o)
    BY <2>2, <2>4, OutcomesFit
  <2>6. PICK p \in Stage \cup {"none"}, old \in Row : p = o.prepare /\ old = o.row
    BY <2>5 DEF Fits
  <2>7. /\ old.run = seen.run /\ Promises(b, old)
        /\ p # "none" => \A s \in Requires(b, p) : Succeeded(b, s)
    BY <2>5, <2>6 DEF Fits
  <2>8. PICK new : new = IF p = "none" THEN old ELSE [old EXCEPT !.run[p] = n + 1]
    OBVIOUS
  <2>9. new = New(o)
    BY <2>6, <2>8
  <2>10. /\ new \in Row /\ new.state = old.state /\ new.resume = old.resume
         /\ \A s \in Stage : new.run[s] = IF s = p THEN n + 1 ELSE seen.run[s]
    <3>1. CASE p = "none"
      BY <2>7, <2>8, <3>1 DEF Stage
    <3>2. CASE p # "none"
      <4>1. p \in Stage /\ old.run \in [Stage -> Nat] /\ n + 1 \in Nat
        BY <3>2, RowFields
      <4>2. new = [old EXCEPT !.run[p] = n + 1]
        BY <2>8, <3>2
      <4>3. /\ new \in Row /\ new.state = old.state /\ new.resume = old.resume
            /\ new.run = [old.run EXCEPT ![p] = n + 1]
        BY <4>1, <4>2, RowRun
      <4> QED
        BY <2>7, <4>1, <4>3
    <3> QED
      BY <3>1, <3>2
  <2>11. row[b].state # "absent" /\ Good(b, seen)
    BY <2>2, <2>4 DEF IInv, ActorInv, ReadRight
  <2>12. row[b] \in Row /\ Good(b, row[b])
    BY <1>0, <2>11 DEF IInv, RowInv, NoRow
  <2>13. PICK r \in Row : r = row[b]
    BY <2>12
  <2>14. PICK next \in Row :
             /\ next = Flush(r, seen, new)
             /\ next.state \in {r.state, new.state} /\ next.resume \in {r.resume, new.resume}
             /\ \A s \in Stage : next.run[s] = IF new.run[s] = seen.run[s] THEN r.run[s]
                                               ELSE new.run[s]
    BY <2>10, FlushFields
  <2>15. row' = [row EXCEPT ![b] = next]
    BY <2>3, <2>9, <2>13, <2>14
  <2> HIDE DEF New
  <2>16. PICK e : e = [batch |-> b, stage |-> p, state |-> "queued"]
    OBVIOUS
  <2>17. /\ e.batch = b /\ e.stage = p /\ e.state = "queued"
         /\ \/ p = "none" /\ runs' = runs
            \/ p \in Stage /\ e \in Run /\ runs' = Append(runs, e)
    BY <2>3, <2>6, <2>16, RunFields DEF Stage
  <2>18. Grows /\ runs' \in Seq(Run)
    <3>1. Grows
      BY <2>17, GrowsSame, GrowsAppend
    <3> QED
      BY <3>1 DEF Grows
  <2>19. Idle(b) \in ActorSlot /\ Idle(b).op = "idle"
    BY SlotFields
  <2>20. TypeOK'
    BY <1>0, <2>4, <2>15, <2>18, <2>19 DEF TypeOK
  <2>21. DOMAIN runs = 1 .. n /\ (p \in Stage =>
            /\ DOMAIN runs' = 1 .. n + 1 /\ runs'[n + 1] = e
            /\ \A i \in DOMAIN runs : runs'[i] = runs[i])
    <3>1. DOMAIN runs = 1 .. n
      BY <1>0, <2>2
    <3>2. CASE p \in Stage
      <4>1. e \in Run /\ runs' = Append(runs, e)
        BY <2>17, <3>2 DEF Stage
      <4> QED
        BY <2>2, <4>1, GrowsAppend
    <3> QED
      BY <3>1, <3>2
  <2>22. RowInv(b)'
    <3>1. Promises(b, r) /\ Promises(b, old)
      BY <2>7, <2>12, <2>13 DEF Good
    <3>2. /\ "absent" \notin {next.state, next.resume}
          /\ Earned(b, next.state) /\ Earned(b, next.resume)
      BY <2>10, <2>14, <3>1 DEF Promises
    <3>3. next.state \in AnyState /\ next.resume \in AnyState
      BY RowFields DEF AnyState
    <3>4. Promises(b, next)'
      BY <2>4, <2>18, <3>2, <3>3, KeptGood DEF Promises
    <3>5. PointsTo(b, r)' /\ PointsTo(b, seen)'
      BY <2>11, <2>12, <2>13, <2>18, Kept DEF Good
    <3>6. p \in Stage => n + 1 \in DOMAIN runs' /\ runs'[n + 1].batch = b /\ runs'[n + 1].stage = p
      BY <2>17, <2>21
    <3>7. PointsTo(b, next)'
      BY <2>10, <2>14, <3>5, <3>6 DEF PointsTo
    <3>8. row'[b] = next
      BY <1>0, <2>15
    <3> QED
      BY <3>4, <3>7, <3>8 DEF RowInv, Good
  <2>23. ASSUME NEW k \in Batch PROVE RowInv(k)' /\ (row[k].state # "absent" => row'[k].state # "absent")
    <3>1. CASE k = b
      BY <1>0, <2>14, <2>15, <2>10, <2>7, <2>12, <2>13, <2>22, <3>1 DEF Promises, Good
    <3>2. CASE k # b
      <4>1. row'[k] = row[k] /\ row[k] \in Row
        BY <1>0, <2>15, <3>2
      <4> QED
        BY <2>4, <2>18, <4>1, KeptGood DEF IInv, RowInv
    <3> QED
      BY <3>1, <3>2
  <2>24. row'[b].state # "absent"
    BY <2>11, <2>23
  <2>25. ASSUME NEW i \in DOMAIN runs' PROVE RunInv(i)'
    <3>1. CASE i \in DOMAIN runs
      <4>1. runs[i].batch \in Batch /\ runs'[i].batch = runs[i].batch
        BY <1>0, <2>18, <3>1, RunFields DEF Grows
      <4> QED
        BY <2>23, <3>1, <4>1 DEF IInv, RunInv
    <3>2. CASE i \notin DOMAIN runs
      <4>1. runs'[i].batch = b
        BY <2>17, <2>21, <3>2
      <4> QED
        BY <2>24, <4>1 DEF RunInv
    <3> QED
      BY <3>1, <3>2
  <2>26. StageOrder'
    <3>1. CASE p = "none"
      BY <2>4, <2>17, <2>18, <3>1, KeptOrder DEF IInv, Stage
    <3>2. CASE p \in Stage
      <4> SUFFICES ASSUME NEW i \in DOMAIN runs', NEW s \in Requires(runs[i].batch, runs[i].stage)'
                   PROVE  \E j \in 1 .. (i - 1) : runs'[j] =
                              [batch |-> runs'[i].batch, stage |-> s, state |-> "succeeded"]
        BY DEF StageOrder
      <4>1. CASE i \in DOMAIN runs
        <5>1. runs'[i] = runs[i]
          BY <2>21, <3>2, <4>1
        <5>2. s \in Requires(runs[i].batch, runs[i].stage)
          BY <2>4, <5>1 DEF Requires
        <5>3. PICK j \in 1 .. (i - 1) :
                  runs[j] = [batch |-> runs[i].batch, stage |-> s, state |-> "succeeded"]
          BY <4>1, <5>2 DEF IInv, StageOrder
        <5>4. j \in DOMAIN runs
          BY <2>21, <4>1, <5>3
        <5> QED
          BY <2>21, <3>2, <5>1, <5>3, <5>4
      <4>2. CASE i \notin DOMAIN runs
        <5>1. i = n + 1 /\ runs'[i].batch = b /\ runs'[i].stage = p
          BY <2>17, <2>21, <3>2, <4>2
        <5>2. s \in Requires(b, p)
          BY <2>4, <5>1 DEF Requires
        <5>3. PICK j \in DOMAIN runs :
                  runs[j] = [batch |-> b, stage |-> s, state |-> "succeeded"]
          BY <2>7, <3>2, <5>2 DEF Succeeded, Stage
        <5> QED
          BY <2>21, <3>2, <5>1, <5>3
      <4> QED
        BY <4>1, <4>2
    <3> QED
      BY <3>1, <3>2
  <2>27. ASSUME NEW k \in Actor PROVE ActorInv(k)'
    <3>1. CASE k = a
      <4>1. actor'[k].op = "idle"
        BY <1>0, <2>4, <2>19, <3>1
      <4> QED
        BY <4>1 DEF ActorInv
    <3>2. CASE k # a
      <4>1. actor'[k] = actor[k]
        BY <1>0, <2>4, <3>2
      <4>2. CASE actor[k].op # "idle"
        <5>1. row[actor[k].batch].state # "absent" /\ ReadRight(actor[k])
          BY <4>2 DEF IInv, ActorInv
        <5>2. PICK x \in ActorSlot : x = actor[k]
          BY <1>0
        <5>3. x.batch \in Batch
          BY SlotFields
        <5>4. ReadRight(x)'
          BY <2>4, <2>18, <5>1, <5>2, <5>3, KeptRead
        <5>5. row'[x.batch].state # "absent"
          BY <2>23, <5>1, <5>2, <5>3
        <5> QED
          BY <4>1, <5>2, <5>4, <5>5 DEF ActorInv
      <4> QED
        BY <4>1, <4>2 DEF ActorInv
    <3> QED
      BY <3>1, <3>2
  <2> QED
    BY <2>20, <2>23, <2>25, <2>26, <2>27 DEF IInv
<1>4. ASSUME NEW a \in Actor, Abandon(a) PROVE (TypeOK /\ IInv)'
  <2>1. /\ actor' = [actor EXCEPT ![a] = Idle(actor[a].batch)]
        /\ UNCHANGED <<row, runs, protected, requests>>
    BY <1>4 DEF Abandon
  <2>2. Idle(actor[a].batch) \in ActorSlot /\ Idle(actor[a].batch).op = "idle"
    BY <1>0, SlotFields
  <2>3. TypeOK'
    BY <1>0, <2>1, <2>2 DEF TypeOK
  <2>4. \A k \in Actor : actor'[k] = actor[k] \/ actor'[k].op = "idle"
    BY <1>0, <2>1, <2>2
  <2>5. Grows
    BY <2>1, GrowsSame
  <2>6. IInv'
    BY <2>1, <2>3, <2>4, <2>5, RowsKept DEF TypeOK
  <2> QED
    BY <2>3, <2>6
<1>5. ASSUME NEW i \in DOMAIN runs, StartRun(i) \/ EndRun(i) PROVE (TypeOK /\ IInv)'
  <2>1. PICK st \in RunState : runs' = [runs EXCEPT ![i] = [runs[i] EXCEPT !.state = st]]
    BY <1>5 DEF StartRun, EndRun, RunState, Ended
  <2>2. runs[i].state # "succeeded" /\ UNCHANGED <<row, actor, protected, requests>>
    BY <1>5 DEF StartRun, EndRun
  <2>3. runs[i] \in Run
    BY <1>0
  <2> DEFINE e == [runs[i] EXCEPT !.state = st]
  <2>4. e \in Run /\ e.batch = runs[i].batch /\ e.stage = runs[i].stage
    BY <2>3, RunFields
  <2>5. runs' = [runs EXCEPT ![i] = e]
    BY <2>1
  <2> HIDE DEF e
  <2>6. runs' \in Seq(Run) /\ DOMAIN runs' = DOMAIN runs
    BY <1>0, <2>4, <2>5
  <2>7. \A k \in DOMAIN runs : runs'[k] = IF k = i THEN e ELSE runs[k]
    BY <1>0, <2>5
  <2>8. Grows
    BY <2>2, <2>4, <2>6, <2>7 DEF Grows
  <2>9. TypeOK'
    BY <1>0, <2>2, <2>6 DEF TypeOK
  <2>10. IInv'
    BY <2>2, <2>6, <2>8, <2>9, RowsKept DEF TypeOK
  <2> QED
    BY <2>9, <2>10
<1>6. CASE UNCHANGED vars
  <2>1. TypeOK'
    BY <1>0, <1>6 DEF vars, TypeOK
  <2>2. Grows
    BY <1>6, GrowsSame DEF vars
  <2> QED
    BY <1>0, <1>6, <2>1, <2>2, RowsKept DEF vars
<1> QED
  BY <1>1, <1>2, <1>3, <1>4, <1>5, <1>6 DEF Next, Execute

-----------------------------------------------------------------------------
(* What holds of every run.                                                *)

(* The inductive invariant: what the state of a row, the runs registered    *)
(* and the rows that the scheduler and the requests hold say of the stages  *)
(* that have ended (advance_batches, resume_batch, the completion handlers). *)
THEOREM Inductive == Spec => [](TypeOK /\ IInv)
<1>1. Init => TypeOK /\ IInv
  BY InitInv
<1>2. TypeOK /\ IInv /\ [Next]_vars => (TypeOK /\ IInv)'
  BY StepInv
<1> QED
  BY <1>1, <1>2, PTL DEF Spec

(* Every variable keeps its type: the rows of the batches, the runs of the  *)
(* stages and what the operations in progress hold (DataAutomationBatch).   *)
THEOREM TypeCorrect == Spec => []TypeOK
BY Inductive, PTL

(* No stage is started before what it consumes was produced, and the SQL of *)
(* a protected batch never before its data is encrypted, whoever scans,     *)
(* resumes, submits or activates meanwhile (_advance_one, resume_batch).    *)
THEOREM Order == Spec => []StageOrder
<1>1. IInv => StageOrder
  BY DEF IInv
<1> QED
  BY <1>1, Inductive, PTL

(* A batch that is recorded as completed was standardised, and encrypted    *)
(* when it is protected (_advance_one, _complete_security_encryption).      *)
THEOREM Complete == Spec => []CompletedIsComplete
<1>1. TypeOK /\ IInv => CompletedIsComplete
  BY DEF IInv, RowInv, Good, Promises, Earned, NoRow, CompletedIsComplete
<1> QED
  BY <1>1, Inductive, PTL

-----------------------------------------------------------------------------
(* MetadataOutbox: what a row, a message and a pass of a worker say of     *)
(* each other, so that no pass records a copy that has not been made.      *)

AnyEdge == Edge \cup (Asset \X Asset)
ColumnSet == [status : Lineage!Status \cup {"none"}, attempts : Nat, error : BOOLEAN]
OutboxRow == [status : Lineage!Status \cup {"none"}, attempts : Nat, error : BOOLEAN,
              assets : SUBSET Asset, edges : SUBSET AnyEdge]
WriterSlot == [pc : {"idle", "ingest", "enqueue", "insert", "send"}, bucket : Lineage!Bucket,
               copy : ColumnSet, event : SUBSET Event, edges : SUBSET AnyEdge]
PassSlot == [pc : {"idle", "begin", "project", "hierarchy", "tables"}, bucket : Lineage!Bucket,
             copy : ColumnSet, assets : SUBSET Asset, edges : SUBSET AnyEdge,
             ready : BOOLEAN, ids : SUBSET Asset, failed : BOOLEAN]

CatalogOK == assets \subseteq Asset /\ edges \subseteq AnyEdge
RemoteOK == known \subseteq Asset
OutboxOK == outbox \in [Lineage!Bucket -> OutboxRow] /\ queue \in [Lineage!Bucket -> Nat] /\ now \in Lineage!Bucket
WriterOK == writer \in [Writer -> WriterSlot]
PassOK == pass \in [Worker -> PassSlot]
OutboxTypes == CatalogOK /\ RemoteOK /\ OutboxOK /\ WriterOK /\ PassOK

\* What the row of a snapshot stands for is in the catalog, which only grows.
RowsGrow == \A b \in Lineage!Bucket : outbox[b].assets \subseteq assets /\ outbox[b].edges \subseteq edges

\* A message, and whoever works on a row, is about a row that has been inserted.
Inserted(b) == outbox[b].status # "none"
RowsInserted ==
    /\ \A b \in Lineage!Bucket : queue[b] > 0 => Inserted(b)
    /\ \A w \in Writer : writer[w].pc = "send" => Inserted(writer[w].bucket)
    /\ \A w \in Worker : pass[w].pc # "idle" => Inserted(pass[w].bucket)

\* What a pass that nothing has failed has still to copy, and what is there.
Covered(w) ==
    /\ outbox[pass[w].bucket].assets \subseteq pass[w].assets \cup known
    /\ outbox[pass[w].bucket].edges \subseteq pass[w].edges \cup linked
PassesCover ==
    \A w \in Worker : pass[w].pc \in {"hierarchy", "tables"} /\ ~pass[w].failed => Covered(w)

OutboxInv == OutboxTypes /\ RowsGrow /\ RowsInserted /\ PassesCover /\ Lineage!SnapshotComplete

-----------------------------------------------------------------------------
(* The operators on rows. *)

LEMMA ColumnsOfRow ==
    ASSUME NEW r \in OutboxRow
    PROVE  Lineage!Columns(r) \in ColumnSet /\ Lineage!Columns(r).status = r.status
  BY DEF OutboxRow, ColumnSet, Lineage!Columns

\* A flush writes columns only, and the status only when the session has changed it.
LEMMA FlushedRow ==
    ASSUME NEW r \in OutboxRow, NEW copy \in ColumnSet, NEW new \in ColumnSet
    PROVE  /\ Lineage!Flush(r, copy, new) \in OutboxRow
           /\ Lineage!Flush(r, copy, new).assets = r.assets
           /\ Lineage!Flush(r, copy, new).edges = r.edges
           /\ Lineage!Flush(r, copy, new).status \in {r.status, new.status}
  BY DEF OutboxRow, ColumnSet, Lineage!Flush

\* The rows after a step that inserts none: as they were, but for the columns.
SameRows ==
    /\ outbox' \in [Lineage!Bucket -> OutboxRow]
    /\ \A b \in Lineage!Bucket : /\ outbox'[b].assets = outbox[b].assets
                                 /\ outbox'[b].edges = outbox[b].edges
                                 /\ Inserted(b) => Inserted(b)'

LEMMA FlushStep ==
    ASSUME OutboxInv, NEW b \in Lineage!Bucket, NEW copy \in ColumnSet, NEW new \in ColumnSet,
           outbox' = [outbox EXCEPT ![b] = Lineage!Flush(@, copy, new)],
           UNCHANGED Lineage!remote, new.status # "none",
           new.status = "succeeded" => outbox[b].assets \subseteq known /\ outbox[b].edges \subseteq linked
    PROVE  SameRows /\ Lineage!SnapshotComplete'
<1> DEFINE r == Lineage!Flush(outbox[b], copy, new)
<1>1. outbox[b] \in OutboxRow /\ outbox \in [Lineage!Bucket -> OutboxRow]
  BY DEF OutboxInv, OutboxTypes, OutboxOK
<1>2. /\ r \in OutboxRow /\ r.assets = outbox[b].assets /\ r.edges = outbox[b].edges
      /\ r.status \in {outbox[b].status, new.status}
  BY <1>1, FlushedRow
<1>3. outbox' = [outbox EXCEPT ![b] = r]
  OBVIOUS
<1> HIDE DEF r
<1>4. SameRows
  BY <1>1, <1>2, <1>3 DEF SameRows, Inserted
<1>5. Lineage!SnapshotComplete'
  BY <1>1, <1>2, <1>3 DEF Lineage!SnapshotComplete, OutboxInv, Lineage!remote
<1> QED
  BY <1>4, <1>5

LEMMA SameRowsKept ==
    ASSUME OutboxInv, UNCHANGED <<outbox, Lineage!remote>>
    PROVE  SameRows /\ Lineage!SnapshotComplete'
  BY DEF OutboxInv, OutboxTypes, OutboxOK, SameRows, Inserted, Lineage!SnapshotComplete, Lineage!remote

\* A step of a writer or of the service: no pass and nothing in OpenMetadata changes.
LEMMA WriterStep ==
    ASSUME OutboxInv, SameRows, Lineage!SnapshotComplete',
           CatalogOK', assets \subseteq assets', edges \subseteq edges',
           UNCHANGED <<Lineage!remote, pass>>, now' \in Lineage!Bucket, queue' \in [Lineage!Bucket -> Nat],
           \A b \in Lineage!Bucket : queue'[b] > 0 => queue[b] > 0 \/ Inserted(b)',
           WriterOK', \A w \in Writer : writer'[w].pc = "send" => outbox'[writer'[w].bucket].status # "none"
    PROVE  OutboxInv'
<1> USE DEF OutboxInv, SameRows
<1>1. OutboxTypes'
  BY DEF OutboxTypes, OutboxOK, PassOK, RemoteOK, Lineage!remote
<1>2. RowsGrow'
  BY DEF RowsGrow
<1>3. RowsInserted'
  <2>1. \A v \in Worker : pass[v].bucket \in Lineage!Bucket
    BY DEF OutboxTypes, PassOK, PassSlot
  <2> QED
    BY <2>1 DEF RowsInserted, Inserted
<1>4. PassesCover'
  BY DEF PassesCover, Covered, OutboxTypes, PassOK, PassSlot, Lineage!remote
<1> QED
  BY <1>1, <1>2, <1>3, <1>4

\* A step of a pass.
LEMMA PassStep ==
    ASSUME OutboxInv, SameRows, Lineage!SnapshotComplete', NEW w \in Worker, Lineage!Passing,
           known \subseteq known', RemoteOK', linked \subseteq linked', queue' \in [Lineage!Bucket -> Nat],
           \A b \in Lineage!Bucket : queue'[b] > 0 => queue[b] > 0 \/ Inserted(b)',
           PassOK', \A v \in Worker \ {w} : pass'[v] = pass[v],
           pass'[w].pc # "idle" => outbox'[pass'[w].bucket].status # "none",
           pass'[w].pc \in {"hierarchy", "tables"} /\ ~pass'[w].failed => Covered(w)'
    PROVE  OutboxInv'
<1> USE DEF OutboxInv, SameRows, Lineage!Passing
<1>1. OutboxTypes'
  BY DEF OutboxTypes, OutboxOK, CatalogOK, WriterOK, Lineage!catalog
<1>2. RowsGrow'
  BY DEF RowsGrow, Lineage!catalog
<1>3. RowsInserted'
  <2>1. \A v \in Worker : pass[v].bucket \in Lineage!Bucket
    BY DEF OutboxTypes, PassOK, PassSlot
  <2>2. \A v \in Writer : writer[v].bucket \in Lineage!Bucket
    BY DEF OutboxTypes, WriterOK, WriterSlot
  <2> QED
    BY <2>1, <2>2 DEF RowsInserted, Inserted
<1>4. PassesCover'
  <2> SUFFICES ASSUME NEW v \in Worker, pass'[v].pc \in {"hierarchy", "tables"}, ~pass'[v].failed
               PROVE  Covered(v)'
    BY DEF PassesCover
  <2>1. CASE v = w
    BY <2>1
  <2>2. CASE v # w
    <3>1. pass'[v] = pass[v] /\ Covered(v) /\ pass[v].bucket \in Lineage!Bucket
      BY <2>2 DEF PassesCover, OutboxTypes, PassOK, PassSlot
    <3> QED
      BY <3>1 DEF Covered
  <2> QED
    BY <2>1, <2>2
<1> QED
  BY <1>1, <1>2, <1>3, <1>4

-----------------------------------------------------------------------------
(* The writers. *)

LEMMA OutboxBegins == Lineage!Init => OutboxInv
<1> SUFFICES ASSUME Lineage!Init PROVE OutboxInv
  OBVIOUS
<1> USE WorkAssumption DEF Lineage!MetadataOutboxAssumption, Lineage!Init, Lineage!Bucket
<1>1. Lineage!NoCopy \in ColumnSet /\ Lineage!NoRow \in OutboxRow /\ Lineage!NoRow.status = "none"
  BY DEF Lineage!NoCopy, Lineage!Columns, Lineage!NoRow, ColumnSet, OutboxRow
<1>2. Lineage!NoWriter \in WriterSlot /\ Lineage!NoWriter.pc = "idle"
  BY <1>1 DEF Lineage!NoWriter, WriterSlot
<1>3. Lineage!NoPass \in PassSlot /\ Lineage!NoPass.pc = "idle"
  BY <1>1 DEF Lineage!NoPass, PassSlot
<1>4. OutboxTypes
  BY <1>1, <1>2, <1>3 DEF OutboxTypes, CatalogOK, RemoteOK, OutboxOK, WriterOK, PassOK
<1>5. RowsGrow /\ Lineage!SnapshotComplete
  BY <1>1 DEF RowsGrow, Lineage!SnapshotComplete, Lineage!NoRow
<1>6. RowsInserted /\ PassesCover
  BY <1>2, <1>3 DEF RowsInserted, PassesCover
<1> QED
  BY <1>4, <1>5, <1>6 DEF OutboxInv

LEMMA WriterFields ==
    ASSUME OutboxInv, NEW w \in Writer
    PROVE  /\ writer \in [Writer -> WriterSlot] /\ writer[w] \in WriterSlot
           /\ writer[w].bucket \in Lineage!Bucket /\ writer[w].copy \in ColumnSet
           /\ writer[w].event \subseteq Event /\ writer[w].edges \subseteq AnyEdge
           /\ now \in Lineage!Bucket /\ outbox[now] \in OutboxRow /\ outbox[writer[w].bucket] \in OutboxRow
           /\ Lineage!NoCopy \in ColumnSet /\ Lineage!NoWriter \in WriterSlot /\ Lineage!NoWriter.pc = "idle" /\ Lineage!NoWriter.copy = Lineage!NoCopy
<1>1. Lineage!NoCopy \in ColumnSet
  BY DEF Lineage!NoCopy, Lineage!Columns, Lineage!NoRow, ColumnSet
<1>2. 0 \in Lineage!Bucket
  BY WorkAssumption DEF Lineage!MetadataOutboxAssumption, Lineage!Bucket
<1> QED
  BY <1>1, <1>2 DEF OutboxInv, OutboxTypes, WriterOK, OutboxOK, WriterSlot, Lineage!NoWriter

\* A writer that does not come to send.
LEMMA Writes ==
    ASSUME OutboxInv, NEW w \in Writer, NEW slot \in WriterSlot,
           writer' = [writer EXCEPT ![w] = slot], slot.pc # "send",
           CatalogOK', assets \subseteq assets', edges \subseteq edges',
           UNCHANGED <<Lineage!remote, now, outbox, queue, pass>>
    PROVE  OutboxInv'
<1>1. WriterOK' /\ \A v \in Writer : writer'[v] = IF v = w THEN slot ELSE writer[v]
  BY WriterFields DEF WriterOK
<1>2. \A v \in Writer : writer'[v].pc = "send" => outbox'[writer'[v].bucket].status # "none"
  BY <1>1 DEF OutboxInv, RowsInserted, Inserted
<1>3. now' \in Lineage!Bucket /\ queue' \in [Lineage!Bucket -> Nat]
  BY DEF OutboxInv, OutboxTypes, OutboxOK
<1>4. SameRows /\ Lineage!SnapshotComplete'
  BY SameRowsKept
<1> QED
  BY <1>1, <1>2, <1>3, <1>4, WriterStep

LEMMA StepCatalog ==
    ASSUME OutboxInv, NEW w \in Writer,
           \/ \E a \in Asset : Lineage!register_asset(w, a)
           \/ \E e \in Edge : Lineage!create_lineage_edge(w, e)
    PROVE  OutboxInv'
<1> DEFINE slot == [writer[w] EXCEPT !.pc = "enqueue"]
<1>1. slot \in WriterSlot /\ slot.pc = "enqueue"
  BY WriterFields DEF WriterSlot
<1>2. writer' = [writer EXCEPT ![w] = slot] /\ UNCHANGED <<Lineage!remote, now, outbox, queue, pass>>
  BY DEF Lineage!register_asset, Lineage!create_lineage_edge, Lineage!Commits
<1>3. CatalogOK' /\ assets \subseteq assets' /\ edges \subseteq edges'
  BY DEF Lineage!register_asset, Lineage!create_lineage_edge, CatalogOK, OutboxInv, OutboxTypes, AnyEdge
<1> HIDE DEF slot
<1> QED
  BY <1>1, <1>2, <1>3, Writes

LEMMA StepReadEvent ==
    ASSUME OutboxInv, NEW w \in Writer, NEW event \in Event, Lineage!ReadEvent(w, event)
    PROVE  OutboxInv'
<1> DEFINE found == (event.in \cap assets) \X (event.out \cap assets)
           slot == [writer[w] EXCEPT !.pc = "ingest", !.event = {event}, !.edges = found]
<1>1. found \subseteq AnyEdge
  BY DEF AnyEdge, OutboxInv, OutboxTypes, CatalogOK
<1>2. writer' = [writer EXCEPT ![w] = slot] /\ UNCHANGED <<Lineage!catalog, Lineage!remote, now, outbox, queue, pass>>
  BY DEF Lineage!ReadEvent
<1> HIDE DEF found
<1>3. slot \in WriterSlot /\ slot.pc = "ingest"
  BY <1>1, WriterFields DEF WriterSlot
<1> HIDE DEF slot
<1> QED
  BY <1>2, <1>3, Writes DEF OutboxInv, OutboxTypes, CatalogOK, Lineage!catalog

LEMMA StepIngest ==
    ASSUME OutboxInv, NEW w \in Writer, Lineage!ingest_openlineage_event(w)
    PROVE  OutboxInv'
<1>1. PICK slot \in {Lineage!NoWriter, [Lineage!NoWriter EXCEPT !.pc = "enqueue"]} : writer' = [writer EXCEPT ![w] = slot]
  BY DEF Lineage!ingest_openlineage_event
<1>2. slot \in WriterSlot /\ slot.pc # "send"
  BY <1>1, WriterFields DEF WriterSlot
<1>3. CatalogOK' /\ assets \subseteq assets' /\ edges \subseteq edges' /\ UNCHANGED <<Lineage!remote, now, outbox, queue, pass>>
  BY WriterFields DEF Lineage!ingest_openlineage_event, CatalogOK, OutboxInv, OutboxTypes, Lineage!catalog
<1> QED
  BY <1>1, <1>2, <1>3, Writes

\* A writer that comes to send has found a row, or has inserted it.
LEMMA Sends ==
    ASSUME OutboxInv, NEW w \in Writer, NEW slot \in WriterSlot, SameRows, Lineage!SnapshotComplete',
           writer' = [writer EXCEPT ![w] = slot],
           slot.pc = "send" => outbox'[slot.bucket].status # "none",
           UNCHANGED <<Lineage!catalog, Lineage!remote, now, pass>>, queue' \in [Lineage!Bucket -> Nat],
           \A b \in Lineage!Bucket : queue'[b] > 0 => queue[b] > 0 \/ outbox'[b].status # "none"
    PROVE  OutboxInv'
<1>1. WriterOK' /\ \A v \in Writer : writer'[v] = IF v = w THEN slot ELSE writer[v]
  BY WriterFields DEF WriterOK
<1>2. \A v \in Writer : writer'[v].pc = "send" => outbox'[writer'[v].bucket].status # "none"
  <2> SUFFICES ASSUME NEW v \in Writer, writer'[v].pc = "send"
               PROVE  outbox'[writer'[v].bucket].status # "none"
    OBVIOUS
  <2>1. CASE v = w
    BY <1>1, <2>1
  <2>2. CASE v # w
    <3>1. writer'[v] = writer[v] /\ Inserted(writer[v].bucket) /\ writer[v].bucket \in Lineage!Bucket
      BY <1>1, <2>2, WriterFields DEF OutboxInv, RowsInserted
    <3> QED
      BY <3>1 DEF SameRows, Inserted
  <2> QED
    BY <2>1, <2>2
<1>3. now' \in Lineage!Bucket /\ CatalogOK' /\ assets \subseteq assets' /\ edges \subseteq edges'
  BY DEF OutboxInv, OutboxTypes, OutboxOK, CatalogOK, Lineage!catalog
<1> QED
  BY <1>1, <1>2, <1>3, WriterStep DEF Inserted

LEMMA StepEnqueue ==
    ASSUME OutboxInv, NEW w \in Writer, Lineage!enqueue_snapshot(w)
    PROVE  OutboxInv'
<1> DEFINE r == outbox[now]
           sending == [Lineage!NoWriter EXCEPT !.pc = "send", !.bucket = now, !.copy = Lineage!Columns(r)]
           inserting == [Lineage!NoWriter EXCEPT !.pc = "insert", !.bucket = now]
<1>1. PICK slot : /\ writer' = [writer EXCEPT ![w] = slot]
                  /\ \/ slot = Lineage!NoWriter \/ slot = inserting
                     \/ slot = sending /\ r.status # "none"
  BY DEF Lineage!enqueue_snapshot
<1>2. Lineage!Columns(r) \in ColumnSet
  BY WriterFields, ColumnsOfRow
<1>3. /\ inserting \in WriterSlot /\ inserting.pc = "insert"
      /\ sending \in WriterSlot /\ sending.pc = "send" /\ sending.bucket = now
  BY <1>2, WriterFields DEF WriterSlot
<1> HIDE DEF sending, inserting
<1>4. slot \in WriterSlot /\ (slot.pc = "send" => outbox[slot.bucket].status # "none")
  BY <1>1, <1>3, WriterFields
<1>5. UNCHANGED <<Lineage!catalog, Lineage!remote, now, outbox, queue, pass>> /\ queue \in [Lineage!Bucket -> Nat]
  BY DEF Lineage!enqueue_snapshot, OutboxInv, OutboxTypes, OutboxOK
<1>6. SameRows /\ Lineage!SnapshotComplete'
  BY <1>5, SameRowsKept
<1> QED
  BY <1>1, <1>4, <1>5, <1>6, Sends

\* The row that is inserted stands for the catalog of this moment; no message,
\* writer or pass was about it.
LEMMA StepInsert ==
    ASSUME OutboxInv, NEW w \in Writer, Lineage!Insert(w)
    PROVE  OutboxInv'
<1> DEFINE b == writer[w].bucket
           new == [Lineage!NoRow EXCEPT !.status = "pending", !.assets = assets, !.edges = edges]
           r == IF outbox[b].status = "none" THEN new ELSE outbox[b]
           slot == [writer[w] EXCEPT !.pc = "send", !.copy = Lineage!Columns(r)]
<1>1. /\ outbox' = [outbox EXCEPT ![b] = r] /\ writer' = [writer EXCEPT ![w] = slot]
      /\ UNCHANGED <<Lineage!catalog, Lineage!remote, now, queue, pass>>
  BY DEF Lineage!Insert
<1>2. new \in OutboxRow /\ new.status = "pending" /\ new.assets = assets /\ new.edges = edges
  BY DEF Lineage!NoRow, OutboxRow, Lineage!Status, OutboxInv, OutboxTypes, CatalogOK
<1> HIDE DEF new
<1>3. r \in OutboxRow /\ r.status # "none" /\ (outbox[b].status # "none" => r = outbox[b])
  BY <1>2, WriterFields
<1>4. outbox[b].status = "none" => r.assets = assets /\ r.edges = edges /\ r.status = "pending"
  BY <1>2
<1>5. slot \in WriterSlot /\ slot.bucket = b
  BY <1>3, WriterFields, ColumnsOfRow DEF WriterSlot
<1> HIDE DEF r, slot
<1>6. b \in Lineage!Bucket /\ outbox \in [Lineage!Bucket -> OutboxRow]
  BY WriterFields DEF OutboxInv, OutboxTypes, OutboxOK
<1>7. /\ outbox' \in [Lineage!Bucket -> OutboxRow]
      /\ \A i \in Lineage!Bucket : outbox[i].status # "none" => outbox'[i] = outbox[i]
      /\ outbox'[b].status # "none"
  BY <1>1, <1>3, <1>6
<1>8. OutboxTypes'
  <2>1. WriterOK'
    BY <1>1, <1>5, WriterFields DEF WriterOK
  <2> QED
    BY <2>1, <1>1, <1>7 DEF OutboxInv, OutboxTypes, OutboxOK, CatalogOK, RemoteOK, PassOK, Lineage!catalog, Lineage!remote
<1>9. RowsGrow'
  BY <1>1, <1>3, <1>4, <1>6 DEF OutboxInv, RowsGrow, Lineage!catalog
<1>10. RowsInserted'
  <2>1. \A v \in Writer : writer'[v].pc = "send" => outbox'[writer'[v].bucket].status # "none"
    <3> SUFFICES ASSUME NEW v \in Writer, writer'[v].pc = "send"
                 PROVE  outbox'[writer'[v].bucket].status # "none"
      OBVIOUS
    <3>1. CASE v = w
      BY <1>1, <1>5, <1>7, <3>1, WriterFields
    <3>2. CASE v # w
      <4>1. writer'[v] = writer[v] /\ Inserted(writer[v].bucket) /\ writer[v].bucket \in Lineage!Bucket
        BY <1>1, <3>2, WriterFields DEF OutboxInv, RowsInserted
      <4> QED
        BY <4>1, <1>7 DEF Inserted
    <3> QED
      BY <3>1, <3>2
  <2>2. \A v \in Worker : pass[v].bucket \in Lineage!Bucket
    BY DEF OutboxInv, OutboxTypes, PassOK, PassSlot
  <2>3. /\ \A i \in Lineage!Bucket : queue'[i] > 0 => outbox'[i].status # "none"
        /\ \A v \in Worker : pass'[v].pc # "idle" => outbox'[pass'[v].bucket].status # "none"
    BY <1>1, <1>7, <2>2 DEF OutboxInv, RowsInserted, Inserted
  <2> QED
    BY <2>1, <2>3 DEF RowsInserted, Inserted
<1>11. PassesCover'
  <2> SUFFICES ASSUME NEW v \in Worker, pass'[v].pc \in {"hierarchy", "tables"}, ~pass'[v].failed
               PROVE  Covered(v)'
    BY DEF PassesCover
  <2>1. pass' = pass /\ Covered(v) /\ Inserted(pass[v].bucket) /\ pass[v].bucket \in Lineage!Bucket
    BY <1>1 DEF OutboxInv, PassesCover, RowsInserted, OutboxTypes, PassOK, PassSlot
  <2> QED
    BY <2>1, <1>1, <1>7 DEF Covered, Inserted, Lineage!remote
<1>12. Lineage!SnapshotComplete'
  BY <1>1, <1>3, <1>4, <1>6 DEF OutboxInv, Lineage!SnapshotComplete, Lineage!remote
<1> QED
  BY <1>8, <1>9, <1>10, <1>11, <1>12 DEF OutboxInv

LEMMA StepSend ==
    ASSUME OutboxInv, NEW w \in Writer, Lineage!Send(w) \/ Lineage!WriterDies(w)
    PROVE  OutboxInv'
<1>1. /\ writer' = [writer EXCEPT ![w] = Lineage!NoWriter]
      /\ UNCHANGED <<Lineage!catalog, Lineage!remote, now, outbox, pass>>
  BY DEF Lineage!Send, Lineage!WriterDies
<1>2. /\ queue' \in [Lineage!Bucket -> Nat]
      /\ \A b \in Lineage!Bucket : queue'[b] > 0 => queue[b] > 0 \/ outbox'[b].status # "none"
  BY <1>1, WriterFields DEF Lineage!Send, Lineage!WriterDies, OutboxInv, OutboxTypes, OutboxOK, RowsInserted, Inserted
<1>3. SameRows /\ Lineage!SnapshotComplete'
  BY <1>1, SameRowsKept
<1> QED
  BY <1>1, <1>2, <1>3, WriterFields, Sends

LEMMA StepSendFails ==
    ASSUME OutboxInv, NEW w \in Writer, Lineage!SendFails(w)
    PROVE  OutboxInv'
<1> DEFINE b == writer[w].bucket
           copy == writer[w].copy
           new == [copy EXCEPT !.status = "pending", !.error = TRUE]
<1>1. PICK n \in {0, 1} : queue' = [queue EXCEPT ![b] = @ + n]
  BY DEF Lineage!SendFails
<1>2. /\ writer' = [writer EXCEPT ![w] = Lineage!NoWriter] /\ Inserted(b)
      /\ UNCHANGED <<Lineage!catalog, Lineage!remote, now, pass>>
      /\ outbox' = [outbox EXCEPT ![b] = Lineage!Flush(@, copy, new)]
  BY DEF Lineage!SendFails, OutboxInv, RowsInserted
<1>3. new \in ColumnSet /\ new.status = "pending" /\ copy \in ColumnSet /\ b \in Lineage!Bucket
  BY WriterFields DEF ColumnSet, Lineage!Status
<1> HIDE DEF new, copy
<1>4. SameRows /\ Lineage!SnapshotComplete'
  BY <1>2, <1>3, FlushStep
<1>5. /\ queue' \in [Lineage!Bucket -> Nat]
      /\ \A i \in Lineage!Bucket : queue'[i] > 0 => queue[i] > 0 \/ outbox'[i].status # "none"
  BY <1>1, <1>2, <1>3, <1>4 DEF OutboxInv, OutboxTypes, OutboxOK, Inserted, SameRows
<1> QED
  BY <1>2, <1>4, <1>5, WriterFields, Sends

LEMMA StepOutside ==
    ASSUME OutboxInv, Lineage!Configure \/ Lineage!Tick
    PROVE  OutboxInv'
<1>1. UNCHANGED <<Lineage!catalog, Lineage!remote, outbox, queue, writer, pass>> /\ now' \in Lineage!Bucket
  BY WorkAssumption DEF Lineage!Configure, Lineage!Tick, OutboxInv, OutboxTypes, OutboxOK, Lineage!Bucket, Lineage!MetadataOutboxAssumption
<1>2. SameRows /\ Lineage!SnapshotComplete'
  BY <1>1, SameRowsKept
<1>3. CatalogOK' /\ WriterOK' /\ queue' \in [Lineage!Bucket -> Nat] /\ assets \subseteq assets' /\ edges \subseteq edges'
  BY <1>1 DEF OutboxInv, OutboxTypes, OutboxOK, CatalogOK, WriterOK, Lineage!catalog
<1>4. \A w \in Writer : writer'[w].pc = "send" => outbox'[writer'[w].bucket].status # "none"
  BY <1>1 DEF OutboxInv, RowsInserted, Inserted
<1> QED
  BY <1>1, <1>2, <1>3, <1>4, WriterStep DEF Lineage!catalog

-----------------------------------------------------------------------------
(* The passes. *)

LEMMA PassFields ==
    ASSUME OutboxInv, NEW w \in Worker
    PROVE  /\ pass \in [Worker -> PassSlot] /\ pass[w] \in PassSlot /\ pass[w].bucket \in Lineage!Bucket
           /\ pass[w].copy \in ColumnSet /\ pass[w].assets \subseteq Asset /\ pass[w].edges \subseteq AnyEdge
           /\ pass[w].ids \subseteq Asset /\ known \subseteq Asset /\ outbox[pass[w].bucket] \in OutboxRow
           /\ outbox \in [Lineage!Bucket -> OutboxRow] /\ queue \in [Lineage!Bucket -> Nat]
           /\ pass[w].pc # "idle" => outbox[pass[w].bucket].status # "none"
           /\ Lineage!NoPass \in PassSlot /\ Lineage!NoPass.pc = "idle"
<1>1. Lineage!NoPass \in PassSlot /\ Lineage!NoPass.pc = "idle"
  BY WorkAssumption DEF Lineage!MetadataOutboxAssumption, Lineage!Bucket, Lineage!NoCopy, Lineage!Columns, Lineage!NoRow, ColumnSet, Lineage!NoPass, PassSlot
<1> QED
  BY <1>1 DEF OutboxInv, OutboxTypes, RemoteOK, PassOK, OutboxOK, PassSlot, RowsInserted, Inserted

\* A step of a pass that leaves the rows alone.
LEMMA Passes ==
    ASSUME OutboxInv, NEW w \in Worker, NEW slot \in PassSlot, Lineage!Passing,
           pass' = [pass EXCEPT ![w] = slot], UNCHANGED outbox, Lineage!SnapshotComplete',
           slot.pc # "idle" => Inserted(slot.bucket),
           slot.pc \in {"hierarchy", "tables"} /\ ~slot.failed => Covered(w)',
           known \subseteq known', RemoteOK', linked \subseteq linked', queue' \in [Lineage!Bucket -> Nat],
           \A b \in Lineage!Bucket : queue'[b] > 0 => Inserted(b)
    PROVE  OutboxInv'
<1>1. PassOK' /\ \A v \in Worker : pass'[v] = IF v = w THEN slot ELSE pass[v]
  BY PassFields DEF PassOK
<1>2. SameRows
  BY DEF OutboxInv, OutboxTypes, OutboxOK, SameRows, Inserted
<1> QED
  BY <1>1, <1>2, PassStep DEF Inserted

\* A step that changes the columns of the row of a pass.
LEMMA PassWrites ==
    ASSUME OutboxInv, NEW w \in Worker, NEW slot \in PassSlot, NEW new \in ColumnSet, Lineage!Passing, UNCHANGED Lineage!remote,
           pass[w].pc # "idle", pass' = [pass EXCEPT ![w] = slot],
           outbox' = [outbox EXCEPT ![pass[w].bucket] = Lineage!Flush(@, pass[w].copy, new)],
           new.status # "none",
           new.status = "succeeded" =>
               outbox[pass[w].bucket].assets \subseteq known /\ outbox[pass[w].bucket].edges \subseteq linked,
           slot.pc \notin {"hierarchy", "tables"}, slot.pc # "idle" => slot.bucket = pass[w].bucket,
           queue' \in [Lineage!Bucket -> Nat],
           \A b \in Lineage!Bucket : queue'[b] > 0 => queue[b] > 0 \/ b = pass[w].bucket
    PROVE  OutboxInv'
<1>1. PassOK' /\ \A v \in Worker : pass'[v] = IF v = w THEN slot ELSE pass[v]
  BY PassFields DEF PassOK
<1>2. SameRows /\ Lineage!SnapshotComplete'
  BY PassFields, FlushStep
<1>3. outbox'[pass[w].bucket].status # "none"
  BY <1>2, PassFields DEF SameRows, Inserted
<1> QED
  BY <1>1, <1>2, <1>3, PassFields, PassStep DEF Inserted, RemoteOK, Lineage!remote

LEMMA StepTake ==
    ASSUME OutboxInv, NEW w \in Worker, NEW b \in Lineage!Bucket, Lineage!run_outbox_item(w, b)
    PROVE  OutboxInv'
<1> DEFINE begun == [pass[w] EXCEPT !.pc = "begin", !.bucket = b, !.copy = Lineage!Columns(outbox[b])]
<1>1. begun \in PassSlot /\ begun.pc = "begin" /\ begun.bucket = b
  <2>1. Lineage!Columns(outbox[b]) \in ColumnSet
    BY PassFields, ColumnsOfRow
  <2> QED
    BY <2>1, PassFields DEF PassSlot
<1>2. PICK slot \in {begun, pass[w]} : pass' = [pass EXCEPT ![w] = slot]
  BY PassFields DEF Lineage!run_outbox_item
<1>3. /\ UNCHANGED <<Lineage!remote, outbox>> /\ Lineage!Passing /\ Inserted(b) /\ pass[w].pc = "idle"
      /\ queue' \in [Lineage!Bucket -> Nat] /\ \A i \in Lineage!Bucket : queue'[i] > 0 => Inserted(i)
  BY PassFields DEF Lineage!run_outbox_item, Lineage!In, OutboxInv, RowsInserted
<1>4. Lineage!SnapshotComplete'
  BY <1>3, SameRowsKept
<1> HIDE DEF begun
<1>5. slot \in PassSlot /\ (slot.pc # "idle" => slot.bucket = b) /\ slot.pc \notin {"hierarchy", "tables"}
  BY <1>1, <1>2, <1>3, PassFields
<1> QED
  BY <1>2, <1>3, <1>4, <1>5, PassFields, Passes DEF RemoteOK, Lineage!remote

LEMMA StepBegin ==
    ASSUME OutboxInv, NEW w \in Worker, Lineage!BeginPass(w)
    PROVE  OutboxInv'
<1> DEFINE new == [pass[w].copy EXCEPT !.status = "running", !.attempts = @ + 1]
           slot == [pass[w] EXCEPT !.pc = "project", !.copy = new]
<1>1. new \in ColumnSet /\ new.status = "running"
  <2>1. pass[w].copy \in ColumnSet /\ pass[w].copy.attempts + 1 \in Nat
    BY PassFields DEF ColumnSet
  <2> QED
    BY <2>1 DEF ColumnSet, Lineage!Status
<1>2. /\ outbox' = [outbox EXCEPT ![pass[w].bucket] = Lineage!Flush(@, pass[w].copy, new)]
      /\ pass' = [pass EXCEPT ![w] = slot] /\ pass[w].pc # "idle" /\ UNCHANGED <<Lineage!remote, queue>> /\ Lineage!Passing
  BY DEF Lineage!BeginPass, Lineage!In
<1> HIDE DEF new
<1>3. slot \in PassSlot /\ slot.pc = "project" /\ slot.bucket = pass[w].bucket
  BY <1>1, PassFields DEF PassSlot
<1> HIDE DEF slot
<1> QED
  BY <1>1, <1>2, <1>3, PassFields, PassWrites

LEMMA Settles ==
    ASSUME OutboxInv, NEW w \in Worker, NEW result \in {"succeeded", "failed", "deferred"}, Lineage!Settle(w, result),
           pass[w].pc # "idle", Lineage!Passing, UNCHANGED Lineage!remote,
           result = "succeeded" =>
               outbox[pass[w].bucket].assets \subseteq known /\ outbox[pass[w].bucket].edges \subseteq linked
    PROVE  OutboxInv'
<1> DEFINE retry == result = "failed" /\ Lineage!Retries(w)
           status == CASE result = "failed" /\ retry -> "pending"
                       [] result = "failed" /\ ~retry -> "failed" [] OTHER -> result
           new == [pass[w].copy EXCEPT !.status = status, !.error = result # "succeeded"]
<1>1. status \in Lineage!Status /\ (status = "succeeded" => result = "succeeded")
  BY DEF Lineage!Status
<1>2. /\ outbox' = [outbox EXCEPT ![pass[w].bucket] = Lineage!Flush(@, pass[w].copy, new)]
      /\ pass' = [pass EXCEPT ![w] = Lineage!NoPass]
      /\ queue' = IF retry THEN [queue EXCEPT ![pass[w].bucket] = @ + 1] ELSE queue
  BY DEF Lineage!Settle, Lineage!Ends
<1> HIDE DEF status, retry
<1>3. new \in ColumnSet /\ new.status = status
  BY <1>1, PassFields DEF ColumnSet
<1> HIDE DEF new
<1>4. /\ queue' \in [Lineage!Bucket -> Nat]
      /\ \A b \in Lineage!Bucket : queue'[b] > 0 => queue[b] > 0 \/ b = pass[w].bucket
  BY <1>2, PassFields
<1>5. new.status # "none"
  BY <1>1, <1>3 DEF Lineage!Status
<1> QED
  BY <1>1, <1>2, <1>3, <1>4, <1>5, PassFields, PassWrites

LEMMA StepProject ==
    ASSUME OutboxInv, NEW w \in Worker, Lineage!openmetadata_lineage_projection(w)
    PROVE  OutboxInv'
<1>0. pass[w].pc = "project" /\ Lineage!Passing /\ UNCHANGED Lineage!remote
  BY DEF Lineage!openmetadata_lineage_projection, Lineage!In
<1>1. CASE Lineage!Settle(w, "deferred")
  BY <1>0, <1>1, Settles
<1>2. CASE ~Lineage!Settle(w, "deferred")
  <2> DEFINE slot == [pass[w] EXCEPT !.pc = "hierarchy", !.assets = assets, !.edges = edges]
  <2>1. pass' = [pass EXCEPT ![w] = slot] /\ UNCHANGED <<outbox, queue>>
    BY <1>2 DEF Lineage!openmetadata_lineage_projection
  <2>2. /\ slot \in PassSlot /\ slot.pc = "hierarchy" /\ slot.bucket = pass[w].bucket
        /\ slot.assets = assets /\ slot.edges = edges
    BY PassFields DEF PassSlot, OutboxInv, OutboxTypes, CatalogOK
  <2> HIDE DEF slot
  <2>3. pass'[w] = slot
    BY <2>1, PassFields
  <2>4. Covered(w)'
    BY <2>1, <2>2, <2>3, PassFields DEF Covered, OutboxInv, RowsGrow
  <2>5. Lineage!SnapshotComplete'
    BY <1>0, <2>1, SameRowsKept
  <2>6. Inserted(slot.bucket) /\ \A b \in Lineage!Bucket : queue[b] > 0 => Inserted(b)
    BY <1>0, <2>2 DEF OutboxInv, RowsInserted
  <2> QED
    BY <1>0, <2>1, <2>2, <2>4, <2>5, <2>6, PassFields, Passes DEF RemoteOK, Lineage!remote
<1> QED
  BY <1>1, <1>2

\* What a pass puts goes from what is still to be copied to what is there.
LEMMA Puts ==
    ASSUME OutboxInv, NEW w \in Worker, NEW slot \in PassSlot, Lineage!Passing,
           pass[w].pc \in {"hierarchy", "tables"}, pass' = [pass EXCEPT ![w] = slot],
           slot.pc = "tables", slot.bucket = pass[w].bucket,
           known \subseteq known', RemoteOK', linked \subseteq linked', UNCHANGED <<outbox, queue>>,
           ~slot.failed => /\ ~pass[w].failed
                           /\ pass[w].assets \subseteq slot.assets \cup known'
                           /\ pass[w].edges \subseteq slot.edges \cup linked'
    PROVE  OutboxInv'
<1>1. pass'[w] = slot /\ Inserted(slot.bucket)
  BY PassFields DEF OutboxInv, RowsInserted
<1>2. ~slot.failed => Covered(w)'
  <2> SUFFICES ASSUME ~slot.failed PROVE Covered(w)'
    OBVIOUS
  <2>1. Covered(w)
    BY DEF OutboxInv, PassesCover
  <2> QED
    BY <1>1, <2>1 DEF Covered
<1>3. Lineage!SnapshotComplete'
  BY DEF OutboxInv, Lineage!SnapshotComplete
<1>4. \A b \in Lineage!Bucket : queue'[b] > 0 => Inserted(b)
  BY DEF OutboxInv, RowsInserted
<1> QED
  BY <1>1, <1>2, <1>3, <1>4, PassFields, Passes

LEMMA StepHierarchy ==
    ASSUME OutboxInv, NEW w \in Worker, Lineage!EnsureHierarchy(w)
    PROVE  OutboxInv'
<1>1. PICK slot \in {[pass[w] EXCEPT !.pc = "tables", !.ready = TRUE],
                     [pass[w] EXCEPT !.pc = "tables", !.failed = TRUE]} :
          pass' = [pass EXCEPT ![w] = slot]
  BY DEF Lineage!EnsureHierarchy
<1>2. /\ slot \in PassSlot /\ slot.pc = "tables" /\ slot.bucket = pass[w].bucket
      /\ slot.assets = pass[w].assets /\ slot.edges = pass[w].edges
      /\ ~slot.failed => ~pass[w].failed
  BY <1>1, PassFields DEF PassSlot
<1>3. pass[w].pc = "hierarchy" /\ UNCHANGED <<Lineage!remote, outbox, queue>> /\ Lineage!Passing
  BY DEF Lineage!EnsureHierarchy, Lineage!In
<1> QED
  BY <1>1, <1>2, <1>3, PassFields, Puts DEF RemoteOK, Lineage!remote

LEMMA StepTable ==
    ASSUME OutboxInv, NEW w \in Worker, NEW a \in Asset, Lineage!PutTable(w, a)
    PROVE  OutboxInv'
<1> DEFINE put == [pass[w] EXCEPT !.assets = @ \ {a}, !.ids = @ \cup {a}]
           lost == [pass[w] EXCEPT !.assets = @ \ {a}, !.failed = TRUE]
<1>1. /\ put \in PassSlot /\ put.pc = pass[w].pc /\ put.bucket = pass[w].bucket
      /\ put.assets = pass[w].assets \ {a} /\ put.edges = pass[w].edges /\ put.failed = pass[w].failed
  BY PassFields DEF PassSlot
<1>2. lost \in PassSlot /\ lost.pc = pass[w].pc /\ lost.bucket = pass[w].bucket /\ lost.failed = TRUE
  BY PassFields DEF PassSlot
<1>3. /\ pass[w].pc = "tables" /\ UNCHANGED <<linked, outbox, queue>> /\ Lineage!Passing
      /\ \/ pass' = [pass EXCEPT ![w] = put] /\ known' = known \cup {a}
         \/ pass' = [pass EXCEPT ![w] = lost] /\ known' = known
  BY DEF Lineage!PutTable, Lineage!In
<1> HIDE DEF put, lost
<1>4. CASE pass' = [pass EXCEPT ![w] = put] /\ known' = known \cup {a}
  BY <1>1, <1>3, <1>4, PassFields, Puts DEF RemoteOK
<1>5. CASE pass' = [pass EXCEPT ![w] = lost] /\ known' = known
  BY <1>2, <1>3, <1>5, PassFields, Puts DEF RemoteOK
<1> QED
  BY <1>3, <1>4, <1>5

LEMMA StepLineage ==
    ASSUME OutboxInv, NEW w \in Worker, NEW e \in pass[w].edges, Lineage!PutLineage(w, e)
    PROVE  OutboxInv'
<1> DEFINE found == {a \in {e[1], e[2]} : a \in pass[w].ids \cup known}
           put == [pass[w] EXCEPT !.edges = @ \ {e}, !.ids = @ \cup found]
           lost == [pass[w] EXCEPT !.edges = @ \ {e}, !.failed = TRUE]
<1>1. /\ put \in PassSlot /\ put.pc = pass[w].pc /\ put.bucket = pass[w].bucket
      /\ put.edges = pass[w].edges \ {e} /\ put.assets = pass[w].assets /\ put.failed = pass[w].failed
  <2>1. found \subseteq Asset
    BY PassFields
  <2> HIDE DEF found
  <2> QED
    BY <2>1, PassFields DEF PassSlot
<1>2. lost \in PassSlot /\ lost.pc = pass[w].pc /\ lost.bucket = pass[w].bucket /\ lost.failed = TRUE
  BY PassFields DEF PassSlot
<1>3. /\ pass[w].pc = "tables" /\ UNCHANGED <<known, outbox, queue>> /\ Lineage!Passing
      /\ \/ pass' = [pass EXCEPT ![w] = put] /\ linked' = linked \cup {e}
         \/ pass' = [pass EXCEPT ![w] = lost] /\ linked' = linked
  BY DEF Lineage!PutLineage, Lineage!In
<1> HIDE DEF put, lost
<1>4. CASE pass' = [pass EXCEPT ![w] = put] /\ linked' = linked \cup {e}
  BY <1>1, <1>3, <1>4, PassFields, Puts DEF RemoteOK
<1>5. CASE pass' = [pass EXCEPT ![w] = lost] /\ linked' = linked
  BY <1>2, <1>3, <1>5, PassFields, Puts DEF RemoteOK
<1> QED
  BY <1>3, <1>4, <1>5

LEMMA StepDies ==
    ASSUME OutboxInv, NEW w \in Worker, Lineage!WorkerDies(w)
    PROVE  OutboxInv'
<1>1. /\ pass[w].pc # "idle" /\ pass' = [pass EXCEPT ![w] = Lineage!NoPass] /\ UNCHANGED <<Lineage!remote, outbox>> /\ Lineage!Passing
      /\ queue' = [queue EXCEPT ![pass[w].bucket] = @ + 1]
  BY DEF Lineage!WorkerDies, Lineage!Ends
<1>2. queue' \in [Lineage!Bucket -> Nat] /\ \A b \in Lineage!Bucket : queue'[b] > 0 => Inserted(b)
  BY <1>1, PassFields DEF OutboxInv, RowsInserted, Inserted
<1>3. Lineage!SnapshotComplete'
  BY <1>1, SameRowsKept
<1> QED
  BY <1>1, <1>2, <1>3, PassFields, Passes DEF RemoteOK, Lineage!remote

LEMMA StepEnd ==
    ASSUME OutboxInv, NEW w \in Worker, Lineage!EndPass(w)
    PROVE  OutboxInv'
<1>1. /\ pass[w].pc = "tables" /\ pass[w].assets = {} /\ pass[w].edges = {}
      /\ Lineage!Settle(w, Lineage!Outcome(w)) /\ UNCHANGED Lineage!remote /\ Lineage!Passing
  BY DEF Lineage!EndPass, Lineage!In
<1>2. Lineage!Outcome(w) \in {"succeeded", "failed"} /\ (Lineage!Outcome(w) = "succeeded" => ~pass[w].failed)
  BY DEF Lineage!Outcome
<1>3. Lineage!Outcome(w) = "succeeded" =>
          outbox[pass[w].bucket].assets \subseteq known /\ outbox[pass[w].bucket].edges \subseteq linked
  BY <1>1, <1>2 DEF OutboxInv, PassesCover, Covered
<1> QED
  BY <1>1, <1>2, <1>3, Settles

LEMMA OutboxSteps ==
    ASSUME OutboxInv, [Lineage!Next]_(Lineage!vars)
    PROVE  OutboxInv'
<1>1. CASE UNCHANGED Lineage!vars
  <2>1. UNCHANGED <<outbox, Lineage!remote>> /\ Lineage!SnapshotComplete'
    BY <1>1, SameRowsKept DEF Lineage!vars, Lineage!remote
  <2> QED
    BY <1>1, <2>1 DEF Lineage!vars, Lineage!catalog, Lineage!remote, OutboxInv, OutboxTypes, CatalogOK, RemoteOK, OutboxOK, WriterOK, PassOK,
                      RowsGrow, RowsInserted, Inserted, PassesCover, Covered
<1>2. ASSUME NEW w \in Writer,
             \/ \E a \in Asset : Lineage!register_asset(w, a)
             \/ \E e \in Edge : Lineage!create_lineage_edge(w, e)
             \/ \E event \in Event : Lineage!ReadEvent(w, event)
             \/ Lineage!ingest_openlineage_event(w) \/ Lineage!enqueue_snapshot(w) \/ Lineage!Insert(w)
             \/ Lineage!Send(w) \/ Lineage!SendFails(w) \/ Lineage!WriterDies(w)
      PROVE  OutboxInv'
  BY <1>2, StepCatalog, StepReadEvent, StepIngest, StepEnqueue, StepInsert, StepSend, StepSendFails
<1>3. ASSUME NEW w \in Worker,
             \/ \E b \in Lineage!Bucket : Lineage!run_outbox_item(w, b)
             \/ Lineage!BeginPass(w) \/ Lineage!openmetadata_lineage_projection(w) \/ Lineage!EnsureHierarchy(w)
             \/ \E a \in Asset : Lineage!PutTable(w, a)
             \/ \E e \in pass[w].edges : Lineage!PutLineage(w, e)
             \/ Lineage!EndPass(w) \/ Lineage!WorkerDies(w)
      PROVE  OutboxInv'
  BY <1>3, StepTake, StepBegin, StepProject, StepHierarchy, StepTable, StepLineage, StepEnd, StepDies
<1>4. CASE Lineage!Configure \/ Lineage!Tick
  BY <1>4, StepOutside
<1> QED
  BY <1>1, <1>2, <1>3, <1>4 DEF Lineage!Next

-----------------------------------------------------------------------------
(* AssistantBatch: the jobs of a plan, and who may still bring one.        *)

\* The stages in their order, and what is told apart by a batch's state.
Place == [restore |-> 1, sync |-> 2, standard |-> 3, encryption |-> 4]
UpTo(s) == {z \in Assistant!Stage : Place[z] <= Place[s]}
Above(s) == {z \in Assistant!Stage : Place[z] < Place[s]}

\* A state from which the stage can be claimed without a resume ...
MayCome(r, s) ==
    \/ \E z \in UpTo(s) : r.state = Assistant!Ready[z]
    \/ \E z \in Above(s) : r.state = Assistant!Working[z]
\* ... and a scheduler that can put the batch into one, or will submit the stage.
MayBring(h, p, s) ==
    /\ h # Assistant!Free /\ h.plan = p
    /\ \/ h.at = "claimed" /\ \E z \in UpTo(s) : h.row.state = Assistant!Submitting[z]
       \/ h.at = "submitted" /\ \E z \in Above(s) \ {"restore"} : h.row.state = Assistant!Submitting[z]
Bringers(p, s) == {c \in Advancer : MayBring(held[c], p, s)}
One(b) == IF b THEN 1 ELSE 0
StageTokens ==
    \A p \in Plan, s \in Assistant!Stage :
        Cardinality(Assistant!JobsOf(p, s)) + Cardinality(Bringers(p, s)) + One(MayCome(batch[p], s)) <= 1 + resumes[p]

\* A job of the stage above has succeeded.
UpstreamDone(js, s) ==
    s = "restore" \/ \E j \in 1 .. Len(js) : js[j].stage = Assistant!Previous[s] /\ js[j].state = "succeeded"
RowEarned(js, r) ==
    \A s \in Assistant!Stage :
        /\ r.state \in {Assistant!Ready[s], Assistant!Submitting[s], Assistant!Working[s]} => UpstreamDone(js, s)
        /\ r.resume = s => UpstreamDone(js, s)
        /\ r.state = Assistant!Working[s] => r.job[s] # 0
        /\ r.job[s] # 0 => r.job[s] \in 1 .. Len(js) /\ js[r.job[s]].stage = s
JobsEarned(js, pl) ==
    \A i \in 1 .. Len(js) :
        /\ js[i].scope = pl.scope[js[i].stage]
        /\ js[i].stage # "restore" =>
               \E j \in 1 .. i - 1 : js[j].stage = Assistant!Previous[js[i].stage] /\ js[j].state = "succeeded"
PlanInv(js, r, pl) ==
    /\ r # Assistant!NoBatch => RowEarned(js, r) /\ pl # Assistant!NoPlan
    /\ js # <<>> => r # Assistant!NoBatch
    /\ JobsEarned(js, pl)
HeldInv(js, r, pl, h) ==
    /\ r # Assistant!NoBatch /\ RowEarned(js, h.row)
    /\ h.at = "claimed" => (h.row.state = Assistant!Submitting["restore"] => h.template = pl.scope["restore"])
    /\ h.at = "submitted" => \A s \in Assistant!Stage : h.row.state = Assistant!Submitting[s] =>
           h.job \in 1 .. Len(js) /\ js[h.job].stage = s

PlanRow == [state : {"draft", "confirmed"}, file : File, print : Nat, scope : [Assistant!Stage -> Nat]]
Slot == [at : {"loaded", "claimed", "submitted"}, plan : Plan, row : Assistant!Row, template : Nat, job : Nat]
SettingsOK == saved \in [Assistant!Stage -> Nat] /\ content \in [File -> Nat] /\ asking \subseteq Plan /\ resumes \in [Plan -> Nat]
PlansOK == plan \in [Plan -> {Assistant!NoPlan} \cup PlanRow]
BatchesOK == batch \in [Plan -> {Assistant!NoBatch} \cup Assistant!Row] /\ jobs \in [Plan -> Seq(Assistant!Job)]
HeldOK == held \in [Advancer -> {Assistant!Free} \cup Slot]
AssistantTypes == SettingsOK /\ PlansOK /\ BatchesOK /\ HeldOK

PlansInv == \A p \in Plan : PlanInv(jobs[p], batch[p], plan[p])
AskedInv == \A p \in asking : plan[p] # Assistant!NoPlan
SlotsInv == \A c \in Advancer : held[c] # Assistant!Free =>
    HeldInv(jobs[held[c].plan], batch[held[c].plan], plan[held[c].plan], held[c])
AssistantInv == AssistantTypes /\ PlansInv /\ AskedInv /\ SlotsInv /\ StageTokens

-----------------------------------------------------------------------------
LEMMA SameCount == \A S : Assistant!Cardinality(S) = Cardinality(S)
  BY DEF Assistant!Cardinality, Cardinality

LEMMA FiniteAdvancers == IsFiniteSet(Advancer)
<1>1. Assistant!IsFiniteSet(Advancer)
  BY WorkAssumption DEF Assistant!AssistantAssumption, Assistant!AssistantAssumption
<1> QED
  BY <1>1 DEF Assistant!IsFiniteSet, IsFiniteSet

LEMMA StageNames ==
    /\ \A s, z \in Assistant!Stage : /\ Assistant!Ready[s] = Assistant!Ready[z] <=> s = z
                                     /\ Assistant!Submitting[s] = Assistant!Submitting[z] <=> s = z
                                     /\ Assistant!Working[s] = Assistant!Working[z] <=> s = z
                                     /\ Assistant!Ready[s] # Assistant!Submitting[z] /\ Assistant!Ready[s] # Assistant!Working[z] /\ Assistant!Submitting[s] # Assistant!Working[z]
                                     /\ Assistant!Ready[s] # z /\ Assistant!Ready[s] # "none" /\ s # "none"
    /\ \A s \in Assistant!Stage : /\ Assistant!Ready[s] \notin Assistant!Terminal /\ Assistant!Submitting[s] \notin Assistant!Terminal /\ Assistant!Working[s] \notin Assistant!Terminal
                                  /\ Place[s] \in 1 .. 4
                                  /\ Assistant!Ready[s] # "absent" /\ Assistant!Submitting[s] # "absent" /\ Assistant!Working[s] # "absent"
    /\ "restore" \in Assistant!Stage
  BY DEF Assistant!Stage, Assistant!Ready, Assistant!Submitting, Assistant!Working, Assistant!Terminal, Place

LEMMA NextStage ==
    \A s \in Assistant!Stage : \/ s = "encryption" /\ Assistant!After[s] = "completed"
                               \/ \E z \in Assistant!Stage : Assistant!After[s] = Assistant!Ready[z] /\ Place[z] = Place[s] + 1 /\ Assistant!Previous[z] = s /\ z # "restore"
  BY DEF Assistant!Stage, Assistant!Ready, Assistant!After, Place, Assistant!Previous

\* The jobs of a plan only grow, and a success stays one.
Grown(js, ks) ==
    /\ Len(js) <= Len(ks)
    /\ \A i \in 1 .. Len(js) : ks[i].stage = js[i].stage /\ (js[i].state = "succeeded" => ks[i].state = "succeeded")

LEMMA RowEarnedGrows ==
    ASSUME NEW js \in Seq(Assistant!Job), NEW ks \in Seq(Assistant!Job), Grown(js, ks), NEW r, RowEarned(js, r)
    PROVE  RowEarned(ks, r)
<1>1. \A s \in Assistant!Stage : UpstreamDone(js, s) => UpstreamDone(ks, s)
  BY DEF UpstreamDone, Grown
<1>2. \A i \in 1 .. Len(js) : i \in 1 .. Len(ks) /\ ks[i].stage = js[i].stage
  BY DEF Grown
<1> QED
  BY <1>1, <1>2 DEF RowEarned

LEMMA HeldInvGrows ==
    ASSUME NEW js \in Seq(Assistant!Job), NEW ks \in Seq(Assistant!Job), Grown(js, ks), NEW r, NEW t, t # Assistant!NoBatch,
           NEW pl, NEW ql, ql.scope = pl.scope, NEW h, HeldInv(js, r, pl, h)
    PROVE  HeldInv(ks, t, ql, h)
<1>1. RowEarned(ks, h.row)
  BY RowEarnedGrows DEF HeldInv
<1>2. \A i \in 1 .. Len(js) : i \in 1 .. Len(ks) /\ ks[i].stage = js[i].stage
  BY DEF Grown
<1> QED
  BY <1>1, <1>2 DEF HeldInv

LEMMA CountsAreNumbers ==
    ASSUME AssistantTypes, NEW p \in Plan, NEW s \in Assistant!Stage
    PROVE  /\ IsFiniteSet(Assistant!JobsOf(p, s)) /\ Cardinality(Assistant!JobsOf(p, s)) \in Nat
           /\ IsFiniteSet(Bringers(p, s)) /\ Cardinality(Bringers(p, s)) \in Nat
           /\ resumes[p] \in Nat
<1>1. Len(jobs[p]) \in Nat
  BY DEF AssistantTypes, BatchesOK
<1>2. IsFiniteSet(1 .. Len(jobs[p])) /\ Assistant!JobsOf(p, s) \subseteq 1 .. Len(jobs[p])
  BY <1>1, FS_Interval DEF Assistant!JobsOf
<1>3. IsFiniteSet(Advancer) /\ Bringers(p, s) \subseteq Advancer
  BY FiniteAdvancers DEF Bringers
<1> HIDE DEF Assistant!JobsOf, Bringers
<1> QED
  BY <1>2, <1>3, FS_Subset, FS_CardinalityType DEF AssistantTypes, SettingsOK

\* One scheduler takes another batch in hand, or lets go of one.
LEMMA BringersMove ==
    ASSUME AssistantTypes, NEW c \in Advancer, NEW h, held' = [held EXCEPT ![c] = h],
           NEW p \in Plan, NEW s \in Assistant!Stage
    PROVE  Cardinality(Bringers(p, s)') + One(MayBring(held[c], p, s))
               = Cardinality(Bringers(p, s)) + One(MayBring(h, p, s))
<1> DEFINE B == Bringers(p, s)
           C == Bringers(p, s)'
<1>1. held \in [Advancer -> {Assistant!Free} \cup Slot]
  BY DEF AssistantTypes, HeldOK
<1>2. \A d \in Advancer : d \in B <=> MayBring(held[d], p, s)
  BY DEF Bringers
<1>3. \A d \in Advancer : d \in C <=> MayBring(IF d = c THEN h ELSE held[d], p, s)
  BY <1>1 DEF Bringers
<1>4. C \subseteq Advancer /\ B \subseteq Advancer
  BY DEF Bringers
<1>5. IsFiniteSet(B) /\ Cardinality(B) \in Nat
  BY CountsAreNumbers
<1> HIDE DEF B, C
<1>6. CASE MayBring(held[c], p, s) /\ MayBring(h, p, s)
  <2>1. B = C
    BY <1>2, <1>3, <1>4, <1>6
  <2> QED
    BY <1>6, <2>1 DEF B, C, One
<1>7. CASE ~MayBring(held[c], p, s) /\ ~MayBring(h, p, s)
  <2>1. B = C
    BY <1>2, <1>3, <1>4, <1>7
  <2> QED
    BY <1>7, <2>1 DEF B, C, One
<1>8. CASE MayBring(held[c], p, s) /\ ~MayBring(h, p, s)
  <2>1. C = B \ {c} /\ c \in B
    BY <1>2, <1>3, <1>4, <1>8
  <2>2. Cardinality(C) = Cardinality(B) - 1
    BY <2>1, <1>5, FS_RemoveElement
  <2> QED
    BY <1>8, <1>5, <2>2 DEF B, C, One
<1>9. CASE ~MayBring(held[c], p, s) /\ MayBring(h, p, s)
  <2>1. C = B \cup {c} /\ c \notin B
    BY <1>2, <1>3, <1>4, <1>9
  <2>2. Cardinality(C) = Cardinality(B) + 1
    BY <2>1, <1>5, FS_AddElement
  <2> QED
    BY <1>9, <1>5, <2>2 DEF B, C, One
<1> QED
  BY <1>6, <1>7, <1>8, <1>9

-----------------------------------------------------------------------------
(* The steps of a scheduler. *)

Runs(js, s) == Cardinality({i \in 1 .. Len(js) : js[i].stage = s})

LEMMA RunsOfPlan == \A p \in Plan, s \in Assistant!Stage : Cardinality(Assistant!JobsOf(p, s)) = Runs(jobs[p], s)
  BY DEF Assistant!JobsOf, Runs

LEMMA GrownItself ==
    ASSUME NEW js \in Seq(Assistant!Job)
    PROVE  Grown(js, js)
  BY DEF Grown

LEMMA HeldFields ==
    ASSUME AssistantInv, NEW c \in Advancer, held[c] # Assistant!Free
    PROVE  /\ held[c] \in Slot /\ held[c].plan \in Plan /\ held[c].row \in Assistant!Row /\ held[c].template \in Nat
           /\ held[c].job \in Nat
           /\ batch \in [Plan -> {Assistant!NoBatch} \cup Assistant!Row] /\ jobs \in [Plan -> Seq(Assistant!Job)]
           /\ held \in [Advancer -> {Assistant!Free} \cup Slot]
           /\ batch[held[c].plan] # Assistant!NoBatch /\ batch[held[c].plan] \in Assistant!Row
           /\ jobs[held[c].plan] \in Seq(Assistant!Job)
           /\ HeldInv(jobs[held[c].plan], batch[held[c].plan], plan[held[c].plan], held[c])
           /\ PlanInv(jobs[held[c].plan], batch[held[c].plan], plan[held[c].plan])
           /\ plan[held[c].plan] # Assistant!NoPlan /\ plan[held[c].plan] \in PlanRow
<1>1. held[c] \in Slot /\ held[c].plan \in Plan
  BY DEF AssistantInv, AssistantTypes, HeldOK, Slot
<1>2. HeldInv(jobs[held[c].plan], batch[held[c].plan], plan[held[c].plan], held[c])
  BY DEF AssistantInv, SlotsInv
<1>3. PlanInv(jobs[held[c].plan], batch[held[c].plan], plan[held[c].plan])
  BY <1>1 DEF AssistantInv, PlansInv
<1>4. batch[held[c].plan] # Assistant!NoBatch /\ plan[held[c].plan] # Assistant!NoPlan
  BY <1>2, <1>3 DEF HeldInv, PlanInv
<1> QED
  BY <1>1, <1>2, <1>3, <1>4 DEF AssistantInv, AssistantTypes, HeldOK, BatchesOK, PlansOK, Slot

LEMMA Balance ==
    ASSUME NEW J \in Int, NEW K \in Int, NEW B \in Int, NEW C \in Int, NEW R \in Int,
           NEW x \in Int, NEW y \in Int, NEW z \in Int, NEW u \in Int,
           C + y = B + x, K + x + u <= J + y + z, J + B + z <= 1 + R
    PROVE  K + C + u <= 1 + R
  OBVIOUS

LEMMA SchedulerStep ==
    ASSUME AssistantInv, NEW c \in Advancer, held[c] # Assistant!Free, NEW p \in Plan, held[c].plan = p,
           NEW h \in {Assistant!Free} \cup Slot, h # Assistant!Free => h.plan = p, held' = [held EXCEPT ![c] = h],
           NEW r \in Assistant!Row, r # Assistant!NoBatch, batch' = [batch EXCEPT ![p] = r],
           NEW js \in Seq(Assistant!Job), jobs' = [jobs EXCEPT ![p] = js], Grown(jobs[p], js),
           UNCHANGED <<saved, content, plan, asking, resumes>>,
           RowEarned(js, r), JobsEarned(js, plan[p]), h # Assistant!Free => HeldInv(js, r, plan[p], h),
           \A s \in Assistant!Stage :
               Runs(js, s) + One(MayBring(h, p, s)) + One(MayCome(r, s))
                   <= Runs(jobs[p], s) + One(MayBring(held[c], p, s)) + One(MayCome(batch[p], s)),
           \A s \in Assistant!Stage : Runs(js, s) \in Nat
    PROVE  AssistantInv'
<1>1. /\ batch \in [Plan -> {Assistant!NoBatch} \cup Assistant!Row] /\ jobs \in [Plan -> Seq(Assistant!Job)]
      /\ held \in [Advancer -> {Assistant!Free} \cup Slot] /\ batch[p] # Assistant!NoBatch /\ plan[p] # Assistant!NoPlan
  BY HeldFields
<1>2. AssistantTypes'
  BY <1>1 DEF AssistantInv, AssistantTypes, SettingsOK, PlansOK, BatchesOK, HeldOK
<1>3. /\ \A q \in Plan : batch'[q] = IF q = p THEN r ELSE batch[q]
      /\ \A q \in Plan : jobs'[q] = IF q = p THEN js ELSE jobs[q]
      /\ \A d \in Advancer : held'[d] = IF d = c THEN h ELSE held[d]
  BY <1>1
<1>4. PlansInv'
  <2> SUFFICES ASSUME NEW q \in Plan PROVE PlanInv(jobs'[q], batch'[q], plan'[q])
    BY DEF PlansInv
  <2>1. CASE q = p
    BY <1>1, <1>3, <2>1 DEF PlanInv
  <2>2. CASE q # p
    BY <1>3, <2>2 DEF AssistantInv, PlansInv
  <2> QED
    BY <2>1, <2>2
<1>5. AskedInv'
  BY DEF AssistantInv, AskedInv
<1>6. SlotsInv'
  <2> SUFFICES ASSUME NEW d \in Advancer, held'[d] # Assistant!Free
               PROVE  HeldInv(jobs'[held'[d].plan], batch'[held'[d].plan], plan'[held'[d].plan], held'[d])
    BY DEF SlotsInv
  <2>1. CASE d = c
    BY <1>3, <2>1
  <2>2. CASE d # c
    <3>1. held'[d] = held[d] /\ held[d].plan \in Plan /\ jobs[held[d].plan] \in Seq(Assistant!Job)
          /\ HeldInv(jobs[held[d].plan], batch[held[d].plan], plan[held[d].plan], held[d])
      BY <1>3, <2>2, HeldFields
    <3>2. CASE held[d].plan = p
      <4>1. HeldInv(js, r, plan[p], held[d])
        BY <3>1, <3>2, HeldInvGrows
      <4> QED
        BY <3>1, <3>2, <4>1, <1>3
    <3>3. CASE held[d].plan # p
      BY <3>1, <3>3, <1>3
    <3> QED
      BY <3>2, <3>3
  <2> QED
    BY <2>1, <2>2
<1>7. StageTokens'
  <2> SUFFICES ASSUME NEW q \in Plan, NEW s \in Assistant!Stage
               PROVE  Cardinality(Assistant!JobsOf(q, s)') + Cardinality(Bringers(q, s)') + One(MayCome(batch'[q], s))
                          <= 1 + resumes'[q]
    BY DEF StageTokens
  <2> DEFINE J == Cardinality(Assistant!JobsOf(q, s))
             K == Cardinality(Assistant!JobsOf(q, s)')
             B == Cardinality(Bringers(q, s))
             C == Cardinality(Bringers(q, s)')
  <2>1. J + B + One(MayCome(batch[q], s)) <= 1 + resumes[q]
    BY DEF AssistantInv, StageTokens
  <2>2. J \in Nat /\ B \in Nat /\ resumes[q] \in Nat /\ J = Runs(jobs[q], s)
    BY CountsAreNumbers, RunsOfPlan DEF AssistantInv
  <2>3. C \in Nat /\ K = Runs(jobs'[q], s)
    <3>1. IsFiniteSet(Advancer) /\ Bringers(q, s)' \subseteq Advancer
      BY FiniteAdvancers DEF Bringers
    <3> QED
      BY <3>1, FS_Subset, FS_CardinalityType DEF Assistant!JobsOf, Runs
  <2>4. C + One(MayBring(held[c], q, s)) = B + One(MayBring(h, q, s))
    BY BringersMove DEF AssistantInv
  <2>5. \A b : One(b) \in {0, 1}
    BY DEF One
  <2> HIDE DEF J, K, B, C
  <2>6. CASE q = p
    <3>1. K = Runs(js, s) /\ K \in Nat /\ J = Runs(jobs[p], s) /\ batch'[q] = r
      BY <1>3, <2>2, <2>3, <2>6
    <3>2. K + One(MayBring(h, q, s)) + One(MayCome(r, s))
              <= J + One(MayBring(held[c], q, s)) + One(MayCome(batch[q], s))
      BY <3>1, <2>6
    <3> DEFINE x == One(MayBring(h, q, s))
               y == One(MayBring(held[c], q, s))
               z == One(MayCome(batch[q], s))
               u == One(MayCome(r, s))
    <3>3. x \in {0, 1} /\ y \in {0, 1} /\ z \in {0, 1} /\ u \in {0, 1}
      BY <2>5
    <3> HIDE DEF x, y, z, u
    <3>4. K + C + u <= 1 + resumes[q]
      <4>1. C + y = B + x /\ K + x + u <= J + y + z /\ J + B + z <= 1 + resumes[q]
        BY <2>1, <2>4, <3>2 DEF x, y, z, u
      <4>2. /\ J \in Int /\ K \in Int /\ B \in Int /\ C \in Int /\ resumes[q] \in Int
            /\ x \in Int /\ y \in Int /\ z \in Int /\ u \in Int
        BY <2>2, <2>3, <3>1, <3>3
      <4> QED
        BY <4>1, <4>2, Balance
    <3> QED
      BY <3>1, <3>4 DEF u, K, C
  <2>7. CASE q # p
    <3>1. ~MayBring(held[c], q, s) /\ ~MayBring(h, q, s)
      BY <2>7 DEF MayBring
    <3>2. C = B
      BY <2>2, <2>3, <2>4, <3>1 DEF One
    <3>3. K = J /\ batch'[q] = batch[q]
      BY <1>3, <2>2, <2>3, <2>7
    <3> QED
      BY <2>1, <3>2, <3>3 DEF K, C
  <2> QED
    BY <2>6, <2>7
<1> QED
  BY <1>2, <1>4, <1>5, <1>6, <1>7 DEF AssistantInv

\* A scheduler lets go of a batch, which may have been written: what is left
\* to come of the row was to come before.
LEMMA Leaves ==
    ASSUME AssistantInv, NEW c \in Advancer, held[c] # Assistant!Free, NEW p \in Plan, held[c].plan = p, Assistant!Leave(c),
           NEW r \in Assistant!Row, r # Assistant!NoBatch, batch' = [batch EXCEPT ![p] = r], RowEarned(jobs[p], r),
           UNCHANGED <<saved, content, plan, asking, resumes, jobs>>,
           \A s \in Assistant!Stage : MayCome(r, s) => MayCome(batch[p], s) \/ MayBring(held[c], p, s)
    PROVE  AssistantInv'
<1>1. /\ jobs \in [Plan -> Seq(Assistant!Job)] /\ jobs[p] \in Seq(Assistant!Job) /\ JobsEarned(jobs[p], plan[p])
      /\ batch \in [Plan -> {Assistant!NoBatch} \cup Assistant!Row]
  BY HeldFields DEF PlanInv
<1>2. jobs' = [jobs EXCEPT ![p] = jobs[p]]
  BY <1>1
<1>3. \A s \in Assistant!Stage : Runs(jobs[p], s) \in Nat
  BY CountsAreNumbers, RunsOfPlan DEF AssistantInv
<1>4. \A s \in Assistant!Stage :
          Runs(jobs[p], s) + One(MayBring(Assistant!Free, p, s)) + One(MayCome(r, s))
              <= Runs(jobs[p], s) + One(MayBring(held[c], p, s)) + One(MayCome(batch[p], s))
  <2> SUFFICES ASSUME NEW s \in Assistant!Stage
               PROVE  One(MayBring(Assistant!Free, p, s)) + One(MayCome(r, s))
                          <= One(MayBring(held[c], p, s)) + One(MayCome(batch[p], s))
    <3>1. \A b : One(b) \in {0, 1}
      BY DEF One
    <3> QED
      BY <1>3, <3>1
  <2>1. ~MayBring(Assistant!Free, p, s)
    BY DEF MayBring
  <2> QED
    BY <2>1 DEF One
<1>5. Grown(jobs[p], jobs[p]) /\ held' = [held EXCEPT ![c] = Assistant!Free]
  BY <1>1, GrownItself DEF Assistant!Leave
<1> QED
  BY <1>1, <1>2, <1>3, <1>4, <1>5, SchedulerStep

LEMMA RowsAreThere ==
    /\ \A r \in Assistant!Row : r # Assistant!NoBatch
    /\ \A h \in Slot : h # Assistant!Free
<1>1. \A r \in Assistant!Row : r.state # "absent"
  BY StageNames DEF Assistant!Row, Assistant!States, Assistant!Terminal
<1>2. \A h \in Slot : h.at # "free"
  BY DEF Slot
<1> QED
  BY <1>1, <1>2 DEF Assistant!NoBatch, Assistant!Free

\* What a failed stage leaves: a row that a resume alone brings back.
LEMMA FailedRow ==
    ASSUME NEW js \in Seq(Assistant!Job), NEW t \in Assistant!Row, RowEarned(js, t),
           NEW resume \in {"none"} \cup Assistant!Stage \cup Assistant!States(Assistant!Ready) \cup {"completed"},
           \A s \in Assistant!Stage : resume = s => UpstreamDone(js, s),
           NEW r, r = [t EXCEPT !.state = "failed", !.resume = resume]
    PROVE  /\ r \in Assistant!Row /\ r # Assistant!NoBatch /\ RowEarned(js, r)
           /\ \A s \in Assistant!Stage : ~MayCome(r, s)
<1>1. r \in Assistant!Row /\ r.state = "failed" /\ r.resume = resume /\ r.job = t.job
  BY DEF Assistant!Row, Assistant!Terminal
<1>2. \A s \in Assistant!Stage : Assistant!Ready[s] # "failed" /\ Assistant!Submitting[s] # "failed" /\ Assistant!Working[s] # "failed"
  BY StageNames DEF Assistant!Terminal
<1>3. \A s \in Assistant!Stage : ~MayCome(r, s)
  BY <1>1, <1>2 DEF MayCome, UpTo, Above
<1> QED
  BY <1>1, <1>2, <1>3, RowsAreThere DEF RowEarned

LEMMA Fails ==
    ASSUME AssistantInv, NEW c \in Advancer, held[c] # Assistant!Free, Assistant!Leave(c),
           NEW resume \in {"none"} \cup Assistant!Stage \cup Assistant!States(Assistant!Ready) \cup {"completed"},
           batch' = Assistant!Failed(held[c].plan, resume),
           \A s \in Assistant!Stage : resume = s => UpstreamDone(jobs[held[c].plan], s),
           UNCHANGED <<saved, content, plan, asking, resumes, jobs>>
    PROVE  AssistantInv'
<1> DEFINE p == held[c].plan
           r == [batch[p] EXCEPT !.state = "failed", !.resume = resume]
<1>1. p \in Plan /\ batch[p] \in Assistant!Row /\ RowEarned(jobs[p], batch[p]) /\ jobs[p] \in Seq(Assistant!Job)
      /\ batch \in [Plan -> {Assistant!NoBatch} \cup Assistant!Row]
  BY HeldFields DEF PlanInv
<1>2. batch' = [batch EXCEPT ![p] = r]
  BY <1>1 DEF Assistant!Failed
<1>3. r \in Assistant!Row /\ r # Assistant!NoBatch /\ RowEarned(jobs[p], r) /\ \A s \in Assistant!Stage : ~MayCome(r, s)
  BY <1>1, FailedRow
<1> HIDE DEF r
<1> QED
  BY <1>1, <1>2, <1>3, Leaves

\* What the handlers record when they raise.
LEMMA Raises ==
    ASSUME AssistantInv, NEW c \in Advancer, held[c] # Assistant!Free, Assistant!Leave(c),
           NEW at \in Assistant!States(Assistant!Ready) \cup {"completed"}, Assistant!Raise(c, at),
           UNCHANGED <<saved, content, plan, asking, resumes, jobs>>
    PROVE  AssistantInv'
<1> DEFINE resume == IF held[c].row.resume # "none" THEN held[c].row.resume ELSE at
<1>1. /\ held[c].row.resume \in {"none"} \cup Assistant!Stage \cup Assistant!States(Assistant!Ready) \cup {"completed"}
      /\ RowEarned(jobs[held[c].plan], held[c].row)
  BY HeldFields DEF Assistant!Row, HeldInv
<1>2. \A s \in Assistant!Stage : at # s
  BY StageNames DEF Assistant!States, Assistant!Stage
<1>3. \A s \in Assistant!Stage : resume = s => UpstreamDone(jobs[held[c].plan], s)
  BY <1>1, <1>2 DEF RowEarned
<1>4. batch' = Assistant!Failed(held[c].plan, resume)
  BY DEF Assistant!Raise
<1>5. resume \in {"none"} \cup Assistant!Stage \cup Assistant!States(Assistant!Ready) \cup {"completed"}
  BY <1>1
<1> HIDE DEF resume
<1> QED
  BY <1>3, <1>4, <1>5, Fails

LEMMA StepFails ==
    ASSUME AssistantInv, NEW c \in Advancer, NEW s \in Assistant!Stage,
           Assistant!Block(c) \/ Assistant!Withdraw(c) \/ Assistant!StageFailed(c, s) \/ Assistant!RecordingFails(c, s)
    PROVE  AssistantInv'
<1>1. CASE Assistant!Block(c)
  <2>1. held[c] # Assistant!Free /\ Assistant!Leave(c) /\ Assistant!Raise(c, Assistant!Ready["restore"]) /\ Assistant!Ready["restore"] \in Assistant!States(Assistant!Ready)
    BY <1>1, StageNames DEF Assistant!Block, Assistant!IsAt, Assistant!Free, Assistant!States
  <2> QED
    BY <1>1, <2>1, Raises DEF Assistant!Block
<1>2. CASE Assistant!Withdraw(c)
  <2>1. /\ held[c] # Assistant!Free /\ Assistant!Leave(c) /\ batch' = Assistant!Failed(held[c].plan, "standard") /\ "standard" \in Assistant!Stage
        /\ held[c].row.state = Assistant!Ready["standard"]
    BY <1>2 DEF Assistant!Withdraw, Assistant!IsAt, Assistant!Free, Assistant!Stage
  <2>2. UpstreamDone(jobs[held[c].plan], "standard")
    BY <2>1, HeldFields DEF HeldInv, RowEarned
  <2> QED
    BY <1>2, <2>1, <2>2, Fails DEF Assistant!Withdraw
<1>3. CASE Assistant!StageFailed(c, s)
  <2>1. held[c] # Assistant!Free /\ Assistant!Leave(c) /\ batch' = Assistant!Failed(held[c].plan, s) /\ held[c].row.state = Assistant!Working[s]
    BY <1>3 DEF Assistant!StageFailed, Assistant!IsAt, Assistant!Free
  <2>2. UpstreamDone(jobs[held[c].plan], s)
    BY <2>1, HeldFields DEF HeldInv, RowEarned
  <2> QED
    BY <1>3, <2>1, <2>2, Fails DEF Assistant!StageFailed
<1>4. CASE Assistant!RecordingFails(c, s)
  <2>1. held[c] # Assistant!Free /\ Assistant!Leave(c) /\ Assistant!Raise(c, Assistant!After[s])
    BY <1>4 DEF Assistant!RecordingFails, Assistant!IsAt, Assistant!Free
  <2>2. Assistant!After[s] \in Assistant!States(Assistant!Ready) \cup {"completed"}
    BY NextStage DEF Assistant!States
  <2> QED
    BY <1>4, <2>1, <2>2, Raises DEF Assistant!RecordingFails
<1> QED
  BY <1>1, <1>2, <1>3, <1>4

LEMMA SameRow ==
    ASSUME AssistantInv, NEW c \in Advancer, held[c] # Assistant!Free, Assistant!Leave(c),
           UNCHANGED <<saved, content, plan, asking, resumes, jobs, batch>>
    PROVE  AssistantInv'
<1> DEFINE p == held[c].plan
<1>1. p \in Plan /\ batch[p] \in Assistant!Row /\ RowEarned(jobs[p], batch[p]) /\ batch[p] # Assistant!NoBatch
      /\ batch' = [batch EXCEPT ![p] = batch[p]]
  BY HeldFields DEF PlanInv
<1> QED
  BY <1>1, Leaves

LEMMA StepLeaves ==
    ASSUME AssistantInv, NEW c \in Advancer, NEW s \in Assistant!Stage,
           Assistant!Crash(c) \/ Assistant!StillActive(c, s)
    PROVE  AssistantInv'
<1>1. held[c] # Assistant!Free /\ Assistant!Leave(c) /\ UNCHANGED <<saved, content, plan, asking, resumes, jobs, batch>>
  BY DEF Assistant!Crash, Assistant!StillActive, Assistant!IsAt, Assistant!Free
<1> QED
  BY <1>1, SameRow

\* The job of a stage has succeeded: the next one may be claimed, by whoever
\* finds the batch as it was when the stage was running.
LEMMA StepSucceeds ==
    ASSUME AssistantInv, NEW c \in Advancer, NEW s \in Assistant!Stage, Assistant!StageSucceeded(c, s)
    PROVE  AssistantInv'
<1> DEFINE p == held[c].plan
           js == jobs[p]
           r == [batch[p] EXCEPT !.state = Assistant!After[s]]
<1>1. /\ held[c] # Assistant!Free /\ Assistant!Leave(c) /\ held[c].row.state = Assistant!Working[s]
      /\ UNCHANGED <<saved, content, plan, asking, resumes, jobs>>
      /\ js[held[c].row.job[s]].state = "succeeded"
  BY DEF Assistant!StageSucceeded, Assistant!IsAt, Assistant!Free, Assistant!Succeeded, Assistant!JobOf
<1>2. CASE ~Assistant!Claimable(c)
  BY <1>1, <1>2, SameRow DEF Assistant!StageSucceeded
<1>3. CASE Assistant!Claimable(c)
  <2>1. batch' = [batch EXCEPT ![p] = r] /\ batch[p].state = Assistant!Working[s]
    BY <1>1, <1>3, HeldFields DEF Assistant!StageSucceeded, Assistant!Claimable
  <2>2. /\ p \in Plan /\ batch[p] \in Assistant!Row /\ RowEarned(js, batch[p]) /\ js \in Seq(Assistant!Job)
        /\ RowEarned(js, held[c].row)
    BY <1>1, HeldFields DEF PlanInv, HeldInv
  <2>3. /\ held[c].row.job[s] \in 1 .. Len(js) /\ js[held[c].row.job[s]].stage = s
    BY <1>1, <2>2 DEF RowEarned
  <2>4. Assistant!After[s] \in Assistant!States(Assistant!Ready) \cup Assistant!Terminal
    BY NextStage DEF Assistant!States, Assistant!Terminal
  <2>5. r \in Assistant!Row /\ r.state = Assistant!After[s] /\ r.resume = batch[p].resume /\ r.job = batch[p].job
    BY <2>2, <2>4 DEF Assistant!Row
  <2> HIDE DEF r
  <2>6. \A z \in Assistant!Stage : r.state \in {Assistant!Ready[z], Assistant!Submitting[z], Assistant!Working[z]} =>
            Assistant!Ready[z] = Assistant!After[s] /\ Assistant!Previous[z] = s /\ Place[z] = Place[s] + 1
    BY <2>5, NextStage, StageNames DEF Assistant!Terminal
  <2>7. \A z \in Assistant!Stage : r.state \in {Assistant!Ready[z], Assistant!Submitting[z], Assistant!Working[z]} => UpstreamDone(js, z)
    BY <1>1, <2>3, <2>6 DEF UpstreamDone
  <2>8. RowEarned(js, r)
    <3>1. \A z \in Assistant!Stage : r.resume = z => UpstreamDone(js, z)
      BY <2>2, <2>5, Zenon DEF RowEarned
    <3>2. \A z \in Assistant!Stage : r.state = Assistant!Working[z] => r.job[z] # 0
      <4> SUFFICES ASSUME NEW z \in Assistant!Stage, r.state = Assistant!Working[z] PROVE FALSE
        OBVIOUS
      <4>1. Assistant!Ready[z] = Assistant!Working[z]
        BY <2>5, <2>6, Zenon
      <4> QED
        BY <4>1, StageNames, Zenon
    <3>3. \A z \in Assistant!Stage :
             r.job[z] # 0 => r.job[z] \in 1 .. Len(js) /\ js[r.job[z]].stage = z
      BY <2>2, <2>5, Zenon DEF RowEarned
    <3>4. \A z \in Assistant!Stage :
             r.state \in {Assistant!Ready[z], Assistant!Submitting[z], Assistant!Working[z]} => UpstreamDone(js, z)
      BY <2>7
    <3> QED
      BY <3>1, <3>2, <3>3, <3>4, Zenon DEF RowEarned
  <2>9. \A z \in Assistant!Stage : MayCome(r, z) => MayCome(batch[p], z)
    <3> SUFFICES ASSUME NEW z \in Assistant!Stage, MayCome(r, z) PROVE s \in Above(z)
      BY <2>1 DEF MayCome
    <3>1. PICK y \in UpTo(z) : r.state = Assistant!Ready[y] \/ r.state = Assistant!Working[y]
      BY StageNames DEF MayCome, UpTo, Above
    <3>2. Place[y] = Place[s] + 1 /\ Place[y] <= Place[z]
      BY <2>6, <3>1 DEF UpTo
    <3> QED
      BY <3>2, StageNames DEF Above
  <2> QED
    BY <1>1, <2>1, <2>2, <2>5, <2>8, <2>9, RowsAreThere, Leaves
<1> QED
  BY <1>2, <1>3

LEMMA StepRecord ==
    ASSUME AssistantInv, NEW c \in Advancer, NEW s \in Assistant!Stage, Assistant!Record(c, s)
    PROVE  AssistantInv'
<1> DEFINE p == held[c].plan
           js == jobs[p]
           r == [batch[p] EXCEPT !.state = Assistant!Working[s], !.job[s] = held[c].job]
<1>1. /\ held[c] # Assistant!Free /\ Assistant!Leave(c) /\ held[c].row.state = Assistant!Submitting[s] /\ held[c].at = "submitted"
      /\ UNCHANGED <<saved, content, plan, asking, resumes, jobs>>
  BY DEF Assistant!Record, Assistant!IsAt, Assistant!Free
<1>2. CASE s = "restore"
  BY <1>1, <1>2, SameRow DEF Assistant!Record
<1>3. CASE s # "restore"
  <2>1. batch' = [batch EXCEPT ![p] = r]
    BY <1>3, <1>1, HeldFields DEF Assistant!Record
  <2>2. /\ p \in Plan /\ batch[p] \in Assistant!Row /\ RowEarned(js, batch[p]) /\ js \in Seq(Assistant!Job)
        /\ RowEarned(js, held[c].row) /\ held[c].job \in 1 .. Len(js) /\ js[held[c].job].stage = s
        /\ held[c].job \in Nat
    BY <1>1, HeldFields DEF PlanInv, HeldInv
  <2>3. /\ r \in Assistant!Row /\ r.state = Assistant!Working[s] /\ r.resume = batch[p].resume
        /\ \A z \in Assistant!Stage : r.job[z] = IF z = s THEN held[c].job ELSE batch[p].job[z]
    BY <2>2 DEF Assistant!Row, Assistant!States
  <2> HIDE DEF r
  <2>4. UpstreamDone(js, s)
    BY <1>1, <2>2 DEF RowEarned
  <2>5. \A z \in Assistant!Stage : r.state \in {Assistant!Ready[z], Assistant!Submitting[z], Assistant!Working[z]} => z = s
    BY <2>3, StageNames
  <2>6. held[c].job # 0
    BY <2>2
  <2>7. RowEarned(js, r)
    <3>1. \A z \in Assistant!Stage : r.resume = z => UpstreamDone(js, z)
      BY <2>2, <2>3, Zenon DEF RowEarned
    <3>2. \A z \in Assistant!Stage : r.state = Assistant!Working[z] => r.job[z] # 0
      BY <2>3, <2>5, <2>6, Zenon
    <3>3. \A z \in Assistant!Stage :
             r.job[z] # 0 => r.job[z] \in 1 .. Len(js) /\ js[r.job[z]].stage = z
      <4> SUFFICES ASSUME NEW z \in Assistant!Stage, r.job[z] # 0
                   PROVE  r.job[z] \in 1 .. Len(js) /\ js[r.job[z]].stage = z
        OBVIOUS
      <4>1. CASE z = s
        BY <2>2, <2>3, <4>1, Zenon
      <4>2. CASE z # s
        <5>1. r.job[z] = batch[p].job[z]
          BY <2>3, <4>2, Zenon
        <5> QED
          BY <2>2, <5>1, Zenon DEF RowEarned
      <4> QED
        BY <4>1, <4>2
    <3>4. \A z \in Assistant!Stage :
             r.state \in {Assistant!Ready[z], Assistant!Submitting[z], Assistant!Working[z]} => UpstreamDone(js, z)
      BY <2>4, <2>5, Zenon
    <3> QED
      BY <3>1, <3>2, <3>3, <3>4, Zenon DEF RowEarned
  <2>8. \A z \in Assistant!Stage : MayCome(r, z) => MayBring(held[c], p, z)
    <3> SUFFICES ASSUME NEW z \in Assistant!Stage, MayCome(r, z) PROVE s \in Above(z)
      BY <1>1, <1>3 DEF MayBring
    <3> QED
      BY <2>3, StageNames DEF MayCome, UpTo, Above
  <2> QED
    BY <1>1, <2>1, <2>2, <2>3, <2>7, <2>8, RowsAreThere, Leaves
<1> QED
  BY <1>2, <1>3

LEMMA StepLost ==
    ASSUME AssistantInv, NEW c \in Advancer, NEW s \in Assistant!Stage, Assistant!LoseAnswer(c, s)
    PROVE  AssistantInv'
<1> DEFINE p == held[c].plan
           r == [batch[p] EXCEPT !.state = Assistant!Submitting[s]]
<1>1. held[c] # Assistant!Free /\ Assistant!Leave(c) /\ UNCHANGED <<saved, content, plan, asking, resumes, jobs>>
  BY DEF Assistant!LoseAnswer, Assistant!IsAt, Assistant!Free
<1>2. CASE s # "restore"
  BY <1>1, <1>2, SameRow DEF Assistant!LoseAnswer
<1>3. CASE s = "restore"
  <2>1. batch' = [batch EXCEPT ![p] = r] /\ p \in Plan /\ batch[p] \in Assistant!Row /\ RowEarned(jobs[p], batch[p])
    BY <1>1, <1>3, HeldFields DEF Assistant!LoseAnswer, PlanInv
  <2>2. r \in Assistant!Row /\ r.state = Assistant!Submitting[s] /\ r.resume = batch[p].resume /\ r.job = batch[p].job
    BY <2>1 DEF Assistant!Row, Assistant!States
  <2> HIDE DEF r
  <2>3. \A z \in Assistant!Stage : r.state \in {Assistant!Ready[z], Assistant!Submitting[z], Assistant!Working[z]} => (z = "restore" /\ r.state # Assistant!Working[z])
    BY <1>3, <2>2, StageNames
  <2>4. RowEarned(jobs[p], r)
    <3>1. \A z \in Assistant!Stage : r.resume = z => UpstreamDone(jobs[p], z)
      BY <2>1, <2>2, Zenon DEF RowEarned
    <3>2. \A z \in Assistant!Stage : r.state = Assistant!Working[z] => r.job[z] # 0
      BY <2>3
    <3>3. \A z \in Assistant!Stage :
             r.job[z] # 0 => r.job[z] \in 1 .. Len(jobs[p]) /\ jobs[p][r.job[z]].stage = z
      BY <2>1, <2>2, Zenon DEF RowEarned
    <3>4. \A z \in Assistant!Stage :
             r.state \in {Assistant!Ready[z], Assistant!Submitting[z], Assistant!Working[z]} => UpstreamDone(jobs[p], z)
      BY <2>3, Zenon DEF UpstreamDone
    <3> QED
      BY <3>1, <3>2, <3>3, <3>4, Zenon DEF RowEarned
  <2>5. \A z \in Assistant!Stage : ~MayCome(r, z)
    BY <2>2, StageNames DEF MayCome, UpTo, Above
  <2> QED
    BY <1>1, <2>1, <2>2, <2>4, <2>5, RowsAreThere, Leaves
<1> QED
  BY <1>2, <1>3

\* Of the schedulers that have loaded a batch before a stage, the one that
\* finds it there takes the chance away.
LEMMA StepClaim ==
    ASSUME AssistantInv, NEW c \in Advancer, NEW s \in Assistant!Stage, Assistant!Claim(c, s)
    PROVE  AssistantInv'
<1> DEFINE p == held[c].plan
           js == jobs[p]
           r == [batch[p] EXCEPT !.state = Assistant!Submitting[s]]
           h == [held[c] EXCEPT !.at = "claimed", !.row = r]
<1>1. /\ held[c] # Assistant!Free /\ held[c].at = "loaded" /\ held[c].row.state = Assistant!Ready[s]
      /\ UNCHANGED <<saved, content, plan, asking, resumes, jobs>>
  BY DEF Assistant!Claim, Assistant!IsAt, Assistant!Free
<1>2. CASE ~Assistant!Claimable(c)
  BY <1>1, <1>2, SameRow DEF Assistant!Claim
<1>3. CASE Assistant!Claimable(c)
  <2>1. /\ batch' = [batch EXCEPT ![p] = r] /\ batch[p].state = Assistant!Ready[s] /\ held' = [held EXCEPT ![c] = h]
        /\ s = "restore" => held[c].template = plan[p].scope["restore"]
    BY <1>1, <1>3, HeldFields DEF Assistant!Claim, Assistant!Claimable, Assistant!Sound
  <2>2. /\ p \in Plan /\ batch[p] \in Assistant!Row /\ RowEarned(js, batch[p]) /\ JobsEarned(js, plan[p])
        /\ held[c] \in Slot /\ js \in Seq(Assistant!Job) /\ jobs \in [Plan -> Seq(Assistant!Job)]
    BY <1>1, HeldFields DEF PlanInv
  <2>3. r \in Assistant!Row /\ r.state = Assistant!Submitting[s] /\ r.resume = batch[p].resume /\ r.job = batch[p].job
    BY <2>2 DEF Assistant!Row, Assistant!States
  <2> HIDE DEF r
  <2>4. /\ h \in Slot /\ h.at = "claimed" /\ h.row = r /\ h.plan = p /\ h.template = held[c].template
    BY <2>2, <2>3 DEF Slot
  <2> HIDE DEF h
  <2>5. \A z \in Assistant!Stage : r.state \in {Assistant!Ready[z], Assistant!Submitting[z], Assistant!Working[z]} => (z = s /\ r.state # Assistant!Working[z])
    BY <2>3, StageNames
  <2>6. UpstreamDone(js, s)
    BY <2>1, <2>2 DEF RowEarned
  <2>7. RowEarned(js, r)
    BY <2>2, <2>3, <2>5, <2>6 DEF RowEarned
  <2>8. HeldInv(js, r, plan[p], h)
    BY <2>1, <2>3, <2>4, <2>7, RowsAreThere, StageNames DEF HeldInv
  <2>9. \A z \in Assistant!Stage :
            Runs(js, z) + One(MayBring(h, p, z)) + One(MayCome(r, z))
                <= Runs(js, z) + One(MayBring(held[c], p, z)) + One(MayCome(batch[p], z))
    <3> SUFFICES ASSUME NEW z \in Assistant!Stage
                 PROVE  One(MayBring(h, p, z)) + One(MayCome(r, z))
                            <= One(MayBring(held[c], p, z)) + One(MayCome(batch[p], z))
      <4>1. \A b : One(b) \in {0, 1}
        BY DEF One
      <4>2. \A z \in Assistant!Stage : Runs(js, z) \in Nat
        BY <2>2, CountsAreNumbers, RunsOfPlan DEF AssistantInv
      <4> QED
        BY <4>1, <4>2
    <3>1. ~MayCome(r, z) /\ ~MayBring(held[c], p, z)
      BY <1>1, <2>3, StageNames DEF MayCome, MayBring, UpTo, Above
    <3>2. MayBring(h, p, z) => MayCome(batch[p], z)
      BY <2>1, <2>3, <2>4, StageNames DEF MayCome, MayBring, UpTo
    <3> QED
      BY <3>1, <3>2 DEF One
  <2>10. /\ jobs' = [jobs EXCEPT ![p] = js] /\ Grown(js, js)
         /\ \A z \in Assistant!Stage : Runs(js, z) \in Nat
    BY <1>1, <2>2, GrownItself, CountsAreNumbers, RunsOfPlan DEF AssistantInv
  <2> QED
    BY <1>1, <2>1, <2>2, <2>3, <2>4, <2>7, <2>8, <2>9, <2>10, RowsAreThere, SchedulerStep
<1> QED
  BY <1>2, <1>3

LEMMA RunsAppend ==
    ASSUME NEW js \in Seq(Assistant!Job), NEW job \in Assistant!Job, NEW s \in Assistant!Stage
    PROVE  /\ Runs(js, s) \in Nat
           /\ Runs(Append(js, job), s) = Runs(js, s) + One(job.stage = s)
<1> DEFINE ks == Append(js, job)
           R == {i \in 1 .. Len(js) : js[i].stage = s}
           T == {i \in 1 .. Len(ks) : ks[i].stage = s}
<1>1. /\ Len(js) \in Nat /\ Len(ks) = Len(js) + 1 /\ ks[Len(js) + 1] = job
      /\ \A i \in 1 .. Len(js) : ks[i] = js[i]
  OBVIOUS
<1>2. IsFiniteSet(R) /\ Cardinality(R) \in Nat
  <2>1. IsFiniteSet(1 .. Len(js)) /\ R \subseteq 1 .. Len(js)
    BY <1>1, FS_Interval
  <2> HIDE DEF R
  <2> QED
    BY <2>1, FS_Subset, FS_CardinalityType
<1>5. Runs(ks, s) = Cardinality(T) /\ Runs(js, s) = Cardinality(R)
  BY DEF Runs
<1> HIDE DEF ks
<1>3. CASE job.stage = s
  <2>1. T = R \cup {Len(js) + 1} /\ Len(js) + 1 \notin R
    BY <1>1, <1>3
  <2> HIDE DEF R, T
  <2>2. Cardinality(T) = Cardinality(R) + 1
    BY <1>2, <2>1, FS_AddElement
  <2> QED
    BY <1>2, <1>3, <1>5, <2>2 DEF One, ks
<1>4. CASE job.stage # s
  <2>1. T = R
    BY <1>1, <1>4
  <2> HIDE DEF R, T
  <2> QED
    BY <1>2, <1>4, <1>5, <2>1 DEF One, ks
<1> QED
  BY <1>3, <1>4

\* The job comes into being, in the place of the claim that stood for it.
LEMMA StepSubmit ==
    ASSUME AssistantInv, NEW c \in Advancer, NEW s \in Assistant!Stage, Assistant!Submit(c, s)
    PROVE  AssistantInv'
<1> DEFINE p == held[c].plan
           js == jobs[p]
           n == Len(js) + 1
           new == [stage |-> s, scope |-> Assistant!Scope(held[c], s), state |-> "active"]
           ks == Append(js, new)
           h == [held[c] EXCEPT !.at = "submitted", !.job = n]
           begun == [state |-> Assistant!Working[s], resume |-> "none", job |-> [batch[p].job EXCEPT ![s] = n]]
           r == CASE s = "restore" -> begun
                  [] s = "standard" -> [batch[p] EXCEPT !.job[s] = n]
                  [] OTHER -> batch[p]
<1>1. /\ held[c] # Assistant!Free /\ held[c].at = "claimed" /\ held[c].row.state = Assistant!Submitting[s]
      /\ UNCHANGED <<saved, content, plan, asking, resumes>>
      /\ jobs' = [jobs EXCEPT ![p] = Append(@, new)] /\ held' = [held EXCEPT ![c] = h]
  <2>1. Assistant!IsAt(c, "claimed", Assistant!Submitting, s)
    BY DEF Assistant!Submit
  <2>2. held[c] # Assistant!Free /\ held[c].at = "claimed" /\ held[c].row.state = Assistant!Submitting[s]
    BY <2>1 DEF Assistant!IsAt, Assistant!Free
  <2>3. UNCHANGED <<saved, content, plan, asking, resumes>>
    BY DEF Assistant!Submit
  <2>4. jobs' = [jobs EXCEPT ![p] = Append(@, new)] /\ held' = [held EXCEPT ![c] = h]
    BY DEF Assistant!Submit
  <2> QED
    BY <2>2, <2>3, <2>4
<1>2. /\ p \in Plan /\ batch[p] \in Assistant!Row /\ RowEarned(js, batch[p]) /\ JobsEarned(js, plan[p])
      /\ held[c] \in Slot /\ js \in Seq(Assistant!Job) /\ jobs \in [Plan -> Seq(Assistant!Job)]
      /\ batch \in [Plan -> {Assistant!NoBatch} \cup Assistant!Row] /\ plan[p] \in PlanRow /\ RowEarned(js, held[c].row)
      /\ s = "restore" => held[c].template = plan[p].scope["restore"]
  BY <1>1, HeldFields DEF PlanInv, HeldInv
<1>3. /\ batch' = [batch EXCEPT ![p] = r] /\ jobs' = [jobs EXCEPT ![p] = ks]
  <2>1. CASE s = "restore"
    BY <1>2, <2>1 DEF Assistant!Submit
  <2>2. CASE s = "standard"
    BY <1>2, <2>2 DEF Assistant!Submit
  <2>3. CASE s # "restore" /\ s # "standard"
    BY <1>2, <2>3 DEF Assistant!Submit
  <2> QED
    BY <1>1, <1>2, <2>1, <2>2, <2>3
<1>4. new \in Assistant!Job /\ new.stage = s /\ new.scope = plan[p].scope[s]
  <2>1. Assistant!Scope(held[c], s) = plan[p].scope[s] /\ plan[p].scope[s] \in Nat
    BY <1>2 DEF Assistant!Scope, PlanRow
  <2> QED
    BY <2>1 DEF Assistant!Job
<1> HIDE DEF new
<1>5. /\ ks \in Seq(Assistant!Job) /\ Len(js) \in Nat /\ Len(ks) = n /\ ks[n] = new /\ n \in Nat /\ n # 0
      /\ n = Len(js) + 1
      /\ \A i \in 1 .. Len(js) : ks[i] = js[i]
  BY <1>2, <1>4
<1>6. \A z \in Assistant!Stage : Runs(js, z) \in Nat /\ Runs(ks, z) = Runs(js, z) + One(z = s)
  <2>1. \A z \in Assistant!Stage : Runs(js, z) \in Nat /\ Runs(ks, z) = Runs(js, z) + One(new.stage = z)
    BY <1>2, <1>4, RunsAppend
  <2> QED
    BY <1>4, <2>1 DEF One
<1> HIDE DEF ks
<1>7. Grown(js, ks)
  <2>1. Len(js) <= Len(ks)
    BY <1>5
  <2> QED
    BY <1>5, <2>1, Zenon DEF Grown
<1> HIDE DEF n
<1>8. /\ h \in Slot /\ h.at = "submitted" /\ h.row = held[c].row /\ h.plan = p /\ h.job = n
  BY <1>2, <1>5 DEF Slot
<1> HIDE DEF h
<1>9. UpstreamDone(js, s) /\ UpstreamDone(ks, s)
  <2>1. UpstreamDone(js, s)
    BY <1>1, <1>2 DEF RowEarned
  <2> QED
    BY <1>5, <2>1 DEF UpstreamDone
<1>10. JobsEarned(ks, plan[p])
  <2> SUFFICES ASSUME NEW i \in 1 .. n
               PROVE  /\ ks[i].scope = plan[p].scope[ks[i].stage]
                      /\ ks[i].stage # "restore" =>
                            \E j \in 1 .. i - 1 : ks[j].stage = Assistant!Previous[ks[i].stage] /\ ks[j].state = "succeeded"
    BY <1>5 DEF JobsEarned
  <2>1. CASE i = n
    <3>1. ks[i].scope = plan[p].scope[ks[i].stage] /\ ks[i].stage = s
      BY <1>4, <1>5, <2>1, Zenon
    <3>2. ASSUME s # "restore"
          PROVE  \E j \in 1 .. i - 1 : ks[j].stage = Assistant!Previous[s] /\ ks[j].state = "succeeded"
      <4>1. PICK j \in 1 .. Len(js) : js[j].stage = Assistant!Previous[s] /\ js[j].state = "succeeded"
        BY <1>9, <3>2, Zenon DEF UpstreamDone
      <4>2. j \in 1 .. i - 1
        BY <1>5, <2>1
      <4> QED
        BY <1>5, <4>1, <4>2, Zenon
    <3> QED
      BY <3>1, <3>2, Zenon
  <2>2. CASE i # n
    <3>1. i \in 1 .. Len(js) /\ ks[i] = js[i] /\ \A j \in 1 .. i - 1 : ks[j] = js[j]
      BY <1>5, <2>2
    <3> QED
      BY <1>2, <3>1 DEF JobsEarned
  <2> QED
    BY <2>1, <2>2
<1>11. RowEarned(ks, batch[p]) /\ RowEarned(ks, held[c].row)
  BY <1>2, <1>5, <1>7, RowEarnedGrows
<1>12. HeldInv(ks, r, plan[p], h)
  <2>1. r # Assistant!NoBatch
    <3>1. begun.state = Assistant!Working[s] /\ Assistant!Working[s] # "absent"
      BY StageNames
    <3>2. [batch[p] EXCEPT !.job[s] = n].state = batch[p].state /\ batch[p].state # "absent"
      BY <1>2, StageNames DEF Assistant!Row, Assistant!States, Assistant!Terminal
    <3>3. begun # Assistant!NoBatch /\ [batch[p] EXCEPT !.job[s] = n] # Assistant!NoBatch /\ batch[p] # Assistant!NoBatch
      BY <3>1, <3>2 DEF Assistant!NoBatch
    <3> QED
      BY <3>3
  <2> HIDE DEF r
  <2>2. \A z \in Assistant!Stage : h.row.state = Assistant!Submitting[z] => z = s
    <3>1. h.row.state = Assistant!Submitting[s]
      BY <1>1, <1>8
    <3>2. \A z \in Assistant!Stage : Assistant!Submitting[s] = Assistant!Submitting[z] <=> s = z
      BY StageNames
    <3> QED
      BY <3>1, <3>2
  <2> QED
    <3>1. h.job \in 1 .. Len(ks) /\ ks[h.job].stage = s
      BY <1>4, <1>5, <1>8
    <3>2. RowEarned(ks, h.row) /\ h.at # "claimed"
      BY <1>8, <1>11
    <3> QED
      BY <2>1, <2>2, <3>1, <3>2 DEF HeldInv
<1>13. /\ r \in Assistant!Row /\ RowEarned(ks, r)
       /\ s = "restore" => r.state = Assistant!Working[s]
       /\ s # "restore" => r.state = batch[p].state
  <2>1. CASE s = "restore"
    <3>1. r = begun
      BY <2>1
    <3>2. /\ begun \in Assistant!Row /\ begun.state = Assistant!Working[s] /\ begun.resume = "none"
          /\ \A z \in Assistant!Stage : begun.job[z] = IF z = s THEN n ELSE batch[p].job[z]
      BY <1>2, <1>5 DEF Assistant!Row, Assistant!States
    <3> HIDE DEF begun
    <3>3. RowEarned(ks, begun)
      <4>1. \A z \in Assistant!Stage : begun.resume = z => UpstreamDone(ks, z)
        BY <3>2, StageNames, Zenon
      <4>2. \A z \in Assistant!Stage : begun.state = Assistant!Working[z] => begun.job[z] # 0
        <5> SUFFICES ASSUME NEW z \in Assistant!Stage, begun.state = Assistant!Working[z] PROVE begun.job[z] # 0
          OBVIOUS
        <5>1. Assistant!Working[s] = Assistant!Working[z]
          BY <3>2, Zenon
        <5>2. z = s
          BY <5>1, StageNames, Zenon
        <5> QED
          BY <1>5, <3>2, <5>2, Zenon
      <4>3. \A z \in Assistant!Stage :
               begun.job[z] # 0 => begun.job[z] \in 1 .. Len(ks) /\ ks[begun.job[z]].stage = z
        <5> SUFFICES ASSUME NEW z \in Assistant!Stage, begun.job[z] # 0
                     PROVE  begun.job[z] \in 1 .. Len(ks) /\ ks[begun.job[z]].stage = z
          OBVIOUS
        <5>1. CASE z = s
          <6>1. begun.job[z] = n /\ n \in 1 .. Len(ks)
            BY <1>5, <3>2, <5>1
          <6> QED
            BY <1>4, <1>5, <5>1, <6>1, Zenon
        <5>2. CASE z # s
          <6>1. begun.job[z] = batch[p].job[z]
            BY <3>2, <5>2, Zenon
          <6> QED
            BY <1>11, <6>1, Zenon DEF RowEarned
        <5> QED
          BY <5>1, <5>2
      <4>4. \A z \in Assistant!Stage :
               begun.state \in {Assistant!Ready[z], Assistant!Submitting[z], Assistant!Working[z]} => UpstreamDone(ks, z)
        <5> SUFFICES ASSUME NEW z \in Assistant!Stage,
                            begun.state \in {Assistant!Ready[z], Assistant!Submitting[z], Assistant!Working[z]}
                     PROVE  z = s
          BY <1>9, Zenon
        <5>1. Assistant!Working[s] \in {Assistant!Ready[z], Assistant!Submitting[z], Assistant!Working[z]}
          BY <3>2, Zenon
        <5> QED
          BY <5>1, StageNames, Zenon
      <4> QED
        BY <4>1, <4>2, <4>3, <4>4, Zenon DEF RowEarned
    <3> QED
      BY <2>1, <3>1, <3>2, <3>3
  <2>2. CASE s = "standard"
    <3> DEFINE t == [batch[p] EXCEPT !.job[s] = n]
    <3>0. batch[p].job \in [Assistant!Stage -> Nat]
      BY <1>2 DEF Assistant!Row
    <3>1. r = t
      BY <2>2
    <3>2. /\ t \in Assistant!Row /\ t.state = batch[p].state /\ t.resume = batch[p].resume
          /\ \A z \in Assistant!Stage : t.job[z] = IF z = s THEN n ELSE batch[p].job[z]
      BY <1>2, <1>5, <3>0 DEF Assistant!Row
    <3> HIDE DEF t
    <3>3. n # 0 /\ n \in 1 .. Len(ks)
      BY <1>5
    <3>4. RowEarned(ks, t)
      <4>1. \A z \in Assistant!Stage : t.resume = z => UpstreamDone(ks, z)
        BY <1>11, <3>2, Zenon DEF RowEarned
      <4>2. \A z \in Assistant!Stage : t.state = Assistant!Working[z] => t.job[z] # 0
        BY <1>11, <3>2, <3>3, Zenon DEF RowEarned
      <4>3. \A z \in Assistant!Stage :
               t.job[z] # 0 => t.job[z] \in 1 .. Len(ks) /\ ks[t.job[z]].stage = z
        <5> SUFFICES ASSUME NEW z \in Assistant!Stage, t.job[z] # 0
                     PROVE  t.job[z] \in 1 .. Len(ks) /\ ks[t.job[z]].stage = z
          OBVIOUS
        <5>1. CASE z = s
          <6>1. t.job[z] = n /\ n \in 1 .. Len(ks)
            BY <1>5, <3>2, <5>1
          <6> QED
            BY <1>4, <1>5, <5>1, <6>1, Zenon
        <5>2. CASE z # s
          <6>1. t.job[z] = batch[p].job[z]
            BY <3>2, <5>2, Zenon
          <6> QED
            BY <1>11, <6>1, Zenon DEF RowEarned
        <5> QED
          BY <5>1, <5>2
      <4>4. \A z \in Assistant!Stage :
               t.state \in {Assistant!Ready[z], Assistant!Submitting[z], Assistant!Working[z]} => UpstreamDone(ks, z)
        BY <1>11, <3>2, Zenon DEF RowEarned
      <4> QED
        BY <4>1, <4>2, <4>3, <4>4, Zenon DEF RowEarned
    <3> QED
      BY <2>2, <3>1, <3>2, <3>4
  <2>3. CASE s # "restore" /\ s # "standard"
    BY <1>2, <1>11, <2>3
  <2> QED
    BY <2>1, <2>2, <2>3
<1> HIDE DEF r
<1>14. \A z \in Assistant!Stage :
           Runs(ks, z) + One(MayBring(h, p, z)) + One(MayCome(r, z))
               <= Runs(js, z) + One(MayBring(held[c], p, z)) + One(MayCome(batch[p], z))
  <2> SUFFICES ASSUME NEW z \in Assistant!Stage
               PROVE  One(z = s) + One(MayBring(h, p, z)) + One(MayCome(r, z))
                          <= One(MayBring(held[c], p, z)) + One(MayCome(batch[p], z))
    <3>1. \A b : One(b) \in {0, 1}
      BY DEF One
    <3> QED
      BY <1>6, <3>1
  <2>1. MayBring(held[c], p, z) <=> s \in UpTo(z)
    BY <1>1, StageNames DEF MayBring, UpTo
  <2>2. MayBring(h, p, z) => s \in Above(z) /\ s # "restore"
    BY <1>1, <1>8, StageNames DEF MayBring, Above
  <2>3. s \in Above(z) => s \in UpTo(z) /\ s # z
    BY StageNames DEF UpTo, Above
  <2>4. z = s => s \in UpTo(z)
    BY StageNames DEF UpTo
  <2>5. CASE s = "restore"
    <3>1. MayCome(r, z) => s \in Above(z)
      <4>1. r.state = Assistant!Working[s]
        BY <1>13, <2>5
      <4> QED
        BY <4>1, StageNames DEF MayCome, UpTo, Above
    <3> QED
      BY <2>1, <2>2, <2>3, <2>4, <2>5, <3>1 DEF One
  <2>6. CASE s # "restore"
    <3>1. MayCome(r, z) => MayCome(batch[p], z)
      BY <1>13, <2>6 DEF MayCome
    <3> QED
      BY <2>1, <2>2, <2>3, <2>4, <3>1 DEF One
  <2> QED
    BY <2>5, <2>6
<1>15. \A z \in Assistant!Stage : Runs(ks, z) \in Nat
  BY <1>6 DEF One
<1> QED
  BY <1>1, <1>2, <1>3, <1>5, <1>7, <1>8, <1>10, <1>12, <1>13, <1>14, <1>15, RowsAreThere, SchedulerStep

LEMMA StepLoad ==
    ASSUME AssistantInv, NEW c \in Advancer, NEW p \in Plan, Assistant!Load(c, p)
    PROVE  AssistantInv'
<1> DEFINE h == [at |-> "loaded", plan |-> p, row |-> batch[p], template |-> saved["restore"], job |-> 0]
<1>1. /\ held[c] = Assistant!Free /\ batch[p] # Assistant!NoBatch /\ held' = [held EXCEPT ![c] = h]
      /\ UNCHANGED <<saved, content, plan, asking, batch, jobs, resumes>>
  BY DEF Assistant!Load, Assistant!InFlight
<1>2. /\ batch[p] \in Assistant!Row /\ RowEarned(jobs[p], batch[p]) /\ saved["restore"] \in Nat
      /\ held \in [Advancer -> {Assistant!Free} \cup Slot]
  BY <1>1, StageNames DEF AssistantInv, AssistantTypes, SettingsOK, BatchesOK, HeldOK, PlansInv, PlanInv
<1>3. h \in Slot /\ h.at = "loaded" /\ h.plan = p /\ h.row = batch[p]
  BY <1>2 DEF Slot
<1> HIDE DEF h
<1>4. HeldInv(jobs[p], batch[p], plan[p], h)
  BY <1>1, <1>2, <1>3 DEF HeldInv
<1>5. \A d \in Advancer : held'[d] = IF d = c THEN h ELSE held[d]
  BY <1>1, <1>2
<1>6. AssistantTypes'
  BY <1>1, <1>2, <1>3 DEF AssistantInv, AssistantTypes, SettingsOK, PlansOK, BatchesOK, HeldOK
<1>7. PlansInv' /\ AskedInv'
  BY <1>1 DEF AssistantInv, PlansInv, AskedInv
<1>8. SlotsInv'
  BY <1>1, <1>3, <1>4, <1>5 DEF AssistantInv, SlotsInv
<1>9. StageTokens'
  <2> SUFFICES ASSUME NEW q \in Plan, NEW s \in Assistant!Stage
               PROVE  Cardinality(Assistant!JobsOf(q, s)') + Cardinality(Bringers(q, s)') + One(MayCome(batch'[q], s))
                          <= 1 + resumes'[q]
    BY DEF StageTokens
  <2>1. Assistant!JobsOf(q, s)' = Assistant!JobsOf(q, s)
    BY <1>1 DEF Assistant!JobsOf
  <2>2. Cardinality(Bringers(q, s)') + One(MayBring(held[c], q, s))
            = Cardinality(Bringers(q, s)) + One(MayBring(h, q, s))
    BY <1>1, BringersMove DEF AssistantInv
  <2>3. ~MayBring(held[c], q, s) /\ ~MayBring(h, q, s)
    BY <1>1, <1>3 DEF MayBring
  <2>4. Cardinality(Bringers(q, s)') \in Nat /\ Cardinality(Bringers(q, s)) \in Nat
    <3>1. IsFiniteSet(Advancer) /\ Bringers(q, s)' \subseteq Advancer /\ Bringers(q, s) \subseteq Advancer
      BY FiniteAdvancers DEF Bringers
    <3> QED
      BY <3>1, FS_Subset, FS_CardinalityType
  <2>5. Cardinality(Bringers(q, s)') = Cardinality(Bringers(q, s))
    BY <2>2, <2>3, <2>4 DEF One
  <2> QED
    BY <1>1, <2>1, <2>5 DEF AssistantInv, StageTokens
<1> QED
  BY <1>6, <1>7, <1>8, <1>9 DEF AssistantInv

LEMMA StepAdvance ==
    ASSUME AssistantInv, NEW c \in Advancer, Assistant!Advance(c)
    PROVE  AssistantInv'
<1>1. CASE \E p \in Plan : Assistant!Load(c, p)
  BY <1>1, StepLoad
<1>2. CASE Assistant!Block(c) \/ Assistant!Withdraw(c)
  BY <1>2, StageNames, StepFails
<1>3. CASE Assistant!Crash(c)
  BY <1>3, StageNames, StepLeaves
<1>4. ASSUME NEW s \in Assistant!Stage,
             \/ Assistant!Claim(c, s) \/ Assistant!Submit(c, s) \/ Assistant!Record(c, s) \/ Assistant!LoseAnswer(c, s)
             \/ Assistant!StillActive(c, s) \/ Assistant!StageFailed(c, s) \/ Assistant!StageSucceeded(c, s) \/ Assistant!RecordingFails(c, s)
      PROVE  AssistantInv'
  BY <1>4, StepClaim, StepSubmit, StepRecord, StepLost, StepLeaves, StepFails, StepSucceeds
<1> QED
  BY <1>1, <1>2, <1>3, <1>4 DEF Assistant!Advance

-----------------------------------------------------------------------------
(* The steps of users and of jobs. *)

\* The counts depend on the jobs, the batches and what schedulers hold.
LEMMA TokensKept ==
    ASSUME StageTokens, UNCHANGED <<jobs, batch, held, resumes>>
    PROVE  StageTokens'
  BY DEF StageTokens, Assistant!JobsOf, Bringers

LEMMA StepSettings ==
    ASSUME AssistantInv,
           \/ \E s \in Assistant!Stage : Assistant!EditTask(s)
           \/ \E f \in File : Assistant!ReplaceFile(f)
           \/ Assistant!TakeOffline
           \/ \E p \in Plan : Assistant!BeginConfirm(p) \/ Assistant!RefuseConfirm(p)
    PROVE  AssistantInv'
<1>1. UNCHANGED <<plan, jobs, batch, held, resumes>>
  BY DEF Assistant!EditTask, Assistant!ReplaceFile, Assistant!TakeOffline, Assistant!BeginConfirm, Assistant!RefuseConfirm
<1>2. SettingsOK' /\ AskedInv'
  <2>1. \A p \in Plan : plan[p].state = "draft" => plan[p] # Assistant!NoPlan
    BY DEF Assistant!NoPlan
  <2> QED
    BY <2>1 DEF AssistantInv, AssistantTypes, SettingsOK, AskedInv,
          Assistant!EditTask, Assistant!ReplaceFile, Assistant!TakeOffline, Assistant!BeginConfirm, Assistant!RefuseConfirm
<1>3. AssistantTypes' /\ PlansInv' /\ SlotsInv'
  BY <1>1, <1>2 DEF AssistantInv, AssistantTypes, PlansOK, BatchesOK, HeldOK, PlansInv, SlotsInv
<1> QED
  BY <1>1, <1>2, <1>3, TokensKept DEF AssistantInv

LEMMA StepPrepare ==
    ASSUME AssistantInv, NEW p \in Plan, NEW f \in File, Assistant!PreparePlan(p, f)
    PROVE  AssistantInv'
<1> DEFINE new == [state |-> "draft", file |-> f, print |-> content[f], scope |-> saved]
<1>1. /\ plan[p] = Assistant!NoPlan /\ plan' = [plan EXCEPT ![p] = new]
      /\ UNCHANGED <<saved, content, asking, jobs, batch, held, resumes>>
  BY DEF Assistant!PreparePlan
<1>2. new \in PlanRow /\ new.state = "draft"
  BY DEF PlanRow, AssistantInv, AssistantTypes, SettingsOK
<1>3. new # Assistant!NoPlan
  BY DEF Assistant!NoPlan
<1> HIDE DEF new
<1>4. batch[p] = Assistant!NoBatch /\ jobs[p] = <<>>
  BY <1>1 DEF AssistantInv, PlansInv, PlanInv
<1>5. \A q \in Plan : plan'[q] = IF q = p THEN new ELSE plan[q]
  BY <1>1 DEF AssistantInv, AssistantTypes, PlansOK
<1>6. AssistantTypes' /\ AskedInv'
  BY <1>1, <1>2, <1>3, <1>5 DEF AssistantInv, AssistantTypes, SettingsOK, PlansOK, BatchesOK, HeldOK, AskedInv
<1>7. PlansInv'
  <2> SUFFICES ASSUME NEW q \in Plan PROVE PlanInv(jobs[q], batch[q], plan'[q])
    BY <1>1 DEF PlansInv
  <2>1. CASE q = p
    BY <1>4, <2>1 DEF PlanInv, JobsEarned
  <2>2. CASE q # p
    BY <1>5, <2>2 DEF AssistantInv, PlansInv
  <2> QED
    BY <2>1, <2>2
<1>8. SlotsInv'
  <2> SUFFICES ASSUME NEW c \in Advancer, held[c] # Assistant!Free
               PROVE  HeldInv(jobs[held[c].plan], batch[held[c].plan], plan'[held[c].plan], held[c])
    BY <1>1 DEF SlotsInv
  <2>1. held[c].plan # p /\ held[c].plan \in Plan
    BY <1>4, HeldFields
  <2> QED
    BY <1>5, <2>1 DEF AssistantInv, SlotsInv
<1> QED
  BY <1>1, <1>6, <1>7, <1>8, TokensKept DEF AssistantInv

\* A batch begins once for each plan, with no job and in no scheduler's hands.
LEMMA StepConfirm ==
    ASSUME AssistantInv, NEW p \in Plan, Assistant!CommitConfirm(p)
    PROVE  AssistantInv'
<1> DEFINE new == [state |-> Assistant!Ready["restore"], resume |-> "none", job |-> [s \in Assistant!Stage |-> 0]]
           pl == [plan[p] EXCEPT !.state = "confirmed"]
<1>1. /\ p \in asking /\ plan' = [plan EXCEPT ![p] = pl] /\ batch' = [batch EXCEPT ![p] = new]
      /\ asking' = asking \ {p} /\ UNCHANGED <<saved, content, jobs, held, resumes>>
  BY DEF Assistant!CommitConfirm, AssistantInv, AssistantTypes, PlansOK
<1>2. batch[p] = Assistant!NoBatch /\ jobs[p] = <<>>
  BY DEF Assistant!CommitConfirm, Assistant!SameSource, AssistantInv, PlansInv, PlanInv
<1>3. new \in Assistant!Row /\ new.state = Assistant!Ready["restore"] /\ new.resume = "none" /\ \A s \in Assistant!Stage : new.job[s] = 0
  BY DEF Assistant!Row, Assistant!States, Assistant!Stage
<1> HIDE DEF new
<1>4. plan[p] \in PlanRow /\ plan[p] # Assistant!NoPlan
  BY <1>1 DEF AssistantInv, AssistantTypes, PlansOK, AskedInv
<1>5. pl \in PlanRow /\ pl.scope = plan[p].scope /\ pl.state = "confirmed"
  BY <1>4 DEF PlanRow
<1>6. pl # Assistant!NoPlan
  BY <1>5 DEF Assistant!NoPlan
<1> HIDE DEF pl
<1>7. /\ \A q \in Plan : plan'[q] = IF q = p THEN pl ELSE plan[q]
      /\ \A q \in Plan : batch'[q] = IF q = p THEN new ELSE batch[q]
  BY <1>1 DEF AssistantInv, AssistantTypes, PlansOK, BatchesOK
<1>8. AssistantTypes' /\ AskedInv'
  BY <1>1, <1>3, <1>5, <1>7 DEF AssistantInv, AssistantTypes, SettingsOK, PlansOK, BatchesOK, HeldOK, AskedInv
<1>9. PlansInv'
  <2> SUFFICES ASSUME NEW q \in Plan PROVE PlanInv(jobs[q], batch'[q], plan'[q])
    BY <1>1 DEF PlansInv
  <2>1. CASE q = p
    <3>1. RowEarned(<<>>, new)
      BY <1>3, StageNames DEF RowEarned, UpstreamDone
    <3> QED
      BY <1>2, <1>3, <1>6, <1>7, <2>1, <3>1, RowsAreThere DEF PlanInv, JobsEarned
  <2>2. CASE q # p
    BY <1>7, <2>2 DEF AssistantInv, PlansInv
  <2> QED
    BY <2>1, <2>2
<1>10. \A c \in Advancer : held[c] # Assistant!Free => held[c].plan # p /\ held[c].plan \in Plan
  BY <1>2, HeldFields
<1>11. SlotsInv'
  BY <1>1, <1>7, <1>10 DEF AssistantInv, SlotsInv
<1>12. StageTokens'
  <2> SUFFICES ASSUME NEW q \in Plan, NEW s \in Assistant!Stage
               PROVE  Cardinality(Assistant!JobsOf(q, s)) + Cardinality(Bringers(q, s)) + One(MayCome(batch'[q], s)) <= 1 + resumes[q]
    BY <1>1 DEF StageTokens, Assistant!JobsOf, Bringers
  <2>1. CASE q = p
    <3>1. Assistant!JobsOf(q, s) = {} /\ Bringers(q, s) = {}
      BY <1>2, <1>10, <2>1 DEF Assistant!JobsOf, Bringers, MayBring
    <3>2. Cardinality(Assistant!JobsOf(q, s)) = 0 /\ Cardinality(Bringers(q, s)) = 0
      BY <3>1, FS_EmptySet
    <3> QED
      BY <3>2, CountsAreNumbers DEF One, AssistantInv
  <2>2. CASE q # p
    BY <1>7, <2>2 DEF AssistantInv, StageTokens
  <2> QED
    BY <2>1, <2>2
<1> QED
  BY <1>8, <1>9, <1>11, <1>12 DEF AssistantInv

\* Resuming gives one chance to the stage that failed and to those below it.
LEMMA StepResume ==
    ASSUME AssistantInv, NEW p \in Plan, Assistant!Resume(p)
    PROVE  AssistantInv'
<1> DEFINE r == [batch[p] EXCEPT !.state = Assistant!Ready[batch[p].resume]]
<1>1. /\ batch[p].state = "failed" /\ batch[p].resume \in Assistant!Stage /\ batch' = [batch EXCEPT ![p] = r]
      /\ resumes' = [resumes EXCEPT ![p] = @ + 1] /\ UNCHANGED <<saved, content, plan, asking, jobs, held>>
  BY DEF Assistant!Resume, AssistantInv, AssistantTypes, BatchesOK
<1>2. batch[p] # Assistant!NoBatch /\ batch[p] \in Assistant!Row
  <2>1. batch[p] # Assistant!NoBatch
    BY <1>1 DEF Assistant!NoBatch
  <2> QED
    BY <2>1 DEF AssistantInv, AssistantTypes, BatchesOK
<1>3. RowEarned(jobs[p], batch[p]) /\ plan[p] # Assistant!NoPlan /\ JobsEarned(jobs[p], plan[p])
  BY <1>2 DEF AssistantInv, PlansInv, PlanInv
<1>4. r \in Assistant!Row /\ r.state = Assistant!Ready[batch[p].resume] /\ r.resume = batch[p].resume /\ r.job = batch[p].job
  BY <1>1, <1>2 DEF Assistant!Row, Assistant!States
<1> HIDE DEF r
<1>5. RowEarned(jobs[p], r)
  BY <1>1, <1>3, <1>4, StageNames DEF RowEarned
<1>6. /\ \A q \in Plan : batch'[q] = IF q = p THEN r ELSE batch[q]
      /\ \A q \in Plan : resumes'[q] = IF q = p THEN resumes[q] + 1 ELSE resumes[q]
  BY <1>1 DEF AssistantInv, AssistantTypes, BatchesOK, SettingsOK
<1>7. AssistantTypes' /\ AskedInv'
  BY <1>1, <1>4 DEF AssistantInv, AssistantTypes, SettingsOK, PlansOK, BatchesOK, HeldOK, AskedInv
<1>8. PlansInv'
  BY <1>1, <1>2, <1>3, <1>4, <1>5, <1>6, RowsAreThere DEF AssistantInv, PlansInv, PlanInv
<1>9. SlotsInv'
  <2>1. \A c \in Advancer : held[c] # Assistant!Free => held[c].plan \in Plan
    BY HeldFields
  <2>2. r # Assistant!NoBatch
    BY <1>4, RowsAreThere
  <2> QED
    BY <1>1, <1>6, <2>1, <2>2 DEF AssistantInv, SlotsInv, HeldInv
<1>10. StageTokens'
  <2> SUFFICES ASSUME NEW q \in Plan, NEW s \in Assistant!Stage
               PROVE  Cardinality(Assistant!JobsOf(q, s)) + Cardinality(Bringers(q, s)) + One(MayCome(batch'[q], s)) <= 1 + resumes'[q]
    BY <1>1 DEF StageTokens, Assistant!JobsOf, Bringers
  <2>1. Cardinality(Assistant!JobsOf(q, s)) + Cardinality(Bringers(q, s)) + One(MayCome(batch[q], s)) <= 1 + resumes[q]
    BY DEF AssistantInv, StageTokens
  <2>2. /\ Cardinality(Assistant!JobsOf(q, s)) \in Nat /\ Cardinality(Bringers(q, s)) \in Nat /\ resumes[q] \in Nat
    BY CountsAreNumbers DEF AssistantInv
  <2>3. \A b : One(b) \in {0, 1}
    BY DEF One
  <2>4. CASE q = p
    <3>1. ~MayCome(batch[p], s)
      BY <1>1, StageNames DEF MayCome, UpTo, Above, Assistant!Terminal
    <3> QED
      BY <1>6, <2>1, <2>2, <2>3, <2>4, <3>1 DEF One
  <2>5. CASE q # p
    BY <1>6, <2>1, <2>5
  <2> QED
    BY <2>4, <2>5
<1> QED
  BY <1>7, <1>8, <1>9, <1>10 DEF AssistantInv

LEMMA StepJobEnds ==
    ASSUME AssistantInv, NEW p \in Plan, NEW i \in 1 .. Len(jobs[p]), NEW state \in {"succeeded", "failed"},
           Assistant!JobEnds(p, i, state)
    PROVE  AssistantInv'
<1> DEFINE js == jobs[p]
           ks == [jobs[p] EXCEPT ![i].state = state]
<1>1. /\ js[i].state = "active" /\ jobs' = [jobs EXCEPT ![p] = ks]
      /\ UNCHANGED <<saved, content, plan, asking, batch, held, resumes>>
  BY DEF Assistant!JobEnds, AssistantInv, AssistantTypes, BatchesOK
<1>2. /\ js \in Seq(Assistant!Job) /\ jobs \in [Plan -> Seq(Assistant!Job)] /\ PlanInv(js, batch[p], plan[p])
  BY DEF AssistantInv, AssistantTypes, BatchesOK, PlansInv
<1>3. /\ ks \in Seq(Assistant!Job) /\ Len(ks) = Len(js)
      /\ \A j \in 1 .. Len(js) : /\ ks[j].stage = js[j].stage /\ ks[j].scope = js[j].scope
                                 /\ js[j].state = "succeeded" => ks[j].state = "succeeded"
  <2>1. js[i] \in Assistant!Job /\ [js[i] EXCEPT !.state = state] \in Assistant!Job
    <3>1. \A sq \in Seq(Assistant!Job) : \A k \in 1 .. Len(sq) : sq[k] \in Assistant!Job
      OBVIOUS
    <3>2. js[i] \in Assistant!Job
      BY <1>2, <3>1
    <3>3. \A one \in Assistant!Job : [one EXCEPT !.state = state] \in Assistant!Job
      BY DEF Assistant!Job
    <3> QED
      BY <3>2, <3>3
  <2>2. ks = [js EXCEPT ![i] = [js[i] EXCEPT !.state = state]]
    BY <1>2
  <2> DEFINE new == [js[i] EXCEPT !.state = state]
  <2>3. new.stage = js[i].stage /\ new.scope = js[i].scope /\ js[i].state # "succeeded"
    BY <1>1, <2>1 DEF Assistant!Job
  <2> HIDE DEF new, ks
  <2>4. new \in Assistant!Job /\ ks = [js EXCEPT ![i] = new]
    BY <2>1, <2>2 DEF new
  <2> HIDE DEF js
  <2>5. js \in Seq(Assistant!Job) /\ i \in 1 .. Len(js)
    BY <1>2 DEF js
  <2>6. ks \in Seq(Assistant!Job) /\ Len(ks) = Len(js) /\ \A j \in 1 .. Len(js) : ks[j] = IF j = i THEN new ELSE js[j]
    BY <2>4, <2>5
  <2> QED
    BY <2>3, <2>6
<1> HIDE DEF js, ks
<1>4. Grown(js, ks)
  BY <1>2, <1>3 DEF Grown
<1>5. Len(js) \in Nat
  BY <1>2
<1>6. JobsEarned(ks, plan[p])
  <2> SUFFICES ASSUME NEW j \in 1 .. Len(js)
               PROVE  /\ ks[j].scope = plan[p].scope[ks[j].stage]
                      /\ ks[j].stage # "restore" =>
                            \E m \in 1 .. j - 1 : ks[m].stage = Assistant!Previous[ks[j].stage] /\ ks[m].state = "succeeded"
    BY <1>3 DEF JobsEarned
  <2>1. \A m \in 1 .. j - 1 : m \in 1 .. Len(js)
    BY <1>5
  <2> QED
    BY <1>2, <1>3, <2>1 DEF PlanInv, JobsEarned
<1>7. \A q \in Plan : jobs'[q] = IF q = p THEN ks ELSE jobs[q]
  BY <1>1, <1>2
<1>8. AssistantTypes' /\ AskedInv'
  BY <1>1, <1>3, <1>7 DEF AssistantInv, AssistantTypes, SettingsOK, PlansOK, BatchesOK, HeldOK, AskedInv
<1>9. PlansInv'
  <2> SUFFICES ASSUME NEW q \in Plan PROVE PlanInv(jobs'[q], batch[q], plan[q])
    BY <1>1 DEF PlansInv
  <2>1. CASE q = p
    <3>1. batch[p] # Assistant!NoBatch => RowEarned(ks, batch[p])
      BY <1>2, <1>3, <1>4, RowEarnedGrows DEF PlanInv
    <3>2. js # <<>>
      BY <1>5 DEF js
    <3> QED
      BY <1>2, <1>6, <1>7, <2>1, <3>1, <3>2 DEF PlanInv
  <2>2. CASE q # p
    BY <1>7, <2>2 DEF AssistantInv, PlansInv
  <2> QED
    BY <2>1, <2>2
<1>10. SlotsInv'
  <2> SUFFICES ASSUME NEW c \in Advancer, held[c] # Assistant!Free
               PROVE  HeldInv(jobs'[held[c].plan], batch[held[c].plan], plan[held[c].plan], held[c])
    BY <1>1 DEF SlotsInv
  <2>1. /\ held[c].plan \in Plan /\ batch[held[c].plan] # Assistant!NoBatch
        /\ HeldInv(jobs[held[c].plan], batch[held[c].plan], plan[held[c].plan], held[c])
    BY HeldFields
  <2>2. CASE held[c].plan = p
    <3>1. HeldInv(ks, batch[p], plan[p], held[c])
      BY <1>2, <1>3, <1>4, <2>1, <2>2, HeldInvGrows DEF js
    <3> QED
      BY <1>7, <2>2, <3>1
  <2>3. CASE held[c].plan # p
    BY <1>7, <2>1, <2>3
  <2> QED
    BY <2>2, <2>3
<1>11. StageTokens'
  <2> SUFFICES ASSUME NEW q \in Plan, NEW s \in Assistant!Stage
               PROVE  Cardinality(Assistant!JobsOf(q, s)') + Cardinality(Bringers(q, s)) + One(MayCome(batch[q], s)) <= 1 + resumes[q]
    BY <1>1 DEF StageTokens, Bringers
  <2>1. Assistant!JobsOf(q, s)' = Assistant!JobsOf(q, s)
    BY <1>3, <1>7 DEF Assistant!JobsOf, js
  <2> QED
    BY <2>1 DEF AssistantInv, StageTokens
<1> QED
  BY <1>8, <1>9, <1>10, <1>11 DEF AssistantInv

-----------------------------------------------------------------------------
LEMMA AssistantBegins == Assistant!Init => AssistantInv
<1> SUFFICES ASSUME Assistant!Init PROVE AssistantInv
  OBVIOUS
<1>1. AssistantTypes
  BY DEF Assistant!Init, AssistantTypes, SettingsOK, PlansOK, BatchesOK, HeldOK
<1>2. /\ \A p \in Plan : jobs[p] = <<>> /\ batch[p] = Assistant!NoBatch /\ resumes[p] = 0
      /\ \A c \in Advancer : held[c] = Assistant!Free
      /\ asking = {}
  BY DEF Assistant!Init
<1>3. PlansInv /\ AskedInv /\ SlotsInv
  BY <1>2 DEF PlansInv, PlanInv, JobsEarned, AskedInv, SlotsInv
<1>4. StageTokens
  <2> SUFFICES ASSUME NEW p \in Plan, NEW s \in Assistant!Stage
               PROVE  Cardinality(Assistant!JobsOf(p, s)) + Cardinality(Bringers(p, s)) + One(MayCome(batch[p], s)) <= 1 + resumes[p]
    BY DEF StageTokens
  <2>1. Assistant!JobsOf(p, s) = {} /\ Bringers(p, s) = {}
    BY <1>2 DEF Assistant!JobsOf, Bringers, MayBring
  <2>2. Cardinality(Assistant!JobsOf(p, s)) = 0 /\ Cardinality(Bringers(p, s)) = 0
    BY <2>1, FS_EmptySet
  <2> QED
    BY <1>2, <2>2 DEF One
<1> QED
  BY <1>1, <1>3, <1>4 DEF AssistantInv

LEMMA AssistantSteps ==
    ASSUME AssistantInv, [Assistant!Next]_(Assistant!vars)
    PROVE  AssistantInv'
<1>1. CASE UNCHANGED Assistant!vars
  <2>1. StageTokens'
    BY <1>1, TokensKept DEF Assistant!vars, AssistantInv
  <2> QED
    BY <1>1, <2>1 DEF Assistant!vars, AssistantInv, AssistantTypes, SettingsOK, PlansOK, BatchesOK, HeldOK,
                      PlansInv, AskedInv, SlotsInv
<1>2. CASE \/ \E s \in Assistant!Stage : Assistant!EditTask(s)
           \/ \E f \in File : Assistant!ReplaceFile(f)
           \/ Assistant!TakeOffline
  BY <1>2, StepSettings
<1>3. ASSUME NEW p \in Plan,
             \/ \E f \in File : Assistant!PreparePlan(p, f)
             \/ Assistant!BeginConfirm(p) \/ Assistant!CommitConfirm(p) \/ Assistant!RefuseConfirm(p) \/ Assistant!Resume(p)
             \/ \E i \in 1 .. Len(jobs[p]), state \in {"succeeded", "failed"} : Assistant!JobEnds(p, i, state)
      PROVE  AssistantInv'
  BY <1>3, StepSettings, StepPrepare, StepConfirm, StepResume, StepJobEnds
<1>4. CASE \E c \in Advancer : Assistant!Advance(c)
  BY <1>4, StepAdvance
<1> QED
  BY <1>1, <1>2, <1>3, <1>4 DEF Assistant!Next

LEMMA StagesEarned == AssistantInv => Assistant!StagesAsConfirmed
<1> SUFFICES ASSUME AssistantInv PROVE Assistant!StagesAsConfirmed
  OBVIOUS
<1>1. Assistant!NotRepeated
  <2> SUFFICES ASSUME NEW p \in Plan, NEW s \in Assistant!Stage PROVE Cardinality(Assistant!JobsOf(p, s)) <= 1 + resumes[p]
    BY SameCount DEF Assistant!NotRepeated
  <2>1. Cardinality(Assistant!JobsOf(p, s)) + Cardinality(Bringers(p, s)) + One(MayCome(batch[p], s)) <= 1 + resumes[p]
    BY DEF AssistantInv, StageTokens
  <2> QED
    BY <2>1, CountsAreNumbers DEF AssistantInv, One
<1>2. \A p \in Plan : JobsEarned(jobs[p], plan[p])
  BY DEF AssistantInv, PlansInv, PlanInv
<1> QED
  BY <1>1, <1>2 DEF Assistant!StagesAsConfirmed, Assistant!UpstreamSucceeded, Assistant!ScopeConfirmed, JobsEarned

-----------------------------------------------------------------------------
(* Side by side.                                                           *)

\* Beside the other loops a batch does nothing it would not do alone, so what
\* is proved of Spec holds of WorkSpec too.
LEMMA Alone == WorkSpec => Spec
<1>1. WorkInit => Init
  BY DEF WorkInit
<1>2. [WorkNext]_workVars => [Next]_vars
  BY DEF WorkNext, workVars
<1> QED
  BY <1>1, <1>2, PTL DEF WorkSpec, Spec

WorkInv == (active = "lineage" => OutboxInv) /\ (active = "plans" => AssistantInv)

LEMMA WorkBegins == WorkInit => WorkInv
  BY OutboxBegins, AssistantBegins DEF WorkInit, WorkInv

LEMMA WorkSteps ==
    ASSUME WorkInv, [WorkNext]_workVars
    PROVE  WorkInv'
<1>1. CASE active = "lineage"
  <2>1. [Lineage!Next]_(Lineage!vars) /\ active' = active
    BY <1>1 DEF WorkNext, workVars, lineage, Lineage!vars, Lineage!catalog, Lineage!remote
  <2> QED
    BY <1>1, <2>1, OutboxSteps DEF WorkInv
<1>2. CASE active = "plans"
  <2>1. [Assistant!Next]_(Assistant!vars) /\ active' = active
    BY <1>2 DEF WorkNext, workVars, plans, Assistant!vars
  <2> QED
    BY <1>2, <2>1, AssistantSteps DEF WorkInv
<1>3. CASE active \notin {"lineage", "plans"}
  <2>1. active' = active
    BY <1>3 DEF WorkNext, workVars
  <2> QED
    BY <1>3, <2>1 DEF WorkInv
<1> QED
  BY <1>1, <1>2, <1>3

(* The inductive invariants of the outbox and of the confirmed plans hold   *)
(* in every state of their loops (openmetadata.py, assistant_execution.py). *)
THEOREM WorkInductive == WorkSpec => []WorkInv
<1>1. WorkInit => WorkInv
  BY WorkBegins
<1>2. WorkInv /\ [WorkNext]_workVars => WorkInv'
  BY WorkSteps
<1> QED
  BY <1>1, <1>2, PTL DEF WorkSpec

(* A row of the outbox that is recorded as succeeded names only assets and  *)
(* edges that OpenMetadata has, whatever repeated messages, outages and     *)
(* overlapping passes of workers there were (run_outbox_item).              *)
THEOREM CopiedComplete == WorkSpec => []SnapshotComplete
<1>1. WorkInv => SnapshotComplete
  BY DEF WorkInv, OutboxInv, SnapshotComplete
<1> QED
  BY <1>1, WorkInductive, PTL

(* No stage of a confirmed plan runs more often than it was resumed, none   *)
(* before its upstream has succeeded and none on what was not confirmed,    *)
(* though several schedulers advance a batch (assistant_execution.advance). *)
THEOREM PlansKept == WorkSpec => []StagesAsConfirmed
<1>1. WorkInv => StagesAsConfirmed
  BY StagesEarned DEF WorkInv, StagesAsConfirmed
<1> QED
  BY <1>1, WorkInductive, PTL

=============================================================================

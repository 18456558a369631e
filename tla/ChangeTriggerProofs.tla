------------------------- MODULE ChangeTriggerProofs -------------------------
(***************************************************************************)
(* Proofs about ChangeTrigger, for any number of schedulers, probes,       *)
(* requests and workers, any values and any bounds.                        *)
(*                                                                         *)
(* The inductive invariant IInv speaks of what every process has read or   *)
(* stored and not yet committed: a probe that captures holds the lock and  *)
(* has the row in hand, a run that is planned belongs to one probe, a      *)
(* transaction that clears run_id knows that the run is over or ends it,   *)
(* and one that leaves a trigger enabled leaves it scheduled.  As long as  *)
(* no write has disturbed the trigger, the row is that of the run which is *)
(* active.                                                                 *)
(***************************************************************************)
EXTENDS ChangeTrigger, FiniteSetTheorems, TLAPS

-----------------------------------------------------------------------------
(* Types.  A row keeps its queue short; a change is some columns of a row. *)

Columns == {"enabled", "state", "applied", "pending", "queue", "run", "matches", "scheduled"}
ShortRow == {r \in Row : Len(r.queue) <= QueueLimit}
Change == UNION {{[c \in C |-> r[c]] : C \in SUBSET Columns} : r \in ShortRow}
Pc == {"idle", "due", "capture", "mark", "start", "insert", "send", "failing", "raised",
       "sent", "rebuild", "running", "writing"}
Effect == {"none", "succeeded", "failed", "online", "offline", "pause", "resume"}
Slot == [pc : Pc, run : RunId \cup {NoRun}, seen : ShortRow, effect : Effect,
         then : {"idle", "raised"}, change : Change, enabled : BOOLEAN, scheduled : BOOLEAN]

Typed ==
    /\ config \in Config /\ source \in Value
    /\ row \in ShortRow
    /\ lock \in Prober \cup {Nobody}
    /\ runs \in [RunId -> Run]
    /\ messages \subseteq RunId
    /\ actor \in [Actor -> Slot]
    /\ online \in BOOLEAN
    /\ history \in [paused : BOOLEAN, disturbed : BOOLEAN, interrupted : BOOLEAN]
    /\ count \in [changes : Nat, requests : Nat, faults : Nat]

(* Runs are numbered from one.                                             *)
LEMMA NoRunIsNone == RunId \subseteq Nat /\ NoRun \notin RunId
  BY TriggerAssumption DEF RunId, NoRun

LEMMA RowFields ==
  ASSUME NEW r \in ShortRow
  PROVE  /\ r \in Row /\ DOMAIN r = Columns
         /\ r.enabled \in BOOLEAN /\ r.scheduled \in BOOLEAN /\ r.state \in TriggerState
         /\ r.applied \in Value \cup {NoValue} /\ r.pending \in Value \cup {NoValue}
         /\ r.queue \in Seq(Value) /\ Len(r.queue) <= QueueLimit
         /\ r.run \in RunId \cup {NoRun} /\ r.matches \in 0 .. Threshold
  BY DEF ShortRow, Row, Columns

(* The columns a change brings, laid over a row.                           *)
LEMMA StoredFields ==
  ASSUME NEW r \in ShortRow, NEW c \in Change
  PROVE  /\ Stored(c, r) \in ShortRow /\ DOMAIN c \subseteq Columns
         /\ \A x \in Columns : Stored(c, r)[x] = IF x \in DOMAIN c THEN c[x] ELSE r[x]
<1>1. PICK q \in ShortRow, C \in SUBSET Columns : c = [x \in C |-> q[x]]
  BY DEF Change
<1>2. DOMAIN c = C /\ \A x \in C : c[x] = q[x]
  BY <1>1
<1>3. DOMAIN r = Columns /\ DOMAIN q = Columns
  BY RowFields
<1>4. Stored(c, r) = [x \in Columns |-> IF x \in C THEN q[x] ELSE r[x]]
  BY <1>2, <1>3 DEF Stored
<1> DEFINE m == Stored(c, r)
<1>5. m = [enabled |-> m.enabled, state |-> m.state, applied |-> m.applied, pending |-> m.pending,
           queue |-> m.queue, run |-> m.run, matches |-> m.matches, scheduled |-> m.scheduled]
  BY <1>4 DEF Columns
<1>6. \A x \in Columns : m[x] = IF x \in C THEN q[x] ELSE r[x]
  BY <1>4
<1> HIDE DEF m
<1>7. m \in ShortRow
  BY <1>5, <1>6, RowFields DEF Columns, ShortRow, Row
<1> QED
  BY <1>2, <1>6, <1>7 DEF m

(* What a transaction that has read old and computed new commits.          *)
LEMMA DeltaFields ==
  ASSUME NEW old \in ShortRow, NEW new \in ShortRow, NEW retimed \in BOOLEAN
  PROVE  LET c == Delta(old, new, retimed)
         IN  /\ c \in Change
             /\ \A x \in DOMAIN c : c[x] = new[x]
             /\ \A x \in Columns \ DOMAIN c : new[x] = old[x]
             /\ \A x \in DOMAIN c : new[x] # old[x] \/ (x = "scheduled" /\ new.scheduled)
<1> DEFINE C == {x \in DOMAIN old : new[x] # old[x]}
                  \cup (IF retimed /\ new.scheduled THEN {"scheduled"} ELSE {})
<1>1. DOMAIN old = Columns
  BY RowFields
<1>2. C \subseteq Columns
  BY <1>1 DEF Columns
<1>3. Delta(old, new, retimed) = [x \in C |-> new[x]]
  BY DEF Delta
<1>4. Delta(old, new, retimed) \in Change
  BY <1>2, <1>3 DEF Change
<1> QED
  BY <1>1, <1>2, <1>3, <1>4

(* A write that says nothing of who runs: it clears the run if it touches  *)
(* it, and a trigger that it leaves enabled is scheduled as well.          *)
Modest(old, new) ==
    /\ new \in ShortRow
    /\ new.run \in {old.run, NoRun}
    /\ old.scheduled /\ ~new.scheduled => ~new.enabled
    /\ new.enabled /\ ~old.enabled => new.scheduled
SameData(old, new) == new.applied = old.applied /\ new.pending = old.pending

LEMMA RetiredRow ==
  ASSUME NEW r \in ShortRow
  PROVE  /\ Modest(r, Retired(r)) /\ SameData(r, Retired(r))
         /\ Retired(r).run = r.run /\ ~Retired(r).enabled /\ Retired(r).state = "retired"
  BY DEF ShortRow, Row, Retired, Modest, SameData, TriggerState

LEMMA EnabledRow ==
  ASSUME NEW r \in ShortRow
  PROVE  /\ Modest(r, Enabled(r)) /\ SameData(r, Enabled(r))
         /\ Enabled(r).run = r.run /\ Enabled(r).scheduled /\ Enabled(r).state = "active"
  BY DEF ShortRow, Row, Enabled, Modest, SameData, TriggerState

LEMMA PausedRow ==
  ASSUME NEW r \in ShortRow
  PROVE  Modest(r, Paused(r)) /\ SameData(r, Paused(r)) /\ Paused(r).run = r.run
  BY DEF ShortRow, Row, Paused, Modest, SameData, TriggerState

LEMMA SynchronizedRow ==
  ASSUME NEW r \in ShortRow
  PROVE  /\ Modest(r, Synchronized(r)) /\ SameData(r, Synchronized(r))
         /\ Synchronized(r).run = r.run
         /\ Synchronized(r).enabled => Synchronized(r).scheduled
<1> DEFINE s == IF r.state = "retired" THEN Enabled(r) ELSE r
<1>1. s \in ShortRow /\ SameData(r, s) /\ s.run = r.run
  BY EnabledRow DEF Modest, SameData
<1>2. Synchronized(r) = [s EXCEPT !.scheduled = s.enabled]
  BY DEF Synchronized
<1> HIDE DEF s
<1> QED
  BY <1>1, <1>2 DEF ShortRow, Row, Modest, SameData

LEMMA KeptRow ==
  ASSUME NEW r \in ShortRow
  PROVE  Modest(r, Kept(r)) /\ SameData(r, Kept(r)) /\ Kept(r).run = NoRun
  BY DEF ShortRow, Row, Kept, Modest, SameData, TriggerState

LEMMA WaitingRow ==
  ASSUME NEW r \in ShortRow, NEW s \in TriggerState, NEW id \in {r.run, NoRun}
  PROVE  /\ Modest(r, [r EXCEPT !.run = id, !.state = s])
         /\ SameData(r, [r EXCEPT !.run = id, !.state = s])
         /\ [r EXCEPT !.run = id, !.state = s].run = id
  BY DEF ShortRow, Row, Modest, SameData, NoRun

LEMMA AdvancedRow ==
  ASSUME NEW r \in ShortRow, NEW value \in Value
  PROVE  Modest(r, Advanced(r, value)) /\ Advanced(r, value).run = NoRun
         /\ Advanced(r, value).applied = value
<1> DEFINE rest == IF r.pending = value THEN NoValue ELSE r.pending
           pop == rest = NoValue /\ r.queue # <<>>
           left == IF pop THEN Head(r.queue) ELSE rest
           queue == IF pop THEN Tail(r.queue) ELSE r.queue
           state == IF ~r.enabled THEN "paused"
                    ELSE IF left = NoValue THEN "active" ELSE "waiting"
           scheduled == r.enabled /\ (r.scheduled \/ More(r, value))
<1>1. queue \in Seq(Value) /\ Len(queue) <= QueueLimit
  BY RowFields, TriggerAssumption
<1>2. left \in Value \cup {NoValue}
  BY RowFields
<1>3. state \in TriggerState /\ scheduled \in BOOLEAN
  BY RowFields DEF TriggerState
<1>4. Advanced(r, value) =
        [r EXCEPT !.applied = value, !.pending = left, !.queue = queue, !.run = NoRun,
                  !.state = state, !.scheduled = scheduled]
  BY RowFields DEF Advanced, Row
<1>5. scheduled <=> r.enabled /\ (r.scheduled \/ More(r, value))
  OBVIOUS
<1> HIDE DEF left, queue, state, scheduled
<1> QED
  BY <1>1, <1>2, <1>3, <1>4, <1>5 DEF ShortRow, Row, Modest

LEMMA FinalizedRow ==
  ASSUME NEW r \in ShortRow, NEW status \in {"succeeded", "failed"}, NEW value \in Value
  PROVE  /\ Modest(r, Finalized(r, status, value)) /\ Finalized(r, status, value).run = NoRun
         /\ \/ Finalized(r, status, value).applied = r.applied
            \/ status = "succeeded" /\ Finalized(r, status, value).applied = value
  BY KeptRow, AdvancedRow DEF Finalized, SameData

(* _reconcile_pending_run ends the wait for a run that is over.            *)
LEMMA ReconciledRow ==
  ASSUME NEW r \in ShortRow, runs \in [RunId -> Run],
         \A id \in RunId : runs[id].status # "absent" => runs[id].value \in Value
  PROVE  /\ Reconciled(r) \in ShortRow
         /\ \/ Reconciled(r) = r
            \/ /\ Reconciled(r).run = NoRun /\ r.run \in RunId
               /\ runs[r.run].status \notin Active
               /\ \/ Reconciled(r).applied = r.applied
                  \/ runs[r.run].status = "succeeded" /\ Reconciled(r).applied = runs[r.run].value
<1>1. CASE r.run = NoRun \/ (r.run \in RunId /\ runs[r.run].status \in Active)
  BY <1>1, NoRunIsNone DEF Reconciled
<1>2. CASE r.run # NoRun /\ runs[r.run].status \notin Active
  <2>1. r.run \in RunId /\ runs[r.run] \in Run
    BY <1>2, RowFields
  <2>2. CASE runs[r.run].status = "absent"
    <3>1. Reconciled(r) = [r EXCEPT !.run = NoRun, !.state = "waiting"]
      BY <1>2, <2>2 DEF Reconciled
    <3>2. "waiting" \in TriggerState
      BY DEF TriggerState
    <3>3. /\ Modest(r, [r EXCEPT !.run = NoRun, !.state = "waiting"])
          /\ SameData(r, [r EXCEPT !.run = NoRun, !.state = "waiting"])
          /\ [r EXCEPT !.run = NoRun, !.state = "waiting"].run = NoRun
      <4>1. NoRun \in {r.run, NoRun}
        OBVIOUS
      <4> QED
        BY <3>2, <4>1, WaitingRow
    <3> QED
      BY <1>2, <2>1, <3>1, <3>3 DEF Modest, SameData
  <2>3. CASE runs[r.run].status # "absent"
    <3>1. runs[r.run].status \in {"succeeded", "failed"} /\ runs[r.run].value \in Value
      BY <1>2, <2>1, <2>3 DEF Run, RunStatus, Active
    <3>2. Reconciled(r) = Finalized(r, runs[r.run].status, runs[r.run].value)
      BY <1>2, <2>3 DEF Reconciled
    <3> QED
      BY <1>2, <2>1, <3>1, <3>2, FinalizedRow DEF Modest
  <2> QED
    BY <2>2, <2>3
<1> QED
  BY <1>1, <1>2, RowFields

(* The overlap policies remember a value at most, and never lose one.      *)
LEMMA OverlappedRow ==
  ASSUME NEW r \in ShortRow, NEW v \in Value, config \in Config
  PROVE  /\ Overlapped(r, v) \in ShortRow
         /\ Overlapped(r, v).run = r.run /\ Overlapped(r, v).applied = r.applied
         /\ Overlapped(r, v).scheduled = r.scheduled
         /\ Overlapped(r, v).pending \in {r.pending, v}
<1> DEFINE q == IF \E i \in DOMAIN r.queue : r.queue[i] = v THEN r.queue ELSE Append(r.queue, v)
           kept == IF Len(q) > QueueLimit THEN Tail(q) ELSE q
<1>1. q \in Seq(Value) /\ Len(q) <= QueueLimit + 1
  BY RowFields, TriggerAssumption
<1>2. kept \in Seq(Value) /\ Len(kept) <= QueueLimit
  BY <1>1, TriggerAssumption
<1>3. CASE config.overlap = "queue"
  <2>1. Overlapped(r, v) = [r EXCEPT !.queue = kept]
    BY <1>3 DEF Overlapped
  <2> HIDE DEF kept
  <2> QED
    BY <1>2, <2>1 DEF ShortRow, Row
<1>4. CASE config.overlap = "skip"
  BY <1>4 DEF Overlapped
<1>5. CASE config.overlap = "merge"
  BY <1>5 DEF Overlapped, ShortRow, Row
<1>6. config.overlap \in {"skip", "queue", "merge"}
  BY TriggerAssumption
<1> QED
  BY <1>3, <1>4, <1>5, <1>6

(* What a probe may make of a row and the value it has captured.           *)
Outcome(r, v, d) ==
    /\ d.row \in ShortRow /\ d.row.scheduled /\ d.waits \in BOOLEAN
    /\ d.row.applied # r.applied => r.applied = NoValue
    /\ d.run = NoRun => d.row.run = r.run /\ (r.pending # NoValue => d.row.pending # NoValue)
    /\ d.run # NoRun => /\ d.run = NewRun /\ r.run = NoRun
                        /\ d.row.run = NewRun /\ d.row.state = "dispatching"
                        /\ d.row.pending = v

LEMMA DecidedOutcome ==
  ASSUME NEW r \in ShortRow, NEW v \in Value, NEW d \in Decided(r, v),
         config \in Config, \E id \in RunId : Free(id)
  PROVE  Outcome(r, v, d) /\ NewRun \in RunId /\ Free(NewRun)
<1>1. NewRun \in RunId /\ Free(NewRun)
  BY DEF NewRun
<1> DEFINE seen == [r EXCEPT !.scheduled = TRUE,
                             !.matches = IF ~Matched(r.applied, v) THEN 0
                                         ELSE IF @ < Threshold THEN @ + 1 ELSE @]
           owed == r.applied = NoValue \/ (r.pending # NoValue /\ r.run = NoRun)
           n == IF owed THEN [seen EXCEPT !.matches = Threshold] ELSE seen
           Same(s) == /\ s \in ShortRow /\ s.scheduled /\ s.run = r.run
                      /\ s.applied = r.applied /\ s.pending = r.pending
<1>2. (IF ~Matched(r.applied, v) THEN 0
       ELSE IF r.matches < Threshold THEN r.matches + 1 ELSE r.matches) \in 0 .. Threshold
  BY RowFields, TriggerAssumption
<1>3. Same(seen)
  BY <1>2 DEF ShortRow, Row
<1>4. Threshold \in 0 .. Threshold
  BY TriggerAssumption
<1>5. Same(n)
  <2> HIDE DEF seen
  <2> QED
    BY <1>3, <1>4 DEF ShortRow, Row
<1>6. \/ d = Stay([seen EXCEPT !.applied = v, !.state = "active"]) /\ r.applied = NoValue
      \/ d = Stay([seen EXCEPT !.state = "waiting"])
      \/ d = Stay(n)
      \/ d = Stay(Overlapped(n, v))
      \/ d = Wait([n EXCEPT !.pending = v]) /\ n.run = NoRun
      \/ d = Start([n EXCEPT !.pending = v], NewRun) /\ n.run = NoRun
  BY DEF Decided
<1> HIDE DEF seen, n
<1>7. CASE d = Stay([seen EXCEPT !.applied = v, !.state = "active"]) /\ r.applied = NoValue
  BY <1>1, <1>3, <1>7 DEF Stay, Outcome, ShortRow, Row, TriggerState
<1>8. CASE d = Stay([seen EXCEPT !.state = "waiting"])
  BY <1>1, <1>3, <1>8 DEF Stay, Outcome, ShortRow, Row, TriggerState
<1>9. CASE d = Stay(n)
  BY <1>1, <1>5, <1>9 DEF Stay, Outcome
<1>10. CASE d = Stay(Overlapped(n, v))
  <2>1. /\ Overlapped(n, v) \in ShortRow
        /\ Overlapped(n, v).run = n.run /\ Overlapped(n, v).applied = n.applied
        /\ Overlapped(n, v).scheduled = n.scheduled
        /\ Overlapped(n, v).pending \in {n.pending, v}
    BY <1>5, OverlappedRow
  <2> QED
    BY <1>1, <1>5, <1>10, <2>1, TriggerAssumption DEF Stay, Outcome
<1>11. CASE d = Wait([n EXCEPT !.pending = v]) /\ n.run = NoRun
  BY <1>1, <1>5, <1>11, TriggerAssumption DEF Wait, Outcome, ShortRow, Row, TriggerState
<1>12. CASE d = Start([n EXCEPT !.pending = v], NewRun) /\ n.run = NoRun
  BY <1>1, <1>5, <1>12, NoRunIsNone DEF Start, Outcome, ShortRow, Row, TriggerState
<1> QED
  BY <1>1, <1>6, <1>7, <1>8, <1>9, <1>10, <1>11, <1>12

-----------------------------------------------------------------------------
(* The inductive invariant.                                                *)

Calm == ~history.disturbed
Brings(a, c) == At(a, "writing") /\ c \in DOMAIN actor[a].change
Ends(a) == At(a, "writing") /\ actor[a].effect \in {"succeeded", "failed"}

(* Which process is where, and whether it has a run in hand.               *)
Placed(a) ==
    /\ actor[a].pc \in {"idle", "due", "capture", "mark", "rebuild"} => actor[a].run = NoRun
    /\ actor[a].pc \in {"start", "insert", "send", "failing", "raised", "sent", "running"}
            => actor[a].run # NoRun
    /\ Ends(a) => actor[a].run # NoRun
    /\ actor[a].pc \in {"capture", "start", "insert"} => a \in Prober
    /\ At(a, "running") => a \in Executor
    /\ At(a, "writing") /\ actor[a].effect \in {"online", "offline", "pause", "resume"}
        => actor[a].run = NoRun
    /\ At(a, "writing") /\ actor[a].then = "raised" => actor[a].effect = "failed"

(* The run in hand carries a value as long as somebody may still ask it.   *)
Carrying(a) ==
    actor[a].pc \in {"start", "insert", "send", "failing", "running"} \/ Ends(a)
        => runs[actor[a].run].value \in Value

(* A run that is only planned belongs to one probe and to nobody else.     *)
Planned(a) ==
    actor[a].pc \in {"start", "insert"} =>
        /\ runs[actor[a].run].status = "absent" /\ actor[a].run \notin messages
        /\ \A b \in Actor \ {a} : actor[b].run # actor[a].run

(* What a probe has read is the row, but for a run that is over.           *)
Reading(a) ==
    /\ lock = a /\ row.state # "dispatching"
    /\ \E r \in RunId : Free(r)
    /\ actor[a].seen = row \/ actor[a].seen.run = NoRun
    /\ \/ actor[a].seen.applied = row.applied
       \/ /\ row.run \in RunId /\ runs[row.run].status = "succeeded"
          /\ runs[row.run].value = actor[a].seen.applied
    /\ Calm /\ actor[a].seen.run = NoRun /\ row.run # NoRun
        => runs[row.run].status \notin Active
Capturing(a) == At(a, "capture") => Reading(a)

(* While a probe starts its run, the row waits for that run.               *)
Dispatched(a) ==
    Calm /\ actor[a].pc \in {"start", "insert"} =>
        row.run = actor[a].run /\ row.state = "dispatching"

(* Nobody forgets a run that is active, unless he ends it.                 *)
Releasing(a) ==
    /\ At(a, "raised") \/ (Brings(a, "run") /\ ~Ends(a))
    /\ actor[a].run # NoRun
    => runs[actor[a].run].status \notin Active

(* What a transaction has stored before it commits.                        *)
Written(a) ==
    LET change == actor[a].change
    IN /\ Brings(a, "run") => change.run = NoRun
       /\ Brings(a, "applied") =>
            \/ a \in Admin
            \/ /\ a \in Executor /\ actor[a].effect = "succeeded"
               /\ change.applied = runs[actor[a].run].value
       /\ Brings(a, "pending") /\ actor[a].run # NoRun => Brings(a, "run")
       /\ Brings(a, "scheduled") /\ ~change.scheduled =>
            IF Brings(a, "enabled") THEN ~change.enabled ELSE ~actor[a].enabled
       /\ Brings(a, "enabled") /\ change.enabled =>
            Brings(a, "scheduled") \/ actor[a].scheduled

Own(a) == /\ Placed(a) /\ Carrying(a) /\ Planned(a) /\ Capturing(a)
          /\ Dispatched(a) /\ Releasing(a) /\ Written(a)

Known == \A r \in RunId : runs[r].status # "absent" => runs[r].value \in Value
OnlyThat == Calm => \A r \in RunId : runs[r].status \in Active => row.run = r

IInv == /\ Typed /\ Known /\ OnlyThat /\ InFlightKept /\ EnabledIsScheduled
        /\ \A a \in Actor : Own(a)

-----------------------------------------------------------------------------
(* Slots.                                                                  *)

LEMMA EmptyChange == <<>> \in Change /\ DOMAIN <<>> = {}
<1>1. NewRow \in ShortRow
  BY TriggerAssumption DEF NewRow, ShortRow, Row, TriggerState
<1>2. <<>> = [c \in {} |-> NewRow[c]]
  OBVIOUS
<1> QED
  BY <1>1, <1>2 DEF Change, Columns

LEMMA IdleSlot ==
  /\ Idle \in Slot /\ NewRow \in ShortRow
  /\ Idle.pc = "idle" /\ Idle.run = NoRun /\ Idle.seen = NewRow /\ Idle.seen.run = NoRun
<1>1. NewRow \in ShortRow /\ NewRow.run = NoRun
  BY TriggerAssumption DEF NewRow, ShortRow, Row, TriggerState
<1> QED
  BY <1>1, EmptyChange DEF Idle, Slot, Pc, Effect

(* Goto, and the other ways to leave Idle.                                 *)
LEMMA PlainSlot ==
  ASSUME NEW pc \in Pc, NEW run \in RunId \cup {NoRun}
  PROVE  LET s == [Idle EXCEPT !.pc = pc, !.run = run]
         IN s \in Slot /\ s.pc = pc /\ s.run = run /\ s.seen.run = NoRun
  BY IdleSlot DEF Slot

LEMMA ReadingSlot ==
  ASSUME NEW pc \in Pc, NEW r \in ShortRow
  PROVE  LET s == [Idle EXCEPT !.pc = pc, !.seen = r]
         IN s \in Slot /\ s.pc = pc /\ s.run = NoRun /\ s.seen = r
  BY IdleSlot DEF Slot

LEMMA SlotFields ==
  ASSUME NEW s \in Slot
  PROVE  /\ s.pc \in Pc /\ s.run \in RunId \cup {NoRun} /\ s.seen \in ShortRow
         /\ s.effect \in Effect /\ s.then \in {"idle", "raised"} /\ s.change \in Change
         /\ s.enabled \in BOOLEAN /\ s.scheduled \in BOOLEAN
  BY DEF Slot

(* One slot changes.                                                       *)
LEMMA Moved ==
  ASSUME actor \in [Actor -> Slot], NEW a \in Actor, NEW s \in Slot,
         actor' = [actor EXCEPT ![a] = s]
  PROVE  /\ actor' \in [Actor -> Slot] /\ actor'[a] = s
         /\ \A b \in Actor \ {a} : actor'[b] = actor[b]
  OBVIOUS

(* A transaction that stores a row derived from the one it has read.       *)
Storing(s, old, new) ==
    /\ s.pc = "writing" /\ s.enabled = old.enabled /\ s.scheduled = old.scheduled
    /\ \A x \in DOMAIN s.change : s.change[x] = new[x]
    /\ \A x \in Columns \ DOMAIN s.change : new[x] = old[x]
    /\ \A x \in DOMAIN s.change :
        new[x] # old[x] \/ (x = "scheduled" /\ new.scheduled)

LEMMA WriteSlot ==
  ASSUME Typed, NEW a \in Actor, NEW next \in ShortRow, NEW retimed \in BOOLEAN,
         NEW effect \in Effect, NEW then \in {"idle", "raised"},
         Write(a, next, retimed, effect, then)
  PROVE  \E s \in Slot :
            /\ actor' = [actor EXCEPT ![a] = s]
            /\ Storing(s, row, next) /\ s.effect = effect /\ s.then = then
            /\ s.run = actor[a].run /\ s.seen = actor[a].seen
<1> DEFINE change == Delta(row, next, retimed)
           s == [actor[a] EXCEPT !.pc = "writing", !.change = change,
                   !.effect = effect, !.then = then, !.enabled = row.enabled,
                   !.scheduled = row.scheduled]
<1>1. row \in ShortRow /\ actor[a] \in Slot
  BY DEF Typed
<1>2. /\ change \in Change
      /\ \A x \in DOMAIN change : change[x] = next[x]
      /\ \A x \in Columns \ DOMAIN change : next[x] = row[x]
      /\ \A x \in DOMAIN change : next[x] # row[x] \/ (x = "scheduled" /\ next.scheduled)
  BY <1>1, DeltaFields
<1>3. actor' = [actor EXCEPT ![a] = s]
  BY <1>1 DEF Write, Typed
<1>4. row.enabled \in BOOLEAN /\ row.scheduled \in BOOLEAN /\ "writing" \in Pc
  BY <1>1, RowFields DEF Pc
<1> HIDE DEF change
<1>5. /\ s \in Slot /\ s.pc = "writing" /\ s.change = change /\ s.effect = effect
      /\ s.then = then /\ s.enabled = row.enabled /\ s.scheduled = row.scheduled
      /\ s.run = actor[a].run /\ s.seen = actor[a].seen
  BY <1>1, <1>2, <1>4 DEF Slot
<1> HIDE DEF s
<1>6. Storing(s, row, next)
  BY <1>2, <1>5 DEF Storing
<1> QED
  BY <1>3, <1>5, <1>6

(* Its slot keeps the invariant, if the write is one that the code makes.  *)
LEMMA StoringOwn ==
  ASSUME NEW a \in Actor, NEW s \in Slot, actor'[a] = s, UNCHANGED runs,
         NEW old \in ShortRow, NEW next, Storing(s, old, next), Modest(old, next),
         \/ next.applied = old.applied
         \/ a \in Admin
         \/ a \in Executor /\ s.effect = "succeeded" /\ next.applied = runs[s.run].value,
         next.pending # old.pending /\ s.run # NoRun => next.run # old.run,
         s.effect \in {"succeeded", "failed"} => s.run # NoRun /\ runs[s.run].value \in Value,
         s.effect \in {"online", "offline", "pause", "resume"} => s.run = NoRun,
         s.then = "raised" => s.effect = "failed",
         next.run # old.run /\ s.effect \notin {"succeeded", "failed"} /\ s.run # NoRun
            => runs[s.run].status \notin Active
  PROVE  Own(a)'
<1>1. s.pc = "writing"
  BY DEF Storing
<1>2. /\ \A x \in DOMAIN s.change : s.change[x] = next[x]
      /\ \A x \in Columns \ DOMAIN s.change : next[x] = old[x]
      /\ \A x \in DOMAIN s.change : next[x] # old[x] \/ (x = "scheduled" /\ next.scheduled)
      /\ s.enabled = old.enabled /\ s.scheduled = old.scheduled
  BY DEF Storing
<1>3. {"run", "applied", "pending", "scheduled", "enabled"} \subseteq Columns
  BY DEF Columns
<1>4. Placed(a)'
  BY <1>1 DEF Placed, At, Ends
<1>5. Carrying(a)'
  BY <1>1 DEF Carrying, At, Ends
<1>6. Planned(a)' /\ Capturing(a)' /\ Dispatched(a)'
  BY <1>1 DEF Planned, Capturing, At, Dispatched
<1>7. Releasing(a)'
  BY <1>1, <1>2 DEF Releasing, Brings, Ends, At
<1>8. next.run # old.run => next.run = NoRun
  BY DEF Modest
<1>9. old.scheduled \in BOOLEAN /\ next.scheduled \in BOOLEAN
      /\ old.enabled \in BOOLEAN /\ next.enabled \in BOOLEAN
  BY RowFields DEF Modest
<1>10. (old.scheduled /\ ~next.scheduled => ~next.enabled)
       /\ (next.enabled /\ ~old.enabled => next.scheduled)
  BY DEF Modest
<1> DEFINE change == s.change
<1>11. "run" \in DOMAIN change => change.run = NoRun
  BY <1>2, <1>8
<1>12. "applied" \in DOMAIN change =>
         \/ a \in Admin
         \/ a \in Executor /\ s.effect = "succeeded" /\ change.applied = runs[s.run].value
  BY <1>2
<1>13. "pending" \in DOMAIN change /\ s.run # NoRun => "run" \in DOMAIN change
  BY <1>2, <1>3
<1>14. "scheduled" \in DOMAIN change /\ ~change.scheduled =>
         IF "enabled" \in DOMAIN change THEN ~change.enabled ELSE ~s.enabled
  BY <1>2, <1>3, <1>9, <1>10
<1>15. "enabled" \in DOMAIN change /\ change.enabled => "scheduled" \in DOMAIN change \/ s.scheduled
  BY <1>2, <1>3, <1>9, <1>10
<1>16. Written(a)'
  BY <1>1, <1>11, <1>12, <1>13, <1>14, <1>15 DEF Written, Brings, At
<1> QED
  BY <1>4, <1>5, <1>6, <1>7, <1>16 DEF Own

(* A slot outside a transaction.                                           *)
LEMMA IdleOwn ==
  ASSUME NEW a \in Actor, actor'[a].pc \in {"idle", "due", "mark", "rebuild"},
         actor'[a].run = NoRun
  PROVE  Own(a)'
  BY DEF Own, Placed, Carrying, Planned, Capturing, Dispatched, Releasing, Written,
         Brings, Ends, At

(* What the others and the row are left with by a step of one process that *)
(* changes neither the row nor a run.                                      *)
LEMMA Frame ==
  ASSUME IInv, NEW a \in Actor,
         \A b \in Actor \ {a} : actor'[b] = actor[b],
         UNCHANGED <<row, runs>>, history'.disturbed = history.disturbed,
         messages' \subseteq messages \cup {actor[a].run},
         \A b \in Actor \ {a} : lock = b => lock' = b,
         actor'[a].run \in {actor[a].run, NoRun},
         actor'[a].seen.run \in {actor[a].seen.run, row.run, NoRun}
  PROVE  /\ (Known /\ OnlyThat /\ InFlightKept /\ EnabledIsScheduled)'
         /\ \A b \in Actor \ {a} : Own(b)'
         /\ \A r \in RunId : Free(r) => Free(r)'
<1>1. (Known /\ OnlyThat /\ InFlightKept /\ EnabledIsScheduled)'
  BY DEF IInv, Known, OnlyThat, Calm, InFlightKept, EnabledIsScheduled
<1>2. ASSUME NEW r \in RunId, Free(r)
      PROVE  Free(r)'
  BY <1>2, NoRunIsNone DEF Free
<1>3. ASSUME NEW b \in Actor \ {a}
      PROVE  Own(b)'
  <2>1. actor'[b] = actor[b] /\ Own(b)
    BY DEF IInv
  <2>2. (Placed(b) /\ Carrying(b) /\ Dispatched(b) /\ Releasing(b) /\ Written(b))'
    BY <2>1 DEF Own, Placed, Carrying, Dispatched, Calm, Releasing, Written, Brings, Ends, At
  <2>3. Planned(b)'
    BY <2>1 DEF Own, Placed, Planned
  <2>4. Capturing(b)'
    BY <1>2, <2>1 DEF Own, Capturing, Reading, At, Calm
  <2> QED
    BY <2>2, <2>3, <2>4 DEF Own
<1> QED
  BY <1>1, <1>2, <1>3

History == [paused : BOOLEAN, disturbed : BOOLEAN, interrupted : BOOLEAN]
Count == [changes : Nat, requests : Nat, faults : Nat]

LEMMA TickCount ==
  ASSUME count \in Count, NEW event \in {"changes", "requests", "faults"}, Tick(event)
  PROVE  count' \in Count
  BY DEF Count, Tick

(* The whole invariant after such a step.                                  *)
LEMMA FramedStep ==
  ASSUME IInv, NEW a \in Actor, NEW s \in Slot, actor' = [actor EXCEPT ![a] = s],
         UNCHANGED <<config, source, row, runs, online>>,
         history' \in History, history'.disturbed = history.disturbed,
         count' \in Count, lock' \in Prober \cup {Nobody}, messages' \subseteq RunId,
         messages' \subseteq messages \cup {actor[a].run},
         \A b \in Actor \ {a} : lock = b => lock' = b,
         s.run \in {actor[a].run, NoRun}, s.seen.run \in {actor[a].seen.run, row.run, NoRun},
         Own(a)'
  PROVE  IInv'
<1>1. Typed /\ actor \in [Actor -> Slot]
  BY DEF IInv, Typed
<1>2. /\ actor' \in [Actor -> Slot] /\ actor'[a] = s
      /\ \A b \in Actor \ {a} : actor'[b] = actor[b]
  BY <1>1, Moved
<1>3. /\ (Known /\ OnlyThat /\ InFlightKept /\ EnabledIsScheduled)'
      /\ \A b \in Actor \ {a} : Own(b)'
  BY <1>2, Frame
<1>4. Typed'
  BY <1>1, <1>2 DEF Typed, History, Count
<1> QED
  BY <1>3, <1>4 DEF IInv

LEMMA TypedFields ==
  ASSUME IInv
  PROVE  /\ Typed /\ actor \in [Actor -> Slot] /\ row \in ShortRow /\ runs \in [RunId -> Run]
         /\ history \in History /\ count \in Count /\ config \in Config /\ source \in Value
         /\ \A a \in Actor : actor[a].run \in RunId \cup {NoRun} /\ actor[a].seen \in ShortRow
  BY SlotFields DEF IInv, Typed, History, Count

LEMMA Kinds ==
  /\ Nobody \notin Actor
  /\ \A a \in Prober : a \in Actor /\ a \notin Executor
  /\ \A a \in Executor : a \in Actor /\ a \notin Prober
  /\ \A a \in Admin : a \in Actor
  /\ \A a \in Scheduler \cup Request : a \in Prober
  BY TriggerAssumption DEF Actor, Prober, Nobody

-----------------------------------------------------------------------------
(* A step that goes on with the same run.                                  *)
LEMMA GotoStep ==
  ASSUME IInv, NEW a \in Actor, NEW pc \in Pc, Goto(a, pc),
         UNCHANGED <<config, source, row, runs, online, history>>,
         count' \in Count, lock' \in Prober \cup {Nobody}, messages' \subseteq RunId,
         messages' \subseteq messages \cup {actor[a].run},
         \A b \in Actor \ {a} : lock = b => lock' = b,
         actor'[a].pc = pc /\ actor'[a].run = actor[a].run => Own(a)'
  PROVE  IInv'
<1> DEFINE s == [Idle EXCEPT !.pc = pc, !.run = actor[a].run]
<1>1. s \in Slot /\ s.pc = pc /\ s.run = actor[a].run /\ s.seen.run = NoRun
  BY ZenonT(60), TypedFields, PlainSlot
<1>2. actor' = [actor EXCEPT ![a] = s]
  BY DEF Goto
<1> HIDE DEF s
<1>3. actor'[a] = s
  BY <1>1, <1>2, TypedFields, Moved
<1>4. history' \in History /\ history'.disturbed = history.disturbed
  BY TypedFields
<1> QED
  BY <1>1, <1>2, <1>3, <1>4, FramedStep

LEMMA DoneStep ==
  ASSUME IInv, NEW a \in Actor, Done(a),
         UNCHANGED <<config, source, row, runs, online>>,
         history' \in History, history'.disturbed = history.disturbed,
         count' \in Count, lock' \in Prober \cup {Nobody}, messages' \subseteq RunId,
         messages' \subseteq messages \cup {actor[a].run},
         \A b \in Actor \ {a} : lock = b => lock' = b
  PROVE  IInv'
<1>1. actor' = [actor EXCEPT ![a] = Idle]
  BY DEF Done
<1>2. actor'[a] = Idle
  BY <1>1, IdleSlot, TypedFields, Moved
<1>3. Own(a)'
  BY <1>2, IdleSlot, IdleOwn
<1> QED
  BY <1>1, <1>3, IdleSlot, FramedStep

LEMMA DueStep ==
  ASSUME IInv, NEW a \in Prober, Due(a) \/ AskProbe(a)
  PROVE  IInv'
<1>1. /\ a \in Actor /\ At(a, "idle") /\ Goto(a, "due")
      /\ UNCHANGED <<config, source, row, runs, online, history, lock, messages>>
  BY Kinds DEF Due, AskProbe
<1>2. count' \in Count
  BY TypedFields, TickCount DEF Due, AskProbe
<1>3. actor[a].run = NoRun
  BY <1>1 DEF IInv, Own, Placed, At
<1>4. actor'[a].pc = "due" /\ actor'[a].run = actor[a].run => Own(a)'
  BY <1>1, <1>3, IdleOwn
<1>5. lock' \in Prober \cup {Nobody} /\ messages' \subseteq RunId
  BY <1>1, TypedFields DEF Typed
<1> QED
  BY <1>1, <1>2, <1>4, <1>5, GotoStep DEF Pc

LEMMA CaptureFailsStep ==
  ASSUME IInv, NEW a \in Prober, CaptureFails(a)
  PROVE  IInv'
<1>1. /\ a \in Actor /\ At(a, "capture") /\ lock' = Nobody
      /\ Goto(a, "mark") \/ Done(a)
      /\ UNCHANGED <<config, source, row, runs, online, history, messages>>
  BY Kinds DEF CaptureFails
<1>2. count' \in Count
  BY TypedFields, TickCount DEF CaptureFails
<1>3. actor[a].run = NoRun /\ lock = a
  BY <1>1 DEF IInv, Own, Placed, At, Capturing, Reading
<1>4. actor'[a].pc = "mark" /\ actor'[a].run = actor[a].run => Own(a)'
  BY <1>1, <1>3, IdleOwn
<1>5. lock' \in Prober \cup {Nobody} /\ messages' \subseteq RunId
  BY <1>1, TypedFields DEF Typed
<1>6. \A b \in Actor \ {a} : lock = b => lock' = b
  BY <1>3
<1>7. CASE Goto(a, "mark")
  BY <1>1, <1>2, <1>4, <1>5, <1>6, <1>7, GotoStep DEF Pc
<1>8. CASE Done(a)
  BY <1>1, <1>2, <1>5, <1>6, <1>8, DoneStep, TypedFields
<1> QED
  BY <1>1, <1>7, <1>8

LEMMA StartStep ==
  ASSUME IInv, NEW a \in Prober, StartRefused(a) \/ StartRun(a)
  PROVE  IInv'
<1>1. /\ a \in Actor /\ At(a, "start")
      /\ Goto(a, "raised") \/ Goto(a, "insert")
      /\ UNCHANGED <<config, source, row, runs, online, history, lock, messages>>
  BY Kinds DEF StartRefused, StartRun
<1>2. count' \in Count
  BY TypedFields, TickCount DEF StartRefused, StartRun
<1>3. Own(a)
  BY <1>1 DEF IInv
<1>4. lock' \in Prober \cup {Nobody} /\ messages' \subseteq RunId
  BY <1>1, TypedFields DEF Typed
<1>5. CASE Goto(a, "raised")
  <2>1. actor'[a].pc = "raised" /\ actor'[a].run = actor[a].run => Own(a)'
    BY <1>1, <1>3 DEF Own, Placed, Carrying, Planned, Capturing, Dispatched, Releasing,
       Written, Brings, Ends, At, Active
  <2> QED
    BY <1>1, <1>2, <1>4, <1>5, <2>1, GotoStep DEF Pc
<1>6. CASE Goto(a, "insert")
  <2>1. \A b \in Actor \ {a} : actor'[b] = actor[b]
    BY <1>6 DEF Goto, IInv, Typed
  <2>2. actor'[a].pc = "insert" /\ actor'[a].run = actor[a].run => Own(a)'
    BY <1>1, <1>3, <2>1 DEF Own, Placed, Carrying, Planned, Capturing, Dispatched, Calm,
       Releasing, Written, Brings, Ends, At
  <2> QED
    BY <1>1, <1>2, <1>4, <1>6, <2>2, GotoStep DEF Pc
<1> QED
  BY <1>1, <1>5, <1>6

LEMMA SendStep ==
  ASSUME IInv, NEW a \in Prober, Send(a) \/ SendFails(a)
  PROVE  IInv'
<1>1. /\ a \in Actor /\ At(a, "send")
      /\ Goto(a, "sent") \/ Goto(a, "failing")
      /\ messages' \subseteq messages \cup {actor[a].run}
      /\ UNCHANGED <<config, source, row, runs, online, history, lock>>
  BY Kinds DEF Send, SendFails
<1>2. count' \in Count
  BY TypedFields, TickCount DEF Send, SendFails
<1>3. Own(a) /\ actor[a].run \in RunId
  BY <1>1, TypedFields DEF IInv, Own, Placed, At
<1>4. lock' \in Prober \cup {Nobody} /\ messages' \subseteq RunId
  BY <1>1, <1>3, TypedFields DEF Typed
<1>5. ASSUME NEW pc \in {"sent", "failing"}, actor'[a].pc = pc, actor'[a].run = actor[a].run
      PROVE  Own(a)'
  BY <1>1, <1>3, <1>5 DEF Own, Placed, Carrying, Planned, Capturing, Dispatched, Releasing,
     Written, Brings, Ends, At
<1>6. CASE Goto(a, "sent")
  BY <1>1, <1>2, <1>4, <1>5, <1>6, GotoStep DEF Pc
<1>7. CASE Goto(a, "failing")
  BY <1>1, <1>2, <1>4, <1>5, <1>7, GotoStep DEF Pc
<1> QED
  BY <1>1, <1>6, <1>7

LEMMA CrashWorkerStep ==
  ASSUME IInv, NEW e \in Executor, CrashWorker(e)
  PROVE  IInv'
<1>1. /\ e \in Actor /\ Done(e) /\ actor[e].run # NoRun
      /\ messages' = messages \cup {actor[e].run}
      /\ history' = [history EXCEPT !.interrupted = TRUE]
      /\ UNCHANGED <<config, source, row, runs, online, lock>>
  BY Kinds DEF CrashWorker
<1>2. count' \in Count
  BY TypedFields, TickCount DEF CrashWorker
<1>3. history' \in History /\ history'.disturbed = history.disturbed
  BY <1>1, TypedFields DEF History
<1>4. lock' \in Prober \cup {Nobody} /\ messages' \subseteq RunId
  BY <1>1, TypedFields DEF Typed
<1> QED
  BY <1>1, <1>2, <1>3, <1>4, DoneStep

-----------------------------------------------------------------------------
(* A transaction that has stored its changes and has yet to commit.        *)
LEMMA WriteStep ==
  ASSUME IInv, NEW a \in Actor, NEW next, Modest(row, next), NEW retimed \in BOOLEAN,
         NEW effect \in Effect, NEW then \in {"idle", "raised"},
         Write(a, next, retimed, effect, then),
         UNCHANGED <<config, source, row, lock, runs, messages, online, history>>,
         count' \in Count,
         \/ next.applied = row.applied
         \/ a \in Executor /\ effect = "succeeded" /\ next.applied = runs[actor[a].run].value,
         next.pending # row.pending /\ actor[a].run # NoRun => next.run # row.run,
         effect \in {"succeeded", "failed"} =>
            actor[a].run # NoRun /\ runs[actor[a].run].value \in Value,
         effect \in {"online", "offline", "pause", "resume"} => actor[a].run = NoRun,
         then = "raised" => effect = "failed",
         next.run # row.run /\ effect \notin {"succeeded", "failed"} /\ actor[a].run # NoRun
            => runs[actor[a].run].status \notin Active
  PROVE  IInv'
<1>1. next \in ShortRow /\ row \in ShortRow /\ Typed
  BY TypedFields DEF Modest
<1>2. PICK s \in Slot :
        /\ actor' = [actor EXCEPT ![a] = s]
        /\ Storing(s, row, next) /\ s.effect = effect /\ s.then = then
        /\ s.run = actor[a].run /\ s.seen = actor[a].seen
  BY <1>1, WriteSlot
<1>3. actor'[a] = s
  BY <1>2, TypedFields, Moved
<1>4. Own(a)'
  BY <1>1, <1>2, <1>3, StoringOwn
<1>5. lock' \in Prober \cup {Nobody} /\ messages' \subseteq RunId /\ history' \in History
  BY TypedFields DEF Typed
<1> QED
  BY <1>2, <1>4, <1>5, FramedStep

LEMMA MarkFailureStep ==
  ASSUME IInv, NEW a \in Prober, MarkFailure(a)
  PROVE  IInv'
<1> DEFINE next == IF ~row.enabled \/ row.state = "retired" THEN Retired(row)
                   ELSE [row EXCEPT !.state = "waiting", !.scheduled = TRUE]
<1>1. /\ a \in Actor /\ At(a, "mark") /\ Write(a, next, TRUE, "none", "idle")
      /\ UNCHANGED <<config, source, row, lock, runs, messages, online, history, count>>
  BY Kinds DEF MarkFailure
<1>2. row \in ShortRow /\ count' \in Count
  BY <1>1, TypedFields
<1>3. Modest(row, next) /\ SameData(row, next) /\ next.run = row.run
  <2>1. CASE ~row.enabled \/ row.state = "retired"
    BY <1>2, <2>1, RetiredRow
  <2>2. CASE ~(~row.enabled \/ row.state = "retired")
    BY <1>2, <2>2 DEF ShortRow, Row, Modest, SameData, TriggerState
  <2> QED
    BY <2>1, <2>2
<1> HIDE DEF next
<1> QED
  BY <1>1, <1>2, <1>3, WriteStep DEF Effect, SameData

LEMMA FailRunStep ==
  ASSUME IInv, NEW a \in Prober, FailRun(a)
  PROVE  IInv'
<1> DEFINE next == IF row.run = actor[a].run THEN Kept(row) ELSE row
           retimed == row.run = actor[a].run
<1>1. /\ a \in Actor /\ At(a, "failing") /\ Write(a, next, retimed, "failed", "raised")
      /\ UNCHANGED <<config, source, row, lock, runs, messages, online, history, count>>
  BY Kinds DEF FailRun
<1>2. row \in ShortRow /\ count' \in Count /\ retimed \in BOOLEAN
  BY <1>1, TypedFields
<1>3. Modest(row, next) /\ SameData(row, next)
  BY <1>2, KeptRow, RowFields DEF Modest, SameData
<1>4. actor[a].run # NoRun /\ runs[actor[a].run].value \in Value
  BY <1>1 DEF IInv, Own, Placed, Carrying, At
<1> HIDE DEF next, retimed
<1> QED
  BY <1>1, <1>2, <1>3, <1>4, WriteStep DEF Effect, SameData

LEMMA DispatchFailedStep ==
  ASSUME IInv, NEW a \in Prober, DispatchFailed(a)
  PROVE  IInv'
<1> DEFINE next == [row EXCEPT !.run = NoRun, !.state = "waiting"]
<1>1. /\ a \in Actor /\ At(a, "raised") /\ Write(a, next, FALSE, "none", "idle")
      /\ UNCHANGED <<config, source, row, lock, runs, messages, online, history, count>>
  BY Kinds DEF DispatchFailed
<1>2. row \in ShortRow /\ count' \in Count
  BY <1>1, TypedFields
<1>3. Modest(row, next) /\ SameData(row, next)
  BY <1>2 DEF ShortRow, Row, Modest, SameData, TriggerState
<1>4. actor[a].run # NoRun => runs[actor[a].run].status \notin Active
  BY <1>1 DEF IInv, Own, Releasing, At
<1> HIDE DEF next
<1> QED
  BY <1>1, <1>2, <1>3, <1>4, WriteStep DEF Effect, SameData

LEMMA LookBackStep ==
  ASSUME IInv, NEW a \in Prober, LookBack(a)
  PROVE  IInv'
<1> DEFINE next == IF row.run = actor[a].run /\ runs[actor[a].run].status \in Active
                   THEN [row EXCEPT !.state = "running"] ELSE row
<1>1. /\ a \in Actor /\ Write(a, next, FALSE, "none", "idle")
      /\ UNCHANGED <<config, source, row, lock, runs, messages, online, history, count>>
  BY Kinds DEF LookBack
<1>2. row \in ShortRow /\ count' \in Count
  BY <1>1, TypedFields
<1>3. Modest(row, next) /\ SameData(row, next) /\ next.run = row.run
  BY <1>2, RowFields DEF ShortRow, Row, Modest, SameData, TriggerState
<1> HIDE DEF next
<1> QED
  BY <1>1, <1>2, <1>3, WriteStep DEF Effect, SameData

LEMMA EndRunStep ==
  ASSUME IInv, NEW e \in Executor, NEW status \in {"succeeded", "failed"}, EndRun(e, status)
  PROVE  IInv'
<1> DEFINE value == runs[actor[e].run].value
           mine == row.run = actor[e].run
           next == IF mine THEN Finalized(row, status, value) ELSE row
           retimed == mine /\ (status = "succeeded" => More(row, value))
<1>1. /\ e \in Actor /\ At(e, "running") /\ Write(e, next, retimed, status, "idle")
      /\ UNCHANGED <<config, source, row, lock, runs, messages, online, history>>
  BY Kinds DEF EndRun
<1>2. row \in ShortRow /\ count' \in Count /\ retimed \in BOOLEAN /\ status \in Effect
  BY <1>1, TypedFields DEF EndRun, Count, Effect
<1>3. actor[e].run # NoRun /\ value \in Value
  BY <1>1 DEF IInv, Own, Placed, Carrying, At
<1>4. /\ Modest(row, next)
      /\ next.applied = row.applied \/ (status = "succeeded" /\ next.applied = value)
      /\ next.pending # row.pending => next.run # row.run
  <2>1. CASE mine
    BY <1>2, <1>3, <2>1, FinalizedRow
  <2>2. CASE ~mine
    BY <1>2, <2>2, RowFields DEF Modest
  <2> QED
    BY <2>1, <2>2
<1> HIDE DEF next, retimed
<1> QED
  BY <1>1, <1>2, <1>3, <1>4, WriteStep

LEMMA AskStep ==
  ASSUME IInv, NEW a \in Admin, NEW next, NEW retimed \in BOOLEAN, NEW effect,
         effect \in {"online", "offline", "pause", "resume"},
         Ask(a, next, retimed, effect), Modest(row, next), SameData(row, next)
  PROVE  IInv'
<1>1. /\ a \in Actor /\ At(a, "idle") /\ Write(a, next, retimed, effect, "idle")
      /\ UNCHANGED <<config, source, row, lock, runs, messages, online, history>>
  BY Kinds DEF Ask
<1>2. count' \in Count /\ effect \in Effect
  BY TypedFields, TickCount DEF Ask, Effect
<1>3. actor[a].run = NoRun
  BY <1>1 DEF IInv, Own, Placed, At
<1> QED
  BY <1>1, <1>2, <1>3, WriteStep DEF SameData

LEMMA RequestStep ==
  ASSUME IInv, NEW a \in Admin, Pause(a) \/ Resume(a) \/ Offline(a) \/ Publish(a)
  PROVE  IInv'
<1>1. row \in ShortRow
  BY TypedFields
<1>2. CASE Pause(a)
  BY <1>1, <1>2, PausedRow, AskStep DEF Pause
<1>3. CASE Resume(a)
  BY <1>1, <1>3, EnabledRow, AskStep DEF Resume
<1>4. CASE Offline(a)
  BY <1>1, <1>4, RetiredRow, AskStep DEF Offline
<1>5. CASE Publish(a)
  BY <1>1, <1>5, SynchronizedRow, AskStep DEF Publish
<1> QED
  BY <1>2, <1>3, <1>4, <1>5

(* The two halves of rebuild_change_trigger_baseline.                      *)
LEMMA AskRebuildStep ==
  ASSUME IInv, NEW a \in Admin, AskRebuild(a)
  PROVE  IInv'
<1> DEFINE s == [Idle EXCEPT !.pc = "rebuild", !.seen = row]
<1>1. /\ a \in Actor /\ actor' = [actor EXCEPT ![a] = s]
      /\ UNCHANGED <<config, source, row, lock, runs, messages, online, history>>
  BY Kinds DEF AskRebuild
<1>2. count' \in Count
  BY TypedFields, TickCount DEF AskRebuild
<1>3. s \in Slot /\ s.pc = "rebuild" /\ s.run = NoRun /\ s.seen = row
  BY TypedFields, ReadingSlot DEF Pc
<1> HIDE DEF s
<1>4. Own(a)'
  BY <1>1, <1>3, TypedFields, Moved, IdleOwn
<1>5. lock' \in Prober \cup {Nobody} /\ messages' \subseteq RunId /\ history' \in History
  BY <1>1, TypedFields DEF Typed
<1> QED
  BY <1>1, <1>2, <1>3, <1>4, <1>5, FramedStep

LEMMA RebuildStep ==
  ASSUME IInv, NEW a \in Admin, Rebuild(a)
  PROVE  IInv'
<1> DEFINE old == actor[a].seen
           new == [old EXCEPT !.applied = source, !.pending = NoValue, !.queue = <<>>,
                              !.run = NoRun, !.matches = 0, !.state = "active",
                              !.scheduled = TRUE]
           change == Delta(old, new, TRUE)
           s == [Idle EXCEPT !.pc = "writing", !.change = change,
                     !.enabled = old.enabled, !.scheduled = old.scheduled]
<1>1. /\ a \in Actor /\ actor' = [actor EXCEPT ![a] = s]
      /\ UNCHANGED <<config, source, row, lock, runs, messages, online, history, count>>
  BY Kinds DEF Rebuild
<1>2. old \in ShortRow /\ source \in Value
  BY <1>1, TypedFields
<1>3. Modest(old, new) /\ new.scheduled
  <2>1. <<>> \in Seq(Value) /\ Len(<<>>) <= QueueLimit /\ 0 \in 0 .. Threshold
    BY TriggerAssumption
  <2> HIDE DEF old
  <2>2. new \in Row /\ new.queue = <<>> /\ new.run = NoRun /\ new.scheduled
    BY <1>2, <2>1 DEF ShortRow, Row, TriggerState
  <2> HIDE DEF new
  <2> QED
    BY <2>1, <2>2 DEF ShortRow, Modest
<1> HIDE DEF new
<1>4. /\ change \in Change
      /\ \A x \in DOMAIN change : change[x] = new[x]
      /\ \A x \in Columns \ DOMAIN change : new[x] = old[x]
      /\ \A x \in DOMAIN change : new[x] # old[x] \/ (x = "scheduled" /\ new.scheduled)
  BY <1>2, <1>3, DeltaFields DEF Modest
<1> HIDE DEF change
<1>5. /\ s \in Slot /\ s.pc = "writing" /\ s.run = NoRun /\ s.seen.run = NoRun
      /\ s.effect = "none" /\ s.then = "idle" /\ s.change = change
      /\ s.enabled = old.enabled /\ s.scheduled = old.scheduled
  <2>1. old.enabled \in BOOLEAN /\ old.scheduled \in BOOLEAN /\ "writing" \in Pc
    BY <1>2, RowFields DEF Pc
  <2>2. Idle.effect = "none" /\ Idle.then = "idle"
    BY DEF Idle
  <2> HIDE DEF old
  <2> QED
    BY <1>4, <2>1, <2>2, IdleSlot DEF Slot
<1> HIDE DEF s
<1>6. Storing(s, old, new)
  BY <1>4, <1>5 DEF Storing
<1>7. actor'[a] = s
  BY <1>1, <1>5, TypedFields, Moved
<1>8. Own(a)'
  BY <1>1, <1>2, <1>3, <1>5, <1>6, <1>7, StoringOwn
<1>9. lock' \in Prober \cup {Nobody} /\ messages' \subseteq RunId /\ history' \in History
      /\ count' \in Count
  BY <1>1, TypedFields DEF Typed
<1> QED
  BY <1>1, <1>5, <1>8, <1>9, FramedStep

-----------------------------------------------------------------------------
(* Probes.                                                                 *)

LEMMA Unheld ==
  ASSUME IInv, Unlocked, NEW a \in Actor
  PROVE  ~At(a, "capture")
  BY Kinds DEF IInv, Own, Capturing, Reading, Unlocked

(* The scheduler retires a trigger that is no longer enabled.              *)
LEMMA RetireStep ==
  ASSUME IInv, Unlocked, NEW a \in Actor, Done(a), row' = Retired(row),
         history' = [history EXCEPT !.disturbed = @ \/ row.state = "dispatching"],
         UNCHANGED <<config, source, lock, runs, messages, online, count>>
  PROVE  IInv'
<1>1. /\ row \in ShortRow /\ row' \in ShortRow /\ SameData(row, row')
      /\ row'.run = row.run /\ ~row'.enabled
  BY TypedFields, RetiredRow DEF Modest
<1>2. history' \in History /\ (Calm' => Calm /\ row.state # "dispatching")
  BY TypedFields DEF History, Calm
<1>3. /\ actor' \in [Actor -> Slot] /\ actor'[a] = Idle
      /\ \A b \in Actor \ {a} : actor'[b] = actor[b]
  BY TypedFields, IdleSlot, Moved DEF Done
<1>4. Typed'
  BY <1>1, <1>2, <1>3 DEF IInv, Typed, History
<1>5. (Known /\ OnlyThat /\ InFlightKept /\ EnabledIsScheduled)'
  BY <1>1, <1>2 DEF IInv, Known, OnlyThat, Calm, InFlightKept, EnabledIsScheduled, SameData
<1>6. ASSUME NEW b \in Actor \ {a}
      PROVE  Own(b)'
  <2>1. actor'[b] = actor[b] /\ Own(b) /\ ~At(b, "capture")
    BY <1>3, Unheld DEF IInv
  <2>2. Planned(b)'
    BY <1>3, <2>1, IdleSlot DEF Own, Placed, Planned
  <2> QED
    BY <1>2, <2>1, <2>2 DEF Own, Placed, Carrying, Capturing, Dispatched, Releasing, Written,
       Brings, Ends, At
<1>7. Own(a)'
  BY <1>3, IdleSlot, IdleOwn
<1> QED
  BY <1>4, <1>5, <1>6, <1>7 DEF IInv

LEMMA LockStep ==
  ASSUME IInv, Unlocked, NEW a \in Prober, row.state # "dispatching",
         \E r \in RunId : Free(r), lock' = a,
         actor' = [actor EXCEPT ![a] = [Idle EXCEPT !.pc = "capture", !.seen = Reconciled(row)]],
         UNCHANGED <<config, source, row, runs, messages, online, count, history>>
  PROVE  IInv'
<1> DEFINE s == [Idle EXCEPT !.pc = "capture", !.seen = Reconciled(row)]
<1>1. a \in Actor /\ actor' = [actor EXCEPT ![a] = s]
  BY Kinds
<1>2. /\ Reconciled(row) \in ShortRow
      /\ \/ Reconciled(row) = row
         \/ /\ Reconciled(row).run = NoRun /\ row.run \in RunId
            /\ runs[row.run].status \notin Active
            /\ \/ Reconciled(row).applied = row.applied
               \/ runs[row.run].status = "succeeded"
                  /\ Reconciled(row).applied = runs[row.run].value
  BY TypedFields, ReconciledRow DEF IInv, Known
<1>3. s \in Slot /\ s.pc = "capture" /\ s.run = NoRun /\ s.seen = Reconciled(row)
  BY <1>2, ReadingSlot DEF Pc
<1> HIDE DEF s
<1>4. /\ actor' \in [Actor -> Slot] /\ actor'[a] = s
      /\ \A b \in Actor \ {a} : actor'[b] = actor[b]
  BY <1>1, <1>3, TypedFields, Moved
<1>5. \A b \in Actor \ {a} : lock = b => lock' = b
  BY Kinds DEF Unlocked
<1>6. \A r \in RunId : Free(r) => Free(r)'
  BY <1>1, <1>2, <1>3, <1>4, <1>5, Frame
<1>7. Reading(a)'
  BY <1>2, <1>3, <1>4, <1>6 DEF Reading, Calm
<1>8. Own(a)'
  BY <1>1, <1>3, <1>4, <1>7 DEF Own, Placed, Carrying, Planned, Capturing, Dispatched,
     Releasing, Written, Brings, Ends, At
<1>9. lock' \in Prober \cup {Nobody} /\ messages' \subseteq RunId /\ history' \in History
      /\ count' \in Count
  BY TypedFields DEF Typed
<1> QED
  BY <1>1, <1>2, <1>3, <1>5, <1>8, <1>9, FramedStep

LEMMA ProbeStep ==
  ASSUME IInv, NEW a \in Prober, Probe(a)
  PROVE  IInv'
<1>1. a \in Actor /\ Unlocked
      /\ UNCHANGED <<config, source, runs, messages, online, count>>
  BY Kinds DEF Probe
<1>2. CASE /\ row' = Retired(row)
           /\ history' = [history EXCEPT !.disturbed = @ \/ row.state = "dispatching"]
           /\ Done(a) /\ UNCHANGED lock
  BY <1>1, <1>2, RetireStep
<1>3. CASE Done(a) /\ UNCHANGED <<row, lock, history>>
  <2>1. lock' \in Prober \cup {Nobody} /\ messages' \subseteq RunId /\ history' \in History
        /\ count' \in Count
    BY <1>1, <1>3, TypedFields DEF Typed
  <2> QED
    BY <1>1, <1>3, <2>1, DoneStep
<1>4. CASE /\ row.state # "dispatching" /\ (\E r \in RunId : Free(r)) /\ lock' = a
           /\ actor' = [actor EXCEPT ![a] =
                [Idle EXCEPT !.pc = "capture", !.seen = Reconciled(row)]]
           /\ UNCHANGED <<row, history>>
  BY <1>1, <1>4, LockStep
<1> QED
  BY <1>2, <1>3, <1>4 DEF Probe

LEMMA ObserveStep ==
  ASSUME IInv, NEW a \in Prober, Observe(a)
  PROVE  IInv'
<1>1. a \in Actor /\ At(a, "capture") /\ lock' = Nobody
      /\ UNCHANGED <<config, source, messages, online, history>>
  BY Kinds DEF Observe
<1>2. Reading(a) /\ actor[a].seen \in ShortRow /\ source \in Value /\ row \in ShortRow
  BY <1>1, TypedFields DEF IInv, Own, Capturing
<1> DEFINE seen == actor[a].seen
<1>3. PICK d \in Decided(seen, source) :
        /\ row' = d.row
        /\ count' = [count EXCEPT !.faults = IF d.waits THEN @ + 1 ELSE @]
        /\ IF d.run = NoRun
           THEN Done(a) /\ UNCHANGED runs
           ELSE /\ actor' = [actor EXCEPT ![a] = [Idle EXCEPT !.pc = "start", !.run = d.run]]
                /\ runs' = [runs EXCEPT ![d.run] =
                        [status |-> "absent", value |-> d.row.pending]]
  BY DEF Observe
<1>4. Outcome(seen, source, d) /\ NewRun \in RunId /\ Free(NewRun) /\ config \in Config
  BY <1>2, TypedFields, DecidedOutcome DEF Reading
<1>5. /\ row' \in ShortRow /\ row'.scheduled
      /\ d.run = NoRun => row'.run = seen.run /\ (seen.pending # NoValue => row'.pending # NoValue)
      /\ d.run # NoRun => /\ d.run = NewRun /\ seen.run = NoRun /\ row'.run = NewRun
                          /\ row'.state = "dispatching" /\ row'.pending = source
  BY <1>3, <1>4 DEF Outcome
<1>6. seen = row \/ seen.run = NoRun
  BY <1>2 DEF Reading
<1>7. Calm => \A r \in RunId : runs[r].status \in Active =>
        row.run = r /\ seen.run = r /\ d.run = NoRun
  BY <1>2, <1>5, <1>6, NoRunIsNone DEF IInv, OnlyThat, Reading
<1>8. /\ \A r \in RunId \ {NewRun} : runs'[r] = runs[r]
      /\ runs'[NewRun] = runs[NewRun] \/ runs'[NewRun] = [status |-> "absent", value |-> source]
      /\ runs' \in [RunId -> Run]
      /\ d.run # NoRun => runs'[NewRun] = [status |-> "absent", value |-> source]
  BY <1>2, <1>3, <1>4, <1>5, TypedFields DEF Run, RunStatus
<1>9. \A b \in Actor : actor[b].run # NewRun
  BY <1>4 DEF Free
<1>10. count' \in Count
  BY <1>3, <1>4, TypedFields DEF Count, Outcome
<1> DEFINE s == IF d.run = NoRun THEN Idle ELSE [Idle EXCEPT !.pc = "start", !.run = d.run]
<1>11. /\ s \in Slot /\ s.run = d.run /\ (s.pc = IF d.run = NoRun THEN "idle" ELSE "start")
  <2>1. CASE d.run = NoRun
    BY <2>1, IdleSlot
  <2>2. CASE d.run # NoRun
    <3>1. "start" \in Pc /\ d.run \in RunId \cup {NoRun}
      BY <1>4, <1>5, <2>2 DEF Pc
    <3>2. /\ [Idle EXCEPT !.pc = "start", !.run = d.run] \in Slot
          /\ [Idle EXCEPT !.pc = "start", !.run = d.run].pc = "start"
          /\ [Idle EXCEPT !.pc = "start", !.run = d.run].run = d.run
      BY <3>1, PlainSlot
    <3> QED
      BY <2>2, <3>2
  <2> QED
    BY <2>1, <2>2
<1>12. actor' = [actor EXCEPT ![a] = s]
  BY <1>3 DEF Done
<1> HIDE DEF s
<1>13. /\ actor' \in [Actor -> Slot] /\ actor'[a] = s
       /\ \A b \in Actor \ {a} : actor'[b] = actor[b]
  BY <1>1, <1>11, <1>12, TypedFields, Moved
<1>14. Typed'
  BY <1>1, <1>5, <1>8, <1>10, <1>13 DEF IInv, Typed, Count
<1>15. Known'
  BY <1>4, <1>8 DEF IInv, Known
<1>16. OnlyThat'
  BY <1>1, <1>5, <1>7, <1>8 DEF OnlyThat, Calm, Active
<1>17. InFlightKept'
  BY <1>1, <1>2, <1>5, <1>6, TriggerAssumption DEF IInv, InFlightKept
<1>18. EnabledIsScheduled'
  BY <1>5 DEF EnabledIsScheduled
<1>19. ASSUME NEW b \in Actor \ {a}
       PROVE  Own(b)'
  <2>1. actor'[b] = actor[b] /\ Own(b) /\ actor[b].run # NewRun
    BY <1>9, <1>13 DEF IInv
  <2>2. ~At(b, "capture") /\ (Calm => actor[b].pc \notin {"start", "insert"})
    BY <1>2, <2>1 DEF Own, Capturing, Reading, Dispatched
  <2>3. actor[b].run # NoRun => actor[b].run \in RunId /\ runs'[actor[b].run] = runs[actor[b].run]
    BY <1>8, <2>1, TypedFields
  <2>4. Placed(b)' /\ Capturing(b)' /\ Dispatched(b)'
    BY <1>1, <2>1, <2>2 DEF Own, Placed, Capturing, Dispatched, Calm, Ends, At
  <2>5. Carrying(b)' /\ Releasing(b)'
    BY <2>1, <2>3 DEF Own, Placed, Carrying, Releasing, Brings, Ends, At
  <2>6. Written(b)'
    BY <2>1, <2>3 DEF Own, Placed, Written, Brings, Ends, At
  <2>7. Planned(b)'
    <3> SUFFICES ASSUME actor[b].pc \in {"start", "insert"}
                 PROVE  /\ runs'[actor[b].run].status = "absent" /\ actor[b].run \notin messages
                        /\ \A c \in Actor \ {b} : actor'[c].run # actor[b].run
      BY <1>1, <2>1 DEF Planned
    <3>1. actor[b].run # NoRun /\ Planned(b)
      BY <2>1 DEF Own, Placed
    <3>2. actor'[a].run # actor[b].run
      BY <1>5, <1>11, <1>13, <2>1, <3>1
    <3> QED
      BY <1>13, <2>3, <3>1, <3>2 DEF Planned
  <2> QED
    BY <2>4, <2>5, <2>6, <2>7 DEF Own
<1>20. Own(a)'
  <2>1. CASE d.run = NoRun
    BY <1>1, <1>11, <1>13, <2>1, IdleOwn
  <2>2. CASE d.run # NoRun
    <3>1. /\ actor'[a].pc = "start" /\ actor'[a].run = NewRun
          /\ runs'[NewRun].status = "absent" /\ runs'[NewRun].value = source
      BY <1>5, <1>8, <1>11, <1>13, <2>2
    <3>2. Placed(a)' /\ Carrying(a)' /\ Capturing(a)' /\ Releasing(a)' /\ Written(a)'
      BY <1>2, <1>4, <3>1, NoRunIsNone DEF Placed, Carrying, Capturing, Releasing, Written,
         Brings, Ends, At
    <3>3. Dispatched(a)'
      BY <1>5, <2>2, <3>1 DEF Dispatched
    <3>4. Planned(a)'
      BY <1>1, <1>4, <1>9, <1>13, <3>1 DEF Planned, Free
    <3> QED
      BY <3>2, <3>3, <3>4 DEF Own
  <2> QED
    BY <2>1, <2>2
<1> QED
  BY <1>14, <1>15, <1>16, <1>17, <1>18, <1>19, <1>20 DEF IInv

-----------------------------------------------------------------------------
(* Runs.                                                                   *)

LEMMA InsertRunStep ==
  ASSUME IInv, NEW a \in Prober, InsertRun(a)
  PROVE  IInv'
<1> DEFINE run == actor[a].run
           s == [Idle EXCEPT !.pc = "send", !.run = run]
<1>1. /\ a \in Actor /\ At(a, "insert") /\ runs' = [runs EXCEPT ![run].status = "queued"]
      /\ actor' = [actor EXCEPT ![a] = s]
      /\ UNCHANGED <<config, source, row, lock, messages, online, history, count>>
  BY Kinds DEF InsertRun, Goto
<1>2. /\ Own(a) /\ run \in RunId /\ runs[run].status = "absent" /\ runs[run].value \in Value
      /\ \A b \in Actor \ {a} : actor[b].run # run
      /\ Calm => row.run = run /\ row.state = "dispatching"
  BY <1>1, TypedFields DEF IInv, Own, Placed, Carrying, Planned, Dispatched, At
<1> HIDE DEF run
<1>3. s \in Slot /\ s.pc = "send" /\ s.run = run /\ s.seen.run = NoRun
  BY <1>2, PlainSlot DEF Pc
<1> HIDE DEF s
<1>4. /\ actor' \in [Actor -> Slot] /\ actor'[a] = s
      /\ \A b \in Actor \ {a} : actor'[b] = actor[b]
  BY <1>1, <1>3, TypedFields, Moved
<1>5. /\ runs' \in [RunId -> Run] /\ runs'[run].status = "queued"
      /\ runs'[run].value = runs[run].value
      /\ \A r \in RunId \ {run} : runs'[r] = runs[r]
  BY <1>1, <1>2, TypedFields DEF Run, RunStatus
<1>6. Typed'
  BY <1>1, <1>4, <1>5 DEF IInv, Typed
<1>7. (Known /\ OnlyThat /\ InFlightKept /\ EnabledIsScheduled)'
  BY <1>1, <1>2, <1>5 DEF IInv, Known, OnlyThat, Calm, InFlightKept, EnabledIsScheduled
<1>8. Own(a)'
  BY <1>2, <1>3, <1>4, <1>5, NoRunIsNone, Kinds DEF Own, Placed, Carrying, Planned, Capturing,
     Dispatched, Releasing, Written, Brings, Ends, At
<1>9. ASSUME NEW b \in Actor \ {a}
      PROVE  Own(b)'
  <2>1. actor'[b] = actor[b] /\ Own(b) /\ actor[b].run # run
    BY <1>2, <1>4 DEF IInv
  <2>2. actor[b].run # NoRun => actor[b].run \in RunId /\ runs'[actor[b].run] = runs[actor[b].run]
    BY <1>5, <2>1, TypedFields
  <2>3. Placed(b)' /\ Carrying(b)' /\ Dispatched(b)' /\ Releasing(b)' /\ Written(b)'
    BY <1>1, <2>1, <2>2 DEF Own, Placed, Carrying, Dispatched, Calm, Releasing, Written,
       Brings, Ends, At
  <2>4. Planned(b)'
    BY <1>1, <1>3, <1>4, <2>1, <2>2 DEF Own, Placed, Planned
  <2>5. Capturing(b)'
    <3> SUFFICES ASSUME At(b, "capture")
                 PROVE  Reading(b)'
      BY <2>1 DEF Capturing, At
    <3>1. Reading(b)
      BY <2>1 DEF Own, Capturing
    <3>2. PICK r \in RunId : Free(r)
      BY <3>1 DEF Reading
    <3>3. r # run
      BY <1>1, <3>2 DEF Free, run
    <3>4. Free(r)'
      BY <1>1, <1>3, <1>4, <1>5, <3>2, <3>3, NoRunIsNone DEF Free
    <3>5. ~Calm
      BY <1>2, <3>1 DEF Reading
    <3> QED
      BY <1>1, <1>2, <1>5, <2>1, <3>1, <3>4, <3>5 DEF Reading, Calm
  <2> QED
    BY <2>3, <2>4, <2>5 DEF Own
<1> QED
  BY <1>6, <1>7, <1>8, <1>9 DEF IInv

LEMMA ClaimStep ==
  ASSUME IInv, NEW e \in Executor, NEW r \in RunId, Claim(e, r)
  PROVE  IInv'
<1>1. /\ e \in Actor /\ At(e, "idle") /\ r \in messages /\ messages' = messages \ {r}
      /\ UNCHANGED <<config, source, row, lock, online, history, count>>
  BY Kinds DEF Claim
<1>2. Own(e) /\ actor[e].run = NoRun /\ r # NoRun
  BY <1>1, NoRunIsNone DEF IInv, Own, Placed, At
<1>3. CASE runs[r].status = "queued"
  <2> DEFINE s == [Idle EXCEPT !.pc = "running", !.run = r]
  <2>1. /\ runs' = [runs EXCEPT ![r].status = "running"]
        /\ actor' = [actor EXCEPT ![e] = s]
    BY <1>3 DEF Claim
  <2>2. s \in Slot /\ s.pc = "running" /\ s.run = r /\ s.seen.run = NoRun
    BY PlainSlot DEF Pc
  <2> HIDE DEF s
  <2>3. /\ actor' \in [Actor -> Slot] /\ actor'[e] = s
        /\ \A b \in Actor \ {e} : actor'[b] = actor[b]
    BY <1>1, <2>1, <2>2, TypedFields, Moved
  <2>4. /\ runs' \in [RunId -> Run] /\ runs'[r].status = "running"
        /\ runs'[r].value = runs[r].value /\ runs[r].value \in Value
        /\ \A x \in RunId \ {r} : runs'[x] = runs[x]
    BY <1>3, <2>1, TypedFields DEF Run, RunStatus, IInv, Known
  <2>5. Typed'
    BY <1>1, <2>3, <2>4 DEF IInv, Typed
  <2>6. (Known /\ OnlyThat /\ InFlightKept /\ EnabledIsScheduled)'
    BY <1>1, <1>3, <2>4
       DEF IInv, Known, OnlyThat, Calm, Active, InFlightKept, EnabledIsScheduled
  <2>7. Own(e)'
    BY <1>2, <2>2, <2>3, <2>4, NoRunIsNone, Kinds DEF Own, Placed, Carrying, Planned,
       Capturing, Dispatched, Releasing, Written, Brings, Ends, At
  <2>8. ASSUME NEW b \in Actor \ {e}
        PROVE  Own(b)'
    <3>1. actor'[b] = actor[b] /\ Own(b) /\ actor[b].run \in RunId \cup {NoRun}
      BY <2>3, TypedFields DEF IInv
    <3>2. actor[b].run # NoRun =>
            /\ runs'[actor[b].run].value = runs[actor[b].run].value
            /\ runs[actor[b].run].status \notin Active => runs'[actor[b].run].status \notin Active
      BY <1>3, <2>4, <3>1 DEF Active
    <3>3. Placed(b)' /\ Carrying(b)' /\ Dispatched(b)' /\ Releasing(b)' /\ Written(b)'
      BY <1>1, <3>1, <3>2 DEF Own, Placed, Carrying, Dispatched, Calm, Releasing, Written,
         Brings, Ends, At
    <3>4. Planned(b)'
      BY <1>1, <2>2, <2>3, <2>4, <3>1 DEF Own, Placed, Planned
    <3>5. Capturing(b)'
      <4> SUFFICES ASSUME At(b, "capture")
                   PROVE  Reading(b)'
        BY <3>1 DEF Capturing, At
      <4>1. Reading(b) /\ row \in ShortRow
        BY <3>1, TypedFields DEF Own, Capturing
      <4>2. PICK x \in RunId : Free(x)
        BY <4>1 DEF Reading
      <4>3. x # r
        BY <1>1, <4>2 DEF Free
      <4>4. Free(x)'
        BY <1>1, <2>2, <2>3, <2>4, <4>2, <4>3, NoRunIsNone DEF Free
      <4>5. row.run # NoRun => row.run \in RunId
        BY <4>1, RowFields
      <4> QED
        BY <1>1, <1>3, <2>4, <3>1, <4>1, <4>4, <4>5 DEF Reading, Calm, Active
    <3> QED
      BY <3>3, <3>4, <3>5 DEF Own
  <2> QED
    BY <2>5, <2>6, <2>7, <2>8 DEF IInv
<1>4. CASE runs[r].status # "queued"
  <2>1. UNCHANGED <<runs, actor>>
    BY <1>4 DEF Claim
  <2>2. Typed'
    BY <1>1, <2>1 DEF IInv, Typed
  <2>3. (Known /\ OnlyThat /\ InFlightKept /\ EnabledIsScheduled)'
    BY <1>1, <2>1 DEF IInv, Known, OnlyThat, Calm, InFlightKept, EnabledIsScheduled
  <2>4. \A b \in Actor : Own(b)'
    BY <1>1, <2>1 DEF IInv, Own, Placed, Carrying, Planned, Capturing, Reading, Free,
       Dispatched, Calm, Releasing, Written, Brings, Ends, At
  <2> QED
    BY <2>2, <2>3, <2>4 DEF IInv
<1> QED
  BY <1>3, <1>4

-----------------------------------------------------------------------------
(* Commits.                                                                *)

(* The columns of the row that the properties are about, after a commit.   *)
LEMMA FlushedRow ==
  ASSUME IInv, NEW a \in Actor, Flush(a)
  PROVE  /\ row' \in ShortRow /\ row' = Stored(actor[a].change, row)
         /\ row'.run = IF Brings(a, "run") THEN NoRun ELSE row.run
         /\ row'.pending = row.pending \/ Brings(a, "pending")
         /\ row'.applied = IF Brings(a, "applied") THEN actor[a].change.applied ELSE row.applied
         /\ row'.enabled = IF Brings(a, "enabled") THEN actor[a].change.enabled ELSE row.enabled
         /\ row'.scheduled = IF Brings(a, "scheduled") THEN actor[a].change.scheduled
                             ELSE row.scheduled
<1>1. At(a, "writing") /\ row' = Stored(actor[a].change, row)
  BY DEF Flush
<1>2. row \in ShortRow /\ actor[a].change \in Change
  BY TypedFields, SlotFields DEF IInv, Typed
<1>3. /\ row' \in ShortRow /\ DOMAIN actor[a].change \subseteq Columns
      /\ \A x \in Columns : row'[x] = IF x \in DOMAIN actor[a].change
                                      THEN actor[a].change[x] ELSE row[x]
  BY <1>1, <1>2, StoredFields
<1>4. {"run", "applied", "pending", "scheduled", "enabled"} \subseteq Columns
  BY DEF Columns
<1>5. Brings(a, "run") => actor[a].change.run = NoRun
  BY DEF IInv, Own, Written
<1> QED
  BY <1>1, <1>3, <1>4, <1>5 DEF Brings

(* The runs after it: one is over, or forgotten if nobody asks for it.     *)
LEMMA FlushedRuns ==
  ASSUME IInv, NEW a \in Actor, Flush(a)
  PROVE  /\ runs' \in [RunId -> Run]
         /\ \A r \in RunId : runs'[r] = runs[r] \/ (Ends(a) /\ r = actor[a].run)
         /\ Ends(a) => /\ actor[a].run \in RunId
                       /\ runs'[actor[a].run].status \notin Active
                       /\ \/ runs'[actor[a].run].status = "absent"
                          \/ runs'[actor[a].run].value \in Value
         /\ \A b \in Actor \ {a} : actor[b].run \in RunId =>
                /\ runs'[actor[b].run].value = runs[actor[b].run].value
                /\ runs[actor[b].run].status \notin Active =>
                        runs'[actor[b].run].status \notin Active
<1> DEFINE run == actor[a].run
           effect == actor[a].effect
<1>1. At(a, "writing") /\ Own(a) /\ runs \in [RunId -> Run] /\ effect \in Effect
  BY TypedFields, SlotFields DEF IInv, Typed, Flush
<1>2. CASE effect \in {"succeeded", "failed"}
  <2>1. Ends(a) /\ run \in RunId /\ runs[run].value \in Value /\ runs[run] \in Run
    BY <1>1, <1>2, TypedFields DEF Ends, Own, Placed, Carrying
  <2>2. \/ /\ runs' = [runs EXCEPT ![run] = Forgotten]
           /\ \A b \in Actor \ {a} : actor[b].run # run
        \/ runs' = [runs EXCEPT ![run] = [runs[run] EXCEPT !.status = effect]]
    BY <1>1, <1>2, <2>1 DEF Flush
  <2>3. Forgotten \in Run /\ Forgotten.status = "absent"
    BY DEF Forgotten, Run, RunStatus
  <2>4. /\ [runs[run] EXCEPT !.status = effect] \in Run
        /\ [runs[run] EXCEPT !.status = effect].status = effect
        /\ [runs[run] EXCEPT !.status = effect].value = runs[run].value
    BY <1>2, <2>1 DEF Run, RunStatus
  <2> HIDE DEF run, effect
  <2>5. /\ runs' \in [RunId -> Run] /\ \A r \in RunId \ {run} : runs'[r] = runs[r]
        /\ \/ runs'[run].status = "absent" /\ \A b \in Actor \ {a} : actor[b].run # run
           \/ runs'[run].status = effect /\ runs'[run].value = runs[run].value
    BY <1>1, <2>1, <2>2, <2>3, <2>4
  <2> QED
    BY <1>2, <2>1, <2>5 DEF run, Active
<1>3. CASE effect \notin {"succeeded", "failed"}
  BY <1>1, <1>3 DEF Flush, Ends
<1> QED
  BY <1>2, <1>3

(* A commit that does not disturb: it changes nothing, or it found what it *)
(* had read.                                                               *)
LEMMA FlushedCalmly ==
  ASSUME IInv, NEW a \in Actor, Flush(a), Calm'
  PROVE  /\ Calm
         /\ \/ row' = row
            \/ /\ row.run = NoRun \/ actor[a].run = row.run
               /\ row.enabled = actor[a].enabled
               /\ Brings(a, "scheduled") \/ ~actor[a].scheduled \/ row.scheduled
<1>1. history'.disturbed = (history.disturbed \/ Overwrites(a))
  BY TypedFields DEF Flush, History
<1> QED
  BY <1>1 DEF Calm, Overwrites, Brings, Flush, At

LEMMA FlushStep ==
  ASSUME IInv, NEW a \in Actor, Flush(a)
  PROVE  IInv'
<1>1. /\ At(a, "writing") /\ Unlocked /\ Own(a)
      /\ UNCHANGED <<config, source, lock, messages, count>>
  BY DEF Flush, IInv
<1>2. Done(a) \/ (Goto(a, "raised") /\ actor[a].effect = "failed")
  BY <1>1, SlotFields DEF Flush, IInv, Typed, Own, Placed
<1>3. PICK s \in Slot :
        /\ actor' = [actor EXCEPT ![a] = s] /\ s.seen.run = NoRun
        /\ \/ s.pc = "idle" /\ s.run = NoRun
           \/ s.pc = "raised" /\ s.run = actor[a].run /\ Ends(a)
  <2>1. CASE Done(a)
    BY <2>1, IdleSlot DEF Done
  <2>2. CASE Goto(a, "raised") /\ actor[a].effect = "failed"
    <3>1. "raised" \in Pc /\ actor[a].run \in RunId \cup {NoRun} /\ Ends(a)
      BY <1>1, <2>2, TypedFields DEF Pc, Ends
    <3> DEFINE t == [Idle EXCEPT !.pc = "raised", !.run = actor[a].run]
    <3>2. t \in Slot /\ t.pc = "raised" /\ t.run = actor[a].run /\ t.seen.run = NoRun
      BY <3>1, PlainSlot
    <3>3. actor' = [actor EXCEPT ![a] = t]
      BY <2>2 DEF Goto
    <3> HIDE DEF t
    <3> QED
      BY <3>1, <3>2, <3>3
  <2> QED
    BY <1>2, <2>1, <2>2
<1>4. /\ actor' \in [Actor -> Slot] /\ actor'[a] = s
      /\ \A b \in Actor \ {a} : actor'[b] = actor[b]
  BY <1>3, TypedFields, Moved
<1>5. /\ row' \in ShortRow
      /\ row'.run = IF Brings(a, "run") THEN NoRun ELSE row.run
      /\ row'.pending = row.pending \/ Brings(a, "pending")
      /\ row'.enabled = IF Brings(a, "enabled") THEN actor[a].change.enabled ELSE row.enabled
      /\ row'.scheduled = IF Brings(a, "scheduled") THEN actor[a].change.scheduled
                          ELSE row.scheduled
  BY FlushedRow
<1>6. /\ runs' \in [RunId -> Run]
      /\ \A r \in RunId : runs'[r] = runs[r] \/ (Ends(a) /\ r = actor[a].run)
      /\ Ends(a) => /\ actor[a].run \in RunId
                    /\ runs'[actor[a].run].status \notin Active
                    /\ \/ runs'[actor[a].run].status = "absent"
                       \/ runs'[actor[a].run].value \in Value
      /\ \A b \in Actor \ {a} : actor[b].run \in RunId =>
             /\ runs'[actor[b].run].value = runs[actor[b].run].value
             /\ runs[actor[b].run].status \notin Active =>
                     runs'[actor[b].run].status \notin Active
  BY FlushedRuns
<1>7. Calm' =>
        /\ Calm
        /\ \/ row' = row
           \/ /\ row.run = NoRun \/ actor[a].run = row.run
              /\ row.enabled = actor[a].enabled
              /\ Brings(a, "scheduled") \/ ~actor[a].scheduled \/ row.scheduled
  BY FlushedCalmly
<1>8. Typed'
  <2>1. online' \in BOOLEAN
    BY DEF Flush, IInv, Typed
  <2>2. history' \in [paused : BOOLEAN, disturbed : BOOLEAN, interrupted : BOOLEAN]
    BY TypedFields DEF Flush, History, Overwrites
  <2> QED
    BY <1>1, <1>4, <1>5, <1>6, <2>1, <2>2 DEF IInv, Typed
<1>9. Known'
  BY <1>6 DEF IInv, Known
<1>10. OnlyThat'
  <2> SUFFICES ASSUME Calm', NEW r \in RunId, runs'[r].status \in Active
               PROVE  row'.run = r
    BY DEF OnlyThat
  <2>1. runs'[r] = runs[r] /\ ~(Ends(a) /\ r = actor[a].run)
    BY <1>6
  <2>2. row.run = r /\ r # NoRun
    BY <1>7, <2>1, NoRunIsNone DEF IInv, OnlyThat
  <2>3. ~(Brings(a, "run") /\ row' # row)
    BY <1>1, <1>7, <2>1, <2>2 DEF Own, Releasing
  <2> QED
    BY <1>5, <2>2, <2>3
<1>11. InFlightKept'
  <2> SUFFICES ASSUME Calm', row'.run # NoRun
               PROVE  row'.pending # NoValue
    BY DEF InFlightKept, Calm
  <2>1. row.run # NoRun /\ row.pending # NoValue /\ ~Brings(a, "run")
    BY <1>5, <1>7 DEF IInv, InFlightKept, Calm
  <2>2. row'.pending = row.pending
    BY <1>1, <1>5, <1>7, <2>1 DEF Own, Written
  <2> QED
    BY <2>1, <2>2
<1>12. EnabledIsScheduled'
  <2> SUFFICES ASSUME Calm', row'.enabled, ~row'.scheduled
               PROVE  FALSE
    BY DEF EnabledIsScheduled, Calm
  <2>1. row.enabled => row.scheduled
    BY <1>7 DEF IInv, EnabledIsScheduled, Calm
  <2>2. row' # row
    BY <2>1
  <2> QED
    BY <1>1, <1>5, <1>7, <2>1, <2>2 DEF Own, Written
<1>13. Own(a)'
  <2>1. CASE s.pc = "idle" /\ s.run = NoRun
    BY <1>4, <2>1, IdleOwn
  <2>2. CASE s.pc = "raised" /\ s.run = actor[a].run /\ Ends(a)
    BY <1>1, <1>4, <1>6, <2>2, NoRunIsNone DEF Own, Placed, Carrying, Planned, Capturing,
       Dispatched, Releasing, Written, Brings, Ends, At
  <2> QED
    BY <1>3, <2>1, <2>2
<1>14. ASSUME NEW b \in Actor \ {a}
       PROVE  Own(b)'
  <2>1. /\ actor'[b] = actor[b] /\ Own(b) /\ ~At(b, "capture")
        /\ actor[b].run # NoRun => actor[b].run \in RunId
    BY <1>1, <1>4, Unheld, TypedFields DEF IInv
  <2>2. actor[b].run # NoRun =>
          /\ runs'[actor[b].run].value = runs[actor[b].run].value
          /\ runs[actor[b].run].status \notin Active => runs'[actor[b].run].status \notin Active
    BY <1>6, <2>1
  <2>3. Placed(b)' /\ Capturing(b)'
    BY <2>1 DEF Own, Placed, Capturing, Ends, At
  <2>4. Carrying(b)' /\ Releasing(b)'
    BY <2>1, <2>2 DEF Own, Placed, Carrying, Releasing, Brings, Ends, At
  <2>5. Written(b)'
    BY <2>1, <2>2 DEF Own, Placed, Written, Brings, Ends, At
  <2>6. actor[b].pc \in {"start", "insert"} =>
            actor[b].run # NoRun /\ actor[b].run # actor[a].run
    BY <2>1 DEF Own, Placed, Planned
  <2>7. Planned(b)'
    BY <1>1, <1>3, <1>4, <1>6, <2>1, <2>6 DEF Own, Planned
  <2>8. Dispatched(b)'
    BY <1>7, <2>1, <2>6 DEF Own, Dispatched
  <2> QED
    BY <2>3, <2>4, <2>5, <2>7, <2>8 DEF Own
<1> QED
  BY <1>8, <1>9, <1>10, <1>11, <1>12, <1>13, <1>14 DEF IInv

(* The API process starts again.                                           *)
LEMMA RestartStep ==
  ASSUME IInv, Restart
  PROVE  IInv'
<1>1. /\ lock' = Nobody /\ actor' = [a \in Actor |-> IF a \in Executor THEN actor[a] ELSE Idle]
      /\ UNCHANGED <<config, source, runs, messages, online>>
      /\ row' = row \/ row' = Synchronized(row)
  BY DEF Restart
<1>2. /\ row' \in ShortRow /\ row'.run = row.run /\ row'.pending = row.pending
      /\ row' = row \/ (row'.enabled => row'.scheduled)
  BY <1>1, TypedFields, SynchronizedRow DEF Modest, SameData
<1>3. history' \in History /\ history'.disturbed = history.disturbed
  BY TypedFields DEF Restart, History
<1>4. count' \in Count
  BY TypedFields, TickCount DEF Restart
<1>5. /\ actor' \in [Actor -> Slot]
      /\ \A b \in Actor : IF b \in Executor THEN actor'[b] = actor[b] ELSE actor'[b] = Idle
  BY <1>1, TypedFields, IdleSlot
<1>6. Typed'
  BY <1>1, <1>2, <1>3, <1>4, <1>5 DEF IInv, Typed, History, Count
<1>7. (Known /\ OnlyThat /\ InFlightKept /\ EnabledIsScheduled)'
  BY <1>1, <1>2, <1>3 DEF IInv, Known, OnlyThat, Calm, InFlightKept, EnabledIsScheduled
<1>8. ASSUME NEW b \in Actor
      PROVE  Own(b)'
  <2>1. CASE b \in Executor
    <3>1. actor'[b] = actor[b] /\ Own(b) /\ b \notin Prober
      BY <1>5, <2>1, Kinds DEF IInv
    <3>2. actor[b].pc \notin {"capture", "start", "insert"}
      BY <3>1 DEF Own, Placed
    <3> QED
      BY <1>1, <3>1, <3>2 DEF Own, Placed, Carrying, Planned, Capturing, Dispatched, Releasing,
         Written, Brings, Ends, At
  <2>2. CASE b \notin Executor
    BY <1>5, <2>2, IdleSlot, IdleOwn
  <2> QED
    BY <2>1, <2>2
<1> QED
  BY <1>6, <1>7, <1>8 DEF IInv

(* The metric changes, or nothing does.                                    *)
LEMMA IdleStep ==
  ASSUME IInv, ChangeSource \/ UNCHANGED vars
  PROVE  IInv'
<1>1. UNCHANGED <<config, row, lock, runs, messages, actor, online, history>>
  BY DEF ChangeSource, vars
<1>2. source' \in Value /\ count' \in Count
  BY TypedFields, TickCount DEF ChangeSource, vars
<1>3. Typed'
  BY <1>1, <1>2 DEF IInv, Typed, Count
<1>4. (Known /\ OnlyThat /\ InFlightKept /\ EnabledIsScheduled)'
  BY <1>1 DEF IInv, Known, OnlyThat, Calm, InFlightKept, EnabledIsScheduled
<1>5. \A b \in Actor : Own(b)'
  BY <1>1 DEF IInv, Own, Placed, Carrying, Planned, Capturing, Reading, Free,
     Dispatched, Calm, Releasing, Written, Brings, Ends, At
<1> QED
  BY <1>3, <1>4, <1>5 DEF IInv

-----------------------------------------------------------------------------
(* The theorems.                                                           *)

LEMMA InitInv == Init => IInv
<1> SUFFICES ASSUME Init
             PROVE  IInv
  OBVIOUS
<1>1. /\ config \in Config /\ source \in Value /\ row = NewRow /\ lock = Nobody
      /\ runs = [r \in RunId |-> Forgotten] /\ messages = {} /\ online = TRUE
      /\ actor = [a \in Actor |-> Idle]
      /\ history = [paused |-> FALSE, disturbed |-> FALSE, interrupted |-> FALSE]
      /\ count = [changes |-> 0, requests |-> 0, faults |-> 0]
  BY TriggerAssumption DEF Init
<1>2. row \in ShortRow /\ row.run = NoRun /\ row.scheduled
  BY <1>1, IdleSlot DEF NewRow
<1>3. Forgotten \in Run /\ Forgotten.status = "absent"
  BY DEF Forgotten, Run, RunStatus
<1>4. Typed
  BY <1>1, <1>2, <1>3, IdleSlot DEF Typed
<1>5. Known /\ OnlyThat /\ InFlightKept /\ EnabledIsScheduled
  BY <1>1, <1>2, <1>3 DEF Known, OnlyThat, Active, InFlightKept, EnabledIsScheduled
<1>6. ASSUME NEW a \in Actor
      PROVE  Own(a)
  <2>1. actor[a].pc = "idle" /\ actor[a].run = NoRun
    BY <1>1, IdleSlot
  <2> QED
    BY <2>1 DEF Own, Placed, Carrying, Planned, Capturing, Dispatched, Releasing, Written,
       Brings, Ends, At
<1> QED
  BY <1>4, <1>5, <1>6 DEF IInv

LEMMA StepInv == IInv /\ [Next]_vars => IInv'
<1> SUFFICES ASSUME IInv, [Next]_vars
             PROVE  IInv'
  OBVIOUS
<1>1. CASE ChangeSource \/ UNCHANGED vars
  BY <1>1, IdleStep
<1>2. ASSUME NEW a \in Scheduler, Due(a)
      PROVE  IInv'
  BY <1>2, Kinds, DueStep
<1>3. ASSUME NEW a \in Request, AskProbe(a)
      PROVE  IInv'
  BY <1>3, Kinds, DueStep
<1>4. ASSUME NEW a \in Admin, Pause(a) \/ Resume(a) \/ Offline(a) \/ Publish(a) \/ AskRebuild(a)
      PROVE  IInv'
  BY <1>4, RequestStep, AskRebuildStep
<1>5. ASSUME NEW e \in Executor, NEW r \in RunId, Claim(e, r)
      PROVE  IInv'
  BY <1>5, ClaimStep
<1>6. ASSUME NEW a \in Actor, Handler(a)
      PROVE  IInv'
  <2>1. CASE /\ a \in Prober
             /\ \/ Probe(a) \/ CaptureFails(a) \/ MarkFailure(a) \/ Observe(a)
                \/ StartRefused(a) \/ StartRun(a) \/ InsertRun(a) \/ Send(a) \/ SendFails(a)
                \/ FailRun(a) \/ DispatchFailed(a) \/ LookBack(a)
    BY <2>1, ProbeStep, CaptureFailsStep, MarkFailureStep, ObserveStep, StartStep,
       InsertRunStep, SendStep, FailRunStep, DispatchFailedStep, LookBackStep
  <2>2. CASE a \in Executor /\ \E status \in {"succeeded", "failed"} : EndRun(a, status)
    BY <2>2, EndRunStep
  <2>3. CASE a \in Admin /\ Rebuild(a)
    BY <2>3, RebuildStep
  <2>4. CASE Flush(a)
    BY <2>4, FlushStep
  <2> QED
    BY <1>6, <2>1, <2>2, <2>3, <2>4 DEF Handler
<1>7. ASSUME NEW e \in Executor, CrashWorker(e)
      PROVE  IInv'
  BY <1>7, CrashWorkerStep
<1>8. CASE Restart
  BY <1>8, RestartStep
<1> QED
  BY <1>1, <1>2, <1>3, <1>4, <1>5, <1>6, <1>7, <1>8 DEF Next

(* What is read, stored, planned, started and released stays consistent.   *)
THEOREM Inductive == Spec => []IInv
  BY InitInv, StepInv, PTL DEF Spec

(* Every variable keeps its type, and a transaction stores what fits into  *)
(* the row as it will be, not as it was read.                              *)
THEOREM TypeCorrect == Spec => []TypeOK
<1>1. ASSUME IInv
      PROVE  TypeOK
  <2>1. \A a \in Actor : ActorSlot(actor[a])
    <3> SUFFICES ASSUME NEW a \in Actor
                 PROVE  ActorSlot(actor[a])
      OBVIOUS
    <3>1. actor[a] \in Slot /\ row \in ShortRow
      BY <1>1, TypedFields
    <3>2. /\ actor[a].change \in Change /\ actor[a].seen \in Row
          /\ DOMAIN actor[a].change \subseteq DOMAIN row
          /\ Stored(actor[a].change, row) \in Row
      BY <3>1, SlotFields, StoredFields, RowFields
    <3> QED
      BY <3>1, <3>2, SlotFields DEF ActorSlot, Pc, Effect
  <2> QED
    BY <1>1, <2>1, RowFields DEF IInv, Typed, TypeOK
<1> QED
  BY <1>1, Inductive, PTL

(* _probe_and_maybe_run under its row lock, finalize_change_trigger_run,   *)
(* the requests and restarts: one run at a time, its change kept until it  *)
(* succeeded, and every enabled trigger scheduled.                         *)
THEOREM Guarded == Spec => []RunsGuarded
<1>1. ASSUME IInv
      PROVE  OneRunAtATime
  <2> SUFFICES ASSUME Calm
               PROVE  Cardinality({r \in RunId : runs[r].status \in Active}) <= 1
    BY DEF OneRunAtATime, Calm
  <2> DEFINE active == {r \in RunId : runs[r].status \in Active}
  <2>1. active = {} \/ active = {row.run}
    BY <1>1 DEF IInv, OnlyThat
  <2>2. Cardinality(active) = 0 \/ Cardinality(active) = 1
    BY <2>1, FS_EmptySet, FS_Singleton
  <2> QED
    BY <2>2
<1>2. IInv => RunsGuarded
  BY <1>1 DEF IInv, RunsGuarded
<1> QED
  BY <1>2, Inductive, PTL

(* WatermarkEarned, of one step.                                           *)
Earned ==
    row'.applied # row.applied =>
        \/ \E r \in RunId :
            /\ runs[r].value = row'.applied
            /\ \/ runs[r].status = "succeeded"
               \/ \E e \in Executor : actor[e].run = r /\ actor[e].effect = "succeeded"
        \/ row.applied = NoValue
        \/ \E a \in Admin : At(a, "writing") /\ ~At(a, "writing")'

LEMMA ObserveEarns ==
  ASSUME IInv, NEW a \in Prober, Observe(a), row'.applied # row.applied, row.applied # NoValue
  PROVE  \E r \in RunId : runs[r].value = row'.applied /\ runs[r].status = "succeeded"
<1>1. a \in Actor /\ Reading(a)
  BY Kinds DEF Observe, IInv, Own, Capturing
<1>2. actor[a].seen \in ShortRow /\ source \in Value /\ config \in Config
  BY <1>1, TypedFields
<1>3. PICK d \in Decided(actor[a].seen, source) : row' = d.row
  BY DEF Observe
<1>4. Outcome(actor[a].seen, source, d)
  BY <1>1, <1>2, DecidedOutcome DEF Reading
<1>5. row'.applied # actor[a].seen.applied => actor[a].seen.applied = NoValue
  BY <1>3, <1>4 DEF Outcome
<1>6. \/ actor[a].seen.applied = row.applied
      \/ /\ row.run \in RunId /\ runs[row.run].status = "succeeded"
         /\ runs[row.run].value = actor[a].seen.applied
         /\ actor[a].seen.applied \in Value
  BY <1>1 DEF Reading, IInv, Known
<1> QED
  BY <1>5, <1>6, TriggerAssumption

LEMMA FlushEarns ==
  ASSUME IInv, NEW a \in Actor, Flush(a), row'.applied # row.applied
  PROVE  \/ /\ a \in Executor /\ actor[a].effect = "succeeded" /\ actor[a].run \in RunId
            /\ runs[actor[a].run].value = row'.applied
         \/ a \in Admin /\ At(a, "writing") /\ ~At(a, "writing")'
<1>1. /\ row'.applied = actor[a].change.applied /\ Brings(a, "applied")
      /\ At(a, "writing") /\ Own(a)
  BY FlushedRow DEF Brings, IInv
<1>2. ~At(a, "writing")'
  <2>1. Done(a) \/ Goto(a, "raised")
    BY <1>1, SlotFields DEF Flush, IInv, Typed
  <2>2. CASE Done(a)
    BY <2>2, IdleSlot, TypedFields, Moved DEF Done, At
  <2>3. CASE Goto(a, "raised")
    <3> DEFINE t == [Idle EXCEPT !.pc = "raised", !.run = actor[a].run]
    <3>1. "raised" \in Pc /\ actor[a].run \in RunId \cup {NoRun}
      BY TypedFields DEF Pc
    <3>2. t \in Slot /\ t.pc = "raised"
      BY <3>1, PlainSlot
    <3>3. actor' = [actor EXCEPT ![a] = t]
      BY <2>3 DEF Goto
    <3> HIDE DEF t
    <3> QED
      BY <3>2, <3>3, TypedFields, Moved DEF At
  <2> QED
    BY <2>1, <2>2, <2>3
<1>3. CASE a \in Admin
  BY <1>1, <1>2, <1>3
<1>4. CASE a \notin Admin
  BY <1>1, <1>4, TypedFields DEF Own, Written, Placed, Ends
<1> QED
  BY <1>3, <1>4

LEMMA StepEarns == IInv /\ [Next]_vars => [Earned]_vars
<1> SUFFICES ASSUME IInv, Next, row'.applied # row.applied, row.applied # NoValue
             PROVE  Earned
  BY DEF Earned, vars
<1>1. \/ row' = row \/ row' = Retired(row) \/ row' = Synchronized(row)
      \/ \E a \in Prober : Observe(a)
      \/ \E a \in Actor : Flush(a)
  BY DEF Next, ChangeSource, Due, AskProbe, Pause, Resume, Offline, Publish, Ask, AskRebuild,
     Claim, Handler, Probe, CaptureFails, MarkFailure, StartRefused, StartRun, InsertRun, Send,
     SendFails, FailRun, DispatchFailed, LookBack, EndRun, Rebuild, CrashWorker, Restart
<1>2. row' # row /\ row' # Retired(row) /\ row' # Synchronized(row)
  BY TypedFields, RetiredRow, SynchronizedRow DEF SameData
<1>3. CASE \E a \in Prober : Observe(a)
  BY <1>3, ObserveEarns DEF Earned
<1>4. CASE \E a \in Actor : Flush(a)
  BY <1>4, FlushEarns DEF Earned
<1> QED
  BY <1>1, <1>2, <1>3, <1>4

(* The watermark moves only to the value of a run that has just succeeded, *)
(* or to a baseline that somebody captured, whether finalize_change_       *)
(* trigger_run, _reconcile_pending_run or a request wrote it.              *)
THEOREM WatermarkIsEarned == Spec => WatermarkEarned
<1>1. IInv /\ [Next]_vars => [Earned]_vars
  BY StepEarns
<1>2. [][Earned]_vars => WatermarkEarned
  BY PTL DEF Earned, WatermarkEarned
<1> QED
  BY <1>1, <1>2, Inductive, PTL DEF Spec

=============================================================================

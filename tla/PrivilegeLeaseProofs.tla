-------------------------- MODULE PrivilegeLeaseProofs --------------------------
(***************************************************************************)
(* Proofs about AuthorizationWork: PrivilegeLease, for any number of       *)
(* batches, requests and events - type correctness, and that the privilege *)
(* follows the batches (LeaseFollowed): it is there while one of them is   *)
(* in force, and nothing is left behind when the last one has ended - and  *)
(* ApprovalRun (below).                                                    *)
(***************************************************************************)
EXTENDS AuthorizationWork, FiniteSetTheorems, WellFoundedInduction, TLAPS

\* The situations LeaseFollowed is about.
Calm == ~config.repeatable /\ faults = 0

\* In force, whatever the time.
Standing(r) ==
    /\ r.state \in {"succeeded", "partial"} /\ ~r.off
    /\ r.table = "succeeded" /\ r.revoke # "succeeded"

\* Without failures the columns of a row agree.
Sound(r) ==
    /\ r.state = "none" => r.table = "none"
    /\ r.table = "succeeded" =>
          /\ r.state \in {"succeeded", "partial"} /\ r.revoke = "pending"
          /\ r.grant \in {"succeeded", "skipped"}

\* What a session says of a batch: that it has in hand, that it has taken
\* offline, that it has granted.
Held(s, b) ==
    /\ row[b].state # "none" /\ Sound(session[s].view[b])
    /\ session[s].view[b].table # "succeeded" => row[b].table # "succeeded"
Ending(s, b) ==
    /\ row[b].state # "none" /\ session[s].new[b].table # "succeeded"
    /\ lock # {s} => row[b].table # "succeeded"
NewGrant(s, b) ==
    /\ session[s].done = {b} /\ session[s].pc = "commit" /\ lock = {s}
    /\ row[b].state = "none" /\ Standing(session[s].new[b]) /\ priv # "none"

SessionInv(s) ==
    /\ \A b \in session[s].todo : row[b].state # "none"
    /\ \A b \in session[s].cur : Held(s, b)
    /\ \A b, c \in session[s].cur : b = c
    /\ \A b \in session[s].done :
          /\ session[s].new[b].state # "none" /\ Sound(session[s].new[b])
          /\ Ending(s, b) \/ NewGrant(s, b)
    /\ lock = {s} => session[s].pc # "idle"
    /\ session[s].pc \in {"idle", "next", "commit"} => session[s].cur = {}
    /\ session[s].pc = "idle" => session[s].todo = {} /\ session[s].done = {}
    /\ session[s].pc = "revoke" =>
          /\ lock = {s}
          /\ \A o \in Batch : InForce(row[o]) /\ ~row[o].extended =>
                o \in session[s].cur \cup session[s].done

\* The batch is in force, for whoever sees the changes of the session that
\* holds the lease.
Changed(b) == \E s \in Session : lock = {s} /\ b \in session[s].done
KeptInv ==
    \A b \in Batch : InForce(row[b]) /\ ~row[b].extended => priv # "none" \/ Changed(b)
Live(b) ==
    \/ ~Changed(b) /\ row[b].table = "succeeded"
    \/ \E s \in Session : /\ lock = {s} /\ b \in session[s].done
                          /\ session[s].new[b].table = "succeeded"
LeftInv ==
    config.legacy = {} /\ priv = "system" =>
        /\ lease = [state |-> "active", owner |-> "system"]
        /\ \E b \in Batch : Live(b)

\* Who is about to revoke holds the lease, whatever happens.
Holds == \A s \in Session : session[s].pc = "revoke" => lock = {s}

CalmInv ==
    /\ \A b \in Batch : Sound(row[b])
    /\ \A s \in Session : SessionInv(s)
    /\ KeptInv
    /\ LeftInv
IInv == Calm => CalmInv

-----------------------------------------------------------------------------
(* Rows and sessions.  The records are edited only here.                   *)

\* Kept folded, so that a set of batches is one value to the provers.
Subs == SUBSET Batch

Slot == [pc : {"idle", "next", "lock", "revoke", "commit"},
         todo : SUBSET Batch, cur : SUBSET Batch, view : [Batch -> Row], seen : SUBSET Batch,
         new : [Batch -> Row], done : SUBSET Batch]
LeaseRec == [state : {"none", "initializing", "active", "revoked", "error"},
             owner : {"unknown", "system", "external"}]

LEMMA RowFields ==
    /\ \A r \in Row : /\ r.state \in {"none", "succeeded", "partial", "failed", "offlined"}
                      /\ r.table \in {"none", "succeeded", "failed", "offlined"}
                      /\ r.grant \in {"none", "succeeded", "skipped", "failed"}
                      /\ r.revoke \in {"none", "pending", "skipped", "succeeded", "failed"}
                      /\ r.due \in BOOLEAN /\ r.off \in BOOLEAN /\ r.extended \in BOOLEAN
    /\ NoRow \in Row /\ NoRow.state = "none" /\ NoRow.table = "none"
    /\ OldRow \in Row /\ Sound(OldRow) /\ Sound(NoRow)
    /\ OldRow.state = "succeeded" /\ OldRow.table = "succeeded"
BY DEF Row, NoRow, OldRow, Sound

LEMMA LoadedFields ==
    ASSUME row \in [Batch -> Row], NEW b \in Batch
    PROVE  /\ Loaded(b) \in Row /\ Loaded(b).table = row[b].table
           /\ Sound(row[b]) => Sound(Loaded(b))
<1>1. row[b] \in Row
  OBVIOUS
<1> QED
  BY <1>1 DEF Loaded, Row, Sound

LEMMA MergedFields ==
    ASSUME NEW old \in Row, NEW new \in Row
    PROVE  /\ Merged(old, new) \in Row
           /\ Merged(old, new).state = new.state /\ Merged(old, new).table = new.table
           /\ Sound(new) => Sound(Merged(old, new))
           /\ InForce(Merged(old, new)) => Standing(new)
BY DEF Merged, Row, Sound, InForce, Standing

\* A row whose REVOKE is over.
Closed(r, v, failed) ==
    [r EXCEPT !.revoke = v, !.state = IF failed THEN "partial" ELSE "offlined", !.off = ~failed,
              !.table = IF r.table = "succeeded" /\ ~failed THEN "offlined" ELSE r.table]
LEMMA ClosedFields ==
    ASSUME NEW r \in Row, NEW v \in {"none", "pending", "skipped", "succeeded", "failed"},
           NEW failed \in BOOLEAN
    PROVE  /\ Closed(r, v, failed) \in Row
           /\ ~failed => /\ Closed(r, v, failed).state # "none"
                         /\ Closed(r, v, failed).table # "succeeded"
                         /\ Sound(Closed(r, v, failed))
BY ZenonT(60), SMTT(60) DEF Closed, Row, Sound

\* Sessions.
WithPc(x, pc) == [x EXCEPT !.pc = pc]
WithGrant(x, b, r) == [x EXCEPT !.pc = "commit", !.new[b] = r, !.done = {b}]
WithBatch(x, b, v, seen) == [x EXCEPT !.pc = "lock", !.cur = {b}, !.view[b] = v, !.seen = seen]
WithPass(x, todo, view, seen) ==
    [x EXCEPT !.pc = "next", !.todo = todo, !.view = view, !.seen = seen]
WithNext(x, b, todo, v) == [x EXCEPT !.pc = "lock", !.cur = {b}, !.todo = todo, !.view[b] = v]
WithSkip(x, b, todo, done, r) ==
    [x EXCEPT !.todo = todo, !.view[b] = NoRow, !.done = done, !.new[b] = r]
WithEnd(x, pc, b, done, r) ==
    [x EXCEPT !.pc = pc, !.cur = {}, !.done = done, !.view[b] = NoRow, !.new[b] = r]

LEMMA SlotFields ==
    /\ \A x \in Slot : /\ x.pc \in {"idle", "next", "lock", "revoke", "commit"}
                       /\ x.todo \subseteq Batch /\ x.cur \subseteq Batch /\ x.done \subseteq Batch
                       /\ x.seen \subseteq Batch
                       /\ x.view \in [Batch -> Row] /\ x.new \in [Batch -> Row]
    /\ Idle \in Slot /\ Idle.pc = "idle"
    /\ Idle.cur = {} /\ Idle.todo = {} /\ Idle.done = {}
BY RowFields DEF Slot, Idle

LEMMA PcSlot ==
    ASSUME NEW x \in Slot, NEW pc \in {"idle", "next", "lock", "revoke", "commit"}
    PROVE  LET y == WithPc(x, pc) IN
           /\ y \in Slot /\ y.pc = pc /\ y.todo = x.todo /\ y.cur = x.cur /\ y.done = x.done
           /\ y.view = x.view /\ y.new = x.new
BY DEF WithPc, Slot

LEMMA GrantSlot ==
    ASSUME NEW x \in Slot, NEW b \in Batch, NEW r \in Row
    PROVE  LET y == WithGrant(x, b, r) IN
           /\ y \in Slot /\ y.pc = "commit" /\ y.todo = x.todo /\ y.cur = x.cur /\ y.done = {b}
           /\ y.new[b] = r
<1> DEFINE f == [x.new EXCEPT ![b] = r]
<1>1. f \in [Batch -> Row] /\ f[b] = r
  BY SlotFields
<1>2. WithGrant(x, b, r) = [x EXCEPT !.pc = "commit", !.new = f, !.done = {b}]
  BY DEF WithGrant, Slot
<1>0. {b} \in SUBSET Batch
  OBVIOUS
<1> DEFINE c == {b}
<1> HIDE DEF f, c
<1>3. LET y == WithGrant(x, b, r) IN
        /\ y \in Slot /\ y.pc = "commit" /\ y.todo = x.todo /\ y.cur = x.cur /\ y.done = c
        /\ y.new = f
  <2>1. c \in SUBSET Batch
    BY <1>0 DEF c
  <2>2. WithGrant(x, b, r) = [x EXCEPT !.pc = "commit", !.new = f, !.done = c]
    BY <1>2 DEF c
  <2> QED
    BY <1>1, <2>1, <2>2 DEF Slot
<1> QED
  BY <1>1, <1>3 DEF c

LEMMA BatchSlot ==
    ASSUME NEW x \in Slot, NEW b \in Batch, NEW v \in Row, NEW seen \in SUBSET Batch
    PROVE  LET y == WithBatch(x, b, v, seen) IN
           /\ y \in Slot /\ y.pc = "lock" /\ y.todo = x.todo /\ y.cur = {b} /\ y.done = x.done
           /\ y.view[b] = v /\ y.new = x.new
<1> DEFINE f == [x.view EXCEPT ![b] = v]
<1>1. f \in [Batch -> Row] /\ f[b] = v
  BY SlotFields
<1>2. WithBatch(x, b, v, seen) = [x EXCEPT !.pc = "lock", !.cur = {b}, !.view = f, !.seen = seen]
  BY DEF WithBatch, Slot
<1>0. {b} \in SUBSET Batch
  OBVIOUS
<1> DEFINE c == {b}
<1> HIDE DEF f, c
<1>3. LET y == WithBatch(x, b, v, seen) IN
        /\ y \in Slot /\ y.pc = "lock" /\ y.todo = x.todo /\ y.cur = c /\ y.done = x.done
        /\ y.view = f /\ y.new = x.new
  <2>1. c \in SUBSET Batch
    BY <1>0 DEF c
  <2>2. WithBatch(x, b, v, seen) = [x EXCEPT !.pc = "lock", !.cur = c, !.view = f, !.seen = seen]
    BY <1>2 DEF c
  <2> QED
    BY <1>1, <2>1, <2>2 DEF Slot
<1> QED
  BY <1>1, <1>3 DEF c

LEMMA PassSlot ==
    ASSUME NEW x \in Slot, NEW todo \in SUBSET Batch, NEW view \in [Batch -> Row],
           NEW seen \in SUBSET Batch
    PROVE  LET y == WithPass(x, todo, view, seen) IN
           /\ y \in Slot /\ y.pc = "next" /\ y.todo = todo /\ y.cur = x.cur /\ y.done = x.done
           /\ y.new = x.new
BY DEF WithPass, Slot

LEMMA NextSlot ==
    ASSUME NEW x \in Slot, NEW b \in Batch, NEW todo \in Subs, NEW v \in Row
    PROVE  /\ WithNext(x, b, todo, v) \in Slot
           /\ WithNext(x, b, todo, v).pc = "lock"
           /\ WithNext(x, b, todo, v).todo = todo
           /\ WithNext(x, b, todo, v).cur = {b}
           /\ WithNext(x, b, todo, v).done = x.done
           /\ WithNext(x, b, todo, v).view[b] = v
           /\ WithNext(x, b, todo, v).new = x.new
<1> DEFINE f == [x.view EXCEPT ![b] = v]
<1>1. f \in [Batch -> Row] /\ f[b] = v
  BY SlotFields
<1>2. WithNext(x, b, todo, v) = [x EXCEPT !.pc = "lock", !.cur = {b}, !.todo = todo, !.view = f]
  BY DEF WithNext, Slot
<1>0. {b} \in SUBSET Batch
  OBVIOUS
<1> DEFINE c == {b}
<1> HIDE DEF f, c
<1>3. LET y == WithNext(x, b, todo, v) IN
        /\ y \in Slot /\ y.pc = "lock" /\ y.todo = todo /\ y.cur = c /\ y.done = x.done
        /\ y.view = f /\ y.new = x.new
  <2>1. c \in SUBSET Batch
    BY <1>0 DEF c
  <2>2. WithNext(x, b, todo, v) = [x EXCEPT !.pc = "lock", !.cur = c, !.todo = todo, !.view = f]
    BY <1>2 DEF c
  <2> QED
    BY <1>1, <2>1, <2>2 DEF Slot, Subs
<1> QED
  BY <1>1, <1>3 DEF c

LEMMA SkipSlot ==
    ASSUME NEW x \in Slot, NEW b \in Batch, NEW todo \in SUBSET Batch,
           NEW done \in SUBSET Batch, NEW r \in Row
    PROVE  WithSkip(x, b, todo, done, r) \in Slot /\ WithSkip(x, b, todo, done, r).cur = x.cur
<1> DEFINE f == [x.view EXCEPT ![b] = NoRow]
           g == [x.new EXCEPT ![b] = r]
<1>1. f \in [Batch -> Row] /\ g \in [Batch -> Row]
  BY SlotFields, RowFields
<1>2. WithSkip(x, b, todo, done, r) = [x EXCEPT !.todo = todo, !.view = f, !.done = done, !.new = g]
  BY DEF WithSkip, Slot
<1> HIDE DEF f, g
<1> QED
  BY <1>1, <1>2 DEF Slot

LEMMA EndSlot ==
    ASSUME NEW x \in Slot, NEW pc \in {"next", "commit"}, NEW b \in Batch,
           NEW done \in Subs, NEW r \in Row
    PROVE  /\ WithEnd(x, pc, b, done, r) \in Slot
           /\ WithEnd(x, pc, b, done, r).pc = pc
           /\ WithEnd(x, pc, b, done, r).todo = x.todo
           /\ WithEnd(x, pc, b, done, r).cur = {}
           /\ WithEnd(x, pc, b, done, r).done = done
           /\ WithEnd(x, pc, b, done, r).new = [x.new EXCEPT ![b] = r]
<1> DEFINE f == [x.view EXCEPT ![b] = NoRow]
           g == [x.new EXCEPT ![b] = r]
<1>1. f \in [Batch -> Row] /\ g \in [Batch -> Row]
  BY SlotFields, RowFields
<1>2. WithEnd(x, pc, b, done, r) =
        [x EXCEPT !.pc = pc, !.cur = {}, !.done = done, !.view = f, !.new = g]
  BY DEF WithEnd, Slot
<1> HIDE DEF f, g
<1>3. LET y == WithEnd(x, pc, b, done, r) IN
        /\ y \in Slot /\ y.pc = pc /\ y.todo = x.todo /\ y.cur = {} /\ y.done = done
        /\ y.new = g
  BY <1>1, <1>2 DEF Slot, Subs
<1> QED
  BY <1>3 DEF g

-----------------------------------------------------------------------------
(* What the steps have in common.                                          *)

LEMMA Bounds == MaxOfflines \in Nat /\ MaxEvents \in Nat /\ Scheduler \in Session
BY PrivilegeLeaseAssumption DEF Session

SessionType ==
    /\ session \in [Session -> Slot]
    /\ \A s \in Session : Cardinality(session[s].cur) <= 1
Types ==
    /\ config \in Config
    /\ priv \in {"none", "admin", "system"}
    /\ {lease, saved} \subseteq LeaseRec
    /\ lock \in {{}} \cup {{s} : s \in Session}
    /\ row \in [Batch -> Row]
    /\ SessionType
    /\ lock = {} => lease = saved
    /\ offlines \in 0 .. MaxOfflines /\ events \in 0 .. MaxEvents /\ faults \in 0 .. events
LEMMA TypeParts == (TypeOK <=> Types) /\ (TypeOK' <=> Types')
BY DEF TypeOK, Types, SessionType, Slot, LeaseRec

LEMMA FaultsGrow ==
    ASSUME TypeOK,
           \/ NoFault
           \/ Event /\ UNCHANGED faults
           \/ Fault
    PROVE  events' \in 0 .. MaxEvents /\ faults' \in 0 .. events' /\ (faults' = 0 => faults = 0 /\ ~Fault)
<1>1. events \in 0 .. MaxEvents /\ faults \in 0 .. events /\ MaxEvents \in Nat
  BY Bounds DEF TypeOK
<1> QED
  BY <1>1 DEF NoFault, Event, Fault

\* One session moves.
LEMMA Moves ==
    ASSUME TypeOK, NEW s \in Session, NEW y \in Slot, session' = [session EXCEPT ![s] = y],
           y.cur \in {{}, session[s].cur} \cup {{b} : b \in Batch}
    PROVE  /\ SessionType'
           /\ \A t \in Session : session'[t] = IF t = s THEN y ELSE session[t]
<1>1. session \in [Session -> Slot] /\ Cardinality(session[s].cur) <= 1
  BY TypeParts DEF Types, SessionType
<1>2. Cardinality(y.cur) <= 1
  <2>1. CASE y.cur = {}
    BY <2>1, FS_EmptySet
  <2>2. CASE \E b \in Batch : y.cur = {b}
    BY <2>2, FS_Singleton
  <2> QED
    BY <1>1, <2>1, <2>2
<1> QED
  BY <1>1, <1>2, TypeParts DEF Types, SessionType

\* A session that does not move keeps what it says.
LEMMA Others ==
    ASSUME TypeOK, NEW t \in Session, SessionInv(t),
           /\ session'[t].pc = session[t].pc /\ session'[t].todo = session[t].todo
           /\ session'[t].cur = session[t].cur /\ session'[t].done = session[t].done
           /\ session'[t].view = session[t].view /\ session'[t].new = session[t].new,
           lock = {t} <=> lock' = {t},
           \A b \in Batch : row[b].state # "none" =>
              /\ row'[b].state # "none"
              /\ row[b].table # "succeeded" => row'[b].table # "succeeded",
           lock = {t} =>
              /\ priv # "none" => priv' # "none"
              /\ \A b \in Batch :
                    /\ row[b].state = "none" => row'[b].state = "none"
                    /\ InForce(row'[b]) /\ ~row'[b].extended => InForce(row[b]) /\ ~row[b].extended
    PROVE  SessionInv(t)'
<1>1. session[t].todo \subseteq Batch /\ session[t].cur \subseteq Batch /\ session[t].done \subseteq Batch
  BY TypeParts, SlotFields DEF Types, SessionType
<1>2. \A b \in session'[t].todo : row'[b].state # "none"
  BY <1>1 DEF SessionInv
<1>3. \A b \in session'[t].cur : Held(t, b)'
  BY <1>1 DEF SessionInv, Held
<1>4. ASSUME NEW b \in session'[t].done
      PROVE  /\ session'[t].new[b].state # "none" /\ Sound(session'[t].new[b])
             /\ Ending(t, b)' \/ NewGrant(t, b)'
  <2>1. /\ b \in session[t].done /\ b \in Batch
        /\ session[t].new[b].state # "none" /\ Sound(session[t].new[b])
        /\ Ending(t, b) \/ NewGrant(t, b)
    BY <1>1 DEF SessionInv
  <2>2. Ending(t, b) => Ending(t, b)'
    BY <2>1 DEF Ending
  <2>3. NewGrant(t, b) => NewGrant(t, b)'
    BY <2>1 DEF NewGrant
  <2> QED
    BY <2>1, <2>2, <2>3
<1>5. /\ \A b, c \in session'[t].cur : b = c
      /\ lock' = {t} => session'[t].pc # "idle"
      /\ session'[t].pc \in {"idle", "next", "commit"} => session'[t].cur = {}
      /\ session'[t].pc = "idle" => session'[t].todo = {} /\ session'[t].done = {}
  BY DEF SessionInv
<1>6. session'[t].pc = "revoke" =>
        /\ lock' = {t}
        /\ \A o \in Batch : InForce(row'[o]) /\ ~row'[o].extended =>
              o \in session'[t].cur \cup session'[t].done
  BY DEF SessionInv
<1> QED
  BY <1>2, <1>3, <1>4, <1>5, <1>6 DEF SessionInv

\* Neither the rows nor the claims of the sessions change.
LEMMA ClaimsKept ==
    ASSUME TypeOK, CalmInv, UNCHANGED <<config, row, lock, priv, lease>>,
           \A t \in Session : session'[t].done = session[t].done /\ session'[t].new = session[t].new
    PROVE  (\A b \in Batch : Sound(row'[b])) /\ KeptInv' /\ LeftInv'
<1>1. \A b \in Batch : (Changed(b)' <=> Changed(b)) /\ (Live(b) => Live(b)')
  BY DEF Changed, Live
<1>2. config' = config /\ row' = row /\ lock' = lock /\ priv' = priv /\ lease' = lease
  OBVIOUS
<1>3. KeptInv' /\ LeftInv'
  BY <1>1, <1>2 DEF CalmInv, KeptInv, LeftInv
<1> QED
  BY <1>2, <1>3 DEF CalmInv

\* A session moves without a claim: it has no lease before or after the step,
\* or has it as before.
LEMMA MovesQuietly ==
    ASSUME TypeOK, CalmInv, NEW s \in Session, NEW y \in Slot, session' = [session EXCEPT ![s] = y],
           UNCHANGED <<config, row, lock, priv, lease>>,
           y.cur \in {{}, session[s].cur} \cup {{b} : b \in Batch},
           y.done = session[s].done, y.new = session[s].new, SessionInv(s)'
    PROVE  CalmInv'
<1>1. \A t \in Session : session'[t] = IF t = s THEN y ELSE session[t]
  BY Moves
<1>2. ASSUME NEW t \in Session PROVE SessionInv(t)'
  <2>1. CASE t = s
    BY <2>1
  <2>2. CASE t # s
    <3>1. session'[t] = session[t] /\ SessionInv(t)
      BY <1>1, <2>2 DEF CalmInv
    <3> QED
      BY <3>1, Others
  <2> QED
    BY <2>1, <2>2
<1>3. (\A b \in Batch : Sound(row'[b])) /\ KeptInv' /\ LeftInv'
  BY <1>1, ClaimsKept
<1> QED
  BY <1>2, <1>3 DEF CalmInv

-----------------------------------------------------------------------------
(* Sessions that begin: a grant, a batch to take offline, a pass.          *)

LEMMA NewSessionIn == NewSession \in Request /\ NewSession \in Session
<1> DEFINE P(s) == session[s].pc = "idle" \/ \A r \in Request : session[r].pc # "idle"
<1>1. \E s \in Request : P(s)
  BY PrivilegeLeaseAssumption
<1>2. NewSession = CHOOSE s \in Request : P(s)
  BY DEF NewSession
<1> QED
  BY <1>1, <1>2 DEF Session

LEMMA NewBatchIn == NewBatch \subseteq Batch
<1> DEFINE P(b) == row[b].state = "none" \/ \A o \in Batch : row[o].state # "none"
<1>1. \E b \in Batch : P(b)
  BY PrivilegeLeaseAssumption
<1>2. NewBatch = {CHOOSE b \in Batch : P(b)}
  BY DEF NewBatch
<1> QED
  BY <1>1, <1>2

\* The rows a grant writes, and what it says of the privilege.
LEMMA GrantRows ==
    /\ \A r \in Row : ShareLease(r) \/ OwnLease(r) => Sound(r) /\ Standing(r) /\ r.state # "none"
    /\ TypeOK => \A r : ShareLease(r) \/ OwnLease(r) \/ LeaseFails(r) =>
                     r \in Row /\ lease' \in LeaseRec /\ priv' \in {"none", "admin", "system"}
<1>1. \A r : ShareLease(r) => r = [Granted(NoRow) EXCEPT !.grant = "skipped"]
  BY DEF ShareLease
<1>2. \A r : OwnLease(r) => r = [Granted(NoRow) EXCEPT !.grant = "succeeded"]
  BY DEF OwnLease
<1>3. /\ [Granted(NoRow) EXCEPT !.grant = "skipped"] \in Row
      /\ [Granted(NoRow) EXCEPT !.grant = "succeeded"] \in Row
      /\ Refused(NoRow) \in Row
  BY DEF Granted, Refused, NoRow, Row
<1>4. \A r \in {[Granted(NoRow) EXCEPT !.grant = "skipped"],
                [Granted(NoRow) EXCEPT !.grant = "succeeded"]} :
         Sound(r) /\ Standing(r) /\ r.state # "none"
  BY DEF Granted, NoRow, Sound, Standing
<1>5. ASSUME TypeOK, NEW r, ShareLease(r) \/ OwnLease(r) \/ LeaseFails(r)
      PROVE  lease' \in LeaseRec /\ priv' \in {"none", "admin", "system"}
  <2>1. lease \in LeaseRec /\ priv \in {"none", "admin", "system"}
    BY <1>5, TypeParts DEF Types
  <2>2. Acquired \in LeaseRec
    BY <2>1 DEF Acquired, LeaseRec
  <2>3. Acquired.owner \in {"unknown", "system", "external"}
    BY <2>2 DEF LeaseRec
  <2>4. [Acquired EXCEPT !.state = "error"] \in LeaseRec
    BY <2>2 DEF LeaseRec
  <2>5. \A o \in {"unknown", "system", "external"} : [state |-> "active", owner |-> o] \in LeaseRec
    BY DEF LeaseRec
  <2>6. CASE ShareLease(r)
    BY <2>1, <2>3, <2>5, <2>6 DEF ShareLease
  <2>7. CASE OwnLease(r)
    BY <2>5, <2>7 DEF OwnLease
  <2>8. CASE LeaseFails(r)
    BY <2>1, <2>4, <2>8 DEF LeaseFails
  <2> QED
    BY <1>5, <2>6, <2>7, <2>8
<1> QED
  BY <1>1, <1>2, <1>3, <1>4, <1>5 DEF LeaseFails

LEMMA GrantStep ==
    ASSUME TypeOK, IInv, NEW s \in Session, NEW b \in Batch, GrantImport(s, b)
    PROVE  (TypeOK /\ IInv)'
<1>1. PICK r \in Row :
        /\ ShareLease(r) \/ OwnLease(r) \/ LeaseFails(r)
        /\ session' = [session EXCEPT ![s] = WithGrant(session[s], b, r)]
  BY DEF GrantImport, WithGrant
<1>2. /\ session[s].pc = "idle" /\ row[b].state = "none" /\ lock = {} /\ lock' = {s}
      /\ UNCHANGED <<config, saved, row, offlines>>
  BY DEF GrantImport
<1> DEFINE y == WithGrant(session[s], b, r)
<1>3. session[s] \in Slot
  BY TypeParts DEF Types, SessionType
<1>4. /\ y \in Slot /\ y.pc = "commit" /\ y.todo = session[s].todo /\ y.cur = session[s].cur
      /\ y.done = {b} /\ y.new[b] = r
  BY <1>3, GrantSlot
<1>5. session' = [session EXCEPT ![s] = y]
  BY <1>1
<1> HIDE DEF y
<1>6. SessionType' /\ \A t \in Session : session'[t] = IF t = s THEN y ELSE session[t]
  BY <1>4, <1>5, Moves
<1>7. TypeOK'
  <2>1. lease' \in LeaseRec /\ priv' \in {"none", "admin", "system"}
    BY <1>1, GrantRows
  <2>2. events' \in 0 .. MaxEvents /\ faults' \in 0 .. events'
    BY <1>1, FaultsGrow DEF ShareLease, OwnLease, LeaseFails
  <2>3. lock' \in {{t} : t \in Session} /\ lock' # {}
    BY <1>2
  <2> QED
    BY <1>2, <1>6, <2>1, <2>2, <2>3, TypeParts DEF Types
<1>8. ASSUME Calm' PROVE CalmInv'
  <2>1. Calm /\ CalmInv /\ ~Fault
    BY <1>1, <1>2, <1>8, FaultsGrow DEF Calm, ShareLease, OwnLease, LeaseFails, IInv
  <2>2. ShareLease(r) \/ OwnLease(r)
    BY <1>1, <2>1 DEF LeaseFails
  <2>3. Sound(r) /\ Standing(r) /\ r.state # "none" /\ r.table = "succeeded"
    BY <2>2, GrantRows DEF Standing
  <2>4. priv' # "none"
    BY <2>2 DEF ShareLease, OwnLease
  <2>5. ASSUME NEW t \in Session PROVE SessionInv(t)'
    <3>1. CASE t = s
      <4>1. session'[t] = y /\ y.todo = {} /\ y.cur = {}
        BY <1>2, <1>4, <1>6, <2>1, <3>1 DEF CalmInv, SessionInv
      <4>2. NewGrant(t, b)'
        BY <1>2, <1>4, <2>3, <2>4, <3>1, <4>1 DEF NewGrant
      <4> QED
        BY <1>4, <2>3, <4>1, <4>2 DEF SessionInv
    <3>2. CASE t # s
      <4>1. session'[t] = session[t] /\ SessionInv(t)
        BY <1>6, <2>1, <3>2 DEF CalmInv
      <4>2. lock # {t} /\ lock' # {t} /\ row' = row
        BY <1>2, <3>2
      <4> QED
        BY <4>1, <4>2, Others
    <3> QED
      BY <3>1, <3>2
  <2>6. KeptInv'
    BY <2>4 DEF KeptInv
  <2>7. LeftInv'
    <3> SUFFICES ASSUME config'.legacy = {}, priv' = "system"
                 PROVE  lease' = [state |-> "active", owner |-> "system"] /\ Live(b)'
      BY DEF LeftInv
    <3>1. Live(b)'
      BY <1>2, <1>4, <1>6, <2>3 DEF Live
    <3>2. CASE OwnLease(r)
      BY <3>1, <3>2 DEF OwnLease
    <3>3. CASE ShareLease(r)
      <4>1. priv = "system" /\ lease = [state |-> "active", owner |-> "system"]
        BY <1>2, <2>1, <3>3 DEF ShareLease, CalmInv, LeftInv
      <4>2. OwnerKept /\ Acquired.owner = "system"
        BY <4>1 DEF OwnerKept, Acquired, NoLease
      <4> QED
        BY <3>1, <3>3, <4>2 DEF ShareLease
    <3> QED
      BY <2>2, <3>2, <3>3
  <2> QED
    BY <1>2, <2>1, <2>5, <2>6, <2>7 DEF CalmInv
<1> QED
  BY <1>7, <1>8 DEF IInv

LEMMA SnapshotIn == Snapshot \in SUBSET Batch
BY DEF Snapshot

LEMMA OfflineStep ==
    ASSUME TypeOK, IInv, NEW s \in Session, NEW b \in Batch, Offline(s, b)
    PROVE  (TypeOK /\ IInv)'
<1> DEFINE y == WithBatch(session[s], b, Loaded(b), Snapshot)
<1>1. /\ session[s].pc = "idle" /\ row[b].state # "none"
      /\ session' = [session EXCEPT ![s] = y]
      /\ offlines < MaxOfflines /\ offlines' = offlines + 1
      /\ UNCHANGED <<config, priv, lease, saved, lock, row, events, faults>>
  BY DEF Offline, WithBatch
<1>2. session[s] \in Slot /\ row \in [Batch -> Row] /\ Loaded(b) \in Row
  BY TypeParts, LoadedFields DEF Types, SessionType
<1>3. /\ y \in Slot /\ y.pc = "lock" /\ y.todo = session[s].todo /\ y.cur = {b}
      /\ y.done = session[s].done /\ y.view[b] = Loaded(b) /\ y.new = session[s].new
  BY <1>2, SnapshotIn, BatchSlot
<1> HIDE DEF y
<1>4. SessionType' /\ \A t \in Session : session'[t] = IF t = s THEN y ELSE session[t]
  BY ZenonT(60), <1>1, <1>3, Moves
<1>5. offlines' \in 0 .. MaxOfflines
  BY <1>1, Bounds DEF TypeOK
<1>6. TypeOK'
  BY <1>1, <1>4, <1>5, TypeParts DEF Types
<1>7. ASSUME Calm' PROVE CalmInv'
  <2>1. Calm /\ CalmInv
    BY <1>1, <1>7 DEF Calm, IInv
  <2>2. SessionInv(s)'
    <3>1. session'[s] = y /\ y.todo = {} /\ y.done = {} /\ lock # {s}
      BY <1>1, <1>3, <1>4, <2>1 DEF CalmInv, SessionInv
    <3>2. Held(s, b)'
      BY <1>1, <1>2, <1>3, <2>1, <3>1, LoadedFields DEF Held, CalmInv
    <3> QED
      BY <1>1, <1>3, <3>1, <3>2 DEF SessionInv
  <2> QED
    BY <1>1, <1>3, <2>1, <2>2, MovesQuietly
<1> QED
  BY <1>6, <1>7 DEF IInv

\* The steps of the pass that only read.
LEMMA PassReads ==
    ASSUME TypeOK, IInv, PassBegin \/ PassDone
    PROVE  (TypeOK /\ IInv)'
<1> DEFINE s == Scheduler
           x == session[s]
<1>0. s \in Session /\ x \in Slot /\ row \in [Batch -> Row] /\ \A b \in Batch : Loaded(b) \in Row
  BY TypeParts, LoadedFields, Bounds DEF Types, SessionType
<1>1. UNCHANGED <<config, priv, lease, saved, lock, row, offlines, events, faults>>
  BY DEF PassBegin, PassDone
<1>2. \E y \in Slot :
        /\ session' = [session EXCEPT ![s] = y]
        /\ y.cur \in {{}, x.cur} \cup {{b} : b \in Batch} /\ y.done = x.done /\ y.new = x.new
        /\ Calm /\ CalmInv /\ session'[s] = y => SessionInv(s)'
  <2>1. CASE PassBegin
    <3> DEFINE view == [b \in Batch |-> IF b \in Due THEN Loaded(b) ELSE NoRow]
               y == WithPass(x, Due, view, Snapshot)
    <3>1. session' = [session EXCEPT ![s] = y] /\ x.pc = "idle"
      BY <2>1 DEF PassBegin, WithPass
    <3>2. view \in [Batch -> Row] /\ Due \in SUBSET Batch
      BY <1>0, RowFields DEF Due
    <3> HIDE DEF view
    <3>3. /\ y \in Slot /\ y.pc = "next" /\ y.todo = Due /\ y.cur = x.cur /\ y.done = x.done
          /\ y.new = x.new
      BY <1>0, <3>2, SnapshotIn, PassSlot
    <3> HIDE DEF y
    <3>4. ASSUME Calm, CalmInv, session'[s] = y PROVE SessionInv(s)'
      <4>1. y.cur = {} /\ y.done = {} /\ lock # {s}
        BY <1>0, <3>1, <3>3, <3>4 DEF CalmInv, SessionInv
      <4>2. \A b \in Due : row'[b].state # "none"
        BY <1>1 DEF Due
      <4> QED
        BY <1>1, <3>3, <3>4, <4>1, <4>2 DEF SessionInv
    <3> QED
      BY <3>1, <3>3, <3>4
  <2>2. CASE PassDone
    <3> DEFINE y == WithPc(x, "commit")
    <3>1. session' = [session EXCEPT ![s] = y] /\ x.pc = "next" /\ x.todo = {}
      BY <1>0, <2>2, TypeParts DEF PassDone, WithPc, Types, SessionType
    <3>2. /\ y \in Slot /\ y.pc = "commit" /\ y.todo = x.todo /\ y.cur = x.cur /\ y.done = x.done
          /\ y.view = x.view /\ y.new = x.new
      BY <1>0, PcSlot
    <3> HIDE DEF y
    <3>3. ASSUME Calm, CalmInv, session'[s] = y PROVE SessionInv(s)'
      <4>1. SessionInv(s) /\ y.cur = {}
        BY <1>0, <3>1, <3>2, <3>3 DEF CalmInv, SessionInv
      <4>2. ASSUME NEW b \in x.done
            PROVE  /\ y.new[b].state # "none" /\ Sound(y.new[b])
                   /\ Ending(s, b)'
        BY <1>1, <3>1, <3>2, <3>3, <4>1, <4>2 DEF SessionInv, Ending, NewGrant
      <4> QED
        BY <1>1, <3>1, <3>2, <3>3, <4>1, <4>2 DEF SessionInv
    <3> QED
      BY <3>1, <3>2, <3>3
  <2> QED
    BY <2>1, <2>2
<1>3. PICK y \in Slot :
        /\ session' = [session EXCEPT ![s] = y]
        /\ y.cur \in {{}, x.cur} \cup {{b} : b \in Batch} /\ y.done = x.done /\ y.new = x.new
        /\ Calm /\ CalmInv /\ session'[s] = y => SessionInv(s)'
  BY <1>2
<1>4. SessionType' /\ session'[s] = y
  <2>1. SessionType' /\ \A t \in Session : session'[t] = IF t = s THEN y ELSE session[t]
    BY <1>0, <1>3, Moves
  <2> QED
    BY <1>0, <2>1
<1>5. TypeOK'
  BY <1>1, <1>4, TypeParts DEF Types
<1>6. ASSUME Calm' PROVE CalmInv'
  <2>1. Calm /\ CalmInv
    BY <1>1, <1>6 DEF Calm, IInv
  <2> QED
    BY <1>0, <1>1, <1>3, <1>4, <2>1, MovesQuietly
<1> QED
  BY <1>5, <1>6 DEF IInv

\* The next batch of the pass.
LEMMA BatchStep ==
    ASSUME TypeOK, IInv, NEW b \in Batch, PassBatch(b)
    PROVE  (TypeOK /\ IInv)'
<1> DEFINE s == Scheduler
           w == IF config.repeatable THEN session[s].view[b] ELSE Loaded(b)
           todo == session[s].todo \ {b}
           y == WithNext(session[s], b, todo, w)
<1>1. /\ session[s].pc = "next" /\ b \in session[s].todo
      /\ session' = [session EXCEPT ![s] = y]
      /\ UNCHANGED <<config, priv, lease, saved, lock, row, offlines, events, faults>>
  BY DEF PassBatch, WithNext
<1>2. s \in Session /\ session[s] \in Slot /\ row \in [Batch -> Row] /\ Loaded(b) \in Row
  BY TypeParts, LoadedFields, Bounds DEF Types, SessionType
<1>3. w \in Row /\ todo \in Subs /\ (Calm => w = Loaded(b))
  BY <1>2, SlotFields DEF Calm, Subs
<1>4. todo \subseteq session[s].todo
  OBVIOUS
<1> HIDE DEF w, todo
<1>5. /\ y \in Slot /\ y.pc = "lock" /\ y.todo = todo /\ y.cur = {b}
      /\ y.done = session[s].done /\ y.view[b] = w /\ y.new = session[s].new
  BY <1>2, <1>3, NextSlot
<1> HIDE DEF y
<1>6. SessionType' /\ \A t \in Session : session'[t] = IF t = s THEN y ELSE session[t]
  <2>1. y.cur \in {{}, session[s].cur} \cup {{c} : c \in Batch}
    BY <1>5
  <2>2. session' = [session EXCEPT ![s] = y]
    BY <1>1
  <2> QED
    BY <1>2, <1>5, <2>1, <2>2, Moves
<1>7. TypeOK'
  BY <1>1, <1>6, TypeParts DEF Types
<1>8. ASSUME Calm' PROVE CalmInv'
  <2>1. Calm /\ CalmInv
    BY <1>1, <1>8 DEF Calm, IInv
  <2>2. SessionInv(s) /\ session'[s] = y
    BY <1>2, <1>6, <2>1 DEF CalmInv
  <2>3. SessionInv(s)'
    <3>1. Held(s, b)'
      <4>1. row[b].state # "none" /\ Sound(row[b]) /\ w = Loaded(b)
        BY <1>1, <1>3, <2>1, <2>2 DEF SessionInv, CalmInv
      <4>2. Sound(w) /\ w.table = row[b].table
        BY <1>2, <4>1, LoadedFields
      <4> QED
        BY <1>1, <1>5, <2>2, <4>1, <4>2 DEF Held
    <3>2. ASSUME NEW o \in session[s].done
          PROVE  /\ y.new[o].state # "none" /\ Sound(y.new[o])
                 /\ Ending(s, o)'
      BY <1>1, <1>5, <2>2, <3>2 DEF SessionInv, Ending, NewGrant
    <3> QED
      BY <1>1, <1>4, <1>5, <2>2, <3>1, <3>2 DEF SessionInv
  <2> QED
    BY <1>1, <1>2, <1>5, <1>6, <2>1, <2>3, MovesQuietly
<1> QED
  BY <1>7, <1>8 DEF IInv

LEMMA PassSkips ==
    ASSUME TypeOK, IInv, NEW b \in Batch, PassNoProfile(b)
    PROVE  (TypeOK /\ IInv)'
<1> DEFINE s == Scheduler
           x == session[s]
           r == [x.view[b] EXCEPT !.state = "failed"]
           y == WithSkip(x, b, x.todo \ {b}, x.done \cup {b}, r)
<1>1. /\ session' = [session EXCEPT ![s] = y] /\ Fault
      /\ UNCHANGED <<config, priv, lease, saved, lock, row, offlines>>
  BY DEF PassNoProfile, WithSkip
<1>2. s \in Session /\ x \in Slot
  BY TypeParts, Bounds DEF Types, SessionType
<1>3. r \in Row /\ x.todo \ {b} \in SUBSET Batch /\ x.done \cup {b} \in SUBSET Batch
  <2>1. x.view[b] \in Row /\ x.todo \subseteq Batch /\ x.done \subseteq Batch
    BY <1>2, SlotFields
  <2>2. r \in Row
    BY <2>1 DEF Row
  <2> QED
    BY <2>1, <2>2
<1> HIDE DEF r
<1>4. y \in Slot /\ y.cur = x.cur
  BY <1>2, <1>3, SkipSlot
<1> HIDE DEF y
<1>5. SessionType'
  BY <1>1, <1>2, <1>4, Moves
<1>6. events' \in 0 .. MaxEvents /\ faults' \in 0 .. events' /\ ~Calm'
  BY <1>1, FaultsGrow DEF Calm
<1> QED
  BY <1>1, <1>5, <1>6, TypeParts DEF Types, IInv

-----------------------------------------------------------------------------
(* Time, extensions and the administrator.                                 *)

Prolonged(r) ==
    [r EXCEPT !.due = FALSE, !.extended = TRUE,
              !.state = IF r.state = "offlined" THEN "succeeded" ELSE r.state,
              !.off = IF r.state = "offlined" THEN FALSE ELSE r.off]
LEMMA ProlongedFields ==
    \A r \in Row :
        /\ Prolonged(r) \in Row /\ Prolonged(r).table = r.table /\ Prolonged(r).extended
        /\ r.state # "none" => Prolonged(r).state # "none"
        /\ Sound(r) /\ r.state # "none" => Sound(Prolonged(r))
<1> SUFFICES ASSUME NEW r \in Row
             PROVE  /\ Prolonged(r) \in Row /\ Prolonged(r).table = r.table /\ Prolonged(r).extended
                    /\ r.state # "none" => Prolonged(r).state # "none"
                    /\ Sound(r) /\ r.state # "none" => Sound(Prolonged(r))
  OBVIOUS
<1>1. /\ r.state = "offlined" =>
            Prolonged(r) = [r EXCEPT !.due = FALSE, !.extended = TRUE, !.state = "succeeded",
                                     !.off = FALSE]
      /\ r.state # "offlined" =>
            Prolonged(r) = [r EXCEPT !.due = FALSE, !.extended = TRUE, !.state = r.state,
                                     !.off = r.off]
  BY DEF Prolonged
<1>2. CASE r.state = "offlined"
  BY <1>1, <1>2 DEF Row, Sound
<1>3. CASE r.state # "offlined"
  BY <1>1, <1>3 DEF Row, Sound
<1> QED
  BY <1>2, <1>3

Late(r) == [r EXCEPT !.due = TRUE]
LEMMA LateFields ==
    \A r \in Row :
        /\ Late(r) \in Row /\ Late(r).table = r.table /\ ~InForce(Late(r))
        /\ Late(r).state = r.state
        /\ Sound(r) => Sound(Late(r))
BY DEF Late, Row, Sound, InForce

\* A batch is prolonged or late: what the sessions say of it stays true.
LEMMA RowMoves ==
    ASSUME TypeOK, CalmInv, NEW b \in Batch, NEW r \in Row, row[b].state # "none",
           row' = [row EXCEPT ![b] = r], UNCHANGED <<config, lock, priv, lease>>,
           r.state # "none", r.table = row[b].table, Sound(r), ~(InForce(r) /\ ~r.extended),
           \A t \in Session :
              /\ session'[t].pc = session[t].pc /\ session'[t].todo = session[t].todo
              /\ session'[t].cur = session[t].cur /\ session'[t].done = session[t].done
              /\ session'[t].view = session[t].view /\ session'[t].new = session[t].new
    PROVE  CalmInv'
<1>1. \A o \in Batch : row'[o] = IF o = b THEN r ELSE row[o]
  BY TypeParts DEF Types
<1>2. config' = config /\ lock' = lock /\ priv' = priv /\ lease' = lease
  OBVIOUS
<1>3. ASSUME NEW t \in Session PROVE SessionInv(t)'
  <2>1. SessionInv(t)
    BY DEF CalmInv
  <2> QED
    BY <1>1, <1>2, <2>1, Others
<1>4. \A o \in Batch : Sound(row'[o])
  BY <1>1 DEF CalmInv
<1>5. \A o \in Batch : (Changed(o)' <=> Changed(o)) /\ (Live(o) => Live(o)')
  BY <1>1, <1>2 DEF Changed, Live
<1>6. KeptInv' /\ LeftInv'
  BY <1>1, <1>2, <1>5 DEF CalmInv, KeptInv, LeftInv
<1> QED
  BY <1>3, <1>4, <1>6 DEF CalmInv

LEMMA ExtendStep ==
    ASSUME TypeOK, IInv, NEW b \in Batch, Extend(b)
    PROVE  (TypeOK /\ IInv)'
<1> DEFINE r == Prolonged(row[b])
<1>1. /\ row[b].state # "none" /\ Event /\ row' = [row EXCEPT ![b] = r]
      /\ UNCHANGED <<config, priv, lease, saved, lock, session, offlines, faults>>
  BY DEF Extend, Prolonged
<1>2. row \in [Batch -> Row] /\ row[b] \in Row
  BY TypeParts DEF Types
<1>3. /\ r \in Row /\ r.table = row[b].table /\ r.extended /\ r.state # "none"
      /\ Sound(row[b]) => Sound(r)
  BY <1>1, <1>2, ProlongedFields
<1> HIDE DEF r
<1>4. row' \in [Batch -> Row] /\ events' \in 0 .. MaxEvents /\ faults' \in 0 .. events'
  BY <1>1, <1>2, <1>3, FaultsGrow
<1>5. TypeOK'
  BY <1>1, <1>4, TypeParts DEF Types, SessionType
<1>6. ASSUME Calm' PROVE CalmInv'
  <2>1. CalmInv
    BY <1>1, <1>6 DEF Calm, IInv
  <2>2. Sound(r)
    BY <1>3, <2>1 DEF CalmInv
  <2> QED
    BY <1>1, <1>3, <2>1, <2>2, RowMoves
<1> QED
  BY <1>5, <1>6 DEF IInv

LEMMA ExpireStep ==
    ASSUME TypeOK, IInv, NEW b \in Batch, Expire(b)
    PROVE  (TypeOK /\ IInv)'
<1> DEFINE r == Late(row[b])
           Seen(x) == [x EXCEPT !.seen = x.seen \ {b}]
<1>1. /\ row[b].state # "none"
      /\ session' = [s \in Session |-> IF session[s].pc = "idle" THEN session[s] ELSE Seen(session[s])]
      /\ UNCHANGED <<config, priv, lease, saved, lock, offlines, events, faults>>
  BY DEF Expire
<1>2. row \in [Batch -> Row] /\ row[b] \in Row /\ session \in [Session -> Slot]
  BY TypeParts DEF Types, SessionType
<1>3. row' = [row EXCEPT ![b] = r]
  BY <1>2 DEF Expire, Late
<1>4. /\ r \in Row /\ r.table = row[b].table /\ ~InForce(r) /\ r.state = row[b].state
      /\ Sound(row[b]) => Sound(r)
  BY <1>2, LateFields
<1> HIDE DEF r
<1>5. \A x \in Slot : /\ Seen(x) \in Slot /\ Seen(x).pc = x.pc /\ Seen(x).todo = x.todo
                     /\ Seen(x).cur = x.cur /\ Seen(x).done = x.done
                     /\ Seen(x).view = x.view /\ Seen(x).new = x.new
  BY DEF Slot
<1> HIDE DEF Seen
<1>6. /\ session' \in [Session -> Slot]
      /\ \A t \in Session :
            /\ session'[t].pc = session[t].pc /\ session'[t].todo = session[t].todo
            /\ session'[t].cur = session[t].cur /\ session'[t].done = session[t].done
            /\ session'[t].view = session[t].view /\ session'[t].new = session[t].new
  BY <1>1, <1>2, <1>5
<1>7. TypeOK'
  <2>1. SessionType'
    BY <1>6, TypeParts DEF Types, SessionType
  <2>2. row' \in [Batch -> Row]
    BY <1>2, <1>3, <1>4
  <2> QED
    BY <1>1, <2>1, <2>2, TypeParts DEF Types
<1>8. ASSUME Calm' PROVE CalmInv'
  <2>1. CalmInv
    BY <1>1, <1>8 DEF Calm, IInv
  <2>2. Sound(r)
    BY <1>4, <2>1 DEF CalmInv
  <2>3. UNCHANGED <<config, lock, priv, lease>>
    BY <1>1
  <2> QED
    BY <1>1, <1>3, <1>4, <1>6, <2>1, <2>2, <2>3, RowMoves
<1> QED
  BY <1>7, <1>8 DEF IInv

LEMMA AdminStep ==
    ASSUME TypeOK, IInv, AdminGrant
    PROVE  (TypeOK /\ IInv)'
<1>1. /\ priv' = "admin" /\ Event
      /\ UNCHANGED <<config, lease, saved, lock, row, session, offlines, faults>>
  BY DEF AdminGrant
<1>2. events' \in 0 .. MaxEvents /\ faults' \in 0 .. events'
  BY <1>1, FaultsGrow
<1>3. TypeOK'
  BY <1>1, <1>2, TypeParts DEF Types, SessionType
<1>4. ASSUME Calm' PROVE CalmInv'
  <2>1. CalmInv
    BY <1>1, <1>4 DEF Calm, IInv
  <2>2. ASSUME NEW t \in Session PROVE SessionInv(t)'
    <3>1. SessionInv(t) /\ session' = session /\ row' = row /\ lock' = lock
      BY <1>1, <2>1 DEF CalmInv
    <3> QED
      BY <1>1, <3>1, Others
  <2> QED
    BY <1>1, <2>1, <2>2 DEF CalmInv, KeptInv, LeftInv
<1> QED
  BY <1>3, <1>4 DEF IInv

-----------------------------------------------------------------------------
(* The end of a batch.                                                     *)

\* What the session is after it.
RevokeStates == {"none", "pending", "skipped", "succeeded", "failed"}
EndedAs(s, b, v, failed) ==
    /\ SessionType'
    /\ \A t \in Session : t # s => session'[t] = session[t]
    /\ session'[s].pc \in {"next", "commit"}
    /\ session'[s].todo = session[s].todo /\ session'[s].cur = {}
    /\ session'[s].done = session[s].done \cup {b}
    /\ session'[s].new[b] = Closed(session[s].view[b], v, failed)
    /\ \A o \in Batch : o # b => session'[s].new[o] = session[s].new[o]

LEMMA EndsFields ==
    ASSUME TypeOK, NEW s \in Session, NEW b \in Batch, NEW failed \in BOOLEAN,
           NEW v \in RevokeStates, Ended(s, b, v, failed)
    PROVE  EndedAs(s, b, v, failed)
<1> DEFINE pc == IF s = Scheduler THEN "next" ELSE "commit"
           done == session[s].done \cup {b}
           r == Closed(session[s].view[b], v, failed)
           y == WithEnd(session[s], pc, b, done, r)
<1>1. session' = [session EXCEPT ![s] = y]
  BY DEF Ended, WithEnd, Closed
<1>2. session[s] \in Slot
  BY TypeParts DEF Types, SessionType
<1>3. session[s].view[b] \in Row /\ session[s].done \subseteq Batch /\ session[s].new \in [Batch -> Row]
  BY <1>2, SlotFields
<1>4. pc \in {"next", "commit"} /\ done \in Subs /\ r \in Row
  BY <1>3, ClosedFields DEF Subs, RevokeStates
<1> HIDE DEF pc, done, r
<1>5. /\ y \in Slot /\ y.pc = pc /\ y.todo = session[s].todo /\ y.cur = {} /\ y.done = done
      /\ y.new = [session[s].new EXCEPT ![b] = r]
  BY <1>2, <1>4, EndSlot
<1> HIDE DEF y
<1>6. SessionType' /\ \A t \in Session : session'[t] = IF t = s THEN y ELSE session[t]
  BY <1>1, <1>5, Moves
<1> QED
  BY <1>3, <1>4, <1>5, <1>6 DEF done, r, EndedAs

\* A session that has a batch in hand has granted nothing.
LEMMA InHand ==
    ASSUME CalmInv, NEW s \in Session, session[s].pc \in {"lock", "revoke"},
           NEW b \in session[s].done
    PROVE  /\ Ending(s, b) /\ session[s].new[b].state # "none" /\ Sound(session[s].new[b])
           /\ session[s].new[b].table # "succeeded"
<1>1. SessionInv(s)
  BY DEF CalmInv
<1> QED
  BY <1>1 DEF SessionInv, NewGrant, Ending

\* The session that ends a batch and the others keep what they say.
LEMMA Closes ==
    ASSUME TypeOK, CalmInv, NEW s \in Session, NEW b \in session[s].cur, b \in Batch,
           NEW v \in RevokeStates, Ended(s, b, v, FALSE), session[s].pc \in {"lock", "revoke"}, row' = row,
           lock' = lock \/ (lock \in {{}, {s}} /\ lock' = {s}),
           lock' # {s} => row[b].table # "succeeded",
           priv' = priv \/ lock = {s}
    PROVE  /\ \A t \in Session : SessionInv(t)'
           /\ session'[s].new[b].table # "succeeded"
<1>1. /\ \A t \in Session : t # s => session'[t] = session[t]
      /\ session'[s].pc \in {"next", "commit"}
      /\ session'[s].todo = session[s].todo /\ session'[s].cur = {}
      /\ session'[s].done = session[s].done \cup {b}
      /\ session'[s].new[b] = Closed(session[s].view[b], v, FALSE)
      /\ \A o \in Batch : o # b => session'[s].new[o] = session[s].new[o]
  <2>1. EndedAs(s, b, v, FALSE)
    BY EndsFields
  <2> QED
    BY <2>1 DEF EndedAs
<1>2. session[s].view[b] \in Row /\ session[s].done \subseteq Batch
  BY TypeParts, SlotFields DEF Types, SessionType
<1>3. /\ session'[s].new[b].state # "none" /\ session'[s].new[b].table # "succeeded"
      /\ Sound(session'[s].new[b])
  BY ZenonT(60), <1>1, <1>2, ClosedFields DEF RevokeStates
<1>4. SessionInv(s)
  BY DEF CalmInv
<1>5. ASSUME NEW o \in session'[s].done
      PROVE  /\ session'[s].new[o].state # "none" /\ Sound(session'[s].new[o])
             /\ Ending(s, o)'
  <2>1. CASE o = b
    <3>1. row[b].state # "none"
      BY <1>4 DEF SessionInv, Held
    <3> QED
      BY <1>3, <2>1, <3>1 DEF Ending
  <2>2. CASE o # b
    <3>1. o \in session[s].done /\ o \in Batch
      BY <1>1, <1>2, <2>2
    <3>2. /\ Ending(s, o) /\ session[s].new[o].state # "none" /\ Sound(session[s].new[o])
      BY <3>1, InHand
    <3> QED
      BY <1>1, <2>2, <3>1, <3>2 DEF Ending
  <2> QED
    BY <2>1, <2>2
<1>6. SessionInv(s)'
  BY <1>1, <1>4, <1>5 DEF SessionInv
<1>7. ASSUME NEW t \in Session, t # s PROVE SessionInv(t)'
  <2>1. session'[t] = session[t] /\ SessionInv(t) /\ (lock = {t} <=> lock' = {t})
    BY <1>1, <1>7 DEF CalmInv
  <2>2. lock = {t} => priv' = priv
    BY <1>7
  <2> QED
    BY <2>1, <2>2, Others
<1> QED
  BY <1>3, <1>6, <1>7

LEMMA NothingStep ==
    ASSUME TypeOK, IInv, NEW s \in Session, NothingToRevoke(s)
    PROVE  (TypeOK /\ IInv)'
<1>1. PICK b \in session[s].cur :
        /\ session[s].pc = "lock" /\ ~Revocable(session[s].view[b])
        /\ Ended(s, b, session[s].view[b].revoke, FALSE)
        /\ UNCHANGED <<config, priv, lease, saved, lock, row, offlines, events, faults>>
  BY DEF NothingToRevoke
<1> DEFINE v == session[s].view[b].revoke
<1>2. b \in Batch /\ v \in RevokeStates
  <2>1. session[s].cur \subseteq Batch /\ session[s].view \in [Batch -> Row]
    BY TypeParts, SlotFields DEF Types, SessionType
  <2>2. session[s].view[b] \in Row
    BY <2>1
  <2> QED
    BY <2>1, <2>2, RowFields DEF RevokeStates
<1>3. Ended(s, b, v, FALSE)
  BY <1>1
<1> HIDE DEF v
<1>4. /\ SessionType'
      /\ \A t \in Session : t # s => session'[t] = session[t]
      /\ session'[s].done = session[s].done \cup {b}
      /\ \A o \in Batch : o # b => session'[s].new[o] = session[s].new[o]
  <2>1. EndedAs(s, b, v, FALSE)
    BY <1>2, <1>3, EndsFields
  <2> QED
    BY <2>1 DEF EndedAs
<1>5. TypeOK'
  BY <1>1, <1>4, TypeParts DEF Types
<1>6. ASSUME Calm' PROVE CalmInv'
  <2>1. Calm /\ CalmInv /\ SessionInv(s)
    BY <1>1, <1>6 DEF Calm, IInv, CalmInv
  <2>2. row[b].table # "succeeded"
    <3>1. Held(s, b)
      BY <1>1, <2>1 DEF SessionInv
    <3> QED
      BY <1>1, <3>1 DEF Held, Sound, Revocable
  <2>3. \A t \in Session : SessionInv(t)'
    BY <1>1, <1>2, <1>3, <2>1, <2>2, Closes
  <2>4. \A o \in Batch : Changed(o) => Changed(o)'
    BY <1>1, <1>4 DEF Changed
  <2>5. ASSUME NEW o \in Batch, Live(o) PROVE Live(o)'
    <3>1. CASE o = b
      <4>1. PICK t \in Session : /\ lock = {t} /\ b \in session[t].done
                                 /\ session[t].new[b].table = "succeeded"
        BY <2>2, <2>5, <3>1 DEF Live
      <4>2. t # s
        BY <1>1, <2>1, <4>1, InHand
      <4> QED
        BY <1>1, <1>4, <3>1, <4>1, <4>2 DEF Live
    <3>2. CASE o # b
      <4>1. Changed(o)' <=> Changed(o)
        BY <1>1, <1>4, <3>2 DEF Changed
      <4> QED
        BY <1>1, <1>4, <2>5, <3>2, <4>1 DEF Live
    <3> QED
      BY <3>1, <3>2
  <2>6. config' = config /\ row' = row /\ priv' = priv /\ lease' = lease
    BY <1>1
  <2>7. KeptInv' /\ LeftInv'
    BY <2>1, <2>4, <2>5, <2>6 DEF CalmInv, KeptInv, LeftInv
  <2> QED
    BY <2>1, <2>3, <2>6, <2>7 DEF CalmInv
<1> QED
  BY <1>5, <1>6 DEF IInv

-----------------------------------------------------------------------------
(* The lease: locked and planned, revoked.                                 *)

\* The lease the session works on.
Planned == IF lease = NoLease THEN [state |-> "active", owner |-> "unknown"] ELSE lease

\* The privilege is shared: the lease is left to the batches that count.
LEMMA SkipStep ==
    ASSUME TypeOK, IInv, NEW s \in Session, NEW b \in session[s].cur,
           session[s].pc = "lock", Free(s), lock' = {s}, lease' = Planned,
           ~MustRevoke(s, b, Planned), Ended(s, b, "skipped", FALSE),
           UNCHANGED <<config, priv, saved, row, offlines, events, faults>>
    PROVE  (TypeOK /\ IInv)'
<1>1. /\ b \in Batch /\ session[s].done \subseteq Batch /\ row \in [Batch -> Row]
      /\ session[s].new \in [Batch -> Row]
  BY TypeParts, SlotFields DEF Types, SessionType
<1>2. /\ SessionType'
      /\ \A t \in Session : t # s => session'[t] = session[t]
      /\ session'[s].done = session[s].done \cup {b}
  <2>1. "skipped" \in RevokeStates /\ EndedAs(s, b, "skipped", FALSE)
    BY <1>1, EndsFields DEF RevokeStates
  <2> QED
    BY <2>1 DEF EndedAs
<1>3. TypeOK'
  <2>1. lease' \in LeaseRec
    BY TypeParts DEF Types, Planned, LeaseRec
  <2>2. lock' \in {{t} : t \in Session} /\ lock' # {}
    OBVIOUS
  <2> QED
    BY <1>2, <2>1, <2>2, TypeParts DEF Types
<1>4. ASSUME Calm' PROVE CalmInv'
  <2>1. Calm /\ CalmInv
    BY <1>4 DEF Calm, IInv
  <2>2. \A t \in Session : SessionInv(t)'
    BY <1>1, <2>1, Closes DEF Free, RevokeStates
  <2>3. \A o \in Batch : Changed(o) => Changed(o)'
    BY <1>2 DEF Changed, Free
  <2>4. KeptInv'
    <3>1. row' = row /\ priv' = priv
      OBVIOUS
    <3> QED
      BY <2>1, <2>3, <3>1 DEF CalmInv, KeptInv
  <2>5. LeftInv'
    <3> SUFFICES ASSUME config'.legacy = {}, priv' = "system"
                 PROVE  /\ lease' = [state |-> "active", owner |-> "system"]
                        /\ \E o \in Batch : Live(o)'
      BY DEF LeftInv
    <3>1. lease = [state |-> "active", owner |-> "system"]
      BY <2>1 DEF CalmInv, LeftInv
    <3>2. Planned = lease
      BY <3>1 DEF Planned, NoLease
    <3>3. PICK o \in Counted(s) : o # b
      BY <3>1, <3>2 DEF MustRevoke, References
    <3>4. o \in Batch /\ o \notin session[s].done /\ row[o].table = "succeeded"
      <4>1. CASE o \in session[s].done
        <5>1. session[s].new[o].table = "succeeded"
          BY <3>3, <4>1 DEF Counted, Counts
        <5> QED
          BY <2>1, <4>1, <5>1, InHand
      <4>2. CASE o \notin session[s].done
        BY <2>1, <3>3, <4>2 DEF Counted, Counts, Calm
      <4> QED
        BY <4>1, <4>2
    <3>5. ~Changed(o)'
      BY <1>2, <3>3, <3>4 DEF Changed
    <3>6. Live(o)'
      BY <3>4, <3>5 DEF Live
    <3> QED
      BY <3>1, <3>2, <3>4, <3>6
  <2>6. \A o \in Batch : Sound(row'[o])
    BY <2>1 DEF CalmInv
  <2> QED
    BY <2>2, <2>4, <2>5, <2>6 DEF CalmInv
<1> QED
  BY <1>3, <1>4 DEF IInv

\* Nobody else counts: the session goes on to the REVOKE.
LEMMA PlanStep ==
    ASSUME TypeOK, IInv, NEW s \in Session, NEW b \in session[s].cur,
           session[s].pc = "lock", Free(s), lock' = {s}, lease' = Planned,
           MustRevoke(s, b, Planned), session' = [session EXCEPT ![s].pc = "revoke"],
           UNCHANGED <<config, priv, saved, row, offlines, events, faults>>
    PROVE  (TypeOK /\ IInv)'
<1> DEFINE y == WithPc(session[s], "revoke")
<1>1. session[s] \in Slot /\ session' = [session EXCEPT ![s] = y]
  BY TypeParts DEF Types, SessionType, WithPc
<1>2. /\ y \in Slot /\ y.pc = "revoke" /\ y.todo = session[s].todo /\ y.cur = session[s].cur
      /\ y.done = session[s].done /\ y.view = session[s].view /\ y.new = session[s].new
  BY <1>1, PcSlot
<1> HIDE DEF y
<1>3. SessionType' /\ \A t \in Session : session'[t] = IF t = s THEN y ELSE session[t]
  BY <1>1, <1>2, Moves
<1>4. TypeOK'
  <2>1. lease' \in LeaseRec
    BY TypeParts DEF Types, Planned, LeaseRec
  <2>2. lock' \in {{t} : t \in Session} /\ lock' # {}
    OBVIOUS
  <2> QED
    BY <1>3, <2>1, <2>2, TypeParts DEF Types
<1>5. ASSUME Calm' PROVE CalmInv'
  <2>1. Calm /\ CalmInv /\ SessionInv(s)
    BY <1>5 DEF Calm, IInv, CalmInv
  <2>2. session'[s] = y /\ \A t \in Session : session'[t].done = session[t].done /\ session'[t].new = session[t].new
    BY <1>2, <1>3
  <2>3. \A o \in Batch : Changed(o) => Changed(o)'
    BY <2>2 DEF Changed, Free
  <2>4. \A o \in Batch : Live(o) => Live(o)'
    <3> SUFFICES ASSUME NEW o \in Batch, Live(o) PROVE Live(o)'
      OBVIOUS
    <3>1. CASE lock = {s}
      BY <2>2, <3>1 DEF Live, Changed
    <3>2. CASE lock = {}
      <4>1. row[o].table = "succeeded"
        BY <3>2 DEF Live
      <4>2. o \notin session[s].done
        BY <2>1, <3>2, <4>1, InHand DEF Ending
      <4>3. ~Changed(o)'
        BY <2>2, <4>2 DEF Changed
      <4> QED
        BY <4>1, <4>3 DEF Live
    <3> QED
      BY <3>1, <3>2 DEF Free
  <2>5. \A o \in Batch : InForce(row[o]) => o \in session[s].cur \cup session[s].done
    <3> SUFFICES ASSUME NEW o \in Batch, InForce(row[o]), o \notin session[s].done PROVE o = b
      OBVIOUS
    <3>1. Sound(row[o])
      BY <2>1 DEF CalmInv
    <3>2. Counts(row[o])
      BY <3>1 DEF Counts, InForce, Sound
    <3>3. o \in Counted(s)
      BY <2>1, <3>2 DEF Counted, Calm
    <3> QED
      BY <3>3 DEF MustRevoke, References
  <2>6. ASSUME NEW o \in y.done
        PROVE  y.new[o].state # "none" /\ Sound(y.new[o]) /\ Ending(s, o)'
    BY <1>2, <2>1, <2>2, <2>6, InHand DEF Ending
  <2>7. SessionInv(s)'
    BY <1>2, <2>1, <2>2, <2>5, <2>6 DEF SessionInv, Held
  <2>8. ASSUME NEW t \in Session, t # s PROVE SessionInv(t)'
    <3>1. session'[t] = session[t] /\ SessionInv(t) /\ lock # {t} /\ lock' # {t} /\ row' = row
      BY <1>3, <2>1, <2>8 DEF CalmInv, Free
    <3> QED
      BY <3>1, Others
  <2>9. KeptInv'
    <3>1. row' = row /\ priv' = priv
      OBVIOUS
    <3> QED
      BY <2>1, <2>3, <3>1 DEF CalmInv, KeptInv
  <2>10. LeftInv'
    <3> SUFFICES ASSUME config'.legacy = {}, priv' = "system"
                 PROVE  /\ lease' = [state |-> "active", owner |-> "system"]
                        /\ \E o \in Batch : Live(o)'
      BY DEF LeftInv
    <3>1. lease = [state |-> "active", owner |-> "system"] /\ \E o \in Batch : Live(o)
      BY <2>1 DEF CalmInv, LeftInv
    <3> QED
      BY <2>4, <3>1 DEF Planned, NoLease
  <2>11. \A o \in Batch : Sound(row'[o])
    BY <2>1 DEF CalmInv
  <2> QED
    BY <2>7, <2>8, <2>9, <2>10, <2>11 DEF CalmInv
<1> QED
  BY <1>4, <1>5 DEF IInv

LEMMA LockStep ==
    ASSUME TypeOK, IInv, NEW s \in Session, LockLease(s)
    PROVE  (TypeOK /\ IInv)'
<1>1. PICK b \in session[s].cur :
        /\ session[s].pc = "lock" /\ Free(s) /\ lock' = {s} /\ lease' = Planned
        /\ IF MustRevoke(s, b, Planned)
           THEN session' = [session EXCEPT ![s].pc = "revoke"]
           ELSE Ended(s, b, "skipped", FALSE)
        /\ UNCHANGED <<config, priv, saved, row, offlines, events, faults>>
  BY DEF LockLease, Planned
<1>2. CASE MustRevoke(s, b, Planned)
  BY <1>1, <1>2, PlanStep
<1>3. CASE ~MustRevoke(s, b, Planned)
  BY <1>1, <1>3, SkipStep
<1> QED
  BY <1>2, <1>3

LEMMA RevokeStep ==
    ASSUME TypeOK, IInv, Holds, NEW s \in Session, Revoke(s)
    PROVE  (TypeOK /\ IInv)'
<1>1. PICK b \in session[s].cur :
        /\ session[s].pc = "revoke"
        /\ priv' = "none" /\ lease' = [lease EXCEPT !.state = "revoked"]
        /\ Ended(s, b, "succeeded", FALSE)
        /\ UNCHANGED <<config, saved, lock, row, offlines, events, faults>>
  BY DEF Revoke
<1>2. b \in Batch
  BY TypeParts, SlotFields DEF Types, SessionType
<1>3. SessionType' /\ session'[s].done = session[s].done \cup {b}
  <2>1. EndedAs(s, b, "succeeded", FALSE)
    BY <1>1, <1>2, EndsFields DEF RevokeStates
  <2> QED
    BY <2>1 DEF EndedAs
<1>4. ASSUME Calm' PROVE CalmInv'
  <2>1. Calm /\ CalmInv /\ SessionInv(s)
    BY <1>1, <1>4 DEF Calm, IInv, CalmInv
  <2>2. lock = {s} /\ \A c \in session[s].cur : c = b
    BY <1>1, <2>1 DEF SessionInv
  <2>3. \A t \in Session : SessionInv(t)'
    BY <1>1, <1>2, <2>1, <2>2, Closes DEF RevokeStates
  <2>4. \A o \in Batch : InForce(row[o]) /\ ~row[o].extended => Changed(o)'
    BY <1>1, <1>3, <2>1, <2>2 DEF SessionInv, Changed
  <2>5. KeptInv' /\ LeftInv'
    BY <1>1, <2>4 DEF KeptInv, LeftInv
  <2>6. \A o \in Batch : Sound(row'[o])
    BY <1>1, <2>1 DEF CalmInv
  <2> QED
    BY <2>3, <2>5, <2>6 DEF CalmInv
<1>5. TypeOK'
  <2>1. lease' \in LeaseRec /\ saved' \in LeaseRec
    BY <1>1, TypeParts DEF Types, LeaseRec
  <2>2. lock' = {s}
    BY <1>1 DEF Holds
  <2> QED
    BY <1>1, <1>3, <2>1, <2>2, TypeParts DEF Types
<1> QED
  BY <1>4, <1>5 DEF IInv

\* The steps that fail: no promise is left but the types.
LEMMA FailStep ==
    ASSUME TypeOK, IInv, Holds, NEW s \in Session, RevokeFails(s) \/ Abort(s)
    PROVE  (TypeOK /\ IInv)'
<1>1. Fault
  BY DEF RevokeFails, Abort
<1>2. events' \in 0 .. MaxEvents /\ faults' \in 0 .. events' /\ ~Calm'
  BY <1>1, FaultsGrow DEF Calm
<1>3. CASE RevokeFails(s)
  <2>1. PICK b \in session[s].cur :
          /\ session[s].pc = "revoke"
          /\ priv' \in {"none", priv} /\ lease' = [lease EXCEPT !.state = "error"]
          /\ Ended(s, b, "failed", TRUE)
          /\ UNCHANGED <<config, saved, lock, row, offlines>>
    BY <1>3 DEF RevokeFails
  <2>2. b \in Batch
    BY TypeParts, SlotFields DEF Types, SessionType
  <2>3. SessionType'
    BY <2>1, <2>2, EndsFields DEF RevokeStates, EndedAs
  <2>4. lease' \in LeaseRec /\ lock' = {s}
    BY <2>1, TypeParts DEF Types, LeaseRec, Holds
  <2>5. TypeOK'
    BY <1>2, <2>1, <2>3, <2>4, TypeParts DEF Types
  <2> QED
    BY <1>2, <2>5 DEF IInv
<1>4. CASE Abort(s)
  <2>1. /\ lease' = IF lock = {s} THEN saved ELSE lease
        /\ lock' = lock \ {s} /\ session' = [session EXCEPT ![s] = Idle]
        /\ UNCHANGED <<config, priv, saved, row, offlines>>
    BY <1>4 DEF Abort, Unlock
  <2>2. SessionType'
    BY <2>1, SlotFields, Moves
  <2>3. lock' \in {{}} \cup {{t} : t \in Session} /\ (lock' = {} => lock \in {{}, {s}})
    BY <2>1, TypeParts DEF Types
  <2>4. TypeOK'
    BY <1>2, <2>1, <2>2, <2>3, TypeParts DEF Types
  <2> QED
    BY <1>2, <2>4 DEF IInv
<1> QED
  BY <1>3, <1>4

-----------------------------------------------------------------------------
(* Commits.                                                                *)

LEMMA CommitStep ==
    ASSUME TypeOK, IInv, NEW s \in Session, Commit(s)
    PROVE  (TypeOK /\ IInv)'
<1> DEFINE x == session[s]
<1>1. /\ x.pc = "commit"
      /\ row' = [b \in Batch |-> IF b \in x.done THEN Merged(row[b], x.new[b]) ELSE row[b]]
      /\ saved' = IF lock = {s} THEN lease ELSE saved
      /\ lock' = lock \ {s} /\ session' = [session EXCEPT ![s] = Idle]
      /\ UNCHANGED <<config, priv, lease, offlines, events, faults>>
  BY DEF Commit, Unlock
<1>2. x.done \subseteq Batch /\ \A b \in Batch : row[b] \in Row /\ x.new[b] \in Row
  BY TypeParts, SlotFields DEF Types, SessionType
<1> HIDE DEF x
<1>3. SessionType' /\ \A t \in Session : session'[t] = IF t = s THEN Idle ELSE session[t]
  BY <1>1, SlotFields, Moves
<1>4. /\ lock' \in {{}} \cup {{t} : t \in Session}
      /\ lock \in {{}} \cup {{t} : t \in Session}
      /\ lock' = {} => lock \in {{}, {s}}
  BY <1>1, TypeParts DEF Types
<1>5. \A b \in x.done :
         /\ row'[b] \in Row /\ row'[b].state = x.new[b].state /\ row'[b].table = x.new[b].table
         /\ Sound(x.new[b]) => Sound(row'[b])
         /\ InForce(row'[b]) => Standing(x.new[b])
  BY <1>1, <1>2, MergedFields
<1>6. \A b \in Batch : b \notin x.done => row'[b] = row[b]
  BY <1>1
<1>7. TypeOK'
  <2>1. row' \in [Batch -> Row]
    BY <1>1, <1>2, MergedFields
  <2>2. saved' \in LeaseRec /\ (lock' = {} => lease' = saved')
    BY <1>1, <1>4, TypeParts DEF Types
  <2> QED
    BY <1>1, <1>3, <1>4, <2>1, <2>2, TypeParts DEF Types
<1>8. ASSUME Calm' PROVE CalmInv'
  <2>1. Calm /\ CalmInv /\ SessionInv(s)
    BY <1>1, <1>8 DEF Calm, IInv, CalmInv
  <2>2. \A b \in x.done :
           /\ x.new[b].state # "none" /\ Sound(x.new[b])
           /\ Ending(s, b) \/ NewGrant(s, b)
    BY <2>1 DEF SessionInv, x
  <2>3. \A b \in x.done : Ending(s, b) =>
           row[b].state # "none" /\ row'[b].table # "succeeded" /\ ~InForce(row'[b])
    BY <1>5 DEF Ending, InForce, x
  <2>4. \A b \in x.done : NewGrant(s, b) => row[b].state = "none" /\ lock = {s} /\ priv # "none"
    BY DEF NewGrant
  <2>5. ASSUME NEW t \in Session PROVE SessionInv(t)'
    <3>1. CASE t = s
      <4>1. session'[t] = Idle /\ lock' # {t}
        BY <1>1, <1>3, <3>1
      <4> QED
        BY <4>1, SlotFields DEF SessionInv
    <3>2. CASE t # s
      <4>1. session'[t] = session[t] /\ SessionInv(t) /\ (lock = {t} <=> lock' = {t})
        BY <1>1, <1>3, <1>4, <2>1, <3>2 DEF CalmInv
      <4>2. \A b \in Batch : row[b].state # "none" =>
               /\ row'[b].state # "none"
               /\ row[b].table # "succeeded" => row'[b].table # "succeeded"
        BY <1>5, <1>6, <2>2, <2>3, <2>4
      <4>3. lock = {t} =>
               /\ priv # "none" => priv' # "none"
               /\ \A b \in Batch :
                     /\ row[b].state = "none" => row'[b].state = "none"
                     /\ InForce(row'[b]) /\ ~row'[b].extended => InForce(row[b]) /\ ~row[b].extended
        BY <1>1, <1>6, <2>2, <2>3, <2>4, <3>2
      <4> QED
        BY <4>1, <4>2, <4>3, Others
    <3> QED
      BY <3>1, <3>2
  <2>6. \A b \in Batch : Sound(row'[b])
    BY <1>5, <1>6, <2>1, <2>2 DEF CalmInv
  <2>7. KeptInv'
    <3> SUFFICES ASSUME NEW b \in Batch, InForce(row'[b]), ~row'[b].extended
                 PROVE  priv' # "none" \/ Changed(b)'
      BY DEF KeptInv
    <3>1. CASE b \in x.done
      BY <1>1, <2>2, <2>3, <2>4, <3>1
    <3>2. CASE b \notin x.done
      <4>1. priv # "none" \/ Changed(b)
        BY <1>6, <2>1, <3>2 DEF CalmInv, KeptInv
      <4>2. Changed(b) => Changed(b)'
        BY <1>1, <1>3, <3>2 DEF Changed, x
      <4> QED
        BY <1>1, <4>1, <4>2
    <3> QED
      BY <3>1, <3>2
  <2>8. \A b \in Batch : Live(b) => Live(b)'
    <3> SUFFICES ASSUME NEW b \in Batch, Live(b) PROVE Live(b)'
      OBVIOUS
    <3>1. CASE b \in x.done /\ lock = {s}
      <4>1. x.new[b].table = "succeeded" /\ lock' = {}
        BY <1>1, <3>1 DEF Live, Changed, x
      <4> QED
        BY <1>5, <3>1, <4>1 DEF Live, Changed
    <3>2. CASE b \in x.done /\ lock # {s}
      <4>1. row[b].table # "succeeded"
        BY <2>2, <2>4, <3>2 DEF Ending
      <4>2. PICK t \in Session : /\ lock = {t} /\ b \in session[t].done
                                 /\ session[t].new[b].table = "succeeded"
        BY <4>1 DEF Live
      <4>3. t # s /\ lock' = {t} /\ session'[t] = session[t]
        BY <1>1, <1>3, <3>2, <4>2
      <4> QED
        BY <4>2, <4>3 DEF Live
    <3>3. CASE b \notin x.done
      <4>1. row'[b] = row[b]
        BY <1>6, <3>3
      <4>2. CASE Changed(b)
        <5>1. PICK t \in Session : /\ lock = {t} /\ b \in session[t].done
                                   /\ session[t].new[b].table = "succeeded"
          BY <4>2 DEF Live
        <5>2. t # s /\ lock' = {t} /\ session'[t] = session[t]
          BY <1>1, <1>3, <3>3, <5>1 DEF x
        <5> QED
          BY <5>1, <5>2 DEF Live
      <4>3. CASE ~Changed(b)
        <5>1. row[b].table = "succeeded"
          BY <4>3 DEF Live, Changed
        <5>2. ~Changed(b)'
          <6>1. ASSUME NEW t \in Session, lock' = {t}, b \in session'[t].done PROVE FALSE
            <7>1. t # s /\ lock = {t}
              BY <1>1, <1>4, <6>1
            <7> QED
              BY <1>3, <4>3, <6>1, <7>1 DEF Changed
          <6> QED
            BY <6>1 DEF Changed
        <5> QED
          BY <4>1, <5>1, <5>2 DEF Live
      <4> QED
        BY <4>2, <4>3
    <3> QED
      BY <3>1, <3>2, <3>3
  <2>9. LeftInv'
    <3>1. config' = config /\ priv' = priv /\ lease' = lease
      BY <1>1
    <3> QED
      BY <2>1, <2>8, <3>1 DEF CalmInv, LeftInv
  <2> QED
    BY <2>5, <2>6, <2>7, <2>9 DEF CalmInv
<1> QED
  BY <1>7, <1>8 DEF IInv

-----------------------------------------------------------------------------
(* The lease is held until the REVOKE is over.                             *)

\* One session moves and the leases of the others are left to them.
LEMMA HoldsMoves ==
    ASSUME TypeOK, Holds, NEW s \in Session,
           \A t \in Session : t # s => session'[t] = session[t],
           session'[s].pc = "revoke" => lock' = {s},
           \A t \in Session : t # s /\ lock = {t} => lock' = {t}
    PROVE  Holds'
BY DEF Holds

LEMMA HoldsStep ==
    ASSUME TypeOK, Holds, [Next]_vars
    PROVE  Holds'
<1>1. session \in [Session -> Slot] /\ Scheduler \in Session
  BY TypeParts, Bounds DEF Types, SessionType
<1>2. CASE PassBegin
  <2>1. /\ \A t \in Session : t # Scheduler => session'[t] = session[t]
        /\ session'[Scheduler].pc = "next" /\ lock' = lock
    BY <1>1, <1>2 DEF PassBegin, Slot
  <2> QED
    BY <1>1, <2>1, HoldsMoves
<1>3. CASE PassDone
  <2>1. /\ \A t \in Session : t # Scheduler => session'[t] = session[t]
        /\ session'[Scheduler].pc = "commit" /\ lock' = lock
    BY <1>1, <1>3 DEF PassDone, Slot
  <2> QED
    BY <1>1, <2>1, HoldsMoves
<1>4. ASSUME NEW b \in Batch, PassBatch(b) PROVE Holds'
  <2>1. /\ \A t \in Session : t # Scheduler => session'[t] = session[t]
        /\ session'[Scheduler].pc = "lock" /\ lock' = lock
    BY <1>1, <1>4 DEF PassBatch, Slot
  <2> QED
    BY <1>1, <2>1, HoldsMoves
<1>5. ASSUME NEW b \in Batch, PassNoProfile(b) PROVE Holds'
  <2>1. /\ \A t \in Session : t # Scheduler => session'[t] = session[t]
        /\ session'[Scheduler].pc = "next" /\ lock' = lock
    BY <1>1, <1>5 DEF PassNoProfile, Slot
  <2> QED
    BY <1>1, <2>1, HoldsMoves
<1>6. ASSUME NEW s \in Session, NEW b \in Batch, GrantImport(s, b) PROVE Holds'
  <2>1. /\ \A t \in Session : t # s => session'[t] = session[t]
        /\ session'[s].pc = "commit" /\ lock = {}
    BY <1>1, <1>6 DEF GrantImport, Slot
  <2> QED
    BY <2>1, HoldsMoves
<1>7. ASSUME NEW s \in Session, NEW b \in Batch, Offline(s, b) PROVE Holds'
  <2>1. /\ \A t \in Session : t # s => session'[t] = session[t]
        /\ session'[s].pc = "lock" /\ lock' = lock
    BY <1>1, <1>7 DEF Offline, Slot
  <2> QED
    BY <2>1, HoldsMoves
<1>8. ASSUME NEW s \in Session, NEW b \in session[s].cur, NEW failed \in BOOLEAN,
             NEW v \in RevokeStates,
             Ended(s, b, v, failed), lock' = lock \/ Free(s)
      PROVE  Holds'
  <2>1. b \in Batch
    BY <1>1, SlotFields
  <2>2. /\ \A t \in Session : t # s => session'[t] = session[t]
        /\ session'[s].pc \in {"next", "commit"}
    <3>1. EndedAs(s, b, v, failed)
      BY <1>8, <2>1, EndsFields
    <3> QED
      BY <3>1 DEF EndedAs
  <2>3. \A t \in Session : t # s /\ lock = {t} => lock' = {t}
    BY <1>8 DEF Free
  <2> QED
    BY <2>2, <2>3, HoldsMoves
<1>9. ASSUME NEW s \in Session, NothingToRevoke(s) PROVE Holds'
  <2>1. PICK b \in session[s].cur :
          lock' = lock /\ Ended(s, b, session[s].view[b].revoke, FALSE)
    BY <1>9 DEF NothingToRevoke
  <2>2. session[s].view[b] \in Row
    BY <1>1, SlotFields
  <2>3. session[s].view[b].revoke \in RevokeStates
    BY <2>2, RowFields DEF RevokeStates
  <2> QED
    BY <1>8, <2>1, <2>3
<1>10. ASSUME NEW s \in Session, LockLease(s) PROVE Holds'
  <2>1. PICK b \in session[s].cur :
          /\ Free(s) /\ lock' = {s}
          /\ \/ session' = [session EXCEPT ![s].pc = "revoke"]
             \/ Ended(s, b, "skipped", FALSE)
    BY <1>10 DEF LockLease
  <2>2. CASE session' = [session EXCEPT ![s].pc = "revoke"]
    BY <1>1, <2>1, <2>2, HoldsMoves DEF Free
  <2>3. CASE Ended(s, b, "skipped", FALSE)
    BY <1>8, <2>1, <2>3 DEF RevokeStates
  <2> QED
    BY <2>1, <2>2, <2>3
<1>11. ASSUME NEW s \in Session, Revoke(s) \/ RevokeFails(s) PROVE Holds'
  <2>1. \E b \in session[s].cur :
          lock' = lock /\ (Ended(s, b, "succeeded", FALSE) \/ Ended(s, b, "failed", TRUE))
    BY <1>11 DEF Revoke, RevokeFails
  <2> QED
    BY <1>8, <2>1 DEF RevokeStates
<1>12. ASSUME NEW s \in Session, Commit(s) \/ Abort(s) PROVE Holds'
  <2>1. lock' = lock \ {s} /\ session' = [session EXCEPT ![s] = Idle]
    BY <1>12 DEF Commit, Abort, Unlock
  <2>2. /\ \A t \in Session : t # s => session'[t] = session[t]
        /\ session'[s].pc = "idle"
    BY <1>1, <2>1, SlotFields
  <2>3. \A t \in Session : t # s /\ lock = {t} => lock' = {t}
    BY <2>1
  <2> QED
    BY <2>2, <2>3, HoldsMoves
<1>13. ASSUME NEW b \in Batch, Expire(b) PROVE Holds'
  <2>1. lock' = lock /\ \A s \in Session : session'[s].pc = session[s].pc
    BY <1>1, <1>13 DEF Expire, Slot
  <2> QED
    BY <2>1 DEF Holds
<1>14. CASE (\E b \in Batch : Extend(b)) \/ AdminGrant \/ UNCHANGED vars
  <2>1. lock' = lock /\ session' = session
    BY <1>14 DEF Extend, AdminGrant, vars
  <2> QED
    BY <2>1 DEF Holds
<1> QED
  BY <1>2, <1>3, <1>4, <1>5, <1>6, <1>7, <1>9, <1>10, <1>11, <1>12, <1>13, <1>14, NewSessionIn,
     NewBatchIn DEF Next, Pass, Revoking

-----------------------------------------------------------------------------
(* The theorems.                                                           *)

LEMMA InitInv ==
    ASSUME Init
    PROVE  TypeOK /\ IInv /\ Holds
<1>1. /\ config \in Config
      /\ priv = IF config.exists THEN "admin" ELSE IF config.legacy # {} THEN "system" ELSE "none"
      /\ lease = NoLease /\ saved = NoLease /\ lock = {}
      /\ row = [b \in Batch |-> IF b \in config.legacy THEN OldRow ELSE NoRow]
      /\ session = [s \in Session |-> Idle]
      /\ offlines = 0 /\ events = 0 /\ faults = 0
  BY DEF Init
<1>2. TypeOK
  <2>1. row \in [Batch -> Row]
    BY <1>1, RowFields
  <2>2. NoLease \in LeaseRec
    BY DEF NoLease, LeaseRec
  <2>3. SessionType
    <3>1. \A s \in Session : session[s] = Idle
      BY <1>1
    <3>2. Cardinality({}) <= 1
      BY FS_EmptySet
    <3>3. \A s \in Session : session[s].cur = {}
      BY <3>1, SlotFields
    <3>4. \A s \in Session : Cardinality(session[s].cur) <= 1
      BY <3>2, <3>3
    <3>5. session \in [Session -> Slot]
      BY <1>1, SlotFields
    <3> QED
      BY <3>4, <3>5 DEF SessionType
  <2>4. offlines \in 0 .. MaxOfflines /\ events \in 0 .. MaxEvents /\ faults \in 0 .. events
    BY <1>1, Bounds
  <2> QED
    BY <1>1, <2>1, <2>2, <2>3, <2>4, TypeParts DEF Types
<1>3. CalmInv
  <2>1. \A b \in Batch : row[b] \in {OldRow, NoRow} /\ Sound(row[b])
    BY <1>1, RowFields
  <2>2. ASSUME NEW s \in Session PROVE SessionInv(s)
    <3>1. session[s] = Idle
      BY <1>1
    <3> QED
      BY <1>1, <3>1, SlotFields DEF SessionInv
  <2>3. KeptInv
    <3> SUFFICES ASSUME NEW b \in Batch, InForce(row[b]) PROVE priv # "none"
      BY DEF KeptInv
    <3>1. b \in config.legacy
      BY <1>1, RowFields DEF InForce
    <3> QED
      BY <1>1, <3>1
  <2>4. LeftInv
    BY <1>1 DEF LeftInv
  <2> QED
    BY <2>1, <2>2, <2>3, <2>4 DEF CalmInv
<1>4. Holds
  BY <1>1, SlotFields DEF Holds
<1> QED
  BY <1>2, <1>3, <1>4 DEF IInv

LEMMA Stutters ==
    ASSUME TypeOK, IInv, UNCHANGED vars
    PROVE  (TypeOK /\ IInv)'
<1>1. TypeOK'
  BY TypeParts DEF vars, Types, SessionType
<1>2. ASSUME Calm' PROVE CalmInv'
  <2>1. CalmInv /\ UNCHANGED <<config, row, lock, priv, lease, session>>
    BY <1>2 DEF IInv, Calm, vars
  <2>2. ASSUME NEW t \in Session PROVE SessionInv(t)'
    <3>1. SessionInv(t) /\ session' = session /\ row' = row /\ lock' = lock /\ priv' = priv
      BY <2>1 DEF CalmInv
    <3> QED
      BY <3>1, Others
  <2> QED
    BY <2>1, <2>2, ClaimsKept DEF CalmInv
<1> QED
  BY <1>1, <1>2 DEF IInv

LEMMA StepInv ==
    ASSUME TypeOK, IInv, Holds, [Next]_vars
    PROVE  (TypeOK /\ IInv)'
<1>1. CASE Pass
  BY <1>1, PassReads, BatchStep, PassSkips DEF Pass
<1>2. ASSUME NEW s \in Session, Revoking(s) \/ Commit(s) \/ Abort(s) PROVE (TypeOK /\ IInv)'
  BY <1>2, NothingStep, LockStep, RevokeStep, FailStep, CommitStep DEF Revoking
<1>3. CASE \E b \in NewBatch : GrantImport(NewSession, b)
  BY <1>3, NewSessionIn, NewBatchIn, GrantStep
<1>4. CASE \E b \in Batch : Offline(NewSession, b)
  BY <1>4, NewSessionIn, OfflineStep
<1>5. CASE \E b \in Batch : Extend(b) \/ Expire(b)
  BY <1>5, ExtendStep, ExpireStep
<1>6. CASE AdminGrant
  BY <1>6, AdminStep
<1>7. CASE UNCHANGED vars
  BY <1>7, Stutters
<1> QED
  BY <1>1, <1>2, <1>3, <1>4, <1>5, <1>6, <1>7 DEF Next

\* The inductive invariant: the types, who holds the lease while it revokes,
\* and, without failures under read committed isolation, what rows, sessions
\* and the lease say of one another.
THEOREM Inductive == Spec => [](TypeOK /\ IInv /\ Holds)
<1>1. Init => TypeOK /\ IInv /\ Holds
  BY InitInv
<1>2. TypeOK /\ IInv /\ Holds /\ [Next]_vars => (TypeOK /\ IInv /\ Holds)'
  BY StepInv, HoldsStep
<1> QED
  BY <1>1, <1>2, PTL DEF Spec

\* Sessions, rows and the lease keep their types, and the lease that nobody
\* has locked is the one committed.
THEOREM TypeCorrect == Spec => []TypeOK
BY Inductive, PTL

\* A session revokes only with the lease in its hands, whatever fails.
THEOREM RevokesUnderLock == Spec => []Holds
BY Inductive, PTL

\* The privilege is there while a batch needs it and is not left behind when
\* the last one has ended (offline_grant_batch, _offline_expired_batches).
THEOREM Followed == Spec => []LeaseFollowed
<1>1. TypeOK /\ IInv => LeaseFollowed
  <2> SUFFICES ASSUME TypeOK, IInv PROVE KeptWhileNeeded /\ NothingLeft
    BY DEF LeaseFollowed
  <2>1. KeptWhileNeeded
    <3> SUFFICES ASSUME Calm, lock = {}, NEW b \in Batch, InForce(row[b]), ~row[b].extended
                 PROVE  priv # "none"
      BY DEF KeptWhileNeeded, Calm
    <3>1. ~Changed(b)
      BY DEF Changed
    <3> QED
      BY <3>1 DEF IInv, CalmInv, KeptInv
  <2>2. NothingLeft
    <3> SUFFICES ASSUME Calm, config.legacy = {}, Quiet, priv = "system"
                 PROVE  \E b \in Batch : row[b].state \in {"succeeded", "partial"} /\ Revocable(row[b])
      BY DEF NothingLeft, Calm
    <3>1. \A s \in Session : lock # {s}
      BY DEF IInv, CalmInv, SessionInv, Quiet
    <3>2. PICK b \in Batch : Live(b)
      BY DEF IInv, CalmInv, LeftInv
    <3>3. row[b].table = "succeeded" /\ Sound(row[b])
      BY <3>1, <3>2 DEF Live, IInv, CalmInv
    <3> QED
      BY <3>3 DEF Sound, Revocable
  <2> QED
    BY <2>1, <2>2
<1> QED
  BY <1>1, Inductive, PTL

-----------------------------------------------------------------------------
(***************************************************************************)
(* ApprovalRun.  A run works an application off step by step, so what it   *)
(* has in hand was done up to its step; a watching run that takes one from *)
(* the beginning has found no import on record, and who records one behind *)
(* its back is a run it has met, or a test.                                *)
(***************************************************************************)
Apps == SUBSET Approval!Flow
Hand == Approval!Flow \cup {Approval!NoFlow}
Stage == {Approval!Prepare} \cup Approval!Step
Place == {"idle", "checked", "login", "flow", "call", "log"}
SlotType ==
    [pc : Place, kind : {"none", "watch", "full"}, left : Apps, took : Apps, cur : Hand, step : Stage,
     good : Nat, bad : Nat, met : BOOLEAN,
     state : {"none", "running", "success", "failed", "partial_failed"}]

\* A run is going on; it has an application in hand.
Going(x) == x.pc \notin {"idle", "checked"}
AtFlow(x) == x.pc \in {"call", "log"}

\* What is counted, what is in hand and what is left are different applications.
WithinFlows(x) == x.good + x.bad + Cardinality(x.left) + (IF AtFlow(x) THEN 1 ELSE 0) <= Flows

Placed(x) ==
    /\ x.left \subseteq x.took
    /\ AtFlow(x) => x.cur \in x.took /\ x.cur \notin x.left
    /\ ~AtFlow(x) => x.cur = Approval!NoFlow
    /\ x.pc = "log" => x.step # Approval!Prepare
    /\ x.pc = "login" => x.good = 0 /\ x.bad = 0 /\ x.left = {}
    /\ Going(x) => x.state = "running"

\* What a run says of the application it has in hand, where e has taken effect, l
\* is logged and t was tested; and of those it took.
Earned(x, e, l, t) ==
    AtFlow(x) =>
        /\ x.cur \notin t => \A i \in Approval!Step : i < x.step => i \in e[x.cur]
        /\ x.pc = "log" => x.step \in e[x.cur]
        /\ x.kind = "watch" /\ x.step <= Approval!Import /\ Approval!Import \in l[x.cur] =>
              x.met \/ x.cur \in t
Complete(x, e) ==
    Update =>
        /\ Going(x) /\ x.bad = 0 =>
              \A f \in x.took : f \in x.left \/ f = x.cur \/ Approval!Status \in e[f]
        /\ x.state = "success" => \A f \in x.took : Approval!Status \in e[f]
SlotOk(x, e, l, t) == WithinFlows(x) /\ Placed(x) /\ Earned(x, e, l, t) /\ Complete(x, e)

\* What the log says of an application was done; unless it was tested, in order.
Logged(f, e, l, t) ==
    /\ l[f] \subseteq e[f]
    /\ f \notin t =>
          /\ Approval!Import \in l[f] => \A i \in Approval!Step : i <= Approval!Import => i \in e[f]
          /\ Approval!Status \in e[f] => e[f] = Approval!Step

ApprovalTypes ==
    /\ slot \in [Approval!Slot -> SlotType]
    /\ effect \in [Approval!Flow -> SUBSET Approval!Step]
    /\ log \in [Approval!Flow -> SUBSET Approval!Step]
    /\ tested \subseteq Approval!Flow /\ stuck \in BOOLEAN
    /\ manual \in 0 .. MaxManual /\ tests \in 0 .. MaxTests /\ failures \in 0 .. MaxFaults

\* Two runs that are going on have met.
AllMet == \A s, o \in Approval!Slot : s # o /\ Going(slot[s]) /\ Going(slot[o]) => slot[s].met

ApprovalInv ==
    /\ ApprovalTypes
    /\ \A s \in Approval!Slot : SlotOk(slot[s], effect, log, tested)
    /\ AllMet
    /\ \A f \in Approval!Flow : Logged(f, effect, log, tested)

-----------------------------------------------------------------------------
(* Applications and steps. *)

LEMMA FlowFacts ==
    /\ Flows \in Nat /\ Approval!Flow = 1 .. Flows /\ Approval!NoFlow = 0 /\ Approval!NoFlow \notin Approval!Flow
    /\ Approval!Prepare = 0 /\ Approval!Import = 4 /\ Approval!Status = 5 /\ Approval!Step = 1 .. 5
BY AuthorizationAssumption
   DEF Approval!ApprovalRunAssumption, Approval!Flow, Approval!NoFlow, Approval!Prepare,
       Approval!Import, Approval!Status, Approval!Step

LEMMA FlowSets ==
    ASSUME NEW S \in SUBSET Approval!Flow
    PROVE  /\ IsFiniteSet(S) /\ Cardinality(S) \in 0 .. Flows
           /\ \A f \in S : Cardinality(S \ {f}) = Cardinality(S) - 1
<1>1. IsFiniteSet(1 .. Flows) /\ Cardinality(1 .. Flows) = Flows
  BY FlowFacts, FS_Interval
<1>2. IsFiniteSet(S) /\ Cardinality(S) <= Cardinality(1 .. Flows)
  BY <1>1, FlowFacts, FS_Subset
<1>3. Cardinality(S) \in Nat
  BY <1>2, FS_CardinalityType
<1>4. \A f \in S : Cardinality(S \ {f}) = Cardinality(S) - 1
  BY <1>2, FS_RemoveElement
<1> QED
  BY <1>1, <1>2, <1>3, <1>4, FlowFacts

\* What a slot may hold, and its fields.
LEMMA RunFields ==
    /\ \A f \in Approval!Flow : f \in Hand
    /\ Approval!NoFlow \in Hand /\ Hand \ {Approval!NoFlow} = Approval!Flow
    /\ Stage = 0 .. 5
    /\ \A S : S \in Apps <=> S \subseteq Approval!Flow
    /\ \A S \in Apps : \A f : S \ {f} \in Apps
    /\ {} \in Apps
    /\ \A x \in SlotType :
          /\ x.pc \in Place /\ x.left \in Apps /\ x.took \in Apps /\ x.cur \in Hand /\ x.step \in Stage
          /\ x.good \in Nat /\ x.bad \in Nat
<1>1. \A x \in SlotType :
          /\ x.pc \in Place /\ x.left \in Apps /\ x.took \in Apps /\ x.cur \in Hand /\ x.step \in Stage
          /\ x.good \in Nat /\ x.bad \in Nat
  BY DEF SlotType
<1>2. Stage = 0 .. 5
  BY FlowFacts DEF Stage
<1>3. /\ \A f \in Approval!Flow : f \in Hand
      /\ Approval!NoFlow \in Hand /\ Hand \ {Approval!NoFlow} = Approval!Flow
  BY FlowFacts DEF Hand
<1>4. \A S : S \in Apps <=> S \subseteq Approval!Flow
  BY DEF Apps
<1>5. \A S \in Apps : \A f : S \ {f} \in Apps
  BY DEF Apps
<1> QED
  BY <1>1, <1>2, <1>3, <1>4, <1>5

LEMMA FirstInHand ==
    ASSUME NEW S \in SUBSET Approval!Flow, S # {}
    PROVE  Approval!Next1(S) \in S
<1>1. PICK R : IsWellFoundedOn(R, Nat) /\ \A x, y \in Nat : y < x => <<y, x>> \in R
  <2> DEFINE Q == OpToRel(<, Nat)
  <2>1. IsWellFoundedOn(Q, Nat)
    BY NatLessThanWellFounded
  <2>2. \A x, y \in Nat : y < x => <<y, x>> \in Q
    BY DEF OpToRel
  <2> HIDE DEF Q
  <2> QED
    BY <2>1, <2>2
<1>2. S \subseteq Nat
  BY FlowFacts
<1>3. PICK x \in S : \A y \in S : ~(<<y, x>> \in R)
  BY <1>1, <1>2, WFMin
<1>4. \A y \in S : x <= y
  <2> SUFFICES ASSUME NEW y \in S PROVE x <= y
    OBVIOUS
  <2>1. x \in Nat /\ y \in Nat /\ ~(y < x)
    BY <1>1, <1>2, <1>3
  <2> QED
    BY <2>1
<1> QED
  BY <1>4 DEF Approval!Next1

LEMMA IdleFields ==
    /\ Approval!Idle \in SlotType
    /\ Approval!Idle.pc = "idle" /\ Approval!Idle.left = {} /\ Approval!Idle.took = {}
    /\ Approval!Idle.cur = Approval!NoFlow /\ Approval!Idle.good = 0 /\ Approval!Idle.bad = 0
    /\ Approval!Idle.state = "none"
BY FlowFacts, RunFields DEF Approval!Idle, SlotType, Place

LEMMA IdleSlot ==
    ASSUME NEW e, NEW l, NEW t
    PROVE  ~Going(Approval!Idle) /\ SlotOk(Approval!Idle, e, l, t)
<1>1. Cardinality({}) = 0
  BY FS_EmptySet
<1>2. WithinFlows(Approval!Idle)
  BY <1>1, IdleFields, FlowFacts DEF WithinFlows, AtFlow
<1> QED
  BY <1>2, IdleFields DEF SlotOk, Placed, Earned, Complete, Going, AtFlow

-----------------------------------------------------------------------------
(* Steps of one run. *)

\* Nothing that was done, logged or tested is taken back.
Grows ==
    /\ effect' \in [Approval!Flow -> SUBSET Approval!Step] /\ log' \in [Approval!Flow -> SUBSET Approval!Step]
    /\ tested \subseteq tested' /\ tested' \subseteq Approval!Flow
    /\ \A f \in Approval!Flow : effect[f] \subseteq effect'[f] /\ log[f] \subseteq log'[f]

\* A run that does nothing keeps what it says, if it has met whoever logs.
LEMMA Watches ==
    ASSUME Grows, NEW x \in SlotType, SlotOk(x, effect, log, tested),
           \A f \in Approval!Flow : Approval!Import \in log'[f] =>
               Approval!Import \in log[f] \/ f \in tested' \/ (AtFlow(x) /\ x.cur = f => x.met)
    PROVE  SlotOk(x, effect', log', tested')
<1>1. x.took \subseteq Approval!Flow
  BY RunFields
<1>2. AtFlow(x) => x.cur \in Approval!Flow
  BY <1>1 DEF SlotOk, Placed
<1>3. Earned(x, effect', log', tested')
  BY <1>2 DEF SlotOk, Earned, Grows
<1>4. Complete(x, effect')
  BY <1>1 DEF SlotOk, Complete, Grows
<1> QED
  BY <1>3, <1>4 DEF SlotOk

\* One run goes on, and nobody begins.
LEMMA OneRun ==
    ASSUME ApprovalInv, NEW s \in Approval!Slot, NEW y \in SlotType,
           slot' = [slot EXCEPT ![s] = y], Grows, stuck' \in BOOLEAN,
           manual' \in 0 .. MaxManual, tests' \in 0 .. MaxTests, failures' \in 0 .. MaxFaults,
           Going(y) => Going(slot[s]) /\ y.met = slot[s].met,
           SlotOk(y, effect', log', tested'),
           \A f \in Approval!Flow : Approval!Import \in log'[f] =>
               Approval!Import \in log[f] \/ f \in tested' \/ Going(slot[s]),
           \A f \in Approval!Flow : Logged(f, effect', log', tested')
    PROVE  ApprovalInv'
<1>1. slot' \in [Approval!Slot -> SlotType] /\ slot'[s] = y
      /\ \A o \in Approval!Slot \ {s} : slot'[o] = slot[o]
  BY DEF ApprovalInv, ApprovalTypes
<1>2. ApprovalTypes'
  BY <1>1 DEF ApprovalTypes, Grows
<1>3. ASSUME NEW o \in Approval!Slot PROVE SlotOk(slot'[o], effect', log', tested')
  <2>1. CASE o = s
    BY <1>1, <2>1
  <2>2. CASE o # s
    <3>1. slot'[o] = slot[o] /\ slot[o] \in SlotType /\ SlotOk(slot[o], effect, log, tested)
      BY <1>1, <2>2 DEF ApprovalInv, ApprovalTypes
    <3>2. Going(slot[s]) /\ AtFlow(slot[o]) => slot[o].met
      BY <2>2 DEF ApprovalInv, AllMet, Going, AtFlow
    <3> HIDE DEF SlotOk
    <3> QED
      BY <3>1, <3>2, Watches
  <2> QED
    BY <2>1, <2>2
<1>4. AllMet'
  BY <1>1 DEF ApprovalInv, AllMet, Going
<1> QED
  BY <1>2, <1>3, <1>4 DEF ApprovalInv

LEMMA OneRunReads ==
    ASSUME ApprovalInv, NEW s \in Approval!Slot, NEW y \in SlotType,
           slot' = [slot EXCEPT ![s] = y], UNCHANGED <<effect, log, tested>>, stuck' \in BOOLEAN,
           manual' \in 0 .. MaxManual, tests' \in 0 .. MaxTests, failures' \in 0 .. MaxFaults,
           Going(y) => Going(slot[s]) /\ y.met = slot[s].met,
           SlotOk(y, effect, log, tested)
    PROVE  ApprovalInv'
<1>1. Grows
  BY DEF Grows, ApprovalInv, ApprovalTypes
<1>2. \A f \in Approval!Flow : Logged(f, effect', log', tested')
  BY DEF ApprovalInv
<1> HIDE DEF SlotOk, Logged
<1> QED
  BY <1>1, <1>2, OneRun

\* The bounded counters, whichever of them a step raises.
LEMMA CountersKept ==
    ASSUME ApprovalInv
    PROVE  /\ stuck \in BOOLEAN
           /\ manual \in 0 .. MaxManual /\ tests \in 0 .. MaxTests /\ failures \in 0 .. MaxFaults
           /\ manual < MaxManual => manual + 1 \in 0 .. MaxManual
           /\ tests < MaxTests => tests + 1 \in 0 .. MaxTests
           /\ failures < MaxFaults => failures + 1 \in 0 .. MaxFaults
BY AuthorizationAssumption DEF Approval!ApprovalRunAssumption, ApprovalInv, ApprovalTypes

LEMMA StepCheckRunning ==
    ASSUME ApprovalInv, NEW s \in Approval!Slot, Approval!CheckRunning(s)
    PROVE  ApprovalInv'
<1> DEFINE y == [Approval!Idle EXCEPT !.pc = "checked", !.state = slot[s].state, !.took = slot[s].took]
<1>1. slot[s] \in SlotType /\ slot[s].pc = "idle" /\ SlotOk(slot[s], effect, log, tested)
  BY DEF Approval!CheckRunning, ApprovalInv, ApprovalTypes
<1>2. y \in SlotType /\ y.pc = "checked" /\ y.left = {} /\ y.took = slot[s].took /\ y.cur = Approval!NoFlow
      /\ y.good = 0 /\ y.bad = 0 /\ y.state = slot[s].state
  <2>1. slot[s].took \in Apps
    BY <1>1, RunFields
  <2>2. slot[s].state \in {"none", "running", "success", "failed", "partial_failed"}
    BY <1>1 DEF SlotType
  <2> QED
    BY <2>1, <2>2, IdleFields DEF SlotType, Place
<1> HIDE DEF y
<1>4. WithinFlows(y)
  <2>1. Cardinality({}) = 0
    BY FS_EmptySet
  <2> QED
    BY <1>2, <2>1, FlowFacts DEF WithinFlows, AtFlow
<1>5. SlotOk(y, effect, log, tested)
  BY <1>1, <1>2, <1>4, FlowFacts DEF SlotOk, Placed, Earned, Complete, Going, AtFlow
<1>6. ~Going(y)
  BY <1>2 DEF Going
<1>8. manual' \in 0 .. MaxManual
  BY CountersKept DEF Approval!CheckRunning
<1>7. slot' = [slot EXCEPT ![s] = y] /\ UNCHANGED <<stuck, effect, log, tested, tests, failures>>
  BY DEF Approval!CheckRunning, y
<1> HIDE DEF SlotOk
<1> QED
  BY <1>2, <1>5, <1>6, <1>7, <1>8, CountersKept, OneRunReads

LEMMA StepReadTodo ==
    ASSUME ApprovalInv, NEW s \in Approval!Slot, Approval!ReadTodo(s)
    PROVE  ApprovalInv'
<1> DEFINE x == slot[s]
           S == IF x.kind = "watch" THEN Approval!FirstItems(Approval!Todo, MaxItems) ELSE Approval!Todo
           y == [x EXCEPT !.pc = "flow", !.left = S, !.took = S]
<1>1. x \in SlotType /\ x.pc = "login" /\ SlotOk(x, effect, log, tested)
  BY DEF Approval!ReadTodo, ApprovalInv, ApprovalTypes
<1>2. S \in SUBSET Approval!Flow /\ S \in Apps
  BY DEF Approval!FirstItems, Approval!Todo, Apps
<1>3. slot' = [slot EXCEPT ![s] = y] /\ UNCHANGED <<stuck, effect, log, tested, manual, tests, failures>>
  BY DEF Approval!ReadTodo, Approval!Goto, Approval!Counters
<1> HIDE DEF S
<1>4. y \in SlotType /\ y.pc = "flow" /\ y.left = S /\ y.took = S /\ y.good = x.good /\ y.bad = x.bad
      /\ y.cur = x.cur /\ y.met = x.met /\ y.state = x.state
  BY <1>1, <1>2, RunFields DEF SlotType, Place
<1> HIDE DEF y
<1>5. WithinFlows(y)
  BY <1>1, <1>2, <1>4, FlowSets, FlowFacts DEF WithinFlows, AtFlow, SlotOk, Placed
<1>6. SlotOk(y, effect, log, tested) /\ Going(x)
  BY <1>1, <1>4, <1>5 DEF SlotOk, Placed, Earned, Complete, Going, AtFlow
<1> HIDE DEF SlotOk
<1> QED
  BY <1>3, <1>4, <1>6, CountersKept, OneRunReads

LEMMA StepReadTodoFails ==
    ASSUME ApprovalInv, NEW s \in Approval!Slot, Approval!ReadTodoFails(s)
    PROVE  ApprovalInv'
<1> DEFINE x == slot[s]
           y == [x EXCEPT !.pc = "idle", !.state = "failed", !.took = {}]
<1>1. x \in SlotType /\ x.pc = "login" /\ SlotOk(x, effect, log, tested)
  BY DEF Approval!ReadTodoFails, ApprovalInv, ApprovalTypes
<1>2. slot' = [slot EXCEPT ![s] = y] /\ UNCHANGED <<stuck, effect, log, tested, manual, tests>>
  BY DEF Approval!ReadTodoFails, Approval!Goto
<1>3. y \in SlotType /\ y.pc = "idle" /\ y.took = {} /\ y.left = x.left /\ y.good = x.good /\ y.bad = x.bad
      /\ y.cur = x.cur /\ y.state = "failed"
  BY <1>1, RunFields DEF SlotType, Place
<1> HIDE DEF y
<1>4. SlotOk(y, effect, log, tested) /\ ~Going(y)
  BY <1>1, <1>3 DEF SlotOk, WithinFlows, Placed, Earned, Complete, Going, AtFlow
<1>5. failures' \in 0 .. MaxFaults
  BY CountersKept DEF Approval!ReadTodoFails, Approval!Fault
<1> HIDE DEF SlotOk
<1> QED
  BY <1>2, <1>3, <1>4, <1>5, CountersKept, OneRunReads

LEMMA StepSkipFlow ==
    ASSUME ApprovalInv, NEW s \in Approval!Slot, Approval!SkipFlow(s)
    PROVE  ApprovalInv'
<1> DEFINE x == slot[s]
           f == Approval!Next1(x.left)
           y == [x EXCEPT !.left = @ \ {Approval!Next1(@)}]
<1>1. /\ x \in SlotType /\ x.pc = "flow" /\ x.left # {} /\ Approval!Status \in log[f]
      /\ SlotOk(x, effect, log, tested)
  BY DEF Approval!SkipFlow, Approval!StatusUpdated, ApprovalInv, ApprovalTypes
<1>2. f \in x.left /\ x.left \in SUBSET Approval!Flow
  BY <1>1, FirstInHand, RunFields
<1>3. Approval!Status \in effect[f]
  BY <1>1, <1>2 DEF ApprovalInv, Logged
<1>4. slot' = [slot EXCEPT ![s] = y] /\ UNCHANGED <<stuck, effect, log, tested, manual, tests, failures>>
  BY DEF Approval!SkipFlow, Approval!Goto, Approval!Counters
<1> HIDE DEF f
<1>5. y = [x EXCEPT !.left = x.left \ {f}]
  BY <1>1 DEF f, SlotType
<1> HIDE DEF y
<1>6. y \in SlotType /\ y.pc = "flow" /\ y.left = x.left \ {f} /\ y.took = x.took /\ y.good = x.good
      /\ y.bad = x.bad /\ y.cur = x.cur /\ y.met = x.met /\ y.state = x.state
  BY <1>1, <1>2, <1>5, RunFields DEF SlotType, Place
<1>7. WithinFlows(y)
  <2>1. Cardinality(y.left) = Cardinality(x.left) - 1 /\ Cardinality(x.left) \in Nat
    BY <1>2, <1>6, FlowSets, FlowFacts
  <2>2. x.good \in Nat /\ x.bad \in Nat
    BY <1>1, RunFields
  <2> QED
    BY <1>1, <1>6, <2>1, <2>2, FlowFacts DEF WithinFlows, AtFlow, SlotOk
<1>8. SlotOk(y, effect, log, tested) /\ Going(x)
  BY <1>1, <1>3, <1>6, <1>7 DEF SlotOk, Placed, Earned, Complete, Going, AtFlow
<1> HIDE DEF SlotOk
<1> QED
  BY <1>4, <1>6, <1>8, CountersKept, OneRunReads

LEMMA StepBeginFlow ==
    ASSUME ApprovalInv, NEW s \in Approval!Slot, Approval!BeginFlow(s)
    PROVE  ApprovalInv'
<1> DEFINE x == slot[s]
           f == Approval!Next1(x.left)
           i == IF x.kind = "watch" /\ Approval!ImportSucceeded(f) THEN Approval!Status ELSE Approval!Prepare
           y == [x EXCEPT !.pc = "call", !.left = @ \ {f}, !.cur = f, !.step = i]
<1>1. x \in SlotType /\ x.pc = "flow" /\ x.left # {} /\ SlotOk(x, effect, log, tested)
  BY DEF Approval!BeginFlow, ApprovalInv, ApprovalTypes
<1>2. f \in x.left /\ x.left \in SUBSET Approval!Flow
  BY <1>1, FirstInHand, RunFields
<1>3. slot' = [slot EXCEPT ![s] = y] /\ UNCHANGED <<stuck, effect, log, tested, manual, tests, failures>>
  BY DEF Approval!BeginFlow, Approval!Goto, Approval!Counters
<1>4. \/ i = 5 /\ Approval!Import \in log[f]
      \/ i = 0 /\ (x.kind = "watch" => Approval!Import \notin log[f])
  BY FlowFacts DEF Approval!ImportSucceeded
<1> HIDE DEF f, i
<1>5. y \in SlotType /\ y.pc = "call" /\ y.left = x.left \ {f} /\ y.took = x.took /\ y.good = x.good
      /\ y.bad = x.bad /\ y.cur = f /\ y.step = i /\ y.kind = x.kind /\ y.met = x.met /\ y.state = x.state
  <2>1. f \in Hand /\ i \in Stage /\ x.left \ {f} \in Apps
    BY <1>1, <1>2, <1>4, FlowFacts, RunFields
  <2> QED
    BY <1>1, <2>1 DEF SlotType, Place
<1> HIDE DEF y
<1>6. WithinFlows(y)
  <2>1. Cardinality(y.left) = Cardinality(x.left) - 1 /\ Cardinality(x.left) \in Nat
    BY <1>2, <1>5, FlowSets, FlowFacts
  <2>2. x.good \in Nat /\ x.bad \in Nat
    BY <1>1, RunFields
  <2> QED
    BY <1>1, <1>5, <2>1, <2>2, FlowFacts DEF WithinFlows, AtFlow, SlotOk
<1>7. Logged(f, effect, log, tested)
  BY <1>2 DEF ApprovalInv
<1>8. Earned(y, effect, log, tested)
  BY <1>4, <1>5, <1>7, FlowFacts DEF Earned, Logged
<1>9. Placed(y) /\ Complete(y, effect) /\ Going(x)
  <2>1. f \in x.took /\ x.left \subseteq x.took
    BY <1>1, <1>2 DEF SlotOk, Placed
  <2>2. \A g \in x.took : g # x.cur
    BY <1>1, RunFields, FlowFacts DEF SlotOk, Placed, AtFlow
  <2> QED
    BY <1>1, <1>2, <1>5, <2>1, <2>2 DEF SlotOk, Placed, Complete, Going, AtFlow
<1>10. SlotOk(y, effect, log, tested)
  BY <1>6, <1>8, <1>9 DEF SlotOk
<1> HIDE DEF SlotOk
<1> QED
  BY <1>3, <1>5, <1>9, <1>10, CountersKept, OneRunReads

\* An application is over, for whatever reason: what a run says of the others.
LEMMA Leaves ==
    ASSUME NEW x \in SlotType, NEW e, NEW l, NEW t, SlotOk(x, e, l, t), AtFlow(x),
           NEW y, NEW field \in {"good", "bad"}, y = Approval!NextFlow(x, field),
           field = "good" /\ Update => Approval!Status \in e[x.cur]
    PROVE  y \in SlotType /\ Going(y) /\ Going(x) /\ y.met = x.met /\ SlotOk(y, e, l, t)
<1>1. /\ y \in SlotType /\ y.pc = "flow" /\ y.cur = Approval!NoFlow /\ y.left = x.left /\ y.took = x.took
      /\ y.met = x.met /\ y.state = x.state
      /\ \/ field = "good" /\ y.good = x.good + 1 /\ y.bad = x.bad
         \/ field = "bad" /\ y.good = x.good /\ y.bad = x.bad + 1
  <2>1. x.good + 1 \in Nat /\ x.bad + 1 \in Nat /\ Approval!NoFlow \in Hand
    BY RunFields
  <2>2. CASE field = "good"
    <3>1. y = [x EXCEPT !.pc = "flow", !.cur = Approval!NoFlow, !.good = x.good + 1]
      BY <2>2 DEF Approval!NextFlow, SlotType
    <3> QED
      BY <2>1, <2>2, <3>1 DEF SlotType, Place
  <2>3. CASE field = "bad"
    <3>1. y = [x EXCEPT !.pc = "flow", !.cur = Approval!NoFlow, !.bad = x.bad + 1]
      BY <2>3 DEF Approval!NextFlow, SlotType
    <3> QED
      BY <2>1, <2>3, <3>1 DEF SlotType, Place
  <2> QED
    BY <2>2, <2>3
<1>2. WithinFlows(y)
  <2>1. Cardinality(x.left) \in Nat /\ x.good \in Nat /\ x.bad \in Nat
    BY RunFields, FlowSets, FlowFacts
  <2> QED
    BY <1>1, <2>1, FlowFacts DEF WithinFlows, AtFlow, SlotOk
<1>3. x.bad \in Nat
  BY RunFields
<1>4. Complete(y, e)
  BY <1>1, <1>3 DEF Complete, SlotOk, Placed, Going, AtFlow
<1> QED
  BY <1>1, <1>2, <1>4 DEF SlotOk, Placed, Earned, Going, AtFlow

LEMMA StepPrepareFlow ==
    ASSUME ApprovalInv, NEW s \in Approval!Slot, Approval!PrepareFlow(s)
    PROVE  ApprovalInv'
<1> DEFINE x == slot[s]
           z == Approval!NextFlow(x, "bad")
           y == [x EXCEPT !.step = 1]
<1>1. x \in SlotType /\ x.pc = "call" /\ x.step = Approval!Prepare /\ SlotOk(x, effect, log, tested)
  BY DEF Approval!PrepareFlow, ApprovalInv, ApprovalTypes
<1>2. /\ slot' = [slot EXCEPT ![s] = z] \/ slot' = [slot EXCEPT ![s] = y]
      /\ UNCHANGED <<stuck, effect, log, tested, manual, tests, failures>>
  BY DEF Approval!PrepareFlow, Approval!Goto, Approval!Counters
<1>3. z \in SlotType /\ Going(x) /\ z.met = x.met /\ SlotOk(z, effect, log, tested)
  BY <1>1, Leaves DEF AtFlow
<1>4. y \in SlotType /\ y.pc = "call" /\ y.left = x.left /\ y.took = x.took /\ y.good = x.good
      /\ y.bad = x.bad /\ y.cur = x.cur /\ y.step = 1 /\ y.kind = x.kind /\ y.met = x.met /\ y.state = x.state
  BY <1>1, FlowFacts, RunFields DEF SlotType, Place
<1> HIDE DEF y, z
<1>5. SlotOk(y, effect, log, tested)
  BY <1>1, <1>4, FlowFacts DEF SlotOk, WithinFlows, Placed, Earned, Complete, Going, AtFlow
<1> HIDE DEF SlotOk
<1> QED
  BY <1>2, <1>3, <1>4, <1>5, CountersKept, OneRunReads

\* A call of one of the steps takes effect: what the log says stays true, and what
\* a run in order says of the application.
LEMMA TakesEffectKeeps ==
    ASSUME ApprovalInv, NEW f \in Approval!Flow, NEW i \in Approval!Step, Approval!TakesEffect(f, i),
           UNCHANGED <<log, tested>>,
           f \notin tested => \A j \in Approval!Step : j < i => j \in effect[f]
    PROVE  /\ Grows /\ i \in effect'[f]
           /\ \A g \in Approval!Flow : Logged(g, effect', log', tested')
<1>1. /\ effect' \in [Approval!Flow -> SUBSET Approval!Step]
      /\ effect'[f] = effect[f] \cup {i} /\ \A g \in Approval!Flow \ {f} : effect'[g] = effect[g]
  BY DEF Approval!TakesEffect, ApprovalInv, ApprovalTypes
<1>2. Grows
  BY <1>1 DEF Grows, ApprovalInv, ApprovalTypes
<1>3. ASSUME NEW g \in Approval!Flow PROVE Logged(g, effect', log', tested')
  <2>1. Logged(g, effect, log, tested)
    BY DEF ApprovalInv
  <2>2. CASE g # f
    BY <1>1, <2>1, <2>2 DEF Logged
  <2>3. CASE g = f
    <3>1. f \notin tested /\ Approval!Status \in effect'[f] => effect'[f] = Approval!Step
      <4>1. CASE i = Approval!Status
        BY <1>1, <4>1, FlowFacts
      <4>2. CASE i # Approval!Status
        BY <1>1, <2>1, <2>3, <4>2 DEF Logged
      <4> QED
        BY <4>1, <4>2
    <3> QED
      BY <1>1, <2>1, <2>3, <3>1 DEF Logged
  <2> QED
    BY <2>2, <2>3
<1> QED
  BY <1>1, <1>2, <1>3

LEMMA StepCallStep ==
    ASSUME ApprovalInv, NEW s \in Approval!Slot, Approval!CallStep(s)
    PROVE  ApprovalInv'
<1> DEFINE x == slot[s]
           y == [x EXCEPT !.pc = "log"]
<1>1. x \in SlotType /\ x.pc = "call" /\ x.step # Approval!Prepare /\ SlotOk(x, effect, log, tested)
  BY DEF Approval!CallStep, ApprovalInv, ApprovalTypes
<1>2. x.cur \in Approval!Flow /\ x.step \in Approval!Step
  BY <1>1, RunFields, FlowFacts DEF SlotOk, Placed, AtFlow
<1>3. /\ slot' = [slot EXCEPT ![s] = y] /\ Approval!TakesEffect(x.cur, x.step)
      /\ UNCHANGED <<stuck, log, tested, manual, tests, failures>>
  BY DEF Approval!CallStep, Approval!Goto, Approval!Counters
<1>4. /\ Grows /\ x.step \in effect'[x.cur]
      /\ \A g \in Approval!Flow : Logged(g, effect', log', tested')
  BY <1>1, <1>2, <1>3, TakesEffectKeeps DEF SlotOk, Earned, AtFlow
<1>5. SlotOk(x, effect', log', tested')
  BY <1>1, <1>3, <1>4, Watches
<1>6. y \in SlotType /\ y.pc = "log" /\ y.left = x.left /\ y.took = x.took /\ y.good = x.good
      /\ y.bad = x.bad /\ y.cur = x.cur /\ y.step = x.step /\ y.kind = x.kind /\ y.met = x.met /\ y.state = x.state
  BY <1>1, RunFields DEF SlotType, Place
<1> HIDE DEF y
<1>7. SlotOk(y, effect', log', tested') /\ Going(x)
  BY <1>1, <1>4, <1>5, <1>6 DEF SlotOk, WithinFlows, Placed, Earned, Complete, Going, AtFlow
<1> HIDE DEF SlotOk, Logged
<1> QED
  BY <1>3, <1>4, <1>6, <1>7, CountersKept, OneRun

LEMMA StepLogStep ==
    ASSUME ApprovalInv, NEW s \in Approval!Slot, Approval!LogStep(s)
    PROVE  ApprovalInv'
<1> DEFINE x == slot[s]
           z == Approval!NextFlow(x, "good")
           y == [x EXCEPT !.pc = "call", !.step = @ + 1]
<1>1. x \in SlotType /\ x.pc = "log" /\ SlotOk(x, effect, log, tested)
  BY DEF Approval!LogStep, ApprovalInv, ApprovalTypes
<1>2. /\ x.cur \in Approval!Flow /\ x.step \in Approval!Step /\ x.step \in effect[x.cur]
      /\ x.cur \notin tested => \A i \in Approval!Step : i < x.step => i \in effect[x.cur]
  BY <1>1, RunFields, FlowFacts DEF SlotOk, Placed, Earned, AtFlow
<1>3. /\ log' = [log EXCEPT ![x.cur] = @ \cup {x.step}]
      /\ slot' = [slot EXCEPT ![s] = IF Approval!LastStep(x) THEN z ELSE y]
      /\ UNCHANGED <<stuck, effect, tested, manual, tests, failures>>
  BY DEF Approval!LogStep, Approval!Goto, Approval!Counters
<1>4. /\ log' \in [Approval!Flow -> SUBSET Approval!Step]
      /\ log'[x.cur] = log[x.cur] \cup {x.step} /\ \A g \in Approval!Flow \ {x.cur} : log'[g] = log[g]
  BY <1>2, <1>3 DEF ApprovalInv, ApprovalTypes
<1>5. Grows
  BY <1>3, <1>4 DEF Grows, ApprovalInv, ApprovalTypes
<1>6. ASSUME NEW g \in Approval!Flow PROVE Logged(g, effect', log', tested')
  <2>1. Logged(g, effect, log, tested)
    BY DEF ApprovalInv
  <2>2. CASE g # x.cur
    BY <1>3, <1>4, <2>1, <2>2 DEF Logged
  <2>3. CASE g = x.cur
    BY <1>2, <1>3, <1>4, <2>1, <2>3, FlowFacts DEF Logged
  <2> QED
    BY <2>2, <2>3
<1>7. CASE Approval!LastStep(x)
  <2>1. Update => Approval!Status \in effect[x.cur]
    BY <1>2, <1>7 DEF Approval!LastStep
  <2>2. z \in SlotType /\ z.pc = "flow" /\ Going(x) /\ z.met = x.met /\ SlotOk(z, effect, log, tested)
    <3>1. z \in SlotType /\ Going(x) /\ z.met = x.met /\ SlotOk(z, effect, log, tested)
      BY <1>1, <2>1, Leaves DEF AtFlow
    <3> QED
      BY <1>1, <3>1 DEF Approval!NextFlow, SlotType
  <2> HIDE DEF z
  <2>3. SlotOk(z, effect', log', tested')
    <3> HIDE DEF SlotOk
    <3> QED
      BY <1>5, <2>2, Watches DEF AtFlow
  <2>4. slot' = [slot EXCEPT ![s] = z]
    BY <1>3, <1>7
  <2> HIDE DEF SlotOk, Logged
  <2> QED
    BY <1>3, <1>5, <1>6, <2>2, <2>3, <2>4, CountersKept, OneRun
<1>8. CASE ~Approval!LastStep(x)
  <2>1. x.step \in 1 .. 4
    BY <1>2, <1>8, FlowFacts DEF Approval!LastStep
  <2>2. y \in SlotType /\ y.pc = "call" /\ y.left = x.left /\ y.took = x.took /\ y.good = x.good
        /\ y.bad = x.bad /\ y.cur = x.cur /\ y.step = x.step + 1 /\ y.kind = x.kind /\ y.met = x.met
        /\ y.state = x.state
    <3>1. x.step + 1 \in Stage
      BY <2>1, RunFields
    <3>2. y = [x EXCEPT !.pc = "call", !.step = x.step + 1]
      BY <1>1 DEF SlotType
    <3> QED
      BY <1>1, <3>1, <3>2 DEF SlotType, Place
  <2> HIDE DEF y
  <2>3. Earned(y, effect', log', tested')
    <3>1. y.step <= 4 => x.step < 4
      BY <2>1, <2>2
    <3>2. y.step <= 4 => (4 \in log'[x.cur] => 4 \in log[x.cur])
      BY <1>4, <2>1, <3>1
    <3>3. y.step <= 4 /\ x.kind = "watch" /\ 4 \in log[x.cur] => x.met \/ x.cur \in tested
      BY <1>1, <2>1, <3>1, FlowFacts DEF SlotOk, Earned, AtFlow
    <3>4. \A i \in 1 .. 5 : i < y.step => i < x.step \/ i = x.step
      BY <2>1, <2>2
    <3> QED
      BY <1>2, <1>3, <2>2, <3>2, <3>3, <3>4, FlowFacts DEF Earned
  <2>4. SlotOk(y, effect', log', tested') /\ Going(x)
    BY <1>1, <1>3, <2>2, <2>3 DEF SlotOk, WithinFlows, Placed, Complete, Going, AtFlow
  <2>5. slot' = [slot EXCEPT ![s] = y]
    BY <1>3, <1>8
  <2> HIDE DEF SlotOk, Logged
  <2> QED
    BY <1>3, <1>5, <1>6, <2>2, <2>4, <2>5, CountersKept, OneRun
<1> QED
  BY <1>7, <1>8

LEMMA StepStepFails ==
    ASSUME ApprovalInv, NEW s \in Approval!Slot, Approval!StepFails(s)
    PROVE  ApprovalInv'
<1> DEFINE x == slot[s]
           y == Approval!NextFlow(x, "bad")
<1>1. x \in SlotType /\ x.pc \in {"call", "log"} /\ SlotOk(x, effect, log, tested)
  BY DEF Approval!StepFails, ApprovalInv, ApprovalTypes
<1>2. x.cur \in Approval!Flow /\ x.step \in Stage
  BY <1>1, RunFields, FlowFacts DEF SlotOk, Placed, AtFlow
<1>3. slot' = [slot EXCEPT ![s] = y] /\ UNCHANGED <<stuck, log, tested, manual, tests>>
  BY DEF Approval!StepFails, Approval!Goto
<1>4. Grows /\ \A g \in Approval!Flow : Logged(g, effect', log', tested')
  <2>1. CASE UNCHANGED effect
    BY <1>3, <2>1 DEF Grows, ApprovalInv, ApprovalTypes
  <2>2. CASE x.pc = "call" /\ x.step # Approval!Prepare /\ Approval!TakesEffect(x.cur, x.step)
    <3>1. x.step \in Approval!Step
      BY <1>2, <2>2 DEF Stage
    <3> QED
      BY <1>1, <1>2, <1>3, <2>2, <3>1, TakesEffectKeeps DEF SlotOk, Earned, AtFlow
  <2> QED
    BY <2>1, <2>2 DEF Approval!StepFails
<1>5. SlotOk(x, effect', log', tested')
  <2> HIDE DEF SlotOk
  <2> QED
    BY <1>1, <1>3, <1>4, Watches
<1>6. y \in SlotType /\ Going(x) /\ y.met = x.met /\ SlotOk(y, effect', log', tested')
  BY <1>1, <1>5, Leaves DEF AtFlow
<1>7. failures' \in 0 .. MaxFaults
  BY CountersKept DEF Approval!StepFails, Approval!Fault
<1> HIDE DEF y, SlotOk, Logged
<1> QED
  BY <1>3, <1>4, <1>6, <1>7, CountersKept, OneRun

LEMMA StepEndRun ==
    ASSUME ApprovalInv, NEW s \in Approval!Slot, Approval!EndRun(s)
    PROVE  ApprovalInv'
<1> DEFINE x == slot[s]
           y == [Approval!Idle EXCEPT !.state = Approval!Outcome(x), !.took = x.took]
<1>1. x \in SlotType /\ x.pc = "flow" /\ x.left = {} /\ SlotOk(x, effect, log, tested)
  BY DEF Approval!EndRun, ApprovalInv, ApprovalTypes
<1>2. slot' = [slot EXCEPT ![s] = y] /\ UNCHANGED <<stuck, effect, log, tested, manual, tests, failures>>
  BY DEF Approval!EndRun, Approval!Goto, Approval!Counters
<1>3. Approval!Outcome(x) \in {"success", "failed", "partial_failed"} /\ (Approval!Outcome(x) = "success" => x.bad = 0)
  BY DEF Approval!Outcome
<1>4. y \in SlotType /\ y.pc = "idle" /\ y.left = {} /\ y.took = x.took /\ y.cur = Approval!NoFlow
      /\ y.good = 0 /\ y.bad = 0 /\ y.state = Approval!Outcome(x)
  <2>1. x.took \in Apps
    BY <1>1, RunFields
  <2> HIDE DEF x
  <2> QED
    BY <1>3, <2>1, IdleFields DEF SlotType, Place
<1> HIDE DEF y
<1>5. WithinFlows(y)
  <2>1. Cardinality({}) = 0
    BY FS_EmptySet
  <2> QED
    BY <1>4, <2>1, FlowFacts DEF WithinFlows, AtFlow
<1>6. x.bad = 0 /\ Update => \A f \in x.took : Approval!Status \in effect[f]
  <2>1. \A f \in x.took : f # x.cur
    BY <1>1, RunFields, FlowFacts DEF SlotOk, Placed, AtFlow
  <2> QED
    BY <1>1, <2>1 DEF SlotOk, Complete, Going
<1>7. SlotOk(y, effect, log, tested) /\ ~Going(y)
  BY <1>3, <1>4, <1>5, <1>6 DEF SlotOk, Placed, Earned, Complete, Going, AtFlow
<1> HIDE DEF SlotOk
<1> QED
  BY <1>2, <1>4, <1>7, CountersKept, OneRunReads

-----------------------------------------------------------------------------
(* A run begins; tests and crashes.                                        *)

\* Whoever is going on and the new run have met.
LEMMA Begins ==
    ASSUME ApprovalInv, NEW s \in Approval!Slot, ~Going(slot[s]),
           NEW kind \in {"watch", "full"}, slot' = Approval!Started(s, kind),
           UNCHANGED <<stuck, effect, log, tested, tests, failures>>, manual' \in 0 .. MaxManual
    PROVE  ApprovalInv'
<1> DEFINE others == {o \in Approval!Slot \ {s} : Approval!Running(o)}
           new == [Approval!Idle EXCEPT !.pc = "login", !.kind = kind, !.state = "running", !.met = others # {}]
           met(o) == [slot[o] EXCEPT !.met = TRUE]
<1>1. /\ slot'[s] = new
      /\ \A o \in others : slot'[o] = met(o)
      /\ \A o \in Approval!Slot \ {s} : o \notin others => slot'[o] = slot[o]
      /\ DOMAIN slot' = Approval!Slot /\ slot' = [o \in Approval!Slot |-> slot'[o]]
  BY DEF Approval!Started
<1>2. \A o \in Approval!Slot : Going(slot[o]) => o \in others
  BY DEF Approval!Running, Going
<1>3. \A o \in Approval!Slot : slot[o] \in SlotType /\ SlotOk(slot[o], effect, log, tested)
  BY DEF ApprovalInv, ApprovalTypes
<1>4. (others # {}) \in BOOLEAN
  OBVIOUS
<1>5. new \in SlotType /\ new.pc = "login" /\ new.left = {} /\ new.took = {} /\ new.cur = Approval!NoFlow
      /\ new.good = 0 /\ new.bad = 0 /\ new.state = "running" /\ new.met = (others # {})
  <2> HIDE DEF others
  <2> QED
    BY <1>4, IdleFields DEF SlotType, Place
<1>6. \A o \in Approval!Slot :
          /\ met(o) \in SlotType /\ met(o).met = TRUE /\ met(o).pc = slot[o].pc /\ met(o).kind = slot[o].kind
          /\ met(o).left = slot[o].left /\ met(o).took = slot[o].took /\ met(o).cur = slot[o].cur
          /\ met(o).step = slot[o].step /\ met(o).good = slot[o].good /\ met(o).bad = slot[o].bad
          /\ met(o).state = slot[o].state
  BY <1>3 DEF SlotType
<1> HIDE DEF new, met
<1>7. SlotOk(new, effect, log, tested)
  <2>1. Cardinality({}) = 0
    BY FS_EmptySet
  <2>2. WithinFlows(new)
    BY <1>5, <2>1, FlowFacts DEF WithinFlows, AtFlow
  <2> QED
    BY <1>5, <2>2 DEF SlotOk, Placed, Earned, Complete, Going, AtFlow
<1>8. \A o \in Approval!Slot : SlotOk(met(o), effect, log, tested)
  BY <1>3, <1>6 DEF SlotOk, WithinFlows, Placed, Earned, Complete, Going, AtFlow
<1>9. \A o \in Approval!Slot : slot'[o] \in SlotType /\ SlotOk(slot'[o], effect, log, tested)
  <2> HIDE DEF SlotOk, others
  <2> QED
    BY <1>1, <1>3, <1>5, <1>6, <1>7, <1>8
<1>10. ApprovalTypes'
  BY <1>1, <1>9 DEF ApprovalInv, ApprovalTypes
<1>11. AllMet'
  <2> SUFFICES ASSUME NEW o \in Approval!Slot, NEW p \in Approval!Slot, o # p, Going(slot'[o]), Going(slot'[p])
               PROVE  slot'[o].met
    BY DEF AllMet
  <2>1. \A q \in Approval!Slot \ {s} : Going(slot'[q]) => q \in others
    BY <1>1, <1>2
  <2>2. CASE o = s
    BY <1>1, <1>5, <2>1, <2>2
  <2>3. CASE o # s
    BY <1>1, <1>6, <2>1, <2>3
  <2> QED
    BY <2>2, <2>3
<1> QED
  BY <1>9, <1>10, <1>11 DEF ApprovalInv

LEMMA StepInsertWatchRun ==
    ASSUME ApprovalInv, NEW s \in Approval!Slot, Approval!InsertWatchRun(s)
    PROVE  ApprovalInv'
<1>1. ~Going(slot[s])
  BY DEF Approval!InsertWatchRun, Going
<1> QED
  BY <1>1, Begins, CountersKept DEF Approval!InsertWatchRun, Approval!Counters

LEMMA StepCreateFullRun ==
    ASSUME ApprovalInv, NEW s \in Manual, Approval!CreateFullRun(s)
    PROVE  ApprovalInv'
<1>1. s \in Approval!Slot
  BY DEF Approval!Slot
<1>2. ~Going(slot[s])
  BY DEF Approval!CreateFullRun, Going
<1> QED
  BY <1>1, <1>2, Begins, CountersKept DEF Approval!CreateFullRun

LEMMA StepTestStep ==
    ASSUME ApprovalInv, NEW f \in Approval!Flow, NEW i \in Approval!Step, Approval!TestStep(f, i)
    PROVE  ApprovalInv'
<1>1. /\ effect' = [effect EXCEPT ![f] = @ \cup {i}] /\ log' = [log EXCEPT ![f] = @ \cup {i}]
      /\ tested' = tested \cup {f} /\ UNCHANGED <<slot, stuck, manual, failures>>
  BY DEF Approval!TestStep, Approval!TakesEffect
<1>2. tests' \in 0 .. MaxTests
  BY CountersKept DEF Approval!TestStep
<1>3. /\ effect' \in [Approval!Flow -> SUBSET Approval!Step] /\ log' \in [Approval!Flow -> SUBSET Approval!Step]
      /\ effect'[f] = effect[f] \cup {i} /\ \A g \in Approval!Flow \ {f} : effect'[g] = effect[g]
      /\ log'[f] = log[f] \cup {i} /\ \A g \in Approval!Flow \ {f} : log'[g] = log[g]
  BY <1>1 DEF ApprovalInv, ApprovalTypes
<1>4. Grows
  BY <1>1, <1>3 DEF Grows, ApprovalInv, ApprovalTypes
<1>5. ASSUME NEW s \in Approval!Slot PROVE SlotOk(slot[s], effect', log', tested')
  <2>1. slot[s] \in SlotType /\ SlotOk(slot[s], effect, log, tested)
    BY DEF ApprovalInv, ApprovalTypes
  <2>2. \A g \in Approval!Flow : Approval!Import \in log'[g] => Approval!Import \in log[g] \/ g \in tested'
    BY <1>1, <1>3
  <2> HIDE DEF SlotOk
  <2> QED
    BY <1>4, <2>1, <2>2, Watches
<1>6. ASSUME NEW g \in Approval!Flow PROVE Logged(g, effect', log', tested')
  <2>1. Logged(g, effect, log, tested)
    BY DEF ApprovalInv
  <2> QED
    BY <1>1, <1>3, <2>1 DEF Logged
<1> QED
  BY <1>1, <1>2, <1>3, <1>5, <1>6 DEF ApprovalInv, ApprovalTypes, AllMet

LEMMA StepApprovalCrash == ASSUME ApprovalInv, Approval!Crash PROVE ApprovalInv'
<1>1. slot' = [s \in Approval!Slot |-> Approval!Idle] /\ UNCHANGED <<effect, log, tested, manual, tests>>
  BY DEF Approval!Crash
<1>2. failures' \in 0 .. MaxFaults
  BY CountersKept DEF Approval!Crash, Approval!Fault
<1>3. stuck' \in BOOLEAN
  BY CountersKept DEF Approval!Crash, Approval!HasRunningRun
<1>4. ApprovalTypes'
  BY <1>1, <1>2, <1>3, IdleFields DEF ApprovalInv, ApprovalTypes
<1>5. \A s \in Approval!Slot : slot'[s] = Approval!Idle
  BY <1>1
<1>6. SlotOk(Approval!Idle, effect, log, tested) /\ ~Going(Approval!Idle)
  BY IdleSlot
<1> HIDE DEF SlotOk, Logged
<1> QED
  BY <1>1, <1>4, <1>5, <1>6 DEF ApprovalInv, AllMet

-----------------------------------------------------------------------------
(* The invariant, and what it says. *)

LEMMA ApprovalBegins == Approval!Init => ApprovalInv
<1> SUFFICES ASSUME Approval!Init PROVE ApprovalInv
  OBVIOUS
<1>1. /\ slot = [s \in Approval!Slot |-> Approval!Idle] /\ stuck = FALSE /\ tested = {}
      /\ effect = [f \in Approval!Flow |-> {}] /\ log = [f \in Approval!Flow |-> {}]
      /\ manual = 0 /\ tests = 0 /\ failures = 0
  BY DEF Approval!Init
<1>2. MaxManual \in Nat /\ MaxTests \in Nat /\ MaxFaults \in Nat
  BY AuthorizationAssumption DEF Approval!ApprovalRunAssumption
<1>3. ApprovalTypes
  <2>1. slot \in [Approval!Slot -> SlotType]
    BY <1>1, IdleFields
  <2>2. /\ effect \in [Approval!Flow -> SUBSET Approval!Step]
        /\ log \in [Approval!Flow -> SUBSET Approval!Step]
    BY <1>1
  <2>3. manual \in 0 .. MaxManual /\ tests \in 0 .. MaxTests /\ failures \in 0 .. MaxFaults
    BY <1>1, <1>2
  <2> QED
    BY <1>1, <2>1, <2>2, <2>3 DEF ApprovalTypes
<1>4. \A f \in Approval!Flow : Logged(f, effect, log, tested)
  BY <1>1 DEF Logged
<1>5. SlotOk(Approval!Idle, effect, log, tested) /\ ~Going(Approval!Idle)
  BY IdleSlot
<1> HIDE DEF SlotOk, Logged
<1> QED
  BY <1>1, <1>3, <1>4, <1>5 DEF ApprovalInv, AllMet

LEMMA ApprovalSteps == ASSUME ApprovalInv, Approval!Next PROVE ApprovalInv'
<1>1. ASSUME NEW s \in Approval!Slot, Approval!Execute(s) PROVE ApprovalInv'
  BY <1>1, StepInsertWatchRun, StepReadTodo, StepSkipFlow, StepBeginFlow, StepPrepareFlow,
     StepCallStep, StepLogStep, StepEndRun DEF Approval!Execute
<1>2. ASSUME NEW s \in Approval!Slot,
             Approval!CheckRunning(s) \/ Approval!ReadTodoFails(s) \/ Approval!StepFails(s)
      PROVE  ApprovalInv'
  BY <1>2, StepCheckRunning, StepReadTodoFails, StepStepFails
<1> QED
  BY <1>1, <1>2, StepCreateFullRun, StepTestStep, StepApprovalCrash DEF Approval!Next

LEMMA ApprovalStays == ASSUME ApprovalInv, UNCHANGED approvalVars PROVE ApprovalInv'
<1>1. UNCHANGED <<slot, stuck, effect, log, tested, manual, tests, failures>>
  BY DEF approvalVars
<1> QED
  BY <1>1 DEF ApprovalInv, ApprovalTypes, AllMet

LEMMA ApprovalTyped == ApprovalInv => Approval!TypeOK
<1> SUFFICES ASSUME ApprovalInv PROVE Approval!TypeOK
  OBVIOUS
<1>1. ASSUME NEW s \in Approval!Slot
      PROVE  slot[s] \in [pc : {"idle", "checked", "login", "flow", "call", "log"},
                          kind : {"none", "watch", "full"}, left : SUBSET Approval!Flow,
                          took : SUBSET Approval!Flow, cur : Approval!Flow \cup {Approval!NoFlow},
                          step : {Approval!Prepare} \cup Approval!Step, good : 0 .. Flows, bad : 0 .. Flows,
                          met : BOOLEAN,
                          state : {"none", "running", "success", "failed", "partial_failed"}]
  <2>1. slot[s] \in SlotType /\ WithinFlows(slot[s])
    BY DEF ApprovalInv, ApprovalTypes, SlotOk
  <2>2. Cardinality(slot[s].left) \in Nat /\ slot[s].good \in Nat /\ slot[s].bad \in Nat
    BY <2>1, RunFields, FlowSets, FlowFacts
  <2>3. slot[s].good \in 0 .. Flows /\ slot[s].bad \in 0 .. Flows
    BY <2>1, <2>2, FlowFacts DEF WithinFlows
  <2> QED
    BY <2>1, <2>3 DEF SlotType, Apps, Hand, Stage, Place
<1>2. \A s \in Approval!Slot : slot[s].cur # Approval!NoFlow => slot[s].cur \in slot[s].took \ slot[s].left
  BY DEF ApprovalInv, SlotOk, Placed
<1> QED
  BY <1>1, <1>2 DEF Approval!TypeOK, ApprovalInv, ApprovalTypes

LEMMA ApprovalHolds == ApprovalInv => Approval!ImportsEarned
<1> SUFFICES ASSUME ApprovalInv PROVE Approval!ImportsEarned
  OBVIOUS
<1>1. Approval!StatusEarned
  BY DEF Approval!StatusEarned, ApprovalInv, Logged
<1>2. Approval!NotRepeated
  BY FlowFacts DEF Approval!NotRepeated, ApprovalInv, SlotOk, Earned, AtFlow
<1>3. Approval!SuccessIsComplete
  BY DEF Approval!SuccessIsComplete, ApprovalInv, SlotOk, Complete
<1> QED
  BY <1>1, <1>2, <1>3 DEF Approval!ImportsEarned

-----------------------------------------------------------------------------
(* Side by side.                                                           *)
AuthInv == active = "approval" => ApprovalInv

LEMMA AuthBegins == AuthInit => AuthInv
BY ApprovalBegins DEF AuthInit, AuthInv

LEMMA AuthSteps == ASSUME AuthInv, [AuthNext]_authVars PROVE AuthInv'
<1>1. CASE active = "lease" /\ Next /\ UNCHANGED <<active, approvalVars>>
  BY <1>1 DEF AuthInv
<1>2. CASE active = "approval" /\ Approval!Next /\ UNCHANGED <<active, vars>>
  BY <1>2, ApprovalSteps DEF AuthInv
<1>3. CASE UNCHANGED authVars
  BY <1>3, ApprovalStays DEF AuthInv, authVars
<1> QED
  BY <1>1, <1>2, <1>3 DEF AuthNext

\* The inductive invariant of the runs over applications: what a run has in hand
\* was done up to its step, what is logged was done, and runs that overlap know
\* of each other (_run_full_sync, _run_one_apply_flow, test_step).
THEOREM ApprovalInductive == AuthSpec => []AuthInv
<1>1. AuthInit => AuthInv
  BY AuthBegins
<1>2. AuthInv /\ [AuthNext]_authVars => AuthInv'
  BY AuthSteps
<1> QED
  BY <1>1, <1>2, PTL DEF AuthSpec

\* Runs, the step log and what has taken effect keep their types: a run never
\* counts more applications than there are (_run_full_sync).
THEOREM ApprovalTypeCorrect == AuthSpec => [](active = "approval" => Approval!TypeOK)
<1>1. AuthInv => (active = "approval" => Approval!TypeOK)
  BY ApprovalTyped DEF AuthInv
<1> QED
  BY <1>1, ApprovalInductive, PTL

\* An application is settled only after all it asks for was done, an import on
\* record is not repeated by a watching run unless another recorded it behind its
\* back, and a run that is successful has settled whatever it took
\* (_run_one_apply_flow, apply_flow_import_succeeded, _run_full_sync).
THEOREM ImportsAreEarned == AuthSpec => []ImportsEarned
<1>1. AuthInv => ImportsEarned
  BY ApprovalHolds DEF AuthInv, ImportsEarned
<1> QED
  BY <1>1, ApprovalInductive, PTL
==============================================================================

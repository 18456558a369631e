---------------------------- MODULE PrivilegeLease ----------------------------
(***************************************************************************)
(* Batch authorization (services/batch_authorization.py): the lease that   *)
(* several grant batches share on one Doris privilege (one connection,     *)
(* user, source table and SELECT).                                         *)
(*                                                                         *)
(* GRANT and REVOKE take effect in Doris at once; the lease and the rows   *)
(* of a batch become visible when the request or the pass of the scheduler *)
(* commits.  The lease row is locked from its SELECT ... FOR UPDATE to the *)
(* commit; the count of the other references is a plain SELECT, so what it *)
(* sees depends on the isolation level of the database.                    *)
(*                                                                         *)
(* A batch is modelled by its one row for this privilege: a batch of       *)
(* several tables repeats the steps in one transaction.  The check of      *)
(* SHOW GRANTS and the GRANT after it are one step.                        *)
(***************************************************************************)
EXTENDS Naturals, FiniteSets

CONSTANTS
    Batch,       \* grant batches
    Request,     \* sessions of API requests
    Scheduler,   \* the session of the scheduler thread
    Config,      \* initial situations, see TypeOK
    MaxOfflines, \* bound: requests to take a batch offline
    MaxEvents    \* bound: extensions, grants by the Doris administrator,
                 \* failing statements and aborted sessions

ASSUME PrivilegeLeaseAssumption ==
    /\ Batch # {} /\ Request # {} /\ Scheduler \notin Request
    /\ Config \subseteq [repeatable : BOOLEAN, exists : BOOLEAN, legacy : SUBSET Batch]
    /\ MaxOfflines \in Nat /\ MaxEvents \in Nat

VARIABLES
    config,   \* isolation level and the privilege before the first batch
    priv,     \* the privilege in Doris, told apart by who has granted it
    lease,    \* BatchAuthPrivilegeLease, as its locking session sees it
    saved,    \* the same, as committed
    lock,     \* the session that holds the lease row, or {}
    row,      \* the committed batches: BatchAuthGrantBatch, -Table and -User
    session,  \* the sessions of requests and of the scheduler
    offlines, events, faults

vars == <<config, priv, lease, saved, lock, row, session, offlines, events, faults>>

Session == Request \cup {Scheduler}

\* due: expires_at has passed.  extended: extend_grant_batch has been called.
Row == [state : {"none", "succeeded", "partial", "failed", "offlined"},
        table : {"none", "succeeded", "failed", "offlined"},
        grant : {"none", "succeeded", "skipped", "failed"},
        revoke : {"none", "pending", "skipped", "succeeded", "failed"},
        due : BOOLEAN, off : BOOLEAN, extended : BOOLEAN]
NoRow == [state |-> "none", table |-> "none", grant |-> "none", revoke |-> "none",
          due |-> FALSE, off |-> FALSE, extended |-> FALSE]
OldRow == [NoRow EXCEPT !.state = "succeeded", !.table = "succeeded",
                        !.grant = "succeeded", !.revoke = "pending"]

NoLease == [state |-> "none", owner |-> "unknown"]

\* view: the rows as the session has loaded them, without expires_at; seen: the
\* references that count in its snapshot (repeatable read); todo: the batches of
\* the pass that are left; done: those with unsaved changes in new.
Idle == [pc |-> "idle", todo |-> {}, cur |-> {}, view |-> [b \in Batch |-> NoRow],
         seen |-> {}, new |-> [b \in Batch |-> NoRow], done |-> {}]

TypeOK ==
    /\ config \in Config
    /\ priv \in {"none", "admin", "system"}
    /\ {lease, saved} \subseteq [state : {"none", "initializing", "active", "revoked", "error"},
                                 owner : {"unknown", "system", "external"}]
    /\ lock \in {{}} \cup {{s} : s \in Session}
    /\ row \in [Batch -> Row]
    /\ session \in [Session -> [pc : {"idle", "next", "lock", "revoke", "commit"},
                                todo : SUBSET Batch, cur : SUBSET Batch,
                                view : [Batch -> Row], seen : SUBSET Batch,
                                new : [Batch -> Row], done : SUBSET Batch]]
    /\ \A s \in Session : Cardinality(session[s].cur) <= 1
    /\ lock = {} => lease = saved
    /\ offlines \in 0 .. MaxOfflines /\ events \in 0 .. MaxEvents /\ faults \in 0 .. events

Init ==
    /\ config \in Config
    /\ priv = IF config.exists THEN "admin" ELSE IF config.legacy # {} THEN "system" ELSE "none"
    /\ lease = NoLease /\ saved = NoLease /\ lock = {}
    /\ row = [b \in Batch |-> IF b \in config.legacy THEN OldRow ELSE NoRow]
    /\ session = [s \in Session |-> Idle]
    /\ offlines = 0 /\ events = 0 /\ faults = 0

Event == events < MaxEvents /\ events' = events + 1
Fault == Event /\ faults' = faults + 1
NoFault == UNCHANGED <<events, faults>>
Free(s) == lock \in {{}, {s}}

\* A new batch has a new key, and the sessions of requests are alike: a request
\* takes the first of each.
NewBatch == {CHOOSE b \in Batch : row[b].state = "none" \/ \A o \in Batch : row[o].state # "none"}
NewSession == CHOOSE s \in Request :
    session[s].pc = "idle" \/ \A r \in Request : session[r].pc # "idle"

-----------------------------------------------------------------------------
(* execute_grant_import. *)

Granted(r) == [r EXCEPT !.state = "succeeded", !.table = "succeeded", !.revoke = "pending"]
Refused(r) == [r EXCEPT !.state = "failed", !.table = "failed", !.grant = "failed",
                        !.revoke = "skipped"]

\* The SELECT ... FOR UPDATE of the lease, or its insertion.
Acquired == IF lease = NoLease THEN [state |-> "initializing", owner |-> "unknown"] ELSE lease

\* The privilege is there: whether the lease keeps the owner it has on record.
OwnerKept == lease # NoLease /\ lease.state # "revoked" /\ lease.owner \in {"system", "unknown"}

\* _acquire_privilege_lease_for_grant when SHOW GRANTS has the privilege ...
ShareLease(r) ==
    /\ priv # "none"
    /\ lease' = [state |-> "active", owner |-> IF OwnerKept THEN Acquired.owner ELSE "external"]
    /\ r = [Granted(NoRow) EXCEPT !.grant = "skipped"]
    /\ UNCHANGED priv /\ NoFault

\* ... when it has to be granted ...
OwnLease(r) ==
    /\ priv = "none" /\ priv' = "system"
    /\ lease' = [state |-> "active", owner |-> "system"]
    /\ r = [Granted(NoRow) EXCEPT !.grant = "succeeded"]
    /\ NoFault

\* ... and when a statement fails; a GRANT may have worked all the same.
LeaseFails(r) ==
    /\ Fault
    /\ priv' \in IF priv = "none" THEN {"none", "system"} ELSE {priv}
    /\ lease' = [Acquired EXCEPT !.state = "error"]
    /\ r = Refused(NoRow)

GrantImport(s, b) ==
    /\ session[s].pc = "idle" /\ row[b].state = "none" /\ lock = {}
    /\ lock' = {s}
    /\ \E r \in Row :
         /\ ShareLease(r) \/ OwnLease(r) \/ LeaseFails(r)
         /\ session' = [session EXCEPT ![s] = [@ EXCEPT !.pc = "commit",
                            !.new[b] = r, !.done = {b}]]
    /\ UNCHANGED <<config, saved, row, offlines>>

-----------------------------------------------------------------------------
(* offline_grant_batch and _offline_expired_batches. *)

\* A variant that does not count the batches that only share the privilege.
CountsGrantedOnly(r) ==
    /\ r.grant = "succeeded" /\ r.revoke # "succeeded"
    /\ r.table = "succeeded" /\ r.state \in {"succeeded", "partial"}
    /\ ~r.due /\ ~r.off

\* _active_privilege_reference_statement, for a row of another batch.
Counts(r) ==
    /\ r.grant \in {"succeeded", "skipped"} /\ r.revoke # "succeeded"
    /\ r.table = "succeeded" /\ r.state \in {"succeeded", "partial"}
    /\ ~r.due /\ ~r.off

\* The references session s finds when it counts: those of its snapshot or of
\* the committed rows, and its own changes.
Counted(s) ==
    {b \in session[s].done : Counts(session[s].new[b])}
        \cup ((IF config.repeatable THEN session[s].seen ELSE {b \in Batch : Counts(row[b])})
                  \ session[s].done)

\* A variant that does not exclude the batch that is taken offline.
ReferencesOwn(s, b) == Counted(s)

References(s, b) == Counted(s) \ {b}

Snapshot == IF config.repeatable THEN {b \in Batch : Counts(row[b])} ELSE {}
Loaded(b) == [row[b] EXCEPT !.due = FALSE, !.extended = FALSE]

\* offline_grant_batch: load the batch, its tables and its users.
Offline(s, b) ==
    /\ session[s].pc = "idle" /\ row[b].state # "none"
    /\ session' = [session EXCEPT ![s] = [@ EXCEPT !.pc = "lock", !.cur = {b},
                       !.view[b] = Loaded(b), !.seen = Snapshot]]
    /\ offlines < MaxOfflines /\ offlines' = offlines + 1
    /\ UNCHANGED <<config, priv, lease, saved, lock, row, events, faults>>

\* A variant that does not look for the batches whose REVOKE has failed.
DueSucceeded == {b \in Batch : row[b].due /\ row[b].state = "succeeded" /\ ~row[b].off}

Due == {b \in Batch : row[b].due /\ row[b].state \in {"succeeded", "partial"} /\ ~row[b].off}

\* _offline_expired_batches: read the batches of the pass.
PassBegin ==
    /\ session[Scheduler].pc = "idle" /\ Due # {}
    /\ session' = [session EXCEPT ![Scheduler] = [@ EXCEPT !.pc = "next", !.todo = Due,
                       !.view = [b \in Batch |-> IF b \in Due THEN Loaded(b) ELSE NoRow],
                       !.seen = Snapshot]]
    /\ UNCHANGED <<config, priv, lease, saved, lock, row, offlines, events, faults>>

\* The next batch of the pass: its tables and users are read now.
PassBatch(b) ==
    LET p == session[Scheduler] IN
    /\ p.pc = "next" /\ b \in p.todo
    /\ session' = [session EXCEPT ![Scheduler] = [p EXCEPT !.pc = "lock", !.cur = {b},
                       !.todo = p.todo \ {b},
                       !.view[b] = IF config.repeatable THEN p.view[b] ELSE Loaded(b)]]
    /\ UNCHANGED <<config, priv, lease, saved, lock, row, offlines, events, faults>>

\* A batch whose connection has been deleted is given up.
PassNoProfile(b) ==
    LET p == session[Scheduler] IN
    /\ p.pc = "next" /\ b \in p.todo /\ Fault
    /\ session' = [session EXCEPT ![Scheduler] = [p EXCEPT !.todo = p.todo \ {b}, !.view[b] = NoRow,
                       !.done = p.done \cup {b}, !.new[b] = [p.view[b] EXCEPT !.state = "failed"]]]
    /\ UNCHANGED <<config, priv, lease, saved, lock, row, offlines>>

PassDone ==
    /\ session[Scheduler].pc = "next" /\ session[Scheduler].todo = {}
    /\ session' = [session EXCEPT ![Scheduler].pc = "commit"]
    /\ UNCHANGED <<config, priv, lease, saved, lock, row, offlines, events, faults>>

Revocable(r) == r.table = "succeeded" /\ r.grant \in {"succeeded", "skipped"} /\ r.revoke # "succeeded"

\* The end of a batch: session s goes on with revoke state v.
Ended(s, b, v, failed) ==
    LET p == session[s]
        r == p.view[b]
    IN
    session' = [session EXCEPT ![s] =
        [p EXCEPT !.pc = IF s = Scheduler THEN "next" ELSE "commit",
                  !.cur = {}, !.done = p.done \cup {b}, !.view[b] = NoRow,
                  !.new[b] = [r EXCEPT !.revoke = v,
                                       !.state = IF failed THEN "partial" ELSE "offlined",
                                       !.off = ~failed,
                                       !.table = IF r.table = "succeeded" /\ ~failed
                                                 THEN "offlined" ELSE r.table]]]

\* The table of the batch has nothing to revoke: no lease is read.
NothingToRevoke(s) ==
    \E b \in session[s].cur :
        /\ session[s].pc = "lock" /\ ~Revocable(session[s].view[b])
        /\ Ended(s, b, session[s].view[b].revoke, FALSE)
        /\ UNCHANGED <<config, priv, lease, saved, lock, row, offlines, events, faults>>

\* _privilege_lease_revoke_plan: does it decide to revoke?
MustRevoke(s, b, l) == References(s, b) = {} /\ l.state # "revoked" /\ l.owner = "system"

\* _lease_for_revoke locks the lease (or creates an unknown one for a batch of
\* the time before leases), the references are counted and the plan is made.
LockLease(s) ==
    LET l == IF lease = NoLease THEN [state |-> "active", owner |-> "unknown"] ELSE lease IN
    \E b \in session[s].cur :
        /\ session[s].pc = "lock" /\ Revocable(session[s].view[b]) /\ Free(s)
        /\ lock' = {s} /\ lease' = l
        /\ IF MustRevoke(s, b, l)
           THEN session' = [session EXCEPT ![s].pc = "revoke"]
           ELSE Ended(s, b, "skipped", FALSE)
        /\ UNCHANGED <<config, priv, saved, row, offlines, events, faults>>

Revoke(s) ==
    \E b \in session[s].cur :
        /\ session[s].pc = "revoke"
        /\ priv' = "none" /\ lease' = [lease EXCEPT !.state = "revoked"]
        /\ Ended(s, b, "succeeded", FALSE)
        /\ UNCHANGED <<config, saved, lock, row, offlines, events, faults>>

\* The REVOKE raises; it may have worked all the same.
RevokeFails(s) ==
    \E b \in session[s].cur :
        /\ session[s].pc = "revoke" /\ Fault
        /\ priv' \in {"none", priv} /\ lease' = [lease EXCEPT !.state = "error"]
        /\ Ended(s, b, "failed", TRUE)
        /\ UNCHANGED <<config, saved, lock, row, offlines>>

-----------------------------------------------------------------------------
(* Transactions, time and the administrator. *)

\* The columns that a session has changed; expires_at is none of them.
Merged(old, new) == [new EXCEPT !.due = old.due, !.extended = old.extended]

Unlock(s) == lock' = lock \ {s}

Commit(s) ==
    LET p == session[s] IN
    /\ p.pc = "commit"
    /\ row' = [b \in Batch |-> IF b \in p.done THEN Merged(row[b], p.new[b]) ELSE row[b]]
    /\ saved' = IF lock = {s} THEN lease ELSE saved
    /\ Unlock(s)
    /\ session' = [session EXCEPT ![s] = Idle]
    /\ UNCHANGED <<config, priv, lease, offlines, events, faults>>

\* The process dies or the database ends the transaction (deadlock, lock wait
\* timeout, lost connection): what Doris has executed stays.
Abort(s) ==
    /\ session[s].pc # "idle" /\ Fault
    /\ lease' = IF lock = {s} THEN saved ELSE lease
    /\ Unlock(s)
    /\ session' = [session EXCEPT ![s] = Idle]
    /\ UNCHANGED <<config, priv, saved, row, offlines>>

\* extend_grant_batch: one read and one commit.
Extend(b) ==
    /\ row[b].state # "none" /\ Event
    /\ row' = [row EXCEPT ![b] =
           [@ EXCEPT !.due = FALSE, !.extended = TRUE,
                     !.state = IF row[b].state = "offlined" THEN "succeeded" ELSE row[b].state,
                     !.off = IF row[b].state = "offlined" THEN FALSE ELSE row[b].off]]
    /\ UNCHANGED <<config, priv, lease, saved, lock, session, offlines, faults>>

\* Time passes expires_at, whatever snapshot it is compared in.
Expire(b) ==
    /\ row[b].state # "none" /\ ~row[b].due
    /\ row' = [row EXCEPT ![b].due = TRUE]
    /\ session' = [s \in Session |-> IF session[s].pc = "idle" THEN session[s]
                                     ELSE [session[s] EXCEPT !.seen = @ \ {b}]]
    /\ UNCHANGED <<config, priv, lease, saved, lock, offlines, events, faults>>

\* The administrator of Doris grants the privilege directly.
AdminGrant ==
    /\ priv = "none" /\ priv' = "admin"
    /\ Event
    /\ UNCHANGED <<config, lease, saved, lock, row, session, offlines, faults>>

-----------------------------------------------------------------------------
Revoking(s) == NothingToRevoke(s) \/ LockLease(s) \/ Revoke(s) \/ RevokeFails(s)
Pass == PassBegin \/ PassDone \/ \E b \in Batch : PassBatch(b) \/ PassNoProfile(b)

Next ==
    \/ Pass
    \/ \E s \in Session : Revoking(s) \/ Commit(s) \/ Abort(s)
    \/ \E b \in NewBatch : GrantImport(NewSession, b)
    \/ \E b \in Batch : Offline(NewSession, b)
    \/ \E b \in Batch : Extend(b) \/ Expire(b)
    \/ AdminGrant

Spec == Init /\ [][Next]_vars

\* The thread looks every 60 seconds, and a session that has begun goes on.
FairSpec ==
    /\ Spec /\ WF_vars(Pass)
    /\ \A s \in Session : WF_vars(Commit(s)) /\ SF_vars(Revoking(s))

-----------------------------------------------------------------------------
(* Properties. *)

\* A batch that is in force, for whoever reads its rows.
InForce(r) ==
    /\ r.state \in {"succeeded", "partial"} /\ ~r.due /\ ~r.off
    /\ r.table = "succeeded" /\ r.revoke # "succeeded"

\* While a batch that was never extended is in force, the privilege
\* is there: no other batch takes it away between its grant and its end.  Read
\* while no transaction is open on the lease, with read committed isolation and
\* without failures (a REVOKE that outlives its transaction leaves the batch
\* without the privilege until it is taken offline again).
KeptWhileNeeded ==
    (~config.repeatable /\ faults = 0 /\ lock = {}) =>
        \A b \in Batch : InForce(row[b]) /\ ~row[b].extended => priv # "none"

Quiet == \A s \in Session : session[s].pc = "idle"

\* A privilege the system has granted is never forgotten: as long as it is in
\* Doris some batch still has to take it back.  Without failures, with read
\* committed isolation and without batches older than the leases.
NothingLeft ==
    (~config.repeatable /\ config.legacy = {} /\ faults = 0 /\ Quiet /\ priv = "system") =>
        \E b \in Batch : row[b].state \in {"succeeded", "partial"} /\ Revocable(row[b])

\* The privilege follows the batches: there while one needs it, and never
\* without one that will take it back.
LeaseFollowed == KeptWhileNeeded /\ NothingLeft

\* A batch that expires is taken offline by the scheduler (or given up when its
\* connection is gone), unless it is extended.
Overdue == \E b \in Batch : /\ row[b].due /\ ~row[b].off /\ row[b].state # "failed"
                             /\ Revocable(row[b])
ExpiredEnds == []<>~Overdue
=============================================================================

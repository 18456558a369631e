----------------------------- MODULE Sm4Schedule -----------------------------
(***************************************************************************)
(* The SM4 schedules: the requests that change one and the scheduler       *)
(* thread, which every five seconds advances the schedules that are due    *)
(* and then creates a batch for each of them.                              *)
(*                                                                         *)
(* A request reads at its first statement and at its commit writes the     *)
(* columns it has changed, whatever has been written to the others in the  *)
(* meantime; so it is two steps, Begin and Commit.  Time is a counter: an  *)
(* interval is one unit long, a day (which stands for the week and the     *)
(* month too) two of them.  What a batch does is the matter of Sm4Batch.   *)
(***************************************************************************)
EXTENDS Naturals, Sequences, FiniteSets

CONSTANTS
    Schedule,     \* rows of doris_sm4_schedules
    TypeOf,       \* schedule_type of a schedule
    Session,      \* request slots
    MaxRequests,  \* bound: requests
    MaxNow,       \* bound: time
    MaxFaults     \* bound: restarts, refused batches and dropped connections

Sm4ScheduleAssumption ==
    /\ TypeOf \in [Schedule -> {"interval", "daily"}]
    /\ Session \subseteq Nat
    /\ MaxRequests \in Nat /\ MaxNow \in Nat \ {0} /\ MaxFaults \in Nat

VARIABLES
    row,       \* DorisSm4Schedule
    conn,      \* schedules whose connection exists
    pass,      \* the scheduler thread
    sess,      \* the open requests
    now,
    started,   \* the times the scheduler has created a batch for
    crossed,   \* ghost: some request has committed over a change it had not read
    requests, faults

vars == <<row, conn, pass, sess, now, started, crossed, requests, faults>>

Unset == 0
Row == [enabled : BOOLEAN, next : Unset .. MaxNow + 2,
        archived : BOOLEAN, deleted : BOOLEAN]
Rows == [Schedule -> Row]
Resting == [at |-> "rest"]
Idle == [op |-> "idle"]
Op == {"stop", "resume", "archive", "restore", "delete", "update", "run"}

TypeOK ==
    /\ row \in Rows /\ conn \subseteq Schedule
    /\ pass \in {Resting} \cup [at : {"read", "create"}, read : Rows, due : SUBSET Schedule, now : 1 .. MaxNow]
    /\ sess \in [Session -> {Idle} \cup [op : Op, s : Schedule, read : Row, new : Row]]
    /\ now \in 1 .. MaxNow /\ started \in [Schedule -> Seq(1 .. MaxNow)]
    /\ crossed \in BOOLEAN /\ requests \in 0 .. MaxRequests /\ faults \in 0 .. MaxFaults

NextTimeIncluded(s, after) ==
    IF TypeOf[s] = "interval" THEN after + 1
    ELSE CHOOSE t \in {after, after + 1} : t % 2 = 0
\* _next_schedule_time: strictly after the time given.
NextTime(s, after) ==
    IF TypeOf[s] = "interval" THEN after + 1
    ELSE CHOOSE t \in {after + 1, after + 2} : t % 2 = 0

\* create_sm4_schedule
Created(s, enabled) ==
    [enabled |-> enabled, next |-> IF enabled THEN NextTime(s, 1) ELSE Unset,
     archived |-> FALSE, deleted |-> FALSE]

Init ==
    /\ \E enabled \in SUBSET Schedule : row = [s \in Schedule |-> Created(s, s \in enabled)]
    /\ conn = Schedule
    /\ pass = Resting /\ sess = [r \in Session |-> Idle]
    /\ now = 1 /\ started = [s \in Schedule |-> <<>>]
    /\ crossed = FALSE /\ requests = 0 /\ faults = 0

-----------------------------------------------------------------------------
(* Time and what else happens.                                             *)

\* A minute passes.  A request, and the scheduler between its reading and its
\* commit, take less than that.
Tick ==
    /\ pass.at # "read" /\ \A r \in Session : sess[r] = Idle
    /\ now < MaxNow /\ now' = now + 1
    /\ UNCHANGED <<row, conn, pass, sess, started, crossed, requests, faults>>

DropConnection(s) ==
    /\ s \in conn /\ faults < MaxFaults
    /\ conn' = conn \ {s} /\ faults' = faults + 1
    /\ UNCHANGED <<row, pass, sess, now, started, crossed, requests>>

Restart ==
    /\ faults < MaxFaults /\ faults' = faults + 1
    /\ pass' = Resting /\ sess' = [r \in Session |-> Idle]
    /\ UNCHANGED <<row, conn, now, started, crossed, requests>>

-----------------------------------------------------------------------------
(* The requests.                                                           *)

\* next_run_at of a schedule as it has become.
RescheduledIfSet(s, r) ==
    [r EXCEPT !.next = IF r.enabled /\ r.next # Unset THEN NextTime(s, now) ELSE Unset]
Rescheduled(s, r) == [r EXCEPT !.next = IF r.enabled THEN NextTime(s, now) ELSE Unset]
Stopped(r) == [r EXCEPT !.enabled = FALSE, !.next = Unset]

\* Sessions are alike: a request takes the first free one.
Begin(r, op, s, new) ==
    /\ sess[r] = Idle /\ \A q \in Session : q < r => sess[q] # Idle
    /\ requests < MaxRequests /\ requests' = requests + 1
    /\ sess' = [sess EXCEPT ![r] = [op |-> op, s |-> s, read |-> row[s], new |-> new]]
    /\ UNCHANGED <<row, conn, pass, now, started, crossed, faults>>

Live(s) == ~row[s].deleted
Usable(s) == ~row[s].deleted /\ ~row[s].archived

StopSchedule(r, s) == Live(s) /\ Begin(r, "stop", s, Stopped(row[s]))
ResumeSchedule(r, s) == Usable(s) /\ Begin(r, "resume", s, Rescheduled(s, [row[s] EXCEPT !.enabled = TRUE]))
ArchiveSchedule(r, s) == Live(s) /\ Begin(r, "archive", s, [Stopped(row[s]) EXCEPT !.archived = TRUE])
RestoreSchedule(r, s) == Live(s) /\ Begin(r, "restore", s, [Stopped(row[s]) EXCEPT !.archived = FALSE])
DeleteSchedule(r, s) == Live(s) /\ Begin(r, "delete", s, [Stopped(row[s]) EXCEPT !.deleted = TRUE])
UpdateSchedule(r, s) ==
    \E enabled \in BOOLEAN :
        Usable(s) /\ Begin(r, "update", s, Rescheduled(s, [row[s] EXCEPT !.enabled = enabled]))
\* The batch it creates after its commit is the client's own, not the scheduler's.
RunScheduleNow(r, s) == Usable(s) /\ s \in conn /\ Begin(r, "run", s, Rescheduled(s, row[s]))

\* The columns that have been changed, over the row as it is now.
Merged(cur, read, new) == [c \in DOMAIN cur |-> IF new[c] = read[c] THEN cur[c] ELSE new[c]]

Commit(r) ==
    LET q == sess[r]
    IN  /\ q # Idle
        /\ row' = [row EXCEPT ![q.s] = Merged(@, q.read, q.new)]
        /\ sess' = [sess EXCEPT ![r] = Idle]
        /\ crossed' = (crossed \/ (q.new # q.read /\ row[q.s] # q.read))
        /\ UNCHANGED <<conn, pass, now, started, requests, faults>>

-----------------------------------------------------------------------------
(* The scheduler thread: _run_due_sm4_schedules.                           *)

IsDue(s) == row[s].enabled /\ row[s].next # Unset /\ row[s].next <= now /\ Usable(s)

ReadDue ==
    /\ pass = Resting /\ \E s \in Schedule : IsDue(s)
    /\ pass' = [at |-> "read", read |-> row, due |-> {s \in Schedule : IsDue(s)}, now |-> now]
    /\ UNCHANGED <<row, conn, sess, now, started, crossed, requests, faults>>

\* All of them are advanced; one without its connection gets no batch.
Advanced(s) == [pass.read[s] EXCEPT !.next = NextTime(s, pass.now)]
Advance ==
    /\ pass.at = "read"
    /\ row' = [s \in Schedule |-> IF s \in pass.due THEN Merged(row[s], pass.read[s], Advanced(s))
                                  ELSE row[s]]
    /\ crossed' = (crossed \/ \E s \in pass.due : row[s] # pass.read[s])
    /\ pass' = [pass EXCEPT !.at = "create", !.due = @ \cap conn]
    /\ UNCHANGED <<conn, sess, now, started, requests, faults>>

\* The earliest first.
CreateBatch(s) ==
    /\ pass.at = "create" /\ s \in pass.due
    /\ \A t \in pass.due : pass.read[s].next <= pass.read[t].next
    /\ started' = [started EXCEPT ![s] = Append(@, pass.read[s].next)]
    /\ pass' = [pass EXCEPT !.due = @ \ {s}]
    /\ UNCHANGED <<row, conn, sess, now, crossed, requests, faults>>

\* create_sm4_batch_task raises: the pass ends, the rest is not created.
BatchRefused ==
    /\ pass.at = "create" /\ pass.due # {} /\ faults < MaxFaults
    /\ faults' = faults + 1 /\ pass' = Resting
    /\ UNCHANGED <<row, conn, sess, now, started, crossed, requests>>

EndPass ==
    /\ pass.at = "create" /\ pass.due = {}
    /\ pass' = Resting
    /\ UNCHANGED <<row, conn, sess, now, started, crossed, requests, faults>>

Serve(r) ==
    \/ \E s \in Schedule :
          \/ StopSchedule(r, s) \/ ResumeSchedule(r, s) \/ ArchiveSchedule(r, s)
          \/ RestoreSchedule(r, s) \/ DeleteSchedule(r, s) \/ UpdateSchedule(r, s)
          \/ RunScheduleNow(r, s)
    \/ Commit(r)

Next ==
    \/ Tick \/ \E s \in Schedule : DropConnection(s) \/ CreateBatch(s)
    \/ \E r \in Session : Serve(r)
    \/ ReadDue \/ Advance \/ BatchRefused \/ EndPass \/ Restart

Spec == Init /\ [][Next]_vars

-----------------------------------------------------------------------------
(* Properties.                                                             *)

\* The scheduler creates at most one batch for each time of a schedule, and in
\* their order, whatever fails, restarts or is requested in between: a schedule
\* has been advanced before its batch is created, and no request brings back
\* a time it has read.
StartedOnce ==
    \A s \in Schedule : \A i \in 1 .. Len(started[s]) - 1 : started[s][i] < started[s][i + 1]

\* An enabled schedule in use has a next run time, as long as no request has
\* committed over a change it had not read.  With overlaps one can stay
\* enabled without ever running again.
EnabledFires ==
    ~crossed => \A s \in Schedule : row[s].enabled => Usable(s) /\ row[s].next # Unset
=============================================================================

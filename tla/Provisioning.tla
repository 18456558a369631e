---------------------------- MODULE Provisioning ----------------------------
(***************************************************************************)
(* Batches against the external BI platform: rows that get a Doris user, a *)
(* database, a grant and a connection registered at the platform           *)
(* (services/resource_provisioning.py), and rows that get a role there for *)
(* a connection registered before (services/resource_permissions.py).      *)
(* Celery runs a batch in one worker process, with a thread per row; the   *)
(* platform's token is cached per process.  A retry is accepted as soon as *)
(* one row has failed, so runs of one batch may overlap.                   *)
(*                                                                         *)
(* One batch, of either kind.  Left out: the parsing of the uploaded       *)
(* sheet, the payloads and their redaction, the history of the attempts.   *)
(***************************************************************************)
EXTENDS Naturals, FiniteSets, FiniteSetsExt

CONSTANTS
    Rows,        \* the rows of the batch
    Procs,       \* the worker processes
    Deletions,   \* the requests that delete a role, in the API process: a name and the row each
    Batches,     \* the batches Init chooses from
    MaxRuns,     \* bound: the messages sent for the batch
    MaxFaults,   \* bound: answers that are lost or negative, crashes, failed sends
    MaxExpiries  \* bound: tokens the platform lets expire

(***************************************************************************)
(* batch: what was asked; it never changes.  state: of the batch.  row:    *)
(* the state of each row.  log: for each row and step the best outcome     *)
(* logged.  role: role_id and role_delete_state of a row.  messages: those *)
(* not taken, and how many were sent.  proc: the rows a process has still  *)
(* to run, or Idle.  at: where the thread of a row, or a deletion, stands. *)
(* token, cache: the token an actor uses and the one its process caches;   *)
(* live: those a process was given that the platform still accepts.        *)
(* world: what exists in Doris and at the platform.                        *)
(***************************************************************************)
VARIABLES batch, state, row, log, role, messages, proc, at, token, cache, live, world, faults, expiries

vars == <<batch, state, row, log, role, messages, proc, at, token, cache, live, world, faults, expiries>>

book == <<state, row, log, role, messages, proc>>
keys == <<token, cache, live>>
rest == <<batch, faults, expiries>>

RowThreads == Procs \X Rows
Actors == RowThreads \cup Deletions
Homes == Procs \cup {"api"}
Home(a) == IF a \in RowThreads THEN a[1] ELSE "api"
RowOf(a) == a[2]

(***************************************************************************)
(* The steps of a row, in the order in which they are run.                 *)
(***************************************************************************)
ProvisionSteps == <<"validate", "create_user", "create_database", "grant_database", "register_connection", "complete">>
PermissionSteps == <<"validate", "lookup_resource", "import_permissions", "complete">>
Steps == IF batch.kind = "provision" THEN ProvisionSteps ELSE PermissionSteps
StepNames == {ProvisionSteps[i] : i \in DOMAIN ProvisionSteps} \cup {PermissionSteps[i] : i \in DOMAIN PermissionSteps}

StepLogged(done, s) == done[s] # "none"

\* Only a step that succeeded or had nothing to do is not run again.
StepAlreadyDone(done, s) == done[s] = "done"
PermissionStepAlreadyDone(done, s) == StepAlreadyDone(done, s)

NextStep(done) ==
    LET left == {i \in DOMAIN Steps : ~(IF batch.kind = "provision" THEN StepAlreadyDone(done, Steps[i])
                                                                     ELSE PermissionStepAlreadyDone(done, Steps[i]))}
    IN  IF left = {} THEN "finish" ELSE Steps[Min(left)]

(***************************************************************************)
(* What is checked of the rows when they are submitted and when they run.  *)
(***************************************************************************)
Sound(x) == x.mobile /\ x.names
ValidateSubmissionRows(b) ==
    /\ \A r \in DOMAIN b.sheet : Sound(b.sheet[r])
    /\ \A r, q \in DOMAIN b.sheet : r # q => b.sheet[r].user # b.sheet[q].user /\ b.sheet[r].database # b.sheet[q].database

ValidateRuntimeRow(r) == batch.sheet[r].person /\ Sound(batch.sheet[r])
ValidateRuntime(r) == Sound(batch.sheet[r])
Valid(r) == IF batch.kind = "provision" THEN ValidateRuntimeRow(r) ELSE ValidateRuntime(r)

Idle == {"idle"}
BatchStates == {"none", "pending", "running", "succeeded", "partial", "failed"}
RowStates == {"none", "pending", "running", "succeeded", "failed", "conflict"}
RoleStates == {"not_created", "active", "deleting", "deleted", "delete_failed"}
Stages == {"off", "read", "new_user", "new_database", "post", "refresh", "repost", "resolve", "finish"} \cup StepNames

(***************************************************************************)
(* The tables of the platform and of Doris the code reads and writes.      *)
(***************************************************************************)
NoWorld == [users |-> {}, databases |-> {}, grants |-> {}, connections |-> {}, roles |-> {}, listed |-> [r \in Rows |-> 0]]

Init ==
    /\ batch \in {b \in Batches : ValidateSubmissionRows(b)}
    /\ state = "none"
    /\ row = [r \in Rows |-> "none"]
    /\ log = [r \in Rows |-> [s \in StepNames |-> "none"]]
    /\ role = [r \in Rows |-> "not_created"]
    /\ messages = [left |-> 0, sent |-> 0]
    /\ proc = [p \in Procs |-> Idle]
    /\ at = [a \in Actors |-> "off"]
    /\ token = [a \in Actors |-> 0]
    /\ cache = [h \in Homes |-> 0]
    /\ live = [h \in Homes |-> {}]
    /\ world = NoWorld
    /\ faults = 0
    /\ expiries = 0

Busy(p) == proc[p] # Idle
Fault == faults < MaxFaults /\ faults' = faults + 1

(***************************************************************************)
(* The API: a batch is stored, or its failed rows are reset, and then a    *)
(* message is sent; where that fails the answer is an error, but what was  *)
(* stored stays.                                                           *)
(***************************************************************************)
Send ==
    /\ messages.sent < MaxRuns
    /\ \/ messages' = [left |-> messages.left + 1, sent |-> messages.sent + 1] /\ UNCHANGED faults
       \/ messages' = [messages EXCEPT !.sent = @ + 1] /\ Fault

Create ==
    /\ state = "none"
    /\ state' = "pending"
    /\ row' = [r \in Rows |-> IF r \in DOMAIN batch.sheet THEN "pending" ELSE "none"]
    /\ Send
    /\ UNCHANGED <<batch, log, role, proc, at, keys, world, expiries>>

CreateBatch == batch.kind = "provision" /\ Create
CreatePermissionBatch == batch.kind = "permit" /\ Create

ResetFailed ==
    LET failed == {r \in Rows : row[r] \in {"failed", "conflict"}}
    IN  /\ failed # {}
        /\ row' = [r \in Rows |-> IF r \in failed THEN "pending" ELSE row[r]]
        /\ state' = "pending"
        /\ Send
        /\ UNCHANGED <<batch, log, role, proc, at, keys, world, expiries>>

PrepareRetry == batch.kind = "provision" /\ ResetFailed
PreparePermissionRetry == batch.kind = "permit" /\ ResetFailed

(***************************************************************************)
(* A worker process: it takes the pending rows, runs them in threads, and  *)
(* ends with a state made of the rows there are then.  A row that another  *)
(* run works on counts neither as succeeded nor as failed.                 *)
(***************************************************************************)
Take(p) ==
    /\ ~Busy(p) /\ messages.left > 0
    /\ messages' = [messages EXCEPT !.left = @ - 1]
    /\ state' = "running"
    /\ proc' = [proc EXCEPT ![p] = {r \in Rows : row[r] = "pending"}]
    /\ UNCHANGED <<row, log, role, at, keys, world, rest>>

Summary ==
    IF ~(\E r \in Rows : row[r] \in {"failed", "conflict"}) THEN "succeeded"
    ELSE IF \E r \in Rows : row[r] = "succeeded" THEN "partial" ELSE "failed"

End(p) ==
    /\ proc[p] = {}
    /\ state' = Summary
    /\ proc' = [proc EXCEPT ![p] = Idle]
    /\ UNCHANGED <<row, log, role, messages, at, keys, world, rest>>

RunBatch(p) == batch.kind = "provision" /\ (Take(p) \/ End(p))
RunPermissionBatch(p) == batch.kind = "permit" /\ (Take(p) \/ End(p))

\* The process dies: its message is delivered again, the rows it ran stay running.
Crash(p) ==
    /\ Busy(p)
    /\ Fault
    /\ proc' = [proc EXCEPT ![p] = Idle]
    /\ messages' = [messages EXCEPT !.left = @ + 1]
    /\ at' = [a \in Actors |-> IF Home(a) = p THEN "off" ELSE at[a]]
    /\ token' = [a \in Actors |-> IF Home(a) = p THEN 0 ELSE token[a]]
    /\ cache' = [cache EXCEPT ![p] = 0]
    /\ live' = [live EXCEPT ![p] = {}]
    /\ UNCHANGED <<batch, state, row, log, role, world, expiries>>

(***************************************************************************)
(* The start of a row.  For the first kind the state is read and then      *)
(* written, for the second one under a row lock.                           *)
(***************************************************************************)
Parallel(p) == Cardinality({r \in Rows : at[<<p, r>>] # "off"}) < batch.parallelism
Starts(p, r) == Busy(p) /\ r \in proc[p] /\ at[<<p, r>>] = "off" /\ Parallel(p)
SetRunning(a) ==
    /\ row' = [row EXCEPT ![RowOf(a)] = "running"]
    /\ at' = [at EXCEPT ![a] = NextStep(log[RowOf(a)])]
    /\ UNCHANGED <<state, log, role, messages, proc, keys, world, rest>>
NotPending(p, r) ==
    /\ row[r] # "pending"
    /\ proc' = [proc EXCEPT ![p] = @ \ {r}]
    /\ UNCHANGED <<state, row, log, role, messages, at, keys, world, rest>>

ReadRow(p, r) ==
    /\ Starts(p, r)
    /\ \/ row[r] = "pending" /\ at' = [at EXCEPT ![<<p, r>>] = "read"] /\ UNCHANGED <<book, keys, world, rest>>
       \/ NotPending(p, r)
RunRow(p, r) ==
    \/ batch.kind = "provision" /\ ReadRow(p, r)
    \/ at[<<p, r>>] = "read" /\ SetRunning(<<p, r>>)

RunUnlockedRow(p, r) ==
    \/ batch.kind = "permit" /\ ReadRow(p, r)
    \/ at[<<p, r>>] = "read" /\ SetRunning(<<p, r>>)

RunPermissionRow(p, r) ==
    /\ batch.kind = "permit" /\ Starts(p, r)
    /\ (row[r] = "pending" /\ SetRunning(<<p, r>>)) \/ NotPending(p, r)

(***************************************************************************)
(* The end of a step and of a row.                                         *)
(***************************************************************************)
ExecuteStep(a, s) ==
    LET done == [log[RowOf(a)] EXCEPT ![s] = "done"]
    IN  /\ log' = [log EXCEPT ![RowOf(a)] = done]
        /\ at' = [at EXCEPT ![a] = NextStep(done)]
        /\ token' = [token EXCEPT ![a] = 0]

\* The step is logged as failed, then the row is; what was done before stays logged.
MarkRowFailed(a, s, as) ==
    /\ log' = [log EXCEPT ![RowOf(a)][s] = IF @ = "done" THEN @ ELSE "failed"]
    /\ row' = [row EXCEPT ![RowOf(a)] = as]
    /\ at' = [at EXCEPT ![a] = "off"]
    /\ token' = [token EXCEPT ![a] = 0]
    /\ proc' = [proc EXCEPT ![a[1]] = @ \ {RowOf(a)}]
    /\ UNCHANGED <<state, role, messages>>

StepDone(a, s) == ExecuteStep(a, s) /\ UNCHANGED <<state, row, role, messages, proc, cache, live, rest>>
StepFails(a, s, as) == MarkRowFailed(a, s, as) /\ UNCHANGED <<cache, live, batch, expiries>>

FinishRow(a) ==
    /\ at[a] = "finish"
    /\ row' = [row EXCEPT ![RowOf(a)] = "succeeded"]
    /\ at' = [at EXCEPT ![a] = "off"]
    /\ proc' = [proc EXCEPT ![a[1]] = @ \ {RowOf(a)}]
    /\ UNCHANGED <<state, log, role, messages, keys, world, rest>>

(***************************************************************************)
(* The steps without the platform.  Whether a user or a database exists is *)
(* asked first; creating one that exists by then is an error.              *)
(***************************************************************************)
Validate(a) ==
    /\ at[a] = "validate"
    /\ \/ Valid(RowOf(a)) /\ StepDone(a, "validate")
       \/ ~Valid(RowOf(a)) /\ StepFails(a, "validate", "failed") /\ UNCHANGED faults
       \/ batch.kind = "permit" /\ batch.soon /\ StepFails(a, "validate", "failed") /\ UNCHANGED faults
    /\ UNCHANGED world

Complete(a) == at[a] = "complete" /\ StepDone(a, "complete") /\ UNCHANGED world

DorisUserExists(r) == r \in world.users
DorisDatabaseExists(r) == r \in world.databases

Goes(a, stage) == at' = [at EXCEPT ![a] = stage] /\ UNCHANGED <<book, keys, world, rest>>

\* A statement that fails, or one whose answer is lost.
DorisFails(a, s, with) ==
    /\ Fault
    /\ world' \in {world, with}
    /\ StepFails(a, s, "failed")

CreateUser(a) ==
    LET with == [world EXCEPT !.users = @ \cup {RowOf(a)}]
    IN  \/ /\ at[a] = "create_user"
           /\ IF DorisUserExists(RowOf(a)) THEN StepDone(a, "create_user") /\ UNCHANGED world ELSE Goes(a, "new_user")
        \/ /\ at[a] = "new_user"
           /\ \/ ~DorisUserExists(RowOf(a)) /\ world' = with /\ StepDone(a, "create_user")
              \/ DorisUserExists(RowOf(a)) /\ StepFails(a, "create_user", "failed") /\ UNCHANGED <<world, faults>>
              \/ DorisFails(a, "create_user", with)

CreateDatabase(a) ==
    LET with == [world EXCEPT !.databases = @ \cup {RowOf(a)}]
    IN  \/ /\ at[a] = "create_database"
           /\ IF DorisDatabaseExists(RowOf(a)) THEN StepDone(a, "create_database") /\ UNCHANGED world
                                              ELSE Goes(a, "new_database")
        \/ /\ at[a] = "new_database"
           /\ \/ ~DorisDatabaseExists(RowOf(a)) /\ world' = with /\ StepDone(a, "create_database")
              \/ DorisDatabaseExists(RowOf(a)) /\ StepFails(a, "create_database", "failed") /\ UNCHANGED <<world, faults>>
              \/ DorisFails(a, "create_database", with)

GrantDatabase(a) ==
    LET with == [world EXCEPT !.grants = @ \cup {RowOf(a)}]
    IN  /\ at[a] = "grant_database"
        /\ (world' = with /\ StepDone(a, "grant_database")) \/ DorisFails(a, "grant_database", with)

\* The resource is looked up until its time is over; two of its name are a conflict.
LookupResource(a) ==
    /\ at[a] = "lookup_resource"
    /\ CASE world.listed[RowOf(a)] = 0 -> StepFails(a, "lookup_resource", "failed")
         [] world.listed[RowOf(a)] = 1 -> StepDone(a, "lookup_resource")
         [] world.listed[RowOf(a)] = 2 -> StepFails(a, "lookup_resource", "conflict")
    /\ UNCHANGED <<world, faults>>

(***************************************************************************)
(* The platform's token.  A process takes it from its cache or logs in,    *)
(* under a lock.  A refused call gets a fresh one once: that of another    *)
(* thread if the cache has it, otherwise by a new login.                   *)
(***************************************************************************)
NewToken(h) ==
    LET known == {0, cache[h]} \cup live[h] \cup {token[a] : a \in {b \in Actors : Home(b) = h}}
    IN  Min((1 .. Cardinality(known)) \ known)
Login(h) ==
    /\ live' = [live EXCEPT ![h] = @ \cup {NewToken(h)}]
    /\ cache' = [cache EXCEPT ![h] = NewToken(h)]

Deleted(a, as) ==
    /\ role' = [role EXCEPT ![RowOf(a)] = as]
    /\ at' = [at EXCEPT ![a] = "off"]
    /\ token' = [token EXCEPT ![a] = 0]
    /\ UNCHANGED <<state, row, log, messages, proc, cache, live, batch, expiries>>

\* A token typed in by hand is used as it is: where it is refused the call fails.
Accepted(a) == ~batch.login \/ token[a] \in live[Home(a)]

CallStep == IF batch.kind = "provision" THEN "register_connection" ELSE "import_permissions"
CallFails(a) == IF a \in RowThreads THEN StepFails(a, CallStep, "failed") ELSE Deleted(a, "delete_failed")
AtCall(a) == at[a] = IF a \in RowThreads THEN CallStep ELSE "resolve"

Holds(a, next) ==
    /\ token' = [token EXCEPT ![a] = cache'[Home(a)]]
    /\ at' = [at EXCEPT ![a] = next]
    /\ UNCHANGED <<book, world>>

ResolveToken(a) ==
    /\ AtCall(a)
    /\ \/ ~batch.login /\ Goes(a, "post")
       \/ batch.login /\ cache[Home(a)] # 0 /\ UNCHANGED <<cache, live>> /\ Holds(a, "post") /\ UNCHANGED rest
       \/ batch.login /\ cache[Home(a)] = 0 /\ Login(Home(a)) /\ Holds(a, "post") /\ UNCHANGED rest
       \/ batch.login /\ cache[Home(a)] = 0 /\ Fault /\ CallFails(a) /\ UNCHANGED world

RefreshAlways(a) ==
    /\ at[a] = "refresh"
    /\ Login(Home(a)) /\ Holds(a, "repost") /\ UNCHANGED rest

RefreshToken(a) ==
    LET peer == cache[Home(a)] \notin {0, token[a]}
    IN  /\ at[a] = "refresh"
        /\ \/ peer /\ UNCHANGED <<cache, live>> /\ Holds(a, "repost") /\ UNCHANGED rest
           \/ ~peer /\ Login(Home(a)) /\ Holds(a, "repost") /\ UNCHANGED rest
           \/ ~peer /\ Fault /\ CallFails(a) /\ UNCHANGED world

\* Refused again: the token goes out of the cache, unless it was replaced there meanwhile.
InvalidateToken(a) == cache' = [cache EXCEPT ![Home(a)] = IF @ = token[a] THEN 0 ELSE @]

(***************************************************************************)
(* The calls.  A connection or a role that exists already is taken for     *)
(* done; a role that does not exist cannot be deleted.                     *)
(***************************************************************************)
RegisterExternalConnection(a) ==
    LET with == [world EXCEPT !.connections = @ \cup {RowOf(a)}]
    IN  \/ world' = with /\ StepDone(a, CallStep)
        \/ Fault /\ world' \in {world, with} /\ StepFails(a, CallStep, "failed")

\* The role's number is in the answer; without it the step fails, and the role is there.
ImportDataPermissions(a) ==
    LET with == [world EXCEPT !.roles = @ \cup {RowOf(a)}]
    IN  \/ /\ world' = with
           /\ role' = [role EXCEPT ![RowOf(a)] = "active"]
           /\ ExecuteStep(a, CallStep)
           /\ UNCHANGED <<state, row, messages, proc, cache, live, rest>>
        \/ Fault /\ world' \in {world, with} /\ StepFails(a, CallStep, "failed")

DeleteRole(a) ==
    LET without == [world EXCEPT !.roles = @ \ {RowOf(a)}]
    IN  \/ RowOf(a) \in world.roles /\ world' = without /\ Deleted(a, "deleted") /\ UNCHANGED faults
        \/ RowOf(a) \notin world.roles /\ Deleted(a, "delete_failed") /\ UNCHANGED <<world, faults>>
        \/ Fault /\ world' \in {world, without} /\ Deleted(a, "delete_failed")

Call(a) ==
    /\ at[a] \in {"post", "repost"}
    /\ Accepted(a)
    /\ \/ a \in RowThreads /\ batch.kind = "provision" /\ RegisterExternalConnection(a)
       \/ a \in RowThreads /\ batch.kind = "permit" /\ ImportDataPermissions(a)
       \/ a \in Deletions /\ DeleteRole(a)

AuthFailure(a) ==
    \/ at[a] = "post" /\ ~Accepted(a) /\ Goes(a, "refresh")
    \/ /\ at[a] = "repost" /\ ~Accepted(a)
       /\ InvalidateToken(a)
       /\ IF a \in RowThreads
          THEN MarkRowFailed(a, CallStep, "failed")
          ELSE /\ role' = [role EXCEPT ![RowOf(a)] = "delete_failed"]
               /\ at' = [at EXCEPT ![a] = "off"]
               /\ token' = [token EXCEPT ![a] = 0]
               /\ UNCHANGED <<state, row, log, messages, proc>>
       /\ UNCHANGED <<live, world, rest>>

\* The request to delete a role: two of them may both have read that it is active.
DeletePermissionRole(a) ==
    /\ batch.kind = "permit"
    /\ \/ /\ at[a] = "off" /\ role[RowOf(a)] \in {"active", "delete_failed"}
          /\ Goes(a, "read")
       \/ /\ at[a] = "read"
          /\ role' = [role EXCEPT ![RowOf(a)] = "deleting"]
          /\ at' = [at EXCEPT ![a] = "resolve"]
          /\ UNCHANGED <<state, row, log, messages, proc, keys, world, rest>>

(***************************************************************************)
(* The platform: tokens expire, resources appear in its table.             *)
(***************************************************************************)
Expire(h) ==
    /\ live[h] # {} /\ expiries < MaxExpiries
    /\ live' = [live EXCEPT ![h] = {}]
    /\ expiries' = expiries + 1
    /\ UNCHANGED <<batch, book, at, token, cache, world, faults>>

ListResource(r) ==
    /\ batch.kind = "permit" /\ r \in DOMAIN batch.sheet /\ world.listed[r] = 0
    /\ \E n \in 1 .. 2 : world' = [world EXCEPT !.listed[r] = n]
    /\ UNCHANGED <<book, at, keys, rest>>

ThreadStep(a) ==
    \/ Validate(a) \/ CreateUser(a) \/ CreateDatabase(a) \/ GrantDatabase(a) \/ LookupResource(a)
    \/ ResolveToken(a) \/ RefreshToken(a) \/ Call(a) \/ AuthFailure(a) \/ Complete(a) \/ FinishRow(a)
ProcStep(p) ==
    \/ RunBatch(p) \/ RunPermissionBatch(p)
    \/ \E r \in Rows : RunRow(p, r) \/ RunPermissionRow(p, r) \/ ThreadStep(<<p, r>>)
RequestStep(a) == DeletePermissionRole(a) \/ ResolveToken(a) \/ RefreshToken(a) \/ Call(a) \/ AuthFailure(a)

Next ==
    \/ CreateBatch \/ CreatePermissionBatch \/ PrepareRetry \/ PreparePermissionRetry
    \/ \E p \in Procs : ProcStep(p) \/ Crash(p)
    \/ \E a \in Deletions : RequestStep(a)
    \/ \E h \in Homes : Expire(h)
    \/ \E r \in Rows : ListResource(r)

Spec == Init /\ [][Next]_vars

FairSpec ==
    /\ Spec
    /\ \A p \in Procs : WF_vars(RunBatch(p) \/ RunPermissionBatch(p))
    /\ \A p \in Procs, r \in Rows : WF_vars(RunRow(p, r) \/ RunPermissionRow(p, r) \/ ThreadStep(<<p, r>>))

-----------------------------------------------------------------------------
TypeOK ==
    /\ batch \in Batches
    /\ state \in BatchStates
    /\ row \in [Rows -> RowStates]
    /\ log \in [Rows -> [StepNames -> {"none", "failed", "done"}]]
    /\ role \in [Rows -> RoleStates]
    /\ proc \in [Procs -> (SUBSET Rows) \cup {Idle}]
    /\ at \in [Actors -> Stages]
    /\ messages.left \in 0 .. MaxRuns + MaxFaults
    /\ \A h \in Homes : live[h] \in SUBSET Nat /\ cache[h] \in Nat

(***************************************************************************)
(* A row that succeeded has everything it reports: the user, the database, *)
(* the grant and the registered connection, or a role whose number is      *)
(* known; however many attempts it took, which of their steps were skipped *)
(* and whichever answers were lost (_step_already_done).                   *)
(***************************************************************************)
RowEarned ==
    \A r \in Rows : row[r] = "succeeded" =>
        IF batch.kind = "provision"
        THEN r \in world.users \cap world.databases \cap world.grants \cap world.connections
        ELSE role[r] # "not_created"

(***************************************************************************)
(* A role shown as active exists at the platform and one shown as deleted  *)
(* does not, with deletions that race with each other and with another run *)
(* of the batch (the row lock of _run_permission_row).                     *)
(***************************************************************************)
RoleHonest ==
    \A r \in Rows :
        /\ role[r] = "active" => r \in world.roles
        /\ role[r] = "deleted" => r \notin world.roles

(***************************************************************************)
(* A process logs in again only when the platform has refused the token it *)
(* caches: threads that find the same token refused share one login.       *)
(***************************************************************************)
OneLiveToken == \A h \in Homes : Cardinality(live[h]) <= 1

(***************************************************************************)
(* A run that a process has taken ends, whatever its calls answer.         *)
(***************************************************************************)
RunsEnd == \A p \in Procs : []<>(~Busy(p))
=============================================================================

--------------------------- MODULE ServerRestore ---------------------------
(***************************************************************************)
(* The restores of MySQL dumps and of SQL Server backups                   *)
(* (mysql_pipeline.py, sqlserver_pipeline.py and the plans and executors   *)
(* they use).  A run finds the files in the directory of the source host,  *)
(* groups them, copies those of the group it was given into the backup     *)
(* directory of the Docker host and loads them with one command inside     *)
(* the container.  Runs of different tasks share that directory and the    *)
(* databases, and nothing keeps them apart.                                *)
(*                                                                         *)
(* The command is not part of the run: its SSH connection has a timeout,   *)
(* after which the run has failed and the command may still be going.      *)
(*                                                                         *)
(* A file is a stem, a tail ("" or one that marks a log file) and a        *)
(* suffix; rank is its place in the order of the names.  Left out: a copy  *)
(* onto itself, and the reading of a file while the load goes on (a file   *)
(* is read when its load starts).                                          *)
(***************************************************************************)
EXTENDS Naturals, FiniteSets, Sequences, SequencesExt

CONSTANTS
    Runs,       \* the calls of a pipeline
    Restores,   \* the assignments of a job to every run that Init chooses from
    Files,      \* the files a source directory may hold
    Databases,  \* the names of databases
    normal,     \* the database name made of a stem and a tail; not injective
    Routines,   \* the objects of a dump that are no tables
    MaxFaults   \* bound: commands that fail in a behaviour

(***************************************************************************)
(* job: what every run is given; it never changes.  host: whose dump lies  *)
(* under a file name in the backup directory.  db: the databases.  run:    *)
(* the runs.  loader: the command of every run.  faults: how many there    *)
(* were.  disturbed is history: the runs of which another run has written  *)
(* the file or the database since they began.                              *)
(***************************************************************************)
VARIABLES job, host, db, run, loader, faults, disturbed

vars == <<job, host, db, run, loader, faults, disturbed>>

Nothing == "nothing"
Partial == "partial"

\* objects: what the dump holds, in its order.  broken: it is damaged, and decompressing
\* it ends early with an error.
JobType == [engine : {"mysql", "sqlserver"}, files : SUBSET Files, index : Nat,
            target : Databases \cup {""}, drops : BOOLEAN, objects : Seq(STRING), broken : BOOLEAN]

(***************************************************************************)
(* The groups of a directory and the plan for the one with the index.      *)
(***************************************************************************)
ByRank(S) == SetToSortSeq(S, LAMBDA f, g : f.rank < g.rank)
OfKind(S, kinds) == {f \in S : f.suffix \in kinds}
Least(S) == CHOOSE f \in S : \A g \in S : f.rank =< g.rank

MySqlGroups(files) == [i \in DOMAIN ByRank(OfKind(files, {"sql", "gz", "zip"})) |->
                           {ByRank(OfKind(files, {"sql", "gz", "zip"}))[i]}]

\* Every backup is a group; the data and log files are grouped by what is left of their names
\* without the tail.
SqlServerGroups(files) ==
    LET baks == ByRank(OfKind(files, {"bak"}))
        data == OfKind(files, {"mdf", "ndf", "ldf"})
        together == {{f \in data : f.stem = g.stem} : g \in data}
    IN  [i \in DOMAIN baks |-> {baks[i]}] \o SetToSortSeq(together, LAMBDA A, B : Least(A).rank < Least(B).rank)

NoPlan == [method |-> "none", database |-> "", files |-> <<>>]

MySqlPlan(j, group) ==
    LET f == Least(group)
    IN  [method |-> f.suffix, files |-> <<f>>,
         database |-> IF j.target = "" THEN normal[f.stem, f.tail] ELSE j.target]

SqlServerPlan(group) ==
    LET files == ByRank(OfKind(group, {"mdf"})) \o ByRank(OfKind(group, {"ndf"})) \o ByRank(OfKind(group, {"ldf"}))
        named(f) == normal[f.stem, f.tail]
        has(kind) == OfKind(group, {kind}) # {}
    IN  CASE has("bak") -> [method |-> "bak", files |-> ByRank(group), database |-> named(Least(group))]
          [] has("mdf") -> [method |-> IF has("ldf") THEN "attach" ELSE "attach_rebuild_log",
                            files |-> files, database |-> named(files[1])]
          [] ~has("bak") /\ ~has("mdf") -> [NoPlan EXCEPT !.method = "unsupported"]

\* No group, and an index out of range, raise; a group that no method supports is a failure.
PlanFor(j) ==
    LET groups == IF j.engine = "mysql" THEN MySqlGroups(j.files) ELSE SqlServerGroups(j.files)
    IN  IF j.index + 1 \notin DOMAIN groups THEN NoPlan
        ELSE IF j.engine = "mysql" THEN MySqlPlan(j, groups[j.index + 1]) ELSE SqlServerPlan(groups[j.index + 1])

Supported == {"sql", "gz", "zip", "bak", "attach", "attach_rebuild_log"}
Attaching == {"attach", "attach_rebuild_log"}

(***************************************************************************)
(* The databases.  A database is online, in restore, or not there; holds   *)
(* is what has been loaded, with the run whose dump it is from; linked are *)
(* the files in the backup directory that an attached database lives in.   *)
(***************************************************************************)
Absent == [state |-> "none", holds |-> {}, linked |-> {}]
Created == [Absent EXCEPT !.state = "online"]

Objects(r) == ToSet(job[r].objects)
Whole(r) == {<<r, o>> : o \in Objects(r)}
Contents(d) == db[d].holds \cup UNION {IF host[f] \in Runs THEN Whole(host[f]) ELSE {} : f \in db[d].linked}

Stages == {"new", "planned", "copying", "copied", "visible", "prepared", "loading"}
Results == {"succeeded", "succeeded_with_warnings", "failed"}
Idle == [at |-> "new", plan |-> NoPlan, todo |-> <<>>]
NoLoad == [on |-> FALSE, left |-> <<>>, from |-> Nothing, rc |-> 0, error |-> "none"]

\* A table; a routine, a trigger or a view; anything else.
Errors == {"none", "table", "routine", "other"}

TypeOK ==
    /\ job \in [Runs -> JobType]
    /\ host \in [Files -> Runs \cup {Nothing, Partial}]
    /\ \A d \in Databases : /\ db[d].state \in {"none", "online", "restoring"}
                            /\ db[d].holds \subseteq UNION {Whole(r) : r \in Runs}
                            /\ db[d].linked \subseteq Files
    /\ \A r \in Runs : /\ run[r].at \in Stages \cup Results
                       /\ run[r].plan.method \in Supported \cup {"none", "unsupported"}
                       /\ ToSet(run[r].todo) \subseteq Files
                       /\ loader[r].on \in BOOLEAN
                       /\ ToSet(loader[r].left) \subseteq UNION {Objects(q) : q \in Runs}
                       /\ loader[r].rc \in {0, 1}
                       /\ loader[r].error \in Errors
    /\ faults \in 0 .. MaxFaults
    /\ disturbed \subseteq Runs

Init ==
    /\ job \in Restores
    /\ host = [f \in Files |-> Nothing]
    /\ db = [d \in Databases |-> Absent]
    /\ run = [r \in Runs |-> Idle]
    /\ loader = [r \in Runs |-> NoLoad]
    /\ faults = 0
    /\ disturbed = {}

At(r) == run[r].at
Database(r) == run[r].plan.database
Active(r) == At(r) \in Stages \ {"new"}

Fault == faults < MaxFaults /\ faults' = faults + 1
Becomes(r, s) == run' = [run EXCEPT ![r].at = s]

\* What the runs that are under way notice of a write by r.
WritesFile(r, f) == disturbed' = disturbed \cup {q \in Runs \ {r} : Active(q) /\ f \in ToSet(run[q].plan.files)}
WritesDatabase(r) == disturbed' = disturbed \cup {q \in Runs \ {r} : Active(q) /\ Database(q) = Database(r)}
-----------------------------------------------------------------------------
\* A command that does not work raises; the worker makes that the failure of the task.
Fails(r) ==
    /\ At(r) \in {"new", "planned", "copying", "copied"}
    /\ Fault
    /\ Becomes(r, "failed")
    /\ UNCHANGED <<job, host, db, loader, disturbed>>

Plan(r) ==
    /\ At(r) = "new"
    /\ LET plan == PlanFor(job[r])
       IN  run' = [run EXCEPT ![r] = [at |-> IF plan.method \in Supported THEN "planned" ELSE "failed",
                                      plan |-> plan, todo |-> plan.files]]
    /\ UNCHANGED <<job, host, db, loader, faults, disturbed>>

\* The file is there, and empty, from the moment its copy starts.
StartFile(r) ==
    /\ At(r) = "planned"
    /\ run[r].todo # <<>>
    /\ host' = [host EXCEPT ![Head(run[r].todo)] = Partial]
    /\ Becomes(r, "copying")
    /\ WritesFile(r, Head(run[r].todo))
    /\ UNCHANGED <<job, db, loader, faults>>

FinishFile(r) ==
    /\ At(r) = "copying"
    /\ host' = [host EXCEPT ![Head(run[r].todo)] = r]
    /\ run' = [run EXCEPT ![r].at = IF Len(run[r].todo) = 1 THEN "copied" ELSE "planned",
                          ![r].todo = Tail(@)]
    /\ WritesFile(r, Head(run[r].todo))
    /\ UNCHANGED <<job, db, loader, faults>>

\* chmod, and the look at the files from inside the container.
Verify(r) ==
    /\ At(r) = "copied"
    /\ Becomes(r, "visible")
    /\ UNCHANGED <<job, host, db, loader, faults, disturbed>>

PrepareKept(r) ==
    /\ At(r) = "visible"
    /\ job[r].engine = "mysql"
    /\ db' = [db EXCEPT ![Database(r)] = IF @.state = "none" THEN Created ELSE @]
    /\ Becomes(r, "prepared")
    /\ WritesDatabase(r)
    /\ UNCHANGED <<job, host, loader, faults>>

Prepare(r) ==
    /\ At(r) = "visible"
    /\ job[r].engine = "mysql"
    /\ db' = [db EXCEPT ![Database(r)] = IF job[r].drops \/ @.state = "none" THEN Created ELSE @]
    /\ Becomes(r, "prepared")
    /\ WritesDatabase(r)
    /\ UNCHANGED <<job, host, loader, faults>>

\* DROP DATABASE and CREATE DATABASE are two statements of one command.
PrepareFails(r) ==
    /\ At(r) = "visible"
    /\ job[r].engine = "mysql"
    /\ Fault
    /\ \E dropped \in {FALSE, job[r].drops} :
          db' = IF dropped THEN [db EXCEPT ![Database(r)] = Absent] ELSE db
    /\ Becomes(r, "failed")
    /\ WritesDatabase(r)
    /\ UNCHANGED <<job, host, loader>>

(***************************************************************************)
(* The command in the container.  A dump is decompressed, filtered and     *)
(* read by one mysql client, which stops at the first statement that       *)
(* fails.  The decompressor is not the last command of its subshell, so    *)
(* what it returns is lost: a damaged or half-copied dump ends early and   *)
(* the client returns 0.                                                   *)
(***************************************************************************)
Streams(r) ==
    LET file == host[run[r].plan.files[1]]
    IN  IF file = Partial THEN {[left |-> p, from |-> r] : p \in Prefixes(job[r].objects)}
        ELSE LET whole == job[file].objects
             IN  {[left |-> p, from |-> file] : p \in IF job[file].broken THEN Prefixes(whole) ELSE {whole}}

Load(r) ==
    /\ At(r) = "prepared" \/ (At(r) = "visible" /\ job[r].engine = "sqlserver")
    /\ \E s \in IF job[r].engine = "mysql" THEN Streams(r)
               ELSE {[left |-> <<>>, from |-> host[run[r].plan.files[1]]]} :
          loader' = [loader EXCEPT ![r] = [NoLoad EXCEPT !.on = TRUE, !.left = s.left, !.from = s.from]]
    /\ Becomes(r, "loading")
    /\ UNCHANGED <<job, host, db, faults, disturbed>>

Stopped(r, error) == loader' = [loader EXCEPT ![r].on = FALSE, ![r].rc = 1, ![r].error = error]

\* A dump drops a table before it creates it.
Statement(r) ==
    /\ loader[r].on
    /\ job[r].engine = "mysql"
    /\ loader[r].left # <<>>
    /\ LET o == Head(loader[r].left)
           loaded == {x \in db[Database(r)].holds : x[2] # o} \cup {<<loader[r].from, o>>}
       IN  IF db[Database(r)].state = "online"
           THEN /\ db' = [db EXCEPT ![Database(r)].holds = loaded]
                /\ loader' = [loader EXCEPT ![r].left = Tail(@)]
                /\ WritesDatabase(r)
           ELSE /\ Stopped(r, "other")
                /\ UNCHANGED <<db, disturbed>>
    /\ UNCHANGED <<job, host, run, faults>>

StatementFails(r) ==
    /\ loader[r].on
    /\ job[r].engine = "mysql"
    /\ loader[r].left # <<>>
    /\ Fault
    /\ Stopped(r, IF Head(loader[r].left) \in Routines THEN "routine" ELSE "table")
    /\ UNCHANGED <<job, host, db, run, disturbed>>

EndOfDump(r) ==
    /\ loader[r].on
    /\ job[r].engine = "mysql"
    /\ loader[r].left = <<>>
    /\ loader' = [loader EXCEPT ![r].on = FALSE]
    /\ UNCHANGED <<job, host, db, run, faults, disturbed>>

\* RESTORE ... WITH REPLACE takes the place of whatever is there.
RestoreBackup(r) ==
    /\ loader[r].on
    /\ run[r].plan.method = "bak"
    /\ IF loader[r].from \in Runs /\ ~job[loader[r].from].broken
       THEN /\ db' = [db EXCEPT ![Database(r)] = [Created EXCEPT !.holds = Whole(loader[r].from)]]
            /\ loader' = [loader EXCEPT ![r].on = FALSE]
            /\ WritesDatabase(r)
       ELSE /\ Stopped(r, "other")
            /\ UNCHANGED <<db, disturbed>>
    /\ UNCHANGED <<job, host, run, faults>>

RestoreFails(r) ==
    /\ loader[r].on
    /\ run[r].plan.method = "bak"
    /\ Fault
    /\ Stopped(r, "other")
    /\ \E begun \in BOOLEAN :
          db' = IF begun THEN [db EXCEPT ![Database(r)] = [Absent EXCEPT !.state = "restoring"]] ELSE db
    /\ WritesDatabase(r)
    /\ UNCHANGED <<job, host, run>>

\* An attached database lives in the files where they were copied to.
Attach(r) ==
    /\ loader[r].on
    /\ run[r].plan.method \in Attaching
    /\ LET of == loader[r].from
           works == /\ db[Database(r)].state = "none"
                    /\ of \in Runs
                    /\ ~job[of].broken
                    /\ \A f \in ToSet(run[r].plan.files) : host[f] = of
       IN  IF works
           THEN /\ db' = [db EXCEPT ![Database(r)] = [Created EXCEPT !.linked = ToSet(run[r].plan.files)]]
                /\ loader' = [loader EXCEPT ![r].on = FALSE]
                /\ WritesDatabase(r)
           ELSE /\ Stopped(r, "other")
                /\ UNCHANGED <<db, disturbed>>
    /\ UNCHANGED <<job, host, run, faults>>

AttachFails(r) ==
    /\ loader[r].on
    /\ run[r].plan.method \in Attaching
    /\ Fault
    /\ Stopped(r, "other")
    /\ UNCHANGED <<job, host, db, run, disturbed>>
-----------------------------------------------------------------------------
\* What classify_import_result makes of the return code and of the error lines.
Verdict(r) ==
    CASE loader[r].rc = 0 -> "succeeded"
      [] loader[r].rc # 0 /\ job[r].engine = "mysql" /\ loader[r].error = "routine" -> "succeeded_with_warnings"
      [] OTHER -> "failed"

Collect(r) ==
    /\ At(r) = "loading"
    /\ ~loader[r].on
    /\ Becomes(r, Verdict(r))
    /\ UNCHANGED <<job, host, db, loader, faults, disturbed>>

LoadKeepsWaiting(r) ==
    /\ At(r) = "loading"
    /\ loader[r].on
    /\ UNCHANGED vars

\* The connection is given up; the command in the container may not notice.
LoadTimesOut(r) ==
    /\ At(r) = "loading"
    /\ loader[r].on
    /\ Becomes(r, "failed")
    /\ \E goes \in BOOLEAN : loader' = IF goes THEN loader ELSE [loader EXCEPT ![r].on = FALSE, ![r].rc = 1]
    /\ UNCHANGED <<job, host, db, faults, disturbed>>

RunStep(r) ==
    \/ Plan(r)
    \/ StartFile(r)
    \/ FinishFile(r)
    \/ Verify(r)
    \/ Prepare(r)
    \/ Load(r)
    \/ Collect(r)
    \/ LoadTimesOut(r)

LoaderStep(r) ==
    \/ Statement(r)
    \/ StatementFails(r)
    \/ EndOfDump(r)
    \/ RestoreBackup(r)
    \/ RestoreFails(r)
    \/ Attach(r)
    \/ AttachFails(r)

Next == \E r \in Runs : RunStep(r) \/ Fails(r) \/ PrepareFails(r) \/ LoaderStep(r)

Spec == Init /\ [][Next]_vars

\* The worker goes on with a run it has begun; a command may hang for ever, and only the
\* timeout of its connection ends the run then.
FairSpec == Spec /\ \A r \in Runs : WF_vars(Active(r) /\ RunStep(r))
-----------------------------------------------------------------------------
Ends(r, result) == At(r) # result /\ At(r)' = result

\* A run that says it has succeeded leaves the database with what its own dump holds: all of
\* it, and nothing else when the database was to be replaced.  It holds for a dump that is not
\* damaged and a run whose file and database no other run writes in the meantime.
RestoredStep ==
    \A r \in Runs :
        Ends(r, "succeeded") /\ r \notin disturbed /\ ~job[r].broken =>
            /\ db[Database(r)].state = "online"
            /\ Whole(r) \subseteq Contents(Database(r))
            /\ job[r].drops \/ job[r].engine = "sqlserver" => Contents(Database(r)) = Whole(r)
DumpRestored == [][RestoredStep]_vars

\* A run that has begun comes to a result, whatever becomes of the command in the container.
Ended(r) == At(r) \in Results
RestoresEnd == \A r \in Runs : Active(r) ~> Ended(r)
=============================================================================

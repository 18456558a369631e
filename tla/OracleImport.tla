---------------------------- MODULE OracleImport ----------------------------
(***************************************************************************)
(* The restore of an Oracle dump: the engine in the worker                 *)
(* (professional_pipeline.py, oracle_auto_import_runner.py) finds the      *)
(* dump, copies it to the Docker host unless it is there, checks the host, *)
(* starts the import tool there over SSH and reads what it    *)
(* wrote; the tool (oracle_dmp_auto_import.py) stages the dump, probes it, *)
(* recreates the target users and the tablespace and runs impdp or imp.    *)
(*                                                                         *)
(* A run is one call of the engine.  Its run id is a fresh uuid, so its    *)
(* run directory, its lock file and its work DIRECTORY are its own; the    *)
(* shared DIRECTORY of the dumps, the users and the tablespaces are not.   *)
(*                                                                         *)
(* Left out: plan.json and the checks after the import that it leads to,   *)
(* which change no verdict; the text of the logs, of which the model keeps *)
(* the error codes; the second half of the pipeline's run, which follows   *)
(* an unconditional return.                                                *)
(***************************************************************************)
EXTENDS ExportLog, Sequences

CONSTANTS
    Runs,       \* the calls of the engine
    Config,     \* the assignments of a job to every run that Init chooses from
    Tables,     \* the tables an export log may speak of
    owner,      \* the schema of every table
    Skipped,    \* ORACLE_AUTO_IMPORT_SKIP_PREFLIGHT_CODES
    Stoppable,  \* bound: the runs that may be asked to stop
    MaxFaults   \* bound: commands, checks and connections that fail in a behaviour

(***************************************************************************)
(* job: the configuration and the dump of every run; it never changes.     *)
(* host: whose dump lies under a file name in the dump directory of the    *)
(* Docker host.  dump: whose dump the run has in the container.            *)
(* objects: the users and tablespaces of the database.  rows: what has     *)
(* been loaded, as <<user, tablespace, dump, schema>>.  directory: where    *)
(* each DIRECTORY points to.  workdirs: the runs with a directory in the   *)
(* container.  loader: the Data Pump job, or the imp process, of a run.    *)
(* stop: how far a stop of the run has come.  faults: how many there were. *)
(***************************************************************************)
VARIABLES job, host, engine, tool, objects, rows, directory, workdirs, dump, loader, stop, faults

container == <<directory, workdirs, dump>>
vars == <<job, host, engine, tool, objects, rows, container, loader, stop, faults>>

Shared == "shared"
NoPath == "none"
Nothing == "nothing"
Partial == "partial"

\* 39082: compiled with warnings.  39039 and 31655: the schema filter selects nothing.
\* other: any other ORA-, IMP-, UDI- or LRM- line.
Codes == {"39082", "39039", "31655", "other"}

\* comments: the probe fails with ORA-39346 unless it excludes comments.  dataonly: it selects
\* no metadata.  legacy: an original exp dump.
DumpTypes == {"datapump", "comments", "dataonly", "legacy", "broken"}

\* filtered: SCHEMAS= selects nothing of the dump.  direct: the dump is read where it is, at
\* path in the container.  logs: the logs beside the dump.  accepts: accept_export_log_gaps.
JobType == [base : STRING, long : BOOLEAN, minute : STRING, type : DumpTypes, schemas : SUBSET STRING,
            filtered : BOOLEAN, direct : BOOLEAN, path : STRING, execute : BOOLEAN,
            logs : SUBSET LogType(Tables, STRING), accepts : BOOLEAN]

\* What the probe and the import read: the dump that the run has.
Source(r) == IF dump[r] = Partial THEN [job[r] EXCEPT !.type = "broken"] ELSE job[dump[r]]

CutAlways(r, prefix, suffix) == prefix \o <<job[r].base>>

\* The name of a target object.  oracle_name cuts it after 30 characters, which a long dump
\* name uses up: what follows the dump's name is gone.
Cut(r, prefix, suffix) == prefix \o <<job[r].base>> \o (IF job[r].long THEN <<>> ELSE suffix)
Target(r, s) == IF Cardinality(Source(r).schemas) = 1 THEN Cut(r, <<>>, <<job[r].minute>>)
                                                   ELSE Cut(r, <<>>, <<s, job[r].minute>>)
Tablespace(r) == Cut(r, <<"TBS">>, <<job[r].minute>>)
Users(r) == {Target(r, s) : s \in Source(r).schemas}
Targets(r) == Users(r) \cup {Tablespace(r)}

DataPump(r) == Source(r).type \in {"datapump", "comments"}

(***************************************************************************)
(* The preflight checks and what is wrong with the host when each fails.   *)
(***************************************************************************)
Conditions == {"ssh", "python", "script", "dump", "container", "home", "mount", "pdb"}
HostChecks == [ssh |-> {"ssh"}, python |-> {"ssh", "python"},
               script_compile |-> {"ssh", "python", "script"},
               host_dmp_files |-> {"ssh", "python", "dump"}]
ContainerChecks == [docker_container |-> {"ssh", "container"},
                    oracle_tools |-> {"ssh", "container", "home"},
                    container_dmp_path |-> {"ssh", "container", "mount"},
                    pdb |-> {"ssh", "container", "home", "pdb"}]
Essential == {"ssh", "python", "script_compile"}

\* A skipped check passes with a warning, an essential one that is skipped fails.
FailedChecks(down) ==
    LET fails(checks) == {c \in DOMAIN checks : IF c \in Skipped THEN c \in Essential
                                                ELSE checks[c] \cap down # {}}
    IN  fails(HostChecks) \cup fails(ContainerChecks)

Log(r) == Selected(job[r].logs, {job[r].base})
Gaps(r) == \E log \in Log(r) : HasSourceGaps(log)

\* The gate of the pipeline, and export_log_binding, its preflight check.
GapsAccepted(r) == Gaps(r) /\ job[r].execute => job[r].accepts

EngineStates == {"new", "found", "copied", "ready", "waiting",
                 "succeeded", "succeeded_with_warnings", "failed", "cancelled"}
Reports == {"none", "failed", "dry-run", "imported", "imported_with_warnings", "stopped"}
Stages == {"none", "resolve", "connect", "stage", "create_shared", "verify_shared", "work", "probe",
           "recreate", "reprobe", "comments", "show", "plan", "clean", "prepare", "import", "importing",
           "repair", "collect", "drop", "remove", "exited", "left"}

\* exited: the tool has returned; left: it has, with its work directory still there.
\* todo: the targets that clean or prepare still has to visit.  commands: the schemas of every
\* import command not yet run.  codes: the errors in the logs copied so far.
Idle == [at |-> "none", todo |-> {}, commands |-> {}, codes |-> {}, full |-> FALSE,
         outcome |-> "imported", report |-> "none", rc |-> 0]
NoLoad == [on |-> FALSE, left |-> {}, codes |-> {}]

TypeOK ==
    /\ \A r \in Runs :
         /\ job[r] \in JobType
         /\ engine[r] \in EngineStates
         /\ tool[r].at \in Stages
         /\ tool[r].todo \subseteq Targets(r)
         /\ tool[r].commands \subseteq SUBSET Source(r).schemas
         /\ tool[r].codes \cup loader[r].codes \subseteq Codes
         /\ tool[r].report \in Reports
         /\ loader[r].left \subseteq Source(r).schemas
         /\ directory[r] \in {NoPath, r}
         /\ host[job[r].base] \in Runs \cup {Nothing, Partial}
         /\ dump[r] \in Runs \cup {Partial}
         /\ stop[r] \in {"no", "flag", "sent"}
    /\ rows \subseteq {<<Target(r, s), Tablespace(r), dump[r], s>> :
                         <<r, s>> \in {x \in Runs \X UNION {job[q].schemas : q \in Runs} :
                                         x[2] \in Source(x[1]).schemas}}
    /\ objects \subseteq UNION {Targets(r) : r \in Runs}
    /\ workdirs \subseteq Runs
    /\ faults \in 0 .. MaxFaults

Init ==
    /\ job \in Config
    /\ host = [b \in {job[r].base : r \in Runs} |-> Nothing]
    /\ engine = [r \in Runs |-> "new"]
    /\ tool = [r \in Runs |-> Idle]
    /\ objects = {}
    /\ rows = {}
    /\ directory = [d \in Runs \cup {Shared} |-> NoPath]
    /\ workdirs = {}
    /\ dump = [r \in Runs |-> r]
    /\ loader = [r \in Runs |-> NoLoad]
    /\ stop = [r \in Runs |-> "no"]
    /\ faults = 0

Fault == faults < MaxFaults /\ faults' = faults + 1

(***************************************************************************)
(* The steps of the tool.  run_process refuses every command once          *)
(* stop.request is there, so a step needs stop[r] = "no".                  *)
(***************************************************************************)
AtUnstopped(r, stages) == tool[r].at \in stages /\ engine[r] = "waiting"
At(r, stages) == tool[r].at \in stages /\ engine[r] = "waiting" /\ stop[r] = "no"
Goes(r, at) == tool' = [tool EXCEPT ![r].at = at]

EndsAtOnce(r, report, rc) ==
    tool' = [tool EXCEPT ![r] = [Idle EXCEPT !.at = IF rc = 0 THEN "drop" ELSE "exited",
                                             !.report = report, !.rc = rc]]

\* main returns: the report and the return code are set, the finally clause follows.
Ends(r, report, rc) ==
    tool' = [tool EXCEPT ![r] = [Idle EXCEPT !.at = "drop", !.report = report, !.rc = rc]]
Fails(r) == Ends(r, "failed", 1)

(***************************************************************************)
(* The engine: what comes before the tool.                                 *)
(***************************************************************************)

\* The gate after the dump and its log are found; a search that fails ends the run.
Found(r) ==
    \/ engine' = [engine EXCEPT ![r] = IF GapsAccepted(r) THEN "found" ELSE "failed"] /\ UNCHANGED faults
    \/ engine' = [engine EXCEPT ![r] = "failed"] /\ Fault

\* The source directory is scanned, and its files grouped into dumps.
Scan(r) ==
    /\ engine[r] = "new"
    /\ ~job[r].direct
    /\ Found(r)
    /\ UNCHANGED <<job, host, tool, objects, rows, container, loader, stop>>

\* The file name, or %U pattern, of a dump that is read where it is must match there.
LookDirect(r) ==
    /\ engine[r] = "new"
    /\ job[r].direct
    /\ Found(r)
    /\ UNCHANGED <<job, host, tool, objects, rows, container, loader, stop>>

\* A copy keeps the name of the file, so the dump of that name that another run copied is
\* overwritten; a copy that breaks off leaves a part of the file.
Fetch(r) ==
    /\ engine[r] = "found"
    /\ ~job[r].direct
    /\ \/ /\ host' = [host EXCEPT ![job[r].base] = r]
          /\ engine' = [engine EXCEPT ![r] = "copied"]
          /\ UNCHANGED faults
       \/ /\ host' \in {host, [host EXCEPT ![job[r].base] = Partial]}
          /\ engine' = [engine EXCEPT ![r] = "failed"]
          /\ Fault
    /\ UNCHANGED <<job, tool, objects, rows, container, loader, stop>>

\* The file must be visible in the container, through a mount of exactly this directory.
VerifyVisible(r) ==
    /\ engine[r] = IF job[r].direct THEN "found" ELSE "copied"
    /\ \/ engine' = [engine EXCEPT ![r] = "ready"] /\ UNCHANGED faults
       \/ engine' = [engine EXCEPT ![r] = "failed"] /\ Fault
    /\ UNCHANGED <<job, host, tool, objects, rows, container, loader, stop>>

\* Any failed preflight check fails the run.
Submit(r) ==
    /\ engine[r] = "ready"
    /\ \E down \in {{}} \cup {{c} : c \in Conditions} :
         /\ IF down = {} THEN UNCHANGED faults ELSE Fault
         /\ IF FailedChecks(down) = {}
              THEN engine' = [engine EXCEPT ![r] = "waiting"] /\ Goes(r, "resolve")
              ELSE engine' = [engine EXCEPT ![r] = "failed"] /\ UNCHANGED tool
    /\ UNCHANGED <<job, host, objects, rows, container, loader, stop>>

\* resolve_dump_inputs: without the dump the tool returns before it has a report to write.
Resolve(r) ==
    /\ tool[r].at = "resolve"
    /\ \/ Goes(r, "connect") /\ UNCHANGED faults
       \/ Fault /\ tool' = [tool EXCEPT ![r].at = "exited", ![r].rc = 2]
    /\ UNCHANGED <<job, host, engine, objects, rows, container, loader, stop>>

\* find_oracle_container, resolve_pdb_connect; no DIRECTORY has the fresh name of the run yet.
Connect(r) ==
    /\ At(r, {"connect"})
    /\ Goes(r, "stage")
    /\ UNCHANGED <<job, host, engine, objects, rows, container, loader, stop, faults>>

\* The shared DIRECTORY is reused only with the same path, and made when there is none.
CheckShared(r) ==
    /\ At(r, {"stage"})
    /\ job[r].direct
    /\ CASE directory[Shared] = NoPath -> Goes(r, "create_shared")
         [] directory[Shared] = job[r].path -> Goes(r, "verify_shared")
         [] OTHER -> Fails(r)
    /\ UNCHANGED <<job, host, engine, objects, rows, container, loader, stop, faults>>

\* CREATE OR REPLACE DIRECTORY.
CreateShared(r) ==
    /\ At(r, {"create_shared"})
    /\ directory' = [directory EXCEPT ![Shared] = job[r].path]
    /\ Goes(r, "verify_shared")
    /\ UNCHANGED <<job, host, engine, objects, rows, workdirs, dump, loader, stop, faults>>

VerifyShared(r) ==
    /\ At(r, {"verify_shared"})
    /\ IF directory[Shared] = job[r].path THEN Goes(r, "work") ELSE Fails(r)
    /\ UNCHANGED <<job, host, engine, objects, rows, container, loader, stop, faults>>

\* copy_dump_to_container makes the directory of the run; it takes what now has the dump's name.
CopyDump(r) ==
    /\ At(r, {"stage"})
    /\ ~job[r].direct
    /\ workdirs' = workdirs \cup {r}
    /\ dump' = [dump EXCEPT ![r] = host[job[r].base]]
    /\ Goes(r, "work")
    /\ UNCHANGED <<job, host, engine, objects, rows, directory, loader, stop, faults>>

\* ensure_container_directory, create_directory, verify_directory.
WorkDirectory(r) ==
    /\ At(r, {"work"})
    /\ workdirs' = workdirs \cup {r}
    /\ directory' = [directory EXCEPT ![r] = r]
    /\ Goes(r, "probe")
    /\ UNCHANGED <<job, host, engine, objects, rows, dump, loader, stop, faults>>

Visible(r) == job[r].direct => directory[Shared] = job[r].path

\* The metadata probe, with impdp SQLFILE= or, for an original exp dump, with imp SHOW=Y.
Probe(r) ==
    /\ At(r, {"probe", "reprobe"})
    /\ CASE Visible(r) /\ Source(r).type = "datapump" -> Goes(r, "plan")
         [] Visible(r) /\ Source(r).type = "comments" -> Goes(r, "comments")
         [] Visible(r) /\ Source(r).type = "legacy" -> Goes(r, "show")
         [] OTHER -> Fails(r)
    /\ UNCHANGED <<job, host, engine, objects, rows, container, loader, stop, faults>>

ProbeMore(r) ==
    /\ At(r, {"comments", "show"})
    /\ Goes(r, "plan")
    /\ UNCHANGED <<job, host, engine, objects, rows, container, loader, stop, faults>>

\* ORA-39087 and ORA-39054: the work DIRECTORY is made again, for one retry.
ProbeInvalid(r) ==
    /\ At(r, {"probe"})
    /\ Fault
    /\ Goes(r, "recreate")
    /\ UNCHANGED <<job, host, engine, objects, rows, container, loader, stop>>

Recreate(r) ==
    /\ At(r, {"recreate"})
    /\ directory' = [directory EXCEPT ![r] = r]
    /\ Goes(r, "reprobe")
    /\ UNCHANGED <<job, host, engine, objects, rows, workdirs, dump, loader, stop, faults>>

\* validate_export_log_expectations fails a run whose log speaks of a schema that the dump does
\* not have; without --execute the plan is all.  No command here.
Plan(r) ==
    /\ tool[r].at = "plan"
    /\ engine[r] = "waiting"
    /\ LET known == \A log \in Log(r) : LogSchemas(log, owner) \subseteq Source(r).schemas IN
       CASE ~known -> Fails(r)
         [] known /\ ~job[r].execute -> Ends(r, "dry-run", 0)
         [] known /\ job[r].execute -> tool' = [tool EXCEPT ![r].at = "clean", ![r].todo = Targets(r)]
    /\ UNCHANGED <<job, host, engine, objects, rows, container, loader, stop, faults>>

\* What is left to do after the target x of a stage: the next stage when x was the last.
Visited(r, x, next, todo) ==
    tool' = [tool EXCEPT ![r].todo = IF @ = {x} THEN todo ELSE @ \ {x},
                         ![r].at = IF tool[r].todo = {x} THEN next ELSE @]

\* on_conflict is recreate: users first, then the tablespace, are dropped with what they hold.
CleanTarget(r) ==
    /\ At(r, {"clean"})
    /\ \E x \in tool[r].todo :
         /\ x = Tablespace(r) => tool[r].todo = {x}
         /\ objects' = objects \ {x}
         /\ rows' = {row \in rows : row[1] # x /\ row[2] # x}
         /\ Visited(r, x, "prepare", Targets(r))
    /\ UNCHANGED <<job, host, engine, container, loader, stop, faults>>

\* An original exp dump takes one imp for each schema, a Data Pump dump one impdp.
Commands(r) == IF DataPump(r) THEN {Source(r).schemas} ELSE {{s} : s \in Source(r).schemas}

PrepareTarget(r) ==
    /\ At(r, {"prepare"})
    /\ \E x \in tool[r].todo :
         /\ Tablespace(r) \in tool[r].todo => x = Tablespace(r)
         /\ objects' = objects \cup {x}
         /\ tool' = [tool EXCEPT ![r].todo = @ \ {x},
                                 ![r].at = IF tool[r].todo = {x} THEN "import" ELSE @,
                                 ![r].commands = IF tool[r].todo = {x} THEN Commands(r) ELSE @]
    /\ UNCHANGED <<job, host, engine, rows, container, loader, stop, faults>>

(***************************************************************************)
(* The import.  Data Pump runs in the database and imp in the container:   *)
(* they go on when the tool or its docker exec is gone.                    *)
(***************************************************************************)
StartImport(r) ==
    /\ At(r, {"import"})
    /\ \E c \in tool[r].commands :
         /\ loader' = [loader EXCEPT ![r] =
                IF DataPump(r) /\ Source(r).filtered /\ ~tool[r].full
                  THEN [on |-> TRUE, left |-> {}, codes |-> {"39039", "31655"}]
                  ELSE [on |-> TRUE, left |-> c, codes |-> {}]]
         /\ tool' = [tool EXCEPT ![r].at = "importing", ![r].commands = @ \ {c}]
    /\ UNCHANGED <<job, host, engine, objects, rows, container, stop, faults>>

\* One schema is loaded, Data Pump replaces the tables that are there (TABLE_EXISTS_ACTION) and
\* may leave what it compiles invalid; or its load fails.
Load(r) ==
    /\ loader[r].on
    /\ \E s \in loader[r].left :
         LET row == <<Target(r, s), Tablespace(r), dump[r], s>> IN
         \/ /\ {row[1], row[2]} \subseteq objects
            /\ rows' = {row} \cup {x \in rows : DataPump(r) => x[1] # row[1]}
            /\ \E warning \in SUBSET (IF DataPump(r) THEN {"39082"} ELSE {}) :
                 loader' = [loader EXCEPT ![r].left = @ \ {s}, ![r].codes = @ \cup warning]
            /\ UNCHANGED faults
         \/ /\ IF {row[1], row[2]} \subseteq objects THEN Fault ELSE UNCHANGED faults
            /\ loader' = [loader EXCEPT ![r].left = @ \ {s}, ![r].codes = @ \cup {"other"}]
            /\ UNCHANGED rows
    /\ UNCHANGED <<job, host, engine, tool, objects, container, stop>>

OnlyCompileWarnings(codes) == codes = {"39082"}

\* What run_import makes of the end of a command, given the codes in the logs copied with it.
Verdict(r, succeeded, logs) ==
    LET goes(at, outcome) == [tool[r] EXCEPT !.at = at, !.outcome = outcome, !.codes = logs]
        again == [tool[r] EXCEPT !.at = "import", !.codes = logs, !.full = TRUE,
                                 !.commands = {Source(r).schemas}]
    IN  CASE succeeded /\ tool[r].commands # {} -> goes("import", "imported")
          [] succeeded /\ tool[r].commands = {} -> goes("repair", "imported")
          [] ~succeeded /\ DataPump(r) /\ ~tool[r].full /\ {"39039", "31655"} \subseteq logs -> again
          [] ~succeeded /\ OnlyCompileWarnings(logs) -> goes("repair", "imported_with_warnings")
          [] OTHER -> goes("collect", "failed")

\* The command returns, with zero exactly when there was no error.
Returned(r) ==
    /\ At(r, {"importing"})
    /\ loader[r].on
    /\ loader[r].left = {}
    /\ tool' = [tool EXCEPT ![r] = Verdict(r, loader[r].codes = {}, tool[r].codes \cup loader[r].codes)]
    /\ loader' = [loader EXCEPT ![r] = NoLoad]
    /\ UNCHANGED <<job, host, engine, objects, rows, container, stop, faults>>

\* docker exec breaks off: the log has what was written until then, and the load goes on.
ClientDies(r) ==
    /\ At(r, {"importing"})
    /\ Fault
    /\ tool' = [tool EXCEPT ![r] = Verdict(r, FALSE, tool[r].codes \cup loader[r].codes)]
    /\ UNCHANGED <<job, host, engine, objects, rows, container, loader, stop>>

\* repair_remapped_dependencies: what it repairs or leaves invalid is a warning.
Repair(r) ==
    /\ At(r, {"repair"})
    /\ \E outcome \in {tool[r].outcome, "imported_with_warnings"} :
         tool' = [tool EXCEPT ![r].at = "collect", ![r].outcome = outcome]
    /\ UNCHANGED <<job, host, engine, objects, rows, container, loader, stop, faults>>

\* The logs are copied whatever run_import did, then the report is written.
Collect(r) ==
    /\ At(r, {"collect"})
    /\ IF tool[r].outcome = "failed" THEN Fails(r)
         ELSE Ends(r, IF \E log \in Log(r) : log.missing # {} THEN "imported_with_warnings"
                                                              ELSE tool[r].outcome, 0)
    /\ UNCHANGED <<job, host, engine, objects, rows, container, loader, stop, faults>>

\* A command fails: of the stages with commands, only the copy of the logs goes on.
CommandFails(r) ==
    /\ At(r, {"connect", "stage", "create_shared", "verify_shared", "work", "probe", "recreate", "reprobe",
              "comments", "show", "clean", "prepare", "repair"})
    /\ Fault
    /\ IF tool[r].at = "repair" THEN tool' = [tool EXCEPT ![r].at = "collect", ![r].outcome = "failed"]
                                ELSE Fails(r)
    /\ UNCHANGED <<job, host, engine, objects, rows, container, loader, stop>>

StoppedBetween(r) ==
    /\ tool[r].at \in Stages \ {"none", "resolve", "plan", "importing", "drop", "remove", "exited", "left"}
    /\ engine[r] = "waiting"
    /\ stop[r] # "no"
    /\ Ends(r, "stopped", 130)
    /\ UNCHANGED <<job, host, engine, objects, rows, container, loader, stop, faults>>

\* ImportStopRequested, before a command or from the loop that polls a running one.
Stopped(r) ==
    /\ tool[r].at \in Stages \ {"none", "resolve", "plan", "drop", "remove", "exited", "left"}
    /\ engine[r] = "waiting"
    /\ stop[r] # "no"
    /\ Ends(r, "stopped", 130)
    /\ UNCHANGED <<job, host, engine, objects, rows, container, loader, stop, faults>>

(***************************************************************************)
(* The finally clause, for a dump read where it is: first the work         *)
(* DIRECTORY, then its files.  The stop refuses these commands too.        *)
(***************************************************************************)
Drop(r) ==
    /\ tool[r].at = "drop"
    /\ engine[r] = "waiting"
    /\ IF job[r].direct /\ stop[r] = "no"
         THEN directory' = [directory EXCEPT ![r] = NoPath] /\ Goes(r, "remove")
         ELSE Goes(r, IF job[r].direct THEN "left" ELSE "exited") /\ UNCHANGED directory
    /\ UNCHANGED <<job, host, engine, objects, rows, workdirs, dump, loader, stop, faults>>

Remove(r) ==
    /\ tool[r].at = "remove"
    /\ engine[r] = "waiting"
    /\ IF stop[r] = "no" THEN workdirs' = workdirs \ {r} /\ Goes(r, "exited")
                         ELSE Goes(r, "left") /\ UNCHANGED workdirs
    /\ UNCHANGED <<job, host, engine, objects, rows, directory, dump, loader, stop, faults>>

CleanupFails(r) ==
    /\ At(r, {"drop", "remove"})
    /\ job[r].direct
    /\ Fault
    /\ Goes(r, "left")
    /\ UNCHANGED <<job, host, engine, objects, rows, container, loader, stop>>

(***************************************************************************)
(* The engine: the stop, which comes from another thread of the service,   *)
(* the end of the SSH session and what is read of the run.                 *)
(***************************************************************************)
RequestStop(r) ==
    /\ r \in Stoppable
    /\ engine[r] = "waiting"
    /\ stop[r] = "no"
    /\ stop' = [stop EXCEPT ![r] = "flag"]
    /\ UNCHANGED <<job, host, engine, tool, objects, rows, container, loader, faults>>

\* impdp ATTACH: STOP_JOB or KILL_JOB; no job is found while none runs, and imp has none.
StopJob(r) ==
    /\ stop[r] = "flag"
    /\ stop' = [stop EXCEPT ![r] = "sent"]
    /\ loader' = [loader EXCEPT ![r] = IF DataPump(r) THEN NoLoad ELSE @]
    /\ UNCHANGED <<job, host, engine, tool, objects, rows, container, faults>>

\* A forced stop also ends the tool with SIGTERM, without its finally clause.
Kill(r) ==
    /\ stop[r] = "sent"
    /\ tool[r].at \notin {"none", "exited", "left"}
    /\ engine[r] = "waiting"
    /\ tool' = [tool EXCEPT ![r] = [Idle EXCEPT !.at = "left", !.report = tool[r].report, !.rc = 143]]
    /\ UNCHANGED <<job, host, engine, objects, rows, container, loader, stop, faults>>

\* The SSH timeout, or a lost connection: the tool dies when it next prints, in its handlers too.
Lost(r) ==
    /\ engine[r] = "waiting"
    /\ Fault
    /\ engine' = [engine EXCEPT ![r] = "failed"]
    /\ tool' = [tool EXCEPT ![r] = [Idle EXCEPT !.at = "left"]]
    /\ UNCHANGED <<job, host, objects, rows, container, loader, stop>>

Result(r, report) ==
    LET success == tool[r].rc = 0 /\ report \in {"dry-run", "imported", "imported_with_warnings"} IN
    CASE report = "stopped" \/ tool[r].rc = 130 -> "cancelled"
      [] success /\ (report = "imported_with_warnings" \/ Gaps(r)) -> "succeeded_with_warnings"
      [] success /\ report # "imported_with_warnings" /\ ~Gaps(r) -> "succeeded"
      [] OTHER -> "failed"

\* A report that cannot be read counts as none.
Read(r) ==
    /\ engine[r] = "waiting"
    /\ tool[r].at \in {"exited", "left"}
    /\ \/ engine' = [engine EXCEPT ![r] = Result(r, tool[r].report)] /\ UNCHANGED faults
       \/ engine' = [engine EXCEPT ![r] = Result(r, "none")] /\ Fault
    /\ UNCHANGED <<job, host, tool, objects, rows, container, loader, stop>>

Preparing(r) == Scan(r) \/ LookDirect(r) \/ Fetch(r) \/ VerifyVisible(r) \/ Submit(r)
Staging(r) == \/ Resolve(r) \/ Connect(r) \/ CheckShared(r) \/ CreateShared(r) \/ VerifyShared(r)
              \/ CopyDump(r) \/ WorkDirectory(r)
Probing(r) == Probe(r) \/ ProbeMore(r) \/ Recreate(r) \/ Plan(r)
Importing(r) == \/ CleanTarget(r) \/ PrepareTarget(r) \/ StartImport(r) \/ Returned(r)
                \/ Repair(r) \/ Collect(r)
Tool(r) == Staging(r) \/ Probing(r) \/ Importing(r) \/ Stopped(r) \/ Drop(r) \/ Remove(r)
Trouble(r) == ProbeInvalid(r) \/ CommandFails(r) \/ ClientDies(r) \/ CleanupFails(r) \/ Lost(r)
Next == \E r \in Runs : \/ Preparing(r) \/ Tool(r) \/ Load(r) \/ Trouble(r) \/ Read(r)
                        \/ RequestStop(r) \/ StopJob(r) \/ Kill(r)

Spec == Init /\ [][Next]_vars

\* The tool is a process that runs, and the engine waits in the SSH call for its end.  That a
\* load ends is not assumed.
FairSpec == Spec /\ \A r \in Runs : WF_vars(Tool(r)) /\ WF_vars(Read(r))

(***************************************************************************)
(* Properties                                                              *)
(***************************************************************************)
Loaded(r) == \A s \in job[r].schemas : <<Target(r, s), Tablespace(r), r, s>> \in rows

\* A restore that is reported as succeeded has loaded every schema of the dump into its own user
\* and tablespace, and no later restore, of the same dump either, takes that away.
ResultEarned == \A r \in Runs : engine[r] = "succeeded" /\ job[r].execute => Loaded(r)

\* A restore is reported as plainly succeeded only when the log of the export names no object
\* that was left out and its last word is not that there were errors.
GapsShown == \A r \in Runs : engine[r] = "succeeded" /\ job[r].execute =>
    \A log \in Log(r) : log.missing = {} /\ (log.count > 0 => "clean" \in log.footers)

\* From the moment stop.request exists, the tool of the run neither drops nor creates a user or
\* a tablespace of the run, and it starts no import.
StopStep ==
    \A r \in Runs : stop[r] # "no" =>
        /\ objects' \cap Targets(r) = objects \cap Targets(r)
        /\ loader'[r].on => loader[r].on
StopHolds == [][StopStep]_vars

\* A run that was asked to stop ends, even when the import hangs.
StopServed == \A r \in Runs : stop[r] = "flag" ~> engine[r] # "waiting"

\* A run that reads the dump where it is, and whose finally clause was let finish, leaves neither
\* its work DIRECTORY nor its files; the shared DIRECTORY of the dumps stays for the others.
WorkGone ==
    /\ \A r \in Runs : job[r].direct /\ tool[r].at = "exited" => directory[r] = NoPath /\ r \notin workdirs
    /\ directory[Shared] = NoPath =>
         \A r \in Runs : job[r].direct => tool[r].at \notin {"work", "probe", "import"}

\* What a restore reports is so, and what it needed on the host is gone.
RestoresHonest == ResultEarned /\ GapsShown /\ WorkGone
=============================================================================

----------------------------- MODULE MCWorkers -----------------------------
(***************************************************************************)
(* What runs for long, checked side by side: two restores of an Oracle     *)
(* dump on one Docker host, started in different minutes (OracleImport),   *)
(* and two MySQL or SQL Server restores on another one (ServerRestore).    *)
(* They share no state.  Which one a behaviour is about is chosen at the   *)
(* beginning; the other never takes a step.                                *)
(***************************************************************************)
EXTENDS Naturals, FiniteSets, Sequences

CONSTANTS
    Runs,                                                 \* OracleImport and ServerRestore
    Config, Tables, owner, Skipped, Stoppable,            \* OracleImport
    Restores, Files, Databases, normal, Routines,         \* ServerRestore
    MaxFaults,                                            \* both of them
    off

VARIABLES
    active,
    engine, tool, objects, rows, directory, workdirs, dump, stop,
    db, run, disturbed,
    job, host, loader, faults                             \* both of them

-----------------------------------------------------------------------------
(* Oracle. *)

OracleTables == {"a.t1", "a.t2", "z.t"}
OracleOwner == [t \in OracleTables |-> IF t = "z.t" THEN "z" ELSE "a"]

Clean == [recognized |-> TRUE, datapump |-> TRUE, footers |-> {"clean"}, count |-> 0,
          requested |-> {"a.t1", "a.t2"}, exported |-> {"a.t1", "a.t2"}, missing |-> {},
          files |-> {"dump"}, pattern |-> {"dump"}, named |-> TRUE]
Errors == [Clean EXCEPT !.footers = {"errors"}, !.count = 1, !.named = FALSE]
Missing == [Errors EXCEPT !.exported = {"a.t1"}, !.missing = {"a.t2"}]
Foreign == [Missing EXCEPT !.missing = {"z.t"}]
Broken == [Clean EXCEPT !.footers = {"failed"}]
Other == [Clean EXCEPT !.files = {"other"}]

Dump == [base |-> "dump", long |-> FALSE, minute |-> "m1", type |-> "datapump", schemas |-> {"a", "b"},
         filtered |-> FALSE, direct |-> TRUE, path |-> "/dmp", execute |-> TRUE, logs |-> {Broken, Other},
         accepts |-> FALSE]

Later == [Dump EXCEPT !.minute = "m2", !.schemas = {"a"}]
Copied == [Later EXCEPT !.type = "comments", !.direct = FALSE, !.logs = {Errors}, !.accepts = TRUE]
Pairs == {<<Dump, Later>>,
          <<[Dump EXCEPT !.type = "legacy"], Copied>>,
          <<[Dump EXCEPT !.filtered = TRUE, !.schemas = {"a"}, !.logs = {Missing, Other}, !.accepts = TRUE],
            [Later EXCEPT !.type = "broken", !.logs = {Missing}]>>,
          <<[Dump EXCEPT !.schemas = {"a"}, !.logs = {Clean, Errors}],
            [Later EXCEPT !.path = "/other", !.execute = FALSE, !.logs = {Foreign}]>>}
OracleConfig == {[r \in Runs |-> IF r = "r1" THEN p[1] ELSE p[2]] : p \in Pairs}

-----------------------------------------------------------------------------
(* MySQL and SQL Server. *)

File(stem, tail, suffix, rank) == [stem |-> stem, tail |-> tail, suffix |-> suffix, rank |-> rank]

aSql == File("a", "", "sql", 1)
bGz == File("b", "", "gz", 2)
aBak == File("a", "", "bak", 3)
aMdf == File("a", "", "mdf", 4)
aLdf == File("a", "_log", "ldf", 5)
bLdf == File("b", "_log", "ldf", 6)

ServerFiles == {aSql, bGz, aBak, aMdf, aLdf, bLdf}
\* b loses to a what the normalisation takes away.
ServerNormal == [x \in {"a", "b"} \X {"", "_log"} |-> IF x[2] = "" THEN "A" ELSE x[1] \o x[2]]

Job(kind, files, index, target, drops, content, broken) ==
    [engine |-> kind, files |-> files, index |-> index, target |-> target, drops |-> drops,
     objects |-> content, broken |-> broken]

MySqlJobs ==
    {Job("mysql", {aSql, bGz}, 0, "", TRUE, <<"t", "trigger", "u">>, FALSE),
     Job("mysql", {aSql, bGz}, 1, "", TRUE, <<"t", "v">>, FALSE),
     Job("mysql", {aSql}, 0, "", FALSE, <<"w">>, TRUE),
     Job("mysql", {bGz}, 0, "B", FALSE, <<"v">>, FALSE),
     Job("mysql", {aBak}, 0, "", TRUE, <<"t">>, FALSE)}

SqlServerJobs ==
    {Job("sqlserver", {aBak, aMdf, aLdf}, 0, "", TRUE, <<"t", "u">>, FALSE),
     Job("sqlserver", {aBak, aMdf, aLdf}, 1, "", TRUE, <<"t">>, FALSE),
     Job("sqlserver", {aMdf, bLdf}, 0, "", TRUE, <<"u">>, FALSE),
     Job("sqlserver", {bLdf}, 0, "", TRUE, <<"u">>, FALSE),
     Job("sqlserver", {aBak}, 0, "", TRUE, <<"v">>, TRUE)}

ServerConfig == {[r \in {"r1", "r2"} |-> IF r = "r1" THEN j ELSE k] :
               <<j, k>> \in (MySqlJobs \X MySqlJobs) \cup (SqlServerJobs \X SqlServerJobs)}

Oracle == INSTANCE OracleImport
Server == INSTANCE ServerRestore

-----------------------------------------------------------------------------
OracleOnly == <<engine, tool, objects, rows, directory, workdirs, dump, stop>>
ServerOnly == <<db, run, disturbed>>
Both == <<job, host, loader, faults>>
allVars == <<active, OracleOnly, ServerOnly, Both>>

OracleOff == engine = off /\ tool = off /\ objects = off /\ rows = off /\ directory = off /\ workdirs = off /\ dump = off /\ stop = off
ServerOff == db = off /\ run = off /\ disturbed = off

MCInit ==
    \/ active = "oracle" /\ Oracle!Init /\ ServerOff
    \/ active = "server" /\ Server!Init /\ OracleOff

MCNext ==
    \/ active = "oracle" /\ Oracle!Next /\ UNCHANGED <<active, ServerOnly>>
    \/ active = "server" /\ Server!Next /\ UNCHANGED <<active, OracleOnly>>

\* The fairness of each module, for the one that is active.  (Tool and Read of
\* a run are never enabled together.)
MCFairness ==
    /\ \A r \in Runs : WF_<<OracleOnly, Both>>(active = "oracle" /\ (Oracle!Tool(r) \/ Oracle!Read(r)))
    /\ \A r \in Runs : WF_<<ServerOnly, Both>>(active = "server" /\ Server!Active(r) /\ Server!RunStep(r))

MCSpec == MCInit /\ [][MCNext]_allVars /\ MCFairness

-----------------------------------------------------------------------------
\* The properties of OracleImport and ServerRestore, which each of them states.
RestoresHonest == active = "oracle" => Oracle!RestoresHonest
StopHolds == [][active = "oracle" => Oracle!StopStep]_allVars
DumpRestored == [][active = "server" => Server!RestoredStep]_allVars

\* What people wait for comes: a run that was asked to stop ends (StopServed of
\* OracleImport), and so does a restore that has begun (RestoresEnd of
\* ServerRestore).  Each of them stays as it is from then on.
Awaited ==
    \/ active = "oracle" /\ \E r \in Stoppable : stop[r] = "flag" /\ engine[r] = "waiting"
    \/ active = "server" /\ \E r \in Runs : Server!Active(r)
WorkersServe == []<>~Awaited
=============================================================================

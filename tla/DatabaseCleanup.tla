-------------------------- MODULE DatabaseCleanup --------------------------
(***************************************************************************)
(* Database cleanup (services/database_cleanup.py and its API): requests   *)
(* that drop databases or Oracle users, alone or in batches, with their    *)
(* storage, while the servers are in use by others.  Nothing is stored of  *)
(* a request: what it does is all there is.                                *)
(*                                                                         *)
(* One server of one engine.  A target is a database, or a user of Oracle; *)
(* a unit of storage is a tablespace of Oracle or a data file of SQL       *)
(* Server.  Left out: the sessions that are killed first and the           *)
(* single-user mode, the recycle bin, which is purged for all users, the   *)
(* objects in a target, which the plan only counts, the catalogue and the  *)
(* connection test, and the wording of the plan.                           *)
(***************************************************************************)
EXTENDS Naturals, FiniteSets

CONSTANTS
    Engines,        \* the engines the server may be of
    Targets,        \* databases or users that may be cleaned
    System,         \* those of the system
    Units,          \* tablespaces or data files
    SystemUnits,    \* the tablespaces of the system
    ConfiguredFiles,\* the data files under the configured path
    Layouts,        \* for each engine, what may use what at the beginning: sets of <<target, unit, kind>>
    Requests,       \* the requests
    MaxMoves,       \* bound: what others create
    MaxFaults       \* bound: failing statements and crashes

AllTargets == Targets \cup System
Kinds == {"default", "segment"}

(***************************************************************************)
(* A data file has one database.  (RecoveryWork assumes it.)               *)
(***************************************************************************)
CleanupAssumption ==
    /\ \A g \in Engines : \A layout \in Layouts[g] : layout \subseteq AllTargets \X Units \X Kinds
    /\ \A layout \in Layouts["sqlserver"] : \A x, y \in layout :
           x[3] = "segment" /\ (x[2] = y[2] => x[1] = y[1])

(***************************************************************************)
(* live: the targets that exist.  uses: which target has which unit as its *)
(* default, or keeps data in it.  units: the units that exist.  req: the   *)
(* requests.  Ghosts: late, what others have placed in a unit that a       *)
(* request had already found to be its target's alone; lost, what others   *)
(* have lost with a unit.                                                  *)
(***************************************************************************)
VARIABLES engine, live, uses, units, req, late, lost, moves, faults

vars == <<engine, live, uses, units, req, late, lost, moves, faults>>

Idle == [phase |-> "idle"]

Init ==
    /\ engine \in Engines
    /\ live = AllTargets
    /\ uses \in Layouts[engine]
    /\ units = (IF engine = "oracle" THEN Units ELSE {x[2] : x \in uses})
    /\ req = [q \in Requests |-> Idle]
    /\ late = {} /\ lost = {}
    /\ moves = 0 /\ faults = 0

Fault == faults < MaxFaults /\ faults' = faults + 1
Move == moves < MaxMoves /\ moves' = moves + 1

(***************************************************************************)
(* The plan of a target: the units it uses, and of those the ones that the *)
(* request will drop with it.                                              *)
(***************************************************************************)
Protected(t) == engine = "ftp" \/ t \in System

DefaultTablespaces(t) == {u \in Units : <<t, u, "default">> \in uses}

UserTablespaces(t) == {u \in Units : \E k \in Kinds : <<t, u, k>> \in uses}

SharedBySegments(u, t) == {x \in AllTargets \ {t} : <<x, u, "segment">> \in uses}

TablespaceSharedWith(u, t) == {x \in AllTargets \ {t} : \E k \in Kinds : <<x, u, k>> \in uses}

PlanOracle(t) == {u \in UserTablespaces(t) : u \notin SystemUnits /\ TablespaceSharedWith(u, t) = {}}
PlanSqlserver(t) == UserTablespaces(t) \cap ConfiguredFiles
PlanMysql(t) == {}
PlanDoris(t) == {}

BuildCleanupPlan(t, drop) ==
    CASE ~drop \/ Protected(t) -> {}
      [] engine = "oracle" -> PlanOracle(t)
      [] engine = "sqlserver" -> PlanSqlserver(t)
      [] engine = "mysql" -> PlanMysql(t)
      [] OTHER -> PlanDoris(t)

(***************************************************************************)
(* A request: its targets and whether it is to drop their storage.  It is  *)
(* refused where a target is protected or cannot be planned, or where the  *)
(* user has not confirmed.  held: the units its targets use by now; alone: *)
(* no other request runs with it.                                          *)
(***************************************************************************)
Running == {q \in Requests : req[q].phase \in {"next", "drop", "storage", "verify"}}
HeldBy(S) == {x[2] : x \in {y \in uses : y[1] \in S}}

BuildCleanupBatchPlan(S) == \A t \in S : ~Protected(t)

ExecuteCleanupBatch(q, S, drop) ==
    LET new == [phase |-> "next", todo |-> S, target |-> CHOOSE t \in S : TRUE, own |-> {}, drop |-> drop,
                held |-> IF drop THEN HeldBy(S) ELSE {}, alone |-> Running = {}, success |-> FALSE, failed |-> FALSE]
    IN  /\ req[q] = Idle
        /\ \/ /\ BuildCleanupBatchPlan(S)
              /\ req' = [p \in Requests |-> IF p = q THEN new
                                            ELSE IF p \in Running THEN [req[p] EXCEPT !.alone = FALSE] ELSE req[p]]
           \/ req' = [req EXCEPT ![q] = [phase |-> "blocked"]]
        /\ UNCHANGED <<engine, live, uses, units, late, lost, moves, faults>>

\* One target, for which the user has typed its name.
ExecuteCleanup(q, t, drop) == ExecuteCleanupBatch(q, {t}, drop)

(***************************************************************************)
(* The targets, one after the other: each is planned again, in the state   *)
(* the ones before it have left.  Where that fails the whole batch ends in *)
(* an error, without the results it already has.                           *)
(***************************************************************************)
ReplanTarget(q) ==
    /\ req[q].phase = "next"
    /\ \/ /\ \E t \in req[q].todo :
                 req' = [req EXCEPT ![q].phase = "drop", ![q].target = t, ![q].own = BuildCleanupPlan(t, req[q].drop)]
          /\ UNCHANGED faults
       \/ Fault /\ req' = [req EXCEPT ![q] = [phase |-> "error"]]
    /\ UNCHANGED <<engine, live, uses, units, late, lost, moves>>

BatchState(r) ==
    CASE ~r.failed -> "success"
      [] r.failed /\ r.success -> "partial"
      [] OTHER -> "failed"

\* The result of a target; the batch goes on with the next one whatever it is.
Ends(q, result) ==
    LET r == [req[q] EXCEPT !.phase = "next", !.todo = @ \ {req[q].target},
                            !.success = @ \/ result = "success", !.failed = @ \/ result = "failed"]
    IN  req' = [req EXCEPT ![q] = IF r.todo = {} THEN [phase |-> "ended", state |-> BatchState(r)] ELSE r]

Dropped(q, remaining) ==
    /\ live' = live \ {req[q].target}
    /\ uses' = {x \in uses : x[1] # req[q].target}
    /\ units' = remaining
    /\ req' = [req EXCEPT ![q].phase = IF req[q].own = {} THEN "verify" ELSE "storage"]

\* DROP DATABASE IF EXISTS
DropMysql(q) == engine = "mysql" /\ Dropped(q, units)
DropDoris(q) == engine = "doris" /\ Dropped(q, units)

\* DROP USER fails where there is no such user.
DropOracle(q) == engine = "oracle" /\ req[q].target \in live /\ Dropped(q, units)

\* The server removes the files of the database, or leaves them.
DropSqlserver(q) ==
    /\ engine = "sqlserver" /\ req[q].target \in live
    /\ \E left \in {{}, UserTablespaces(req[q].target)} : Dropped(q, (units \ UserTablespaces(req[q].target)) \cup left)

DropTarget(q) ==
    /\ req[q].phase = "drop"
    /\ \/ (DropMysql(q) \/ DropDoris(q) \/ DropOracle(q) \/ DropSqlserver(q)) /\ UNCHANGED faults
       \/ /\ (req[q].target \notin live /\ engine \in {"oracle", "sqlserver"} /\ UNCHANGED faults) \/ Fault
          /\ Ends(q, "failed")
          /\ UNCHANGED <<live, uses, units>>
    /\ UNCHANGED <<engine, late, lost, moves>>

(***************************************************************************)
(* The storage of the plan.  A unit goes with whatever it contains by      *)
(* then; a tablespace that is gone fails the request, a file that is gone  *)
(* is passed over.                                                         *)
(***************************************************************************)
DropUnit(u) ==
    /\ units' = units \ {u}
    /\ uses' = {x \in uses : x[2] # u \/ x[3] = "default"}
    /\ lost' = lost \cup {<<x[1], x[2]>> : x \in {y \in uses : y[2] = u}}

DropStorage(q) ==
    /\ req[q].phase = "storage"
    /\ \E u \in req[q].own :
           LET rest == req[q].own \ {u}
           IN  \/ /\ u \in units \/ engine = "sqlserver"
                  /\ DropUnit(u)
                  /\ req' = [req EXCEPT ![q].own = rest, ![q].phase = IF rest = {} THEN "verify" ELSE "storage"]
                  /\ UNCHANGED faults
               \/ /\ engine = "oracle"
                  /\ (u \notin units /\ UNCHANGED faults) \/ Fault
                  /\ Ends(q, "failed")
                  /\ UNCHANGED <<units, uses, lost>>
    /\ UNCHANGED <<engine, live, late, moves>>

VerifyTarget(q) ==
    /\ req[q].phase = "verify"
    /\ Ends(q, IF req[q].target \in live THEN "failed" ELSE "success")
    /\ UNCHANGED <<engine, live, uses, units, late, lost, moves, faults>>

\* The process dies: what the request has dropped by then is gone, and nobody is told.
Crash(q) ==
    /\ q \in Running
    /\ Fault
    /\ req' = [req EXCEPT ![q] = [phase |-> "error"]]
    /\ UNCHANGED <<engine, live, uses, units, late, lost, moves>>

(***************************************************************************)
(* Others: they create a target that is not there, and in Oracle users put *)
(* data into a tablespace.  A data file has one database only.             *)
(***************************************************************************)
Place(t, u, kind) ==
    /\ Move
    /\ <<t, u, kind>> \notin uses
    /\ CASE engine = "oracle" -> u \in units /\ (kind = "default" <=> t \notin live)
         [] engine = "sqlserver" -> u \notin units /\ kind = "segment" /\ t \notin live
         [] OTHER -> FALSE
    /\ live' = live \cup {t}
    /\ uses' = uses \cup {<<t, u, kind>>}
    /\ units' = units \cup {u}
    /\ late' = IF \E q \in Running : u \in req[q].own THEN late \cup {<<t, u>>} ELSE late
    /\ UNCHANGED <<engine, req, lost, faults>>

CreateDatabase(t) ==
    /\ Move
    /\ engine \in {"mysql", "doris"} /\ t \notin live
    /\ live' = live \cup {t}
    /\ UNCHANGED <<engine, uses, units, req, late, lost, faults>>

RequestStep(q) == ReplanTarget(q) \/ DropTarget(q) \/ DropStorage(q) \/ VerifyTarget(q)

Next ==
    \/ \E q \in Requests : RequestStep(q) \/ Crash(q)
    \/ \E q \in Requests, S \in (SUBSET AllTargets) \ {{}}, drop \in BOOLEAN : ExecuteCleanupBatch(q, S, drop)
    \/ \E q \in Requests, t \in AllTargets, drop \in BOOLEAN : ExecuteCleanup(q, t, drop)
    \/ \E t \in Targets, u \in Units, kind \in Kinds : Place(t, u, kind)
    \/ \E t \in Targets : CreateDatabase(t)

Spec == Init /\ [][Next]_vars

-----------------------------------------------------------------------------
(***************************************************************************)
(* The types of the state: the server, the requests and the ghosts.        *)
(***************************************************************************)
TypeOK ==
    /\ engine \in Engines /\ live \subseteq AllTargets /\ units \subseteq Units
    /\ uses \subseteq AllTargets \X Units \X Kinds
    /\ \A q \in Requests : req[q].phase \in {"next", "drop", "storage", "verify"} =>
           req[q].todo \subseteq AllTargets /\ req[q].own \cup req[q].held \subseteq Units
    /\ late \subseteq AllTargets \X Units /\ lost \subseteq AllTargets \X Units

(***************************************************************************)
(* Dropping the storage of a target takes nothing of others with it, but   *)
(* for what they placed there after the plan had found it to be the        *)
(* target's alone (_plan_oracle, _execute_oracle, _cleanup_sqlserver_files *)
(* ask nothing again).                                                     *)
(***************************************************************************)
NeighboursSpared == lost \subseteq late

(***************************************************************************)
(* A batch that reports success, and had the server to itself, leaves no   *)
(* tablespace behind that only its targets used: also not one they shared, *)
(* as the last of them is planned without the others.                      *)
(***************************************************************************)
UnitsGone ==
    \A q \in Requests :
        /\ engine = "oracle" /\ req[q].phase = "verify" /\ req'[q] = [phase |-> "ended", state |-> "success"]
        /\ req[q].drop /\ req[q].alone
        => \A u \in (req[q].held \cap units') \ SystemUnits : \E x \in uses' : x[2] = u

StorageGone == [][UnitsGone]_vars
=============================================================================

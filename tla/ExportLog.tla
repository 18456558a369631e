----------------------------- MODULE ExportLog -----------------------------
(***************************************************************************)
(* What the engine makes of the log of the export that wrote a dump        *)
(* (export_log_parser.py, and _select_export_log of the pipeline): which   *)
(* log belongs to the dump and whether the export left anything out.       *)
(*                                                                         *)
(* A log is what its lines say.  recognized: it has the Export: Release    *)
(* line; datapump: it is from expdp.  footers: the job completion lines;   *)
(* count: the number in the one with errors.  requested and exported: the  *)
(* tables of TABLES= and of the exported lines; missing: those of          *)
(* ORA-39166.  files: the dump file set; pattern: the files that match     *)
(* DUMPFILE=; named: LOGFILE= is the name of the log.                      *)
(***************************************************************************)
EXTENDS Naturals, FiniteSets

LogType(tables, names) ==
    [recognized : BOOLEAN, datapump : BOOLEAN, footers : SUBSET {"clean", "errors", "failed"}, count : Nat,
     requested : SUBSET tables, exported : SUBSET tables, missing : SUBSET tables,
     files : SUBSET names, pattern : SUBSET names, named : BOOLEAN]

SourceStatus(log) ==
    CASE "clean" \in log.footers -> "clean_success"
      [] "clean" \notin log.footers /\ "errors" \in log.footers -> "completed_with_errors"
      [] log.footers = {"failed"} -> "failed"
      [] OTHER -> "incomplete"

\* The count is read only with the status it belongs to.
CompletionErrors(log) == IF SourceStatus(log) = "completed_with_errors" THEN log.count ELSE 0

HasMissing(log) == log.missing # {}

HasSourceGaps(log) == log.missing # {} \/ CompletionErrors(log) > 0

Usable(log) ==
    /\ log.recognized
    /\ log.datapump
    /\ SourceStatus(log) \in {"clean_success", "completed_with_errors"}
    /\ log.files # {} \/ log.pattern # {}

\* The schemas of all tables the log speaks of; owner gives the schema of a table.
LogSchemas(log, owner) == {owner[t] : t \in log.requested \cup log.exported \cup log.missing}

\* A dump file set that differs is a mismatch whatever else fits.
Binding(log, dumps) ==
    LET same == log.files = dumps
        score == (IF same THEN 80 ELSE 0) + (IF dumps # {} /\ dumps \subseteq log.pattern THEN 15 ELSE 0)
                   + (IF log.named THEN 5 ELSE 0)
    IN  CASE ~Usable(log) -> "unusable"
          [] Usable(log) /\ log.files # {} /\ ~same -> "mismatch"
          [] Usable(log) /\ (log.files = {} \/ same) -> IF score >= 95 THEN "exact"
                                                       ELSE IF score >= 80 THEN "strong" ELSE "weak"

\* The log of the dump: the only one that matches exactly, or none.
Selected(logs, dumps) ==
    LET exact == {log \in logs : Binding(log, dumps) = "exact"}
    IN  IF Cardinality(exact) = 1 THEN exact ELSE {}
=============================================================================

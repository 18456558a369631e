----------------------------- MODULE CsvImport -----------------------------
(***************************************************************************)
(* CSV files loaded into Doris (services/doris_csv_import.py and its API): *)
(* the files are uploaded as a task, a thread of the API process parses    *)
(* them, the user may change what was made of them, and after his request  *)
(* another thread creates the tables and loads the files by Stream Load.   *)
(* A direct import does the same in one request, without a task: what it   *)
(* answers about a file is kept here where a task has the file's row.      *)
(*                                                                         *)
(* One task.  Left out: the sizes, the progress and the log of the task,   *)
(* the encodings, the preview of rows, the file of rejected rows.          *)
(***************************************************************************)
EXTENDS Naturals, Sequences, FiniteSets, SequencesExt

CONSTANTS
    Uploads,     \* the jobs of the task and the direct import that Init chooses from
    Askers,      \* the requests that may be open at one time
    Threads,     \* the threads that run tasks
    Sample,      \* the rows that decide the type of a column: 200 in the code
    MaxRequests, \* bound: the requests to import
    MaxFaults    \* bound: the Doris calls that fail

(***************************************************************************)
(* upload: the files, in order, and the options; it never changes.         *)
(* task: its row.  file: the row of each file.  asker: the requests whose  *)
(* handler has read the task.  thread: what each thread has read and done. *)
(* doris: for every table, how often it holds each file, and whether with  *)
(* all values.  requests, faults: the bounds.  restarted: a restart came.  *)
(***************************************************************************)
VARIABLES upload, task, file, asker, thread, doris, requests, faults, restarted

vars == <<upload, task, file, asker, thread, doris, requests, faults, restarted>>

Single == upload.mode = "single_table"
Names == {upload.files[i].name : i \in DOMAIN upload.files}
Upload(f) == CHOOSE u \in ToSet(upload.files) : u.name = f
InTask(f) == ~Upload(f).direct
Order(S) == SelectSeq([i \in DOMAIN upload.files |-> upload.files[i].name], LAMBDA f : f \in S)

(***************************************************************************)
(* Parsing.  A row is the kinds of its values, or Broken where the quoting *)
(* is wrong; a row of another length than the first is rejected too.       *)
(***************************************************************************)
Kinds == {"null", "word", "bit", "int", "decimal", "date", "text"}
Broken == <<>>
GoodRows(f) == SelectSeq(Upload(f).rows, LAMBDA row : Len(row) = Upload(f).columns)
Values(f, c, rows) == {rows[i][c] : i \in DOMAIN rows} \ {"null"}

\* In the order of the code: true, false, yes, no, 0 and 1 make a BOOLEAN.
Holds == [BOOLEAN_ |-> {"word", "bit"}, BIGINT |-> {"bit", "int"}, DECIMAL |-> {"bit", "int", "decimal"},
          DATE |-> {"date"}, VARCHAR |-> Kinds]
TypeOf(values) ==
    CASE values = {} -> "VARCHAR"
      [] values # {} /\ values \subseteq Holds["BOOLEAN_"] -> "BOOLEAN_"
      [] ~(values \subseteq Holds["BOOLEAN_"]) /\ values \subseteq Holds["BIGINT"] -> "BIGINT"
      [] ~(values \subseteq Holds["BOOLEAN_"] \/ values \subseteq Holds["BIGINT"])
             /\ values \subseteq Holds["DECIMAL"] -> "DECIMAL"
      [] values = Holds["DATE"] -> "DATE"
      [] OTHER -> "VARCHAR"

OneRow(rows) == SubSeq(rows, 1, IF rows = <<>> THEN 0 ELSE 1)

FirstRows(rows) == SubSeq(rows, 1, IF Len(rows) < Sample THEN Len(rows) ELSE Sample)
Columns(f) == [c \in 1 .. Upload(f).columns |-> TypeOf(Values(f, c, FirstRows(GoodRows(f))))]

NoSpec == [table |-> "none", types |-> <<>>]
SpecOf(f) == [table |-> Upload(f).table, types |-> Columns(f)]

\* A value that does not fit the type of its column is loaded as NULL (strict_mode is false).
KeepsValues(f, types) ==
    \A c \in 1 .. Upload(f).columns : Values(f, c, GoodRows(f)) \subseteq Holds[types[c]]

(***************************************************************************)
(* The state.                                                              *)
(***************************************************************************)
TaskStates == {"queued", "parsing", "completed", "failed", "stopping", "stopped",
               "waiting_import", "importing", "imported", "import_failed"}
FileStates == {"waiting", "parsing", "succeeded", "failed", "stopped",
               "importing", "imported", "import_failed"}
Ended == {"completed", "failed", "stopped", "imported", "import_failed"}
Tables == {Upload(f).table : f \in Names}
NoTable == [made |-> FALSE, has |-> [f \in Names |-> [copies |-> 0, kept |-> TRUE]]]
Empty == [NoTable EXCEPT !.made = TRUE]

\* todo: the files not yet done.  spec: what the thread read of every file.  base: the first file
\* of a single table.  created: the tables it has created.  bad: a file has failed.
Idle == [kind |-> "none", at |-> "none", todo |-> <<>>, spec |-> [f \in Names |-> NoSpec], base |-> NoSpec,
         created |-> {}, overwrite |-> FALSE, good |-> FALSE, bad |-> FALSE]
NoAsk == [for |-> "none", overwrite |-> FALSE]

TypeOK ==
    /\ task.state \in TaskStates
    /\ \A f \in Names : file[f].state \in FileStates
    /\ \A a \in Askers : asker[a].for \in {"none", "import", "stop"}
    /\ \A t \in Threads : /\ thread[t].kind \in {"none", "parse", "import", "direct"}
                          /\ ToSet(thread[t].todo) \subseteq Names
                          /\ thread[t].created \subseteq Tables
    /\ DOMAIN doris = Tables
    /\ requests \in 0 .. MaxRequests /\ faults \in 0 .. MaxFaults

\* create_csv_parse_task, and the thread that the API starts with it.
Init ==
    /\ upload \in Uploads
    /\ task = [state |-> "queued", stop |-> FALSE, overwrite |-> FALSE]
    /\ file = [f \in Names |-> [state |-> "waiting", spec |-> NoSpec]]
    /\ asker = [a \in Askers |-> NoAsk]
    /\ thread = [t \in Threads |-> IF t = CHOOSE u \in Threads : TRUE
                                    THEN [Idle EXCEPT !.kind = "parse", !.at = "begin"] ELSE Idle]
    /\ doris = [t \in Tables |-> NoTable]
    /\ requests = 0 /\ faults = 0 /\ restarted = FALSE

Fault == faults < MaxFaults /\ faults' = faults + 1
At(t, kind, at) == thread[t].kind = kind /\ thread[t].at = at
Busy(t) == thread[t].kind \in {"parse", "import"}
Goes(t, at) == thread' = [thread EXCEPT ![t].at = at]
Leaves(t) == thread' = [thread EXCEPT ![t] = Idle]
Becomes(state) == task' = [task EXCEPT !.state = state]
Head1(t) == Head(thread[t].todo)

(***************************************************************************)
(* run_csv_parse_task_sync.                                                *)
(***************************************************************************)
BeginParse(t) ==
    /\ At(t, "parse", "begin")
    /\ \/ /\ Becomes("parsing")
          /\ thread' = [thread EXCEPT ![t].at = "next", ![t].todo = Order({f \in Names : InTask(f)})]
          /\ UNCHANGED faults
       \/ Fault /\ Becomes("failed") /\ Leaves(t)
    /\ UNCHANGED <<upload, file, asker, doris, requests, restarted>>

StopFiles(t, begun) ==
    /\ file' = [f \in Names |-> IF f \in ToSet(thread[t].todo) /\ file[f].state \in begun
                                THEN [file[f] EXCEPT !.state = "stopped"] ELSE file[f]]
    /\ Leaves(t)
    /\ UNCHANGED task

\* The files that wait, or were begun, are marked with the task.
StopRemaining(t, begun) ==
    /\ file' = [f \in Names |-> IF f \in ToSet(thread[t].todo) /\ file[f].state \in begun
                                THEN [file[f] EXCEPT !.state = "stopped"] ELSE file[f]]
    /\ Becomes("stopped")
    /\ Leaves(t)

\* The stop is looked for before each file and not after the last one.
NextToParse(t) ==
    /\ At(t, "parse", "next")
    /\ thread[t].todo # <<>>
    /\ IF task.stop
         THEN StopRemaining(t, {"waiting", "parsing"})
         ELSE file' = [file EXCEPT ![Head1(t)].state = "parsing"] /\ Goes(t, "work") /\ UNCHANGED task
    /\ UNCHANGED <<upload, asker, doris, requests, faults, restarted>>

\* The first file that can be read is the standard of a single table; the others take its table
\* and the types of its columns, and fail with another number of columns.
ParseFile(t) ==
    /\ At(t, "parse", "work")
    /\ LET f == Head1(t)
           later == Single /\ thread[t].base # NoSpec
           ok == GoodRows(f) # <<>> /\ (later => Upload(f).columns = Len(thread[t].base.types))
           spec == IF later THEN thread[t].base ELSE SpecOf(f)
       IN  /\ file' = [file EXCEPT ![f] = IF ok THEN [state |-> "succeeded", spec |-> spec]
                                                ELSE [@ EXCEPT !.state = "failed"]]
           /\ thread' = [thread EXCEPT ![t].at = "next", ![t].todo = Tail(@), ![t].good = @ \/ ok,
                                       ![t].base = IF Single /\ ok THEN spec ELSE @]
    /\ UNCHANGED <<upload, task, asker, doris, requests, faults, restarted>>

EndParse(t) ==
    /\ At(t, "parse", "next")
    /\ thread[t].todo = <<>>
    /\ Becomes(IF thread[t].good THEN "completed" ELSE "failed")
    /\ Leaves(t)
    /\ UNCHANGED <<upload, file, asker, doris, requests, faults, restarted>>

(***************************************************************************)
(* The user.  A handler reads the task and writes what it decided on.      *)
(***************************************************************************)

\* update_csv_parse_file_preview_sync asks for no state; here the table is what is edited.
Edit(f) ==
    /\ upload.edits
    /\ file[f].spec # NoSpec
    /\ \E table \in Tables \ {file[f].spec.table} : file' = [file EXCEPT ![f].spec.table = table]
    /\ requests < MaxRequests
    /\ requests' = requests + 1
    /\ UNCHANGED <<upload, task, asker, thread, doris, faults, restarted>>

AskImport(a) ==
    /\ asker[a] = NoAsk
    /\ task.state \in {"completed", "import_failed", "imported"}
    /\ requests < MaxRequests
    /\ requests' = requests + 1
    /\ \E overwrite \in {FALSE, upload.overwrites} :
         asker' = [asker EXCEPT ![a] = [for |-> "import", overwrite |-> overwrite]]
    /\ UNCHANGED <<upload, task, file, thread, doris, faults, restarted>>

\* request_import_csv_task_sync, and the thread that the API starts then; stop_requested stays.
RequestImport(a) ==
    /\ asker[a].for = "import"
    /\ task' = [task EXCEPT !.state = "waiting_import", !.overwrite = asker[a].overwrite]
    /\ \E t \in Threads :
         /\ thread[t] = Idle
         /\ thread' = [thread EXCEPT ![t] = [Idle EXCEPT !.kind = "import", !.at = "begin"]]
    /\ asker' = [asker EXCEPT ![a] = NoAsk]
    /\ UNCHANGED <<upload, file, doris, requests, faults, restarted>>

AskStop(a) ==
    /\ asker[a] = NoAsk
    /\ task.state \notin Ended
    /\ requests < MaxRequests
    /\ requests' = requests + 1
    /\ asker' = [asker EXCEPT ![a].for = "stop"]
    /\ UNCHANGED <<upload, task, file, thread, doris, faults, restarted>>

RequestStop(a) ==
    /\ asker[a].for = "stop"
    /\ task' = [task EXCEPT !.state = "stopping", !.stop = TRUE]
    /\ asker' = [asker EXCEPT ![a] = NoAsk]
    /\ UNCHANGED <<upload, file, thread, doris, requests, faults, restarted>>

\* import_csv_files, in the request.
DirectImport(t) ==
    /\ thread[t] = Idle
    /\ requests < MaxRequests
    /\ requests' = requests + 1
    /\ LET direct == {f \in Names : ~InTask(f)} IN
         /\ direct # {}
         /\ \E overwrite \in {FALSE, upload.overwrites} :
              thread' = [thread EXCEPT ![t] =
                  [Idle EXCEPT !.kind = "direct", !.at = "next", !.overwrite = overwrite, !.todo = Order(direct),
                               !.spec = [f \in Names |-> SpecOf(f)]]]
         /\ file' = [f \in Names |-> IF f \in direct THEN [file[f] EXCEPT !.state = "waiting"] ELSE file[f]]
    /\ UNCHANGED <<upload, task, asker, doris, faults, restarted>>

(***************************************************************************)
(* run_csv_import_task_sync.                                               *)
(***************************************************************************)
BeginImport(t) ==
    /\ At(t, "import", "begin")
    /\ IF task.state = "waiting_import" THEN Goes(t, "start") /\ UNCHANGED task
       ELSE /\ task' = IF task.state \in {"imported", "import_failed", "stopped"} THEN task
                       ELSE [task EXCEPT !.state = "import_failed"]
            /\ Leaves(t)
    /\ UNCHANGED <<upload, file, asker, doris, requests, faults, restarted>>

AllParsed == {f \in Names : InTask(f) /\ file[f].state \in {"succeeded", "import_failed", "imported"}}

Importable == {f \in Names : InTask(f) /\ file[f].state \in {"succeeded", "import_failed"}}

\* _ensure_database may fail; without a file to import the task has failed.
StartImport(t) ==
    /\ At(t, "import", "start")
    /\ \/ Fault /\ Becomes("import_failed") /\ Leaves(t)
       \/ /\ Importable = {} /\ Becomes("failed") /\ Leaves(t) /\ UNCHANGED faults
       \/ /\ Importable # {}
          /\ Becomes("importing")
          /\ thread' = [thread EXCEPT ![t].at = "next", ![t].todo = Order(Importable),
                            ![t].overwrite = task.overwrite, ![t].spec = [f \in Names |-> file[f].spec]]
          /\ UNCHANGED faults
    /\ UNCHANGED <<upload, file, asker, doris, requests, restarted>>

\* The table and the types with which a file is loaded: those of the first one for a single table.
Loaded(t, f) == IF Single /\ InTask(f) /\ thread[t].base # NoSpec THEN thread[t].base ELSE thread[t].spec[f]

NextToImport(t) ==
    /\ thread[t].kind \in {"import", "direct"}
    /\ thread[t].at = "next"
    /\ thread[t].todo # <<>>
    /\ IF task.stop /\ thread[t].kind = "import"
         THEN StopRemaining(t, {"waiting", "parsing", "succeeded", "importing"})
         ELSE /\ file' = [file EXCEPT ![Head1(t)].state = "importing"]
              /\ thread' = [thread EXCEPT ![t].at = "create", ![t].base = Loaded(t, Head1(t))]
              /\ UNCHANGED task
    /\ UNCHANGED <<upload, asker, doris, requests, faults, restarted>>

\* The file at the head has ended, well or not.
FileEnds(t, ok) ==
    /\ file' = [file EXCEPT ![Head1(t)].state = IF ok THEN "imported" ELSE "import_failed"]
    /\ thread' = [thread EXCEPT ![t].at = "next", ![t].todo = Tail(@), ![t].bad = @ \/ ~ok]

\* With the option to overwrite, the table is dropped first.  A single table is created once.
CreateTable(t) ==
    /\ thread[t].at = "create"
    /\ LET table == Loaded(t, Head1(t)).table
           new == [doris EXCEPT ![table] = IF thread[t].overwrite \/ ~@.made THEN Empty ELSE @]
       IN  \/ /\ doris' = IF Single /\ table \in thread[t].created THEN doris ELSE new
              /\ thread' = [thread EXCEPT ![t].at = "load", ![t].created = @ \cup {table}]
              /\ UNCHANGED <<file, faults>>
           \/ Fault /\ FileEnds(t, FALSE) /\ UNCHANGED doris
    /\ UNCHANGED <<upload, task, asker, requests, restarted>>

\* Stream Load, with a new label every time: refused, done, or done without an answer.
StreamLoad(t) ==
    /\ thread[t].at = "load"
    /\ LET f == Head1(t)
           spec == Loaded(t, f)
           loaded == [doris EXCEPT ![spec.table].has[f] = [copies |-> @.copies + 1,
                                                       kept |-> @.kept /\ KeepsValues(f, spec.types)]]
       IN  \/ doris[spec.table].made /\ doris' = loaded /\ FileEnds(t, TRUE) /\ UNCHANGED faults
           \/ doris[spec.table].made /\ doris' \in {doris, loaded} /\ FileEnds(t, FALSE) /\ Fault
    /\ UNCHANGED <<upload, task, asker, requests, restarted>>

EndImport(t) ==
    /\ thread[t].kind \in {"import", "direct"}
    /\ thread[t].at = "next"
    /\ thread[t].todo = <<>>
    /\ IF thread[t].kind = "direct" THEN UNCHANGED task
       ELSE Becomes(IF thread[t].bad THEN "import_failed" ELSE "imported")
    /\ Leaves(t)
    /\ UNCHANGED <<upload, file, asker, doris, requests, faults, restarted>>

\* The threads and the requests are gone with the API process; nothing takes them up again.
Restart ==
    /\ ~restarted
    /\ restarted' = TRUE
    /\ thread' = [t \in Threads |-> Idle]
    /\ asker' = [a \in Askers |-> NoAsk]
    /\ UNCHANGED <<upload, task, file, doris, requests, faults>>

Step(t) == \/ BeginParse(t) \/ NextToParse(t) \/ ParseFile(t) \/ EndParse(t)
           \/ BeginImport(t) \/ StartImport(t) \/ NextToImport(t) \/ CreateTable(t)
           \/ StreamLoad(t) \/ EndImport(t)
User == \/ \E f \in Names : Edit(f)
        \/ \E a \in Askers : AskImport(a) \/ RequestImport(a) \/ AskStop(a) \/ RequestStop(a)
        \/ \E t \in Threads : DirectImport(t)
Next == (\E t \in Threads : Step(t)) \/ User \/ Restart

Spec == Init /\ [][Next]_vars
FairSpec == Spec /\ \A t \in Threads : WF_vars(Step(t))

(***************************************************************************)
(* Properties                                                              *)
(***************************************************************************)
Copies(f) == FoldSet(LAMBDA table, n : n + doris[table].has[f].copies, 0, Tables)

\* As long as nobody asks to overwrite, a file that counts as imported is in Doris, and a file of
\* the task is there a second time only when a load was done whose answer was lost.
LoadedOnce == \A f \in Names : file[f].state = "imported" /\ ~upload.overwrites =>
    Copies(f) >= 1 /\ (InTask(f) => Copies(f) <= 1 + faults)

\* The types of a table of its own hold every value of a file of which the sample has all rows.
ValuesKept == \A f \in Names, table \in Tables :
    /\ ~Single \/ ~InTask(f)
    /\ Len(Upload(f).rows) <= Sample
    => doris[table].has[f].kept

\* A stop that reaches a task while a thread works on it ends the task.
StopWaits == task.stop /\ \E t \in Threads : Busy(t)
StopOver == task.state \in Ended \/ restarted

StopServed == StopWaits ~> StopOver
=============================================================================

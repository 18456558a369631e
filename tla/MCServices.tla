---------------------------- MODULE MCServices ----------------------------
(***************************************************************************)
(* Three services that have nothing to do with each other, checked side by *)
(* side: CsvImport, Provisioning and ApiFlow.  Which one a behaviour is    *)
(* about is chosen at the beginning; the variables of the others are off   *)
(* for good.                                                               *)
(***************************************************************************)
EXTENDS Naturals, FiniteSets

CONSTANTS
    Uploads, Askers, Threads, Sample, MaxRequests,                      \* CsvImport
    Rows, Procs, Deletions, Batches, MaxExpiries,                       \* Provisioning
    Flows, Items, Workers, MaxEdits,                                    \* ApiFlow
    MaxRuns, MaxFaults,                                                 \* several
    f1, f2, f3, r1, r2, r3, a1, a2, s, c, d, a, b, m, e, i1, i2, off

VARIABLES
    active, upload, task, file, asker, thread, doris, requests, restarted,
    batch, state, row, log, role, messages, proc, at, token, cache, live, world, expiries,
    item, flow, publisher, run, queue, work, calls, edits, faults

Csv == INSTANCE CsvImport
Prov == INSTANCE Provisioning
Api == INSTANCE ApiFlow

(***************************************************************************)
(* CSV: a task of two files, or of two and a direct import of a third one. *)
(***************************************************************************)
CsvFile(name, table, direct, rows) == [name |-> name, table |-> table, direct |-> direct, columns |-> 1, rows |-> rows]
\* The Broken row of CsvImport.
Torn == <<>>
Ints == <<<<"bit">>, <<"int">>>>
Wide == [CsvFile(f2, "b", FALSE, <<<<"date", "text">>>>) EXCEPT !.columns = 2]
Files == {<<CsvFile(f1, "a", FALSE, Ints), CsvFile(f2, "b", FALSE, <<<<"null">>, Torn, <<"date">>>>)>>,
          <<CsvFile(f1, "a", FALSE, Ints), Wide>>,
          <<CsvFile(f1, "a", FALSE, <<Torn>>), CsvFile(f3, "a", TRUE, Ints), CsvFile(f2, "b", FALSE, <<<<"word">>>>)>>}
MCUploads == [mode : {"single_table", "multiple_tables"}, files : Files, edits : BOOLEAN, overwrites : BOOLEAN]

(***************************************************************************)
(* Provisioning: a batch of two rows that run at the same time, in one of  *)
(* which a person's name is missing; a permission batch of one row, whose  *)
(* role two requests may delete; and one of two rows, one after the other. *)
(***************************************************************************)
SheetRow(r, person) == [person |-> person, mobile |-> TRUE, names |-> TRUE, user |-> r, database |-> r]
RowBatch(kind, rows, person, n, login) ==
    [kind |-> kind, login |-> login, soon |-> kind = "permit", parallelism |-> n,
     sheet |-> [r \in rows |-> SheetRow(r, person \/ r = r2)]]
MCBatches == {RowBatch("provision", {r2, r3}, FALSE, 2, FALSE), RowBatch("permit", {r1}, TRUE, 1, TRUE),
              RowBatch("permit", {r2, r3}, TRUE, 1, FALSE)}
MCDeletions == {<<a1, r1>>, <<a2, r1>>, <<a1, r2>>}

(***************************************************************************)
(* Orchestration: two workflows that branch and join, one with nested      *)
(* branches, the other with a mapping that reads what the other branch     *)
(* gives; and a third one that is refused for its cycle.                   *)
(***************************************************************************)
E(x, y, branch) == [source |-> x, target |-> y, branch |-> branch]
Type(n) == CASE n = s -> "start" [] n = e -> "end" [] n \in {c, d} -> "condition"
             [] n = a -> "http" [] n = b -> "sql_api" [] n = m -> "mapping"
G(nodes, edges, read, lenient) ==
    [nodes |-> nodes, edges |-> edges, type |-> [n \in nodes |-> Type(n)],
     item |-> [n \in nodes \cap {a, b} |-> IF n = a THEN i1 ELSE i2],
     reads |-> [n \in nodes \cap {m} |-> read], lenient |-> lenient]
Diamond == G({s, c, a, m, e}, {E(s, c, "default"), E(c, a, "true"), E(c, m, "false"), E(a, e, "default"), E(m, e, "default")}, {a}, {})
Nested == G({s, c, d, b, m, e},
            {E(s, c, "default"), E(c, d, "true"), E(c, b, "default"), E(d, b, "false"), E(d, m, "true"),
             E(b, e, "default"), E(m, e, "default"), E(s, m, "default")}, {b}, {m})
Cyclic == G({s, a, b, e}, {E(s, a, "default"), E(a, b, "default"), E(b, a, "default"), E(b, e, "default")}, {}, {})
MCFlows == {Diamond, Nested, Cyclic}

-----------------------------------------------------------------------------
CsvOnly == <<upload, task, file, asker, thread, doris, requests, restarted>>
ProvOnly == <<batch, state, row, log, role, messages, proc, at, token, cache, live, world, expiries>>
ApiOnly == <<item, flow, publisher, run, queue, work, calls, edits>>
vars == <<active, CsvOnly, ProvOnly, ApiOnly, faults>>

CsvOff == upload = off /\ task = off /\ file = off /\ asker = off /\ thread = off /\ doris = off /\ requests = off /\ restarted = off
ProvOff == /\ batch = off /\ state = off /\ row = off /\ log = off /\ role = off /\ messages = off
           /\ proc = off /\ at = off /\ token = off /\ cache = off /\ live = off /\ world = off /\ expiries = off
ApiOff == item = off /\ flow = off /\ publisher = off /\ run = off /\ queue = off /\ work = off /\ calls = off /\ edits = off

Init ==
    \/ active = "csv" /\ Csv!Init /\ ProvOff /\ ApiOff
    \/ active = "provisioning" /\ Prov!Init /\ CsvOff /\ ApiOff
    \/ active = "api" /\ Api!Init /\ CsvOff /\ ProvOff

CsvStep == active = "csv" /\ Csv!Next /\ UNCHANGED <<active, ProvOnly, ApiOnly>>
ProvStep == active = "provisioning" /\ Prov!Next /\ UNCHANGED <<active, CsvOnly, ApiOnly>>
ApiStep == active = "api" /\ Api!Next /\ UNCHANGED <<active, CsvOnly, ProvOnly>>

Next == CsvStep \/ ProvStep \/ ApiStep

\* The fairness of CsvImport and ApiFlow, for the one that is active.
MCSpec ==
    /\ Init /\ [][Next]_vars
    /\ \A t \in Threads : WF_<<CsvOnly, faults>>(active = "csv" /\ Csv!Step(t))
    /\ \A w \in Workers : WF_<<ApiOnly, faults>>(active = "api" /\ Api!WorkerStep(w))

-----------------------------------------------------------------------------
\* The properties of the modules, which each of them states itself.
CsvLoaded == active = "csv" => Csv!LoadedOnce /\ Csv!ValuesKept
StatesEarned == active = "provisioning" => Prov!RowEarned /\ Prov!RoleHonest
OneLiveToken == active = "provisioning" => Prov!OneLiveToken
FlowsHonest == active = "api" => Api!BranchesFollowed /\ Api!OneVersionCalled

\* What people wait for comes: a stop that reached a task of CsvImport ends it
\* (StopServed), and a run of ApiFlow that was sent ends (RunsEnd).
Asked ==
    \/ active = "csv" /\ Csv!StopWaits
    \/ active = "api" /\ \E r \in Api!Runs : Api!Waiting(r)
Answered ==
    \/ active = "csv" /\ Csv!StopOver
    \/ active = "api" /\ ~\E r \in Api!Runs : Api!Waiting(r)
ServicesAnswer == Asked ~> Answered
=============================================================================

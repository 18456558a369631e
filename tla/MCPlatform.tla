----------------------------- MODULE MCPlatform -----------------------------
(***************************************************************************)
(* PlatformWork on runs of releases of three nodes, one of them a job; on  *)
(* three versions; and on two schedules of different kinds.                *)
(***************************************************************************)
EXTENDS PlatformWork

MCNode == 1 .. 3

\* Listed against the order of the keys; the edges of all graphs of three
\* nodes, or a job alone.
Alone == [order |-> <<2>>, edges |-> {}, type |-> [n \in MCNode |-> "job"]]
MCRelease ==
    {[order |-> <<3, 2, 1>>, edges |-> edges, type |-> type] :
        edges \in SUBSET (MCNode \X MCNode),
        type \in {[n \in MCNode |-> CASE n = 2 -> "job"
                                      [] n \in T -> "trigger"
                                      [] OTHER -> "plain"] : T \in SUBSET {1, 3}}}
    \cup {Alone}

\* Two runs of the job alone, one of the others.
MCBound == [r \in MCRelease |-> IF r = Alone THEN 2 ELSE 1]

MCSession == 1 .. 2
MCVersion == 1 .. 3
MCTypeOf == [s \in {"a", "b"} |-> IF s = "a" THEN "daily" ELSE "interval"]
=============================================================================

--------------------------- MODULE MCChangeTrigger ---------------------------
(***************************************************************************)
(* ChangeTrigger on one scheduler thread, one manual probe, one other      *)
(* request and one worker.                                                 *)
(***************************************************************************)
EXTENDS ChangeTrigger, TLC

CONSTANTS s1, p1, a1, e1

MCScheduler == {s1}
MCRequest == {p1}
MCAdmin == {a1}
MCExecutor == {e1}

\* With "run" the first value is in flight when the metric changes.
MCBound ==
    LET Upto(changes, requests, faults) ==
            [changes |-> changes, requests |-> requests, faults |-> faults]
    IN  [first |-> "baseline_only", overlap |-> "merge"] :> Upto(1, 2, 1)
     @@ [first |-> "baseline_only", overlap |-> "queue"] :> Upto(1, 1, 1)
     @@ [first |-> "manual_confirm", overlap |-> "skip"] :> Upto(1, 2, 1)
     @@ [first |-> "run", overlap |-> "queue"] :> Upto(2, 0, 2)
     @@ [first |-> "run", overlap |-> "merge"] :> Upto(2, 1, 0)

MCConfig == DOMAIN MCBound
==============================================================================

----------------------------- MODULE ClaimToken -----------------------------
(***************************************************************************)
(* What the conditional UPDATE with which every executor of the service    *)
(* takes its work promises: a job is handed out as a token, a token can be *)
(* withdrawn, and starting the job consumes it.  No message count, no      *)
(* duplicate delivery and no crash of an executor appears here: none of    *)
(* them may create a second start for the same token.                      *)
(*                                                                         *)
(* RecoveryTask and StageDispatch implement this specification.            *)
(***************************************************************************)
EXTENDS Integers

CONSTANT Job

VARIABLES
    granted,    \* granted[j]: job j may be started
    grants,     \* grants[j]: how many times j was made startable
    starts      \* starts[j]: how many times j was started

vars == <<granted, grants, starts>>

TypeOK ==
    /\ granted \in [Job -> BOOLEAN]
    /\ grants \in [Job -> Nat]
    /\ starts \in [Job -> Nat]

Init ==
    /\ granted = [j \in Job |-> FALSE]
    /\ grants = [j \in Job |-> 0]
    /\ starts = [j \in Job |-> 0]

\* Granting again what is already granted gives no second start.
Grant(j) ==
    /\ granted' = [granted EXCEPT ![j] = TRUE]
    /\ grants' = [grants EXCEPT ![j] = @ + 1]
    /\ UNCHANGED starts

Withdraw(j) ==
    /\ granted[j]
    /\ granted' = [granted EXCEPT ![j] = FALSE]
    /\ UNCHANGED <<grants, starts>>

Start(j) ==
    /\ granted[j]
    /\ granted' = [granted EXCEPT ![j] = FALSE]
    /\ starts' = [starts EXCEPT ![j] = @ + 1]
    /\ UNCHANGED grants

Next == \E j \in Job : Grant(j) \/ Withdraw(j) \/ Start(j)

Spec == Init /\ [][Next]_vars
=============================================================================

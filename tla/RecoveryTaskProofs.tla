-------------------------- MODULE RecoveryTaskProofs --------------------------
(***************************************************************************)
(* Proofs about RecoveryTask, for any number of tasks, workers and         *)
(* requests, either isolation level and any bound: type correctness, one   *)
(* run per grant (by implementing ClaimToken) and exclusive runs.  Then    *)
(* DatabaseCleanup, for any number of requests and any layout of the       *)
(* storage: what a request drops, and what it leaves behind.               *)
(***************************************************************************)
EXTENDS RecoveryWork, TLAPS

USE DEF TaskState, Terminal, Outcome

\* The sessions' writes stay rows.
LEMMA RowType ==
    /\ NoRow \in Row
    /\ \A x \in Row : /\ x.state \in TaskState
                       /\ x.stopRequested \in BOOLEAN
                       /\ x.control \in Nat
    /\ \A x \in Row, s \in TaskState : [x EXCEPT !.state = s] \in Row
    /\ \A x \in Row, c \in Nat : [x EXCEPT !.control = c] \in Row
    /\ \A x \in Row, s \in TaskState, b \in BOOLEAN :
        [x EXCEPT !.state = s, !.stopRequested = b] \in Row
    /\ \A s \in TaskState, b \in BOOLEAN, c \in Nat :
        [state |-> s, stopRequested |-> b, control |-> c] \in Row
BY DEF Row, NoRow

LEMMA FlushType ==
    \A current, loaded, new \in Row :
        /\ Flush(current, loaded, new) \in Row
        /\ Flush(current, loaded, new).state =
             IF new.state = loaded.state THEN current.state ELSE new.state
BY DEF Flush, Row

LEMMA IdleType ==
    \A t \in Task : IdleWorker(t) \in WorkerSlot /\ IdleRequest(t) \in RequestSlot
BY RowType DEF IdleWorker, IdleRequest, WorkerSlot, RequestSlot

LEMMA SlotFields ==
    /\ \A x \in WorkerSlot : /\ x.task \in Task
                              /\ x.run \in Nat
                              /\ x.loaded \in Row
                              /\ x.outcome \in Outcome
    /\ \A x \in RequestSlot : x.task \in Task /\ x.seen \in Row
BY DEF WorkerSlot, RequestSlot

LEMMA SlotEdits ==
    /\ \A x \in WorkerSlot : [x EXCEPT !.pc = "acking"] \in WorkerSlot
    /\ \A x \in WorkerSlot, n \in Nat :
        [x EXCEPT !.pc = "claimed", !.run = n] \in WorkerSlot
BY DEF WorkerSlot

\* Every variable keeps its type: the columns written by Flush and the records
\* of the worker and request processes included.
THEOREM TypeCorrect == Spec => []TypeOK
<1>1. Init => TypeOK
  <2> SUFFICES ASSUME Init PROVE TypeOK
    OBVIOUS
  <2>1. PICK t \in Task : /\ worker = [w \in Worker |-> IdleWorker(t)]
                          /\ request = [r \in Request |-> IdleRequest(t)]
    BY DEF Init
  <2>2. worker \in [Worker -> WorkerSlot] /\ request \in [Request -> RequestSlot]
    BY <2>1, IdleType
  <2>3. row \in [Task -> Row]
    BY RowType DEF Init
  <2> QED
    BY <2>2, <2>3 DEF Init, TypeOK
<1>2. TypeOK /\ [Next]_vars => TypeOK'
  <2> SUFFICES ASSUME TypeOK, [Next]_vars PROVE TypeOK'
    OBVIOUS
  <2> USE DEF TypeOK
  <2>1. ASSUME NEW r \in Request, NEW t \in Task, Create(r, t) PROVE TypeOK'
    <3>1. row' \in [Task -> Row]
      BY <2>1, RowType DEF Create
    <3>2. request' \in [Request -> RequestSlot]
      BY <2>1, RowType DEF Create, RequestSlot
    <3>3. grants' \in [Task -> Nat]
      BY <2>1 DEF Create
    <3> QED
      BY <2>1, <3>1, <3>2, <3>3 DEF Create
  <2>2. ASSUME NEW r \in Request, NEW t \in Task,
               LoadForCancel(r, t) \/ LoadForStop(r, t) \/ LoadForRetry(r, t)
        PROVE TypeOK'
    BY <2>2 DEF LoadForCancel, LoadForStop, LoadForRetry, Load, RequestSlot
  <2>3. ASSUME NEW r \in Request, Enqueue(r) PROVE TypeOK'
    BY <2>3, IdleType, SlotFields DEF Enqueue, Finish
  <2>4. ASSUME NEW r \in Request, NEW new \in Row, Write(r, new)
        PROVE  row' \in [Task -> Row] /\ staleWrite' \in SUBSET Task
    BY <2>4, FlushType, SlotFields DEF Write
  <2>5. ASSUME NEW r \in Request, CancelQueued(r) PROVE TypeOK'
    <3>1. [request[r].seen EXCEPT !.state = "cancelled"] \in Row
      BY RowType, SlotFields
    <3> QED
      BY <2>4, <2>5, <3>1, IdleType, SlotFields DEF CancelQueued, Finish
  <2>6. ASSUME NEW r \in Request, RequestStop(r) PROVE TypeOK'
    <3>1. [request[r].seen EXCEPT !.state = "stopping", !.stopRequested = TRUE]
            \in Row
      BY RowType, SlotFields
    <3> QED
      BY SMTT(60), <2>4, <2>6, <3>1 DEF RequestStop, RequestSlot
  <2>7. ASSUME NEW r \in Request, SendStop(r) PROVE TypeOK'
    <3>1. request[r].task \in Task /\ request[r].seen.control \in Nat
      BY RowType, SlotFields
    <3> QED
      BY <2>7, <3>1, IdleType DEF SendStop, Finish
  <2>8. ASSUME NEW r \in Request, Retry(r) PROVE TypeOK'
    <3>1. [state |-> "created", stopRequested |-> FALSE, control |-> 0] \in Row
      BY RowType
    <3>2. row' \in [Task -> Row] /\ staleWrite' \in SUBSET Task
      BY <2>4, <2>8, <3>1 DEF Retry
    <3>3. request' \in [Request -> RequestSlot]
      BY ZenonT(60), <2>8, RowType DEF Retry, RequestSlot
    <3>4. grants' \in [Task -> Nat]
      BY <2>8, SlotFields DEF Retry
    <3> QED
      BY <2>8, <3>2, <3>3, <3>4 DEF Retry
  <2>9. ASSUME NEW w \in Worker, NEW t \in Task, Claim(w, t) PROVE TypeOK'
    <3>0. UNCHANGED <<request, stopFiles, grants, staleWrite, redeliveries, crashes>>
      BY <2>9 DEF Claim
    <3>1. messages' \in [Task -> Nat]
      BY <2>9 DEF Claim
    <3>2. CASE row[t].state = "created"
      <4>1. row' \in [Task -> Row]
        <5>1. row' = [row EXCEPT ![t].state = "policy_running"]
          BY <2>9, <3>2 DEF Claim
        <5> QED
          BY <5>1, RowType
      <4>2. starts' \in [Task -> Nat] /\ starts[t] + 1 \in Nat
        BY <2>9, <3>2 DEF Claim
      <4>3. [IdleWorker(t) EXCEPT !.pc = "claimed", !.run = starts[t] + 1]
              \in WorkerSlot
        BY <4>2, IdleType, SlotEdits
      <4>4. worker' \in [Worker -> WorkerSlot]
        BY <2>9, <3>2, <4>3 DEF Claim
      <4> QED
        BY <3>0, <3>1, <4>1, <4>2, <4>4
    <3>3. CASE row[t].state # "created"
      <4>1. [IdleWorker(t) EXCEPT !.pc = "acking"] \in WorkerSlot
        BY IdleType, SlotEdits
      <4>2. worker' \in [Worker -> WorkerSlot]
        BY <2>9, <3>3, <4>1 DEF Claim
      <4>3. UNCHANGED <<row, starts>>
        BY <2>9, <3>3 DEF Claim
      <4> QED
        BY <3>0, <3>1, <4>2, <4>3
    <3> QED
      BY <3>2, <3>3
  <2>10. ASSUME NEW w \in Worker PROVE RunView(worker[w].task) \in Row
    BY RowType, SlotFields DEF RunView
  <2>11. ASSUME NEW w \in Worker, OpenSnapshot(w) PROVE TypeOK'
    BY ZenonT(60), <2>10, <2>11 DEF OpenSnapshot, WorkerSlot
  <2>12. ASSUME NEW w \in Worker, RunPipeline(w) PROVE TypeOK'
    <3>1. Reread(w) \in Row
      BY <2>10, SlotFields DEF Reread
    <3> QED
      BY <2>10, <2>12, <3>1 DEF RunPipeline, Return, ReturnAfterLostConnection,
         PipelineOutcome, WorkerSlot
  <2>13. ASSUME NEW w \in Worker, Commit(w) PROVE TypeOK'
    <3>1. FinalState(w) \in TaskState
      BY SlotFields DEF FinalState
    <3>2. [worker[w].loaded EXCEPT !.state = FinalState(w)] \in Row
      BY <3>1, RowType, SlotFields
    <3>3. row' \in [Task -> Row]
      BY <2>13, <3>2, FlushType, SlotFields DEF Commit
    <3>4. worker' \in [Worker -> WorkerSlot]
      BY <2>13, IdleType, SlotFields DEF Commit, WorkerSlot
    <3> QED
      BY <2>13, <3>3, <3>4 DEF Commit
  <2>14. ASSUME NEW w \in Worker,
                Ack(w) \/ Crash(w) \/ AbandonCommit(w) \/ Redeliver(w)
         PROVE TypeOK'
    <3>1. worker' \in [Worker -> WorkerSlot]
      BY <2>14, IdleType, SlotFields
         DEF Ack, Crash, AbandonCommit, Redeliver, WorkerSlot
    <3>2. messages' \in [Task -> Nat]
      BY <2>14, SlotFields DEF Ack, Crash, AbandonCommit, Redeliver
    <3> QED
      BY <2>14, <3>1, <3>2 DEF Ack, Crash, AbandonCommit, Redeliver
  <2>15. ASSUME NEW w \in Worker, PublishControl(w) PROVE TypeOK'
    BY <2>15, RowType, SlotFields DEF PublishControl
  <2>16. CASE UNCHANGED vars
    BY <2>16 DEF vars
  <2> QED
    BY <2>1, <2>2, <2>3, <2>5, <2>6, <2>7, <2>8, <2>9, <2>11, <2>12, <2>13,
       <2>14, <2>15, <2>16 DEF Next, Handle, Work
<1> QED
  BY <1>1, <1>2, PTL DEF Spec

-----------------------------------------------------------------------------
\* A handler that is about to write has read a state its operation accepts:
\* the early returns of the cancel, stop and retry handlers.
THEOREM AcceptedCorrect == Spec => []AcceptedOnWhatWasRead
<1>1. Init => AcceptedOnWhatWasRead
  <2> SUFFICES ASSUME Init, NEW r \in Request
               PROVE  request[r].pc # "decide"
    BY DEF AcceptedOnWhatWasRead
  <2> QED
    BY DEF Init, IdleRequest
<1>2. TypeOK /\ AcceptedOnWhatWasRead /\ [Next]_vars => AcceptedOnWhatWasRead'
  <2> SUFFICES ASSUME TypeOK, AcceptedOnWhatWasRead, [Next]_vars
               PROVE  AcceptedOnWhatWasRead'
    OBVIOUS
  <2> DEFINE Accepted(x) == x.pc = "decide" =>
        x.seen.state \in
            CASE x.op = "cancel" -> {"created"}
              [] x.op = "stop"   -> {"policy_running", "stopping"}
              [] x.op = "retry"  -> Terminal
  <2>0. request \in [Request -> RequestSlot]
    BY DEF TypeOK
  <2>1. SUFFICES \A r \in Request :
                    request'[r] = request[r] \/ Accepted(request'[r])
    <3>1. \A r \in Request : Accepted(request[r])
      BY DEF AcceptedOnWhatWasRead
    <3>2. \A r \in Request : Accepted(request'[r])
      BY <2>1, <3>1
    <3> QED
      BY <3>2 DEF AcceptedOnWhatWasRead
  <2>3. ASSUME NEW r \in Request, NEW t \in Task, Create(r, t)
        PROVE  \A q \in Request : request'[q] = request[q] \/ Accepted(request'[q])
    BY <2>0, <2>3 DEF Create
  <2>4. ASSUME NEW r \in Request, NEW t \in Task, LoadForCancel(r, t)
        PROVE  \A q \in Request : request'[q] = request[q] \/ Accepted(request'[q])
    BY <2>0, <2>4 DEF LoadForCancel, Load
  <2>5. ASSUME NEW r \in Request, NEW t \in Task, LoadForStop(r, t)
        PROVE  \A q \in Request : request'[q] = request[q] \/ Accepted(request'[q])
    BY <2>0, <2>5 DEF LoadForStop, Load
  <2>6. ASSUME NEW r \in Request, NEW t \in Task, LoadForRetry(r, t)
        PROVE  \A q \in Request : request'[q] = request[q] \/ Accepted(request'[q])
    BY <2>0, <2>6 DEF LoadForRetry, Load
  <2>7. ASSUME NEW r \in Request, Handle(r)
        PROVE  \A q \in Request : request'[q] = request[q] \/ Accepted(request'[q])
    <3>1. CASE Enqueue(r) \/ CancelQueued(r) \/ SendStop(r)
      BY <2>0, <3>1 DEF Enqueue, CancelQueued, SendStop, Finish, IdleRequest
    <3>2. CASE RequestStop(r)
      BY <2>0, <3>2 DEF RequestStop, RequestSlot
    <3>3. CASE Retry(r)
      BY <2>0, <3>3 DEF Retry, RequestSlot
    <3> QED
      BY <2>7, <3>1, <3>2, <3>3 DEF Handle
  <2>8. ASSUME NEW w \in Worker,
               \/ Work(w) \/ PublishControl(w)
               \/ Crash(w) \/ AbandonCommit(w) \/ Redeliver(w)
        PROVE  UNCHANGED request
    BY <2>8 DEF Work, Claim, OpenSnapshot, RunPipeline, Return,
       ReturnAfterLostConnection, Commit, Ack, PublishControl, Crash,
       AbandonCommit, Redeliver
  <2> QED
    BY <2>3, <2>4, <2>5, <2>6, <2>7, <2>8 DEF Next, vars
<1> QED
  BY <1>1, <1>2, TypeCorrect, PTL DEF Spec

-----------------------------------------------------------------------------
\* What an API handler's commit does to the state column, given what its
\* operation had accepted.
LEMMA WriteState ==
    ASSUME TypeOK, NEW r \in Request, NEW new \in Row, Write(r, new)
    PROVE  LET t == request[r].task
               seen == request[r].seen
           IN  /\ t \in Task
               /\ seen \in Row
               /\ \A u \in Task \ {t} : row'[u] = row[u]
               /\ row'[t].state = IF new.state = seen.state
                                  THEN row[t].state ELSE new.state
               /\ staleWrite \subseteq staleWrite'
               /\ \A u \in Task \ {t} : u \in staleWrite' => u \in staleWrite
               /\ t \notin staleWrite' =>
                    new.state = seen.state \/ row[t].state = seen.state
BY FlushType, SlotFields DEF TypeOK, Write

\* The conditional UPDATE of run_recovery_task, with every write of the API and
\* of the workers around it, implements the claim token: no interleaving,
\* redelivery or crash starts a task more often than it was made startable.
THEOREM ImplementsClaimToken == Spec => ClaimsSpec
<1> DEFINE Granted == [t \in Task |-> row[t].state = "created"]
<1>1. Init => Claims!Init
  <2> SUFFICES ASSUME Init PROVE Claims!Init
    OBVIOUS
  <2>1. \A t \in Task : row[t].state = "absent"
    BY DEF Init, NoRow
  <2>2. Granted = [t \in Task |-> FALSE]
    BY <2>1
  <2> QED
    BY <2>2 DEF Init, Claims!Init
<1>2. TypeOK /\ AcceptedOnWhatWasRead /\ [Next]_vars => [Claims!Next]_(Claims!vars)
  <2> SUFFICES ASSUME TypeOK, AcceptedOnWhatWasRead, [Next]_vars
               PROVE  Claims!Next \/ UNCHANGED Claims!vars
    OBVIOUS
  <2>0. row \in [Task -> Row] /\ grants \in [Task -> Nat] /\ starts \in [Task -> Nat]
    BY DEF TypeOK
  <2>1. ASSUME UNCHANGED <<grants, starts>>, NEW t \in Task,
               \A u \in Task \ {t} : row'[u].state = row[u].state,
               row'[t].state = row[t].state \/ row'[t].state # "created"
        PROVE  Claims!Next \/ UNCHANGED Claims!vars
    <3>1. CASE row[t].state = "created" /\ row'[t].state # "created"
      <4>1. Granted' = [Granted EXCEPT ![t] = FALSE]
        BY <2>1, <3>1
      <4>2. Claims!Withdraw(t)
        BY <2>1, <3>1, <4>1 DEF Claims!Withdraw
      <4> QED
        BY <4>2 DEF Claims!Next
    <3>2. CASE ~ (row[t].state = "created" /\ row'[t].state # "created")
      <4>1. Granted' = Granted
        BY <2>1, <3>2
      <4> QED
        BY <2>1, <4>1 DEF Claims!vars
    <3> QED
      BY <3>1, <3>2
  <2>2. ASSUME NEW t \in Task, UNCHANGED starts,
               \A u \in Task \ {t} : row'[u].state = row[u].state,
               row'[t].state = "created",
               grants' = [grants EXCEPT ![t] = @ + 1]
        PROVE  Claims!Next
    <3>1. Granted' = [Granted EXCEPT ![t] = TRUE]
      BY <2>2
    <3>2. Claims!Grant(t)
      BY <2>2, <3>1 DEF Claims!Grant
    <3> QED
      BY <3>2 DEF Claims!Next
  <2>3. ASSUME NEW r \in Request, NEW t \in Task, Create(r, t)
        PROVE  Claims!Next
    BY <2>0, <2>2, <2>3 DEF Create, Row
  <2>4. ASSUME NEW r \in Request, NEW t \in Task,
               LoadForCancel(r, t) \/ LoadForStop(r, t) \/ LoadForRetry(r, t)
        PROVE  UNCHANGED Claims!vars
    BY <2>4 DEF LoadForCancel, LoadForStop, LoadForRetry, Load, Claims!vars
  <2>5. ASSUME NEW r \in Request, Enqueue(r) \/ SendStop(r)
        PROVE  UNCHANGED Claims!vars
    BY <2>5 DEF Enqueue, SendStop, Claims!vars
  <2>6. ASSUME NEW r \in Request, CancelQueued(r)
        PROVE  Claims!Next \/ UNCHANGED Claims!vars
    <3>1. [request[r].seen EXCEPT !.state = "cancelled"] \in Row
      BY RowType, SlotFields DEF TypeOK
    <3>2. request[r].seen.state = "created"
      BY <2>6 DEF CancelQueued, AcceptedOnWhatWasRead
    <3>3. [request[r].seen EXCEPT !.state = "cancelled"].state = "cancelled"
      BY SlotFields DEF TypeOK, Row
    <3>4. LET t == request[r].task
          IN  /\ t \in Task
              /\ \A u \in Task \ {t} : row'[u] = row[u]
              /\ row'[t].state = "cancelled"
      BY <2>6, <3>1, <3>2, <3>3, WriteState DEF CancelQueued
    <3>5. UNCHANGED <<grants, starts>>
      BY <2>6 DEF CancelQueued
    <3> QED
      BY <2>1, <3>4, <3>5
  <2>7. ASSUME NEW r \in Request, RequestStop(r)
        PROVE  Claims!Next \/ UNCHANGED Claims!vars
    <3> DEFINE new == [request[r].seen EXCEPT !.state = "stopping",
                                              !.stopRequested = TRUE]
    <3>1. new \in Row
      BY RowType, SlotFields DEF TypeOK
    <3>2. new.state = "stopping"
      BY SlotFields DEF TypeOK, Row
    <3>3. Write(r, new)
      BY <2>7 DEF RequestStop
    <3> HIDE DEF new
    <3>4. LET t == request[r].task
          IN  /\ t \in Task
              /\ \A u \in Task \ {t} : row'[u] = row[u]
              /\ row'[t].state = row[t].state \/ row'[t].state = "stopping"
      BY <3>1, <3>2, <3>3, WriteState
    <3>5. UNCHANGED <<grants, starts>>
      BY <2>7 DEF RequestStop
    <3> QED
      BY <2>1, <3>4, <3>5
  <2>8. ASSUME NEW r \in Request, Retry(r)
        PROVE  Claims!Next
    <3> DEFINE new == [state |-> "created", stopRequested |-> FALSE, control |-> 0]
    <3>1. new \in Row /\ new.state = "created"
      BY RowType
    <3>2. request[r].seen.state \in Terminal
      BY <2>8 DEF Retry, AcceptedOnWhatWasRead
    <3>3. Write(r, new)
      BY <2>8 DEF Retry
    <3> HIDE DEF new
    <3>4. LET t == request[r].task
          IN  /\ t \in Task
              /\ \A u \in Task \ {t} : row'[u] = row[u]
              /\ row'[t].state = "created"
      BY <3>1, <3>2, <3>3, WriteState
    <3>5. UNCHANGED starts /\ grants' = [grants EXCEPT ![request[r].task] = @ + 1]
      BY <2>8 DEF Retry
    <3> QED
      BY <2>2, <3>4, <3>5
  <2>9. ASSUME NEW w \in Worker, NEW t \in Task, Claim(w, t)
        PROVE  Claims!Next \/ UNCHANGED Claims!vars
    <3>1. CASE row[t].state = "created"
      <4>1. row' = [row EXCEPT ![t].state = "policy_running"]
        BY <2>9, <3>1 DEF Claim
      <4>2. row'[t].state = "policy_running"
        BY <2>0, <4>1 DEF Row
      <4>3. Granted' = [Granted EXCEPT ![t] = FALSE]
        BY <2>0, <4>1, <4>2
      <4>4. UNCHANGED grants /\ starts' = [starts EXCEPT ![t] = @ + 1]
        BY <2>9, <3>1 DEF Claim
      <4>5. Claims!Start(t)
        BY <3>1, <4>3, <4>4 DEF Claims!Start
      <4> QED
        BY <4>5 DEF Claims!Next
    <3>2. CASE row[t].state # "created"
      <4>1. UNCHANGED <<row, grants, starts>>
        BY <2>9, <3>2 DEF Claim
      <4> QED
        BY <4>1 DEF Claims!vars
    <3> QED
      BY <3>1, <3>2
  <2>10. ASSUME NEW w \in Worker, Commit(w)
         PROVE  Claims!Next \/ UNCHANGED Claims!vars
    <3> DEFINE t == worker[w].task
               loaded == worker[w].loaded
               new == [loaded EXCEPT !.state = FinalState(w)]
    <3>1. t \in Task /\ loaded \in Row /\ FinalState(w) \in Terminal
      BY SlotFields DEF TypeOK, FinalState
    <3>2. new \in Row /\ new.state = FinalState(w)
      BY <3>1, RowType DEF Row
    <3>3. row' = [row EXCEPT ![t] = Flush(@, loaded, new)]
      BY <2>10 DEF Commit
    <3> HIDE DEF new, loaded, t
    <3>4. row'[t].state = row[t].state \/ row'[t].state = FinalState(w)
      BY <2>0, <3>1, <3>2, <3>3, FlushType
    <3>5. \A u \in Task \ {t} : row'[u].state = row[u].state
      BY <2>0, <3>3
    <3>6. UNCHANGED <<grants, starts>>
      BY <2>10 DEF Commit
    <3> QED
      BY <2>1, <3>1, <3>4, <3>5, <3>6
  <2>11. ASSUME NEW w \in Worker, PublishControl(w)
         PROVE  UNCHANGED Claims!vars
    <3>1. worker[w].task \in Task
      BY SlotFields DEF TypeOK
    <3>2. \A u \in Task : row'[u].state = row[u].state
      BY <2>0, <2>11, <3>1 DEF PublishControl, Row
    <3> QED
      BY <2>11, <3>2 DEF PublishControl, Claims!vars
  <2>12. ASSUME NEW w \in Worker,
                \/ OpenSnapshot(w) \/ RunPipeline(w) \/ Ack(w)
                \/ Crash(w) \/ AbandonCommit(w) \/ Redeliver(w)
         PROVE  UNCHANGED Claims!vars
    BY <2>12 DEF OpenSnapshot, RunPipeline, Return, ReturnAfterLostConnection,
       Ack, Crash, AbandonCommit, Redeliver, Claims!vars
  <2>13. CASE UNCHANGED vars
    BY <2>13 DEF vars, Claims!vars
  <2> QED
    BY <2>3, <2>4, <2>5, <2>6, <2>7, <2>8, <2>9, <2>10, <2>11, <2>12, <2>13
       DEF Next, Handle, Work
<1> QED
  BY <1>1, <1>2, TypeCorrect, AcceptedCorrect, PTL DEF Spec, ClaimsSpec, Claims!Spec

\* A step of the claim token, on the columns of the tasks.
LEMMA TokenStep ==
    ASSUME NEW j \in Task, NEW b \in BOOLEAN,
           [t \in Task |-> row[t].state = "created"]'
               = [[t \in Task |-> row[t].state = "created"] EXCEPT ![j] = b]
    PROVE  /\ row'[j].state = "created" <=> b
           /\ \A t \in Task \ {j} : row'[t].state = "created" <=> row[t].state = "created"
<1> DEFINE Old == [t \in Task |-> row[t].state = "created"]
           New == [t \in Task |-> row'[t].state = "created"]
<1>1. /\ \A t \in Task : Old[t] = (row[t].state = "created") /\ New[t] = (row'[t].state = "created")
      /\ DOMAIN Old = Task
  OBVIOUS
<1>2. New = [Old EXCEPT ![j] = b]
  OBVIOUS
<1> HIDE DEF Old, New
<1>3. New[j] = b /\ \A t \in Task \ {j} : New[t] = Old[t]
  BY <1>1, <1>2
<1> QED
  BY <1>1, <1>3, Zenon

\* A task is started at most once per grant: the invariant of the claim token,
\* read through the refinement.
THEOREM ClaimedOnce == Spec => []ClaimedOncePerGrant
<1>1. TypeOK /\ Claims!Init => ClaimedOncePerGrant
  <2> SUFFICES ASSUME TypeOK, Claims!Init, NEW t \in Task
               PROVE  starts[t] + (IF row[t].state = "created" THEN 1 ELSE 0) <= grants[t]
    BY DEF ClaimedOncePerGrant
  <2> DEFINE Old == [u \in Task |-> row[u].state = "created"]
  <2>1. Old[t] = FALSE /\ starts[t] = 0 /\ grants[t] = 0
    BY DEF Claims!Init
  <2>2. row[t].state # "created"
    BY <2>1
  <2> QED
    BY <2>1, <2>2
<1>2. TypeOK /\ ClaimedOncePerGrant /\ [Claims!Next]_(Claims!vars) => ClaimedOncePerGrant'
  <2> SUFFICES ASSUME TypeOK, ClaimedOncePerGrant, [Claims!Next]_(Claims!vars)
               PROVE  ClaimedOncePerGrant'
    OBVIOUS
  <2>0. grants \in [Task -> Nat] /\ starts \in [Task -> Nat]
    BY DEF TypeOK
  <2>1. ASSUME NEW j \in Task, Claims!Grant(j) PROVE ClaimedOncePerGrant'
    <3>1. /\ row'[j].state = "created" <=> TRUE
          /\ \A t \in Task \ {j} : row'[t].state = "created" <=> row[t].state = "created"
      BY <2>1, TokenStep DEF Claims!Grant
    <3> QED
      BY <2>0, <2>1, <3>1 DEF Claims!Grant, ClaimedOncePerGrant
  <2>2. ASSUME NEW j \in Task, Claims!Withdraw(j) PROVE ClaimedOncePerGrant'
    <3>1. /\ row'[j].state = "created" <=> FALSE
          /\ \A t \in Task \ {j} : row'[t].state = "created" <=> row[t].state = "created"
      BY <2>2, TokenStep DEF Claims!Withdraw
    <3> QED
      BY <2>0, <2>2, <3>1 DEF Claims!Withdraw, ClaimedOncePerGrant
  <2>3. ASSUME NEW j \in Task, Claims!Start(j) PROVE ClaimedOncePerGrant'
    <3>1. /\ row'[j].state = "created" <=> FALSE
          /\ \A t \in Task \ {j} : row'[t].state = "created" <=> row[t].state = "created"
      BY <2>3, TokenStep DEF Claims!Start
    <3>2. row[j].state = "created"
      BY <2>3 DEF Claims!Start
    <3> QED
      BY <2>0, <2>3, <3>1, <3>2 DEF Claims!Start, ClaimedOncePerGrant
  <2>4. CASE UNCHANGED Claims!vars
    <3> DEFINE Old == [u \in Task |-> row[u].state = "created"]
               New == [u \in Task |-> row'[u].state = "created"]
    <3>1. New = Old /\ UNCHANGED <<grants, starts>>
      BY <2>4 DEF Claims!vars
    <3>2. \A t \in Task : New[t] = (row'[t].state = "created") /\ Old[t] = (row[t].state = "created")
      OBVIOUS
    <3> HIDE DEF Old, New
    <3>3. \A t \in Task : row'[t].state = "created" <=> row[t].state = "created"
      BY <3>1, <3>2, Zenon
    <3> QED
      BY <3>1, <3>3 DEF ClaimedOncePerGrant
  <2> QED
    BY <2>1, <2>2, <2>3, <2>4 DEF Claims!Next
<1> QED
  BY <1>1, <1>2, TypeCorrect, ImplementsClaimToken, PTL DEF ClaimsSpec, Claims!Spec

-----------------------------------------------------------------------------
\* ExclusiveRun of one task.  It is inductive together with
\* AcceptedOnWhatWasRead: a write that is not outdated starts from a state in
\* which the operation is legal, and no such state but policy_running and
\* stopping has a runner.
Exclusive(t) ==
    /\ \A w1, w2 \in Runners(t) : w1 = w2
    /\ Runners(t) # {} => row[t].state \in {"policy_running", "stopping"}

\* A step that adds no runner keeps a task exclusive when it leaves the state
\* of a running task alone, or moves it among the running states.
LEMMA NoNewRunner ==
    ASSUME NEW t, Exclusive(t), Runners(t)' \subseteq Runners(t),
           \/ row'[t].state = row[t].state
           \/ row'[t].state \in {"policy_running", "stopping"}
           \/ Runners(t)' = {}
    PROVE  Exclusive(t)'
BY DEF Exclusive

\* As long as no handler wrote over a state it had not read, at most one worker
\* runs a task and its row says that it runs.
THEOREM ExclusiveCorrect == Spec => []ExclusiveRun
<1>1. Init => ExclusiveRun
  <2> SUFFICES ASSUME Init, NEW t \in Task PROVE Runners(t) = {}
    BY DEF ExclusiveRun
  <2>1. \A w \in Worker : worker[w].pc = "idle"
    BY DEF Init, IdleWorker
  <2> QED
    BY <2>1 DEF Runners
<1>2. TypeOK /\ AcceptedOnWhatWasRead /\ ExclusiveRun /\ [Next]_vars
        => ExclusiveRun'
  <2> SUFFICES ASSUME TypeOK, AcceptedOnWhatWasRead, ExclusiveRun, [Next]_vars,
                      NEW t \in Task, t \notin staleWrite'
               PROVE  Exclusive(t)'
    BY DEF ExclusiveRun, Exclusive
  <2>0. /\ row \in [Task -> Row]
        /\ worker \in [Worker -> WorkerSlot]
        /\ request \in [Request -> RequestSlot]
    BY DEF TypeOK
  <2>1. ASSUME t \notin staleWrite PROVE Exclusive(t)
    BY <2>1 DEF ExclusiveRun, Exclusive
  <2>2. ASSUME UNCHANGED worker PROVE Runners(t)' = Runners(t)
    BY <2>2 DEF Runners
  <2>3. ASSUME NEW r \in Request, NEW u \in Task, Create(r, u)
        PROVE  Exclusive(t)'
    <3>1. UNCHANGED worker /\ t \notin staleWrite /\ row[u].state = "absent"
      BY <2>3 DEF Create
    <3>2. u # t => row'[t].state = row[t].state
      BY <2>0, <2>3 DEF Create
    <3>3. u = t => Runners(t) = {}
      BY <2>1, <3>1 DEF Exclusive
    <3> QED
      BY <2>1, <2>2, <3>1, <3>2, <3>3, NoNewRunner
  <2>4. ASSUME NEW r \in Request, NEW u \in Task,
               LoadForCancel(r, u) \/ LoadForStop(r, u) \/ LoadForRetry(r, u)
        PROVE  UNCHANGED <<row, worker, staleWrite>>
    BY <2>4 DEF LoadForCancel, LoadForStop, LoadForRetry, Load
  <2>5. ASSUME NEW r \in Request, Enqueue(r) \/ SendStop(r)
        PROVE  UNCHANGED <<row, worker, staleWrite>>
    BY <2>5 DEF Enqueue, SendStop
  <2>6. ASSUME NEW r \in Request, NEW new \in Row, Write(r, new),
               UNCHANGED worker,
               \/ new.state = "stopping"
               \/ request[r].seen.state \notin {"policy_running", "stopping"}
        PROVE  Exclusive(t)'
    <3> DEFINE u == request[r].task
               seen == request[r].seen
    <3>1. /\ u \in Task
          /\ \A v \in Task \ {u} : row'[v] = row[v]
          /\ row'[u].state = IF new.state = seen.state
                             THEN row[u].state ELSE new.state
          /\ staleWrite \subseteq staleWrite'
          /\ u \notin staleWrite' =>
                new.state = seen.state \/ row[u].state = seen.state
      BY <2>6, WriteState
    <3>2. Exclusive(t)
      BY <2>1, <3>1
    <3>3. \/ row'[t].state = row[t].state
          \/ row'[t].state = "stopping"
          \/ row[t].state \notin {"policy_running", "stopping"}
      BY <2>6, <3>1
    <3> QED
      BY <2>2, <2>6, <3>2, <3>3, NoNewRunner DEF Exclusive
  <2>7. ASSUME NEW r \in Request, CancelQueued(r) PROVE Exclusive(t)'
    <3>1. [request[r].seen EXCEPT !.state = "cancelled"] \in Row
      BY <2>0, RowType, SlotFields
    <3>2. request[r].seen.state = "created"
      BY <2>7 DEF CancelQueued, AcceptedOnWhatWasRead
    <3> QED
      BY <2>6, <2>7, <3>1, <3>2 DEF CancelQueued
  <2>8. ASSUME NEW r \in Request, RequestStop(r) PROVE Exclusive(t)'
    <3> DEFINE new == [request[r].seen EXCEPT !.state = "stopping",
                                              !.stopRequested = TRUE]
    <3>1. new \in Row
      BY <2>0, RowType, SlotFields
    <3>2. new.state = "stopping"
      BY <2>0, SlotFields DEF Row
    <3>3. Write(r, new) /\ UNCHANGED worker
      BY <2>8 DEF RequestStop
    <3> HIDE DEF new
    <3> QED
      BY <2>6, <3>1, <3>2, <3>3
  <2>9. ASSUME NEW r \in Request, Retry(r) PROVE Exclusive(t)'
    <3> DEFINE new == [state |-> "created", stopRequested |-> FALSE, control |-> 0]
    <3>1. new \in Row
      BY RowType
    <3>2. request[r].seen.state \in Terminal
      BY <2>9 DEF Retry, AcceptedOnWhatWasRead
    <3>3. Write(r, new) /\ UNCHANGED worker
      BY <2>9 DEF Retry
    <3> HIDE DEF new
    <3> QED
      BY <2>6, <3>1, <3>2, <3>3
  <2>10. ASSUME NEW w \in Worker, NEW u \in Task, Claim(w, u)
         PROVE  Exclusive(t)'
    <3>1. Exclusive(t)
      BY <2>1, <2>10 DEF Claim
    <3>2. CASE row[u].state = "created"
      <4>1. row' = [row EXCEPT ![u].state = "policy_running"]
        BY <2>10, <3>2 DEF Claim
      <4>2. worker' = [worker EXCEPT ![w] =
                [IdleWorker(u) EXCEPT !.pc = "claimed", !.run = starts[u] + 1]]
        BY <2>10, <3>2 DEF Claim
      <4>3. /\ worker'[w].task = u
            /\ \A v \in Worker \ {w} : worker'[v] = worker[v]
        BY <2>0, <4>2 DEF IdleWorker
      <4>4. CASE u = t
        <5>1. Runners(t) = {}
          BY <3>1, <3>2, <4>4 DEF Exclusive
        <5>2. Runners(t)' \subseteq {w}
          BY <4>3, <5>1 DEF Runners
        <5>3. row'[t].state = "policy_running"
          BY <2>0, <4>1, <4>4 DEF Row
        <5> QED
          BY <5>2, <5>3 DEF Exclusive
      <4>5. CASE u # t
        <5>1. Runners(t)' \subseteq Runners(t)
          BY <4>3, <4>5 DEF Runners
        <5>2. row'[t] = row[t]
          BY <2>0, <4>1, <4>5
        <5> QED
          BY <3>1, <5>1, <5>2, NoNewRunner
      <4> QED
        BY <4>4, <4>5
    <3>3. CASE row[u].state # "created"
      <4>1. worker' = [worker EXCEPT ![w] = [IdleWorker(u) EXCEPT !.pc = "acking"]]
        BY <2>10, <3>3 DEF Claim
      <4>2. /\ worker'[w].pc = "acking"
            /\ \A v \in Worker \ {w} : worker'[v] = worker[v]
        BY <2>0, <4>1 DEF IdleWorker
      <4>3. Runners(t)' \subseteq Runners(t)
        BY <4>2 DEF Runners
      <4>4. row' = row
        BY <2>10, <3>3 DEF Claim
      <4> QED
        BY <3>1, <4>3, <4>4, NoNewRunner
    <3> QED
      BY <3>2, <3>3
  <2>12. ASSUME NEW w \in Worker, OpenSnapshot(w) \/ RunPipeline(w)
         PROVE  Exclusive(t)'
    <3>1. worker[w].pc \in {"claimed", "running"} /\ UNCHANGED <<row, staleWrite>>
      BY <2>12 DEF OpenSnapshot, RunPipeline, Return, ReturnAfterLostConnection
    <3>2. \A v \in Worker : worker'[v].task = worker[v].task
      BY <2>0, <2>12 DEF OpenSnapshot, RunPipeline, Return,
         ReturnAfterLostConnection, WorkerSlot
    <3>3. \A v \in Worker \ {w} : worker'[v] = worker[v]
      BY <2>0, <2>12 DEF OpenSnapshot, RunPipeline, Return,
         ReturnAfterLostConnection
    <3>4. Runners(t)' \subseteq Runners(t)
      BY <3>1, <3>2, <3>3 DEF Runners
    <3> QED
      BY <2>1, <3>1, <3>4, NoNewRunner
  <2>13. ASSUME NEW w \in Worker, Commit(w) PROVE Exclusive(t)'
    <3>1. /\ worker[w].pc = "finishing" /\ UNCHANGED staleWrite
          /\ worker' = [worker EXCEPT ![w] =
                [IdleWorker(worker[w].task) EXCEPT !.pc = "acking"]]
      BY <2>13 DEF Commit
    <3>2. /\ worker'[w].pc = "acking"
          /\ \A v \in Worker \ {w} : worker'[v] = worker[v]
      BY <2>0, <3>1 DEF IdleWorker
    <3>3. Runners(t)' \subseteq Runners(t) \ {w}
      BY <3>2 DEF Runners
    <3>4. CASE worker[w].task = t
      <4>1. w \in Runners(t)
        BY <3>1, <3>4 DEF Runners
      <4>2. Runners(t)' = {}
        BY <2>1, <3>1, <3>3, <4>1 DEF Exclusive
      <4> QED
        BY <4>2 DEF Exclusive
    <3>5. CASE worker[w].task # t
      <4>1. row'[t] = row[t]
        BY <2>0, <2>13, <3>5 DEF Commit
      <4> QED
        BY <2>1, <3>1, <3>3, <4>1, NoNewRunner
    <3> QED
      BY <3>4, <3>5
  <2>14. ASSUME NEW w \in Worker, Ack(w) \/ Crash(w) \/ AbandonCommit(w)
         PROVE  Exclusive(t)'
    <3>1. UNCHANGED <<row, staleWrite>>
      BY <2>14 DEF Ack, Crash, AbandonCommit
    <3>2. /\ worker'[w].pc \in {"idle", "acking"}
          /\ \A v \in Worker \ {w} : worker'[v] = worker[v]
      BY <2>0, <2>14 DEF Ack, Crash, AbandonCommit, IdleWorker
    <3>3. Runners(t)' \subseteq Runners(t)
      BY <3>2 DEF Runners
    <3> QED
      BY <2>1, <3>1, <3>3, NoNewRunner
  <2>15. ASSUME NEW w \in Worker, PublishControl(w) \/ Redeliver(w)
         PROVE  Exclusive(t)'
    <3>1. UNCHANGED <<worker, staleWrite>>
      BY <2>15 DEF PublishControl, Redeliver
    <3>2. worker[w].task \in Task
      BY <2>0, SlotFields
    <3>3. row'[t].state = row[t].state
      BY <2>0, <2>15, <3>2 DEF PublishControl, Redeliver, Row
    <3> QED
      BY <2>1, <2>2, <3>1, <3>3, NoNewRunner
  <2>16. ASSUME UNCHANGED <<row, worker, staleWrite>> PROVE Exclusive(t)'
    BY <2>1, <2>2, <2>16, NoNewRunner
  <2> QED
    BY <2>3, <2>4, <2>5, <2>7, <2>8, <2>9, <2>10, <2>12, <2>13, <2>14, <2>15,
       <2>16 DEF Next, Handle, Work, vars
<1> QED
  BY <1>1, <1>2, TypeCorrect, AcceptedCorrect, PTL DEF Spec

-----------------------------------------------------------------------------
\* Only a retry takes a task out of a terminal state, unless a handler wrote
\* over a state it had not read: a handler that was up to date has seen a state
\* that is not terminal, and the final write of a worker finds its task running.
THEOREM TerminalCorrect == Spec => TerminalIsFinal
<1> DEFINE Kept(t) == row'[t].state \in {row[t].state, "created"}
           Final == \A t \in Task :
                      (row[t].state \in Terminal /\ t \notin staleWrite') => Kept(t)
<1>1. TypeOK /\ AcceptedOnWhatWasRead /\ ExclusiveRun /\ [Next]_vars => Final
  <2> SUFFICES ASSUME TypeOK, AcceptedOnWhatWasRead, ExclusiveRun, [Next]_vars,
                      NEW t \in Task, row[t].state \in Terminal,
                      t \notin staleWrite'
               PROVE  Kept(t)
    OBVIOUS
  <2>0. /\ row \in [Task -> Row]
        /\ worker \in [Worker -> WorkerSlot]
        /\ request \in [Request -> RequestSlot]
    BY DEF TypeOK
  <2>1. row[t].state \notin {"absent", "created", "policy_running", "stopping"}
    BY DEF Terminal
  <2>2. ASSUME NEW r \in Request, NEW u \in Task, Create(r, u) PROVE Kept(t)
    <3>1. row' = [row EXCEPT ![u].state = "created"]
      BY <2>2 DEF Create
    <3> QED
      BY <2>0, <2>1, <3>1
  <2>3. ASSUME UNCHANGED row PROVE Kept(t)
    BY <2>3
  <2>4. ASSUME NEW r \in Request, NEW new \in Row, Write(r, new),
               \/ new.state = "created"
               \/ request[r].seen.state \notin Terminal
        PROVE  Kept(t)
    <3> DEFINE u == request[r].task
               seen == request[r].seen
    <3>1. /\ u \in Task
          /\ \A v \in Task \ {u} : row'[v] = row[v]
          /\ row'[u].state = IF new.state = seen.state
                             THEN row[u].state ELSE new.state
          /\ u \notin staleWrite' =>
                new.state = seen.state \/ row[u].state = seen.state
      BY <2>4, WriteState
    <3> QED
      BY <2>4, <3>1
  <2>5. ASSUME NEW r \in Request, CancelQueued(r) PROVE Kept(t)
    <3>1. [request[r].seen EXCEPT !.state = "cancelled"] \in Row
      BY <2>0, RowType, SlotFields
    <3>2. request[r].seen.state = "created"
      BY <2>5 DEF CancelQueued, AcceptedOnWhatWasRead
    <3>3. "created" \notin Terminal
      BY DEF Terminal
    <3> QED
      BY <2>4, <2>5, <3>1, <3>2, <3>3 DEF CancelQueued
  <2>6. ASSUME NEW r \in Request, RequestStop(r) PROVE Kept(t)
    <3>1. [request[r].seen EXCEPT !.state = "stopping",
                                  !.stopRequested = TRUE] \in Row
      BY <2>0, RowType, SlotFields
    <3>2. request[r].seen.state \in {"policy_running", "stopping"}
      BY <2>6 DEF RequestStop, AcceptedOnWhatWasRead
    <3>3. "policy_running" \notin Terminal /\ "stopping" \notin Terminal
      BY DEF Terminal
    <3> QED
      BY <2>4, <2>6, <3>1, <3>2, <3>3 DEF RequestStop
  <2>7. ASSUME NEW r \in Request, Retry(r) PROVE Kept(t)
    <3> DEFINE new == [state |-> "created", stopRequested |-> FALSE, control |-> 0]
    <3>1. new \in Row /\ new.state = "created"
      BY RowType
    <3>2. Write(r, new)
      BY <2>7 DEF Retry
    <3> HIDE DEF new
    <3> QED
      BY <2>4, <3>1, <3>2
  <2>8. ASSUME NEW w \in Worker, NEW u \in Task, Claim(w, u) PROVE Kept(t)
    <3>1. CASE row[u].state = "created"
      <4>1. row' = [row EXCEPT ![u].state = "policy_running"]
        BY <2>8, <3>1 DEF Claim
      <4> QED
        BY <2>0, <2>1, <3>1, <4>1
    <3>2. CASE row[u].state # "created"
      BY <2>8, <3>2 DEF Claim
    <3> QED
      BY <3>1, <3>2
  <2>9. ASSUME NEW w \in Worker, PublishControl(w) PROVE Kept(t)
    <3>1. row' = [row EXCEPT ![worker[w].task].control = worker[w].run]
      BY <2>9 DEF PublishControl
    <3>2. worker[w].task \in Task
      BY <2>0, SlotFields
    <3> QED
      BY <2>0, <3>1, <3>2 DEF Row
  <2>10. ASSUME NEW w \in Worker, Commit(w) PROVE Kept(t)
    <3>1. worker[w].pc = "finishing" /\ UNCHANGED staleWrite
      BY <2>10 DEF Commit
    <3>2. CASE worker[w].task = t
      <4>1. w \in Runners(t)
        BY <3>1, <3>2 DEF Runners
      <4>2. row[t].state \in {"policy_running", "stopping"}
        BY <3>1, <4>1 DEF ExclusiveRun
      <4> QED
        BY <2>1, <4>2
    <3>3. CASE worker[w].task # t
      BY <2>0, <2>10, <3>3 DEF Commit
    <3> QED
      BY <3>2, <3>3
  <2>11. ASSUME NEW r \in Request, NEW u \in Task,
                \/ LoadForCancel(r, u) \/ LoadForStop(r, u) \/ LoadForRetry(r, u)
                \/ Enqueue(r) \/ SendStop(r)
         PROVE  UNCHANGED row
    BY <2>11 DEF LoadForCancel, LoadForStop, LoadForRetry, Load, Enqueue, SendStop
  <2>12. ASSUME NEW w \in Worker,
                \/ OpenSnapshot(w) \/ RunPipeline(w) \/ Ack(w) \/ Crash(w)
                \/ AbandonCommit(w) \/ Redeliver(w)
         PROVE  UNCHANGED row
    BY <2>12 DEF OpenSnapshot, RunPipeline, Return, ReturnAfterLostConnection, Ack,
       Crash, AbandonCommit, Redeliver
  <2> QED
    BY <2>2, <2>3, <2>5, <2>6, <2>7, <2>8, <2>9, <2>10, <2>11, <2>12
       DEF Next, Handle, Work, vars
<1>2. Final => \A t \in Task :
                 (row[t].state \in Terminal /\ row'[t].state # row[t].state
                     /\ t \notin staleWrite') => row'[t].state = "created"
  OBVIOUS
<1> HIDE DEF Final
<1> QED
  BY <1>1, <1>2, TypeCorrect, AcceptedCorrect, ExclusiveCorrect, PTL
     DEF Spec, TerminalIsFinal

-----------------------------------------------------------------------------
(***************************************************************************)
(* DatabaseCleanup.  What a plan has found to be the target's alone stays  *)
(* so, but for what others place there (late), who is not asked again; and *)
(* while a request has the server to itself, a unit of storage that its    *)
(* targets used at the beginning is used, or about to be dropped.          *)
(***************************************************************************)
Active(r) == r.phase \in {"next", "drop", "storage", "verify"}
TargetSets == SUBSET Cleanup!AllTargets
UnitSets == SUBSET Units
RunType ==
    [phase : {"next", "drop", "storage", "verify"}, todo : TargetSets, target : Cleanup!AllTargets,
     own : UnitSets, drop : BOOLEAN, held : UnitSets, alone : BOOLEAN, success : BOOLEAN, failed : BOOLEAN]

Uses == SUBSET (Cleanup!AllTargets \X Units \X Cleanup!Kinds)
Pairs == SUBSET (Cleanup!AllTargets \X Units)

\* No target of the system is to be dropped.
Unprotected(e, r) == e # "ftp" /\ \A t \in r.todo : t \notin System

CleanupTypes ==
    /\ engine \in Engines /\ live \in TargetSets /\ units \in UnitSets /\ uses \in Uses
    /\ late \in Pairs /\ lost \in Pairs
    /\ req = [q \in Requests |-> req[q]]
    /\ \A q \in Requests :
          Active(req[q]) => req[q] \in RunType /\ Unprotected(engine, req[q])

\* A data file is there and has one database.
FilesPrivate(e, us, un) ==
    e = "sqlserver" => \A x, y \in us :
        x[3] = "segment" /\ x[2] \in un /\ (x[2] = y[2] => x[1] = y[1])

\* What a request is about to drop is its target's, or came late.
Alone(r, us, la) ==
    /\ r.phase = "drop" =>
          \A x \in us : x[2] \in r.own => x[1] = r.target \/ <<x[1], x[2]>> \in la
    /\ r.phase = "storage" => \A x \in us : x[2] \in r.own => <<x[1], x[2]>> \in la

\* What its targets used is still used, or about to be dropped.
Used(u, us) == \E x \in us : x[2] = u
Accounted(e, r, us, un) ==
    e = "oracle" /\ r.alone /\ r.drop /\ ~r.failed => \A u \in (r.held \cap un) \ SystemUnits :
        /\ r.phase \in {"next", "verify"} => Used(u, us)
        /\ r.phase = "drop" => u \in r.own \/ \E x \in us : x[1] # r.target /\ x[2] = u
        /\ r.phase = "storage" => u \in r.own \/ Used(u, us)

\* Who runs alone.
Solitary ==
    \A p, q \in Requests : Active(req[p]) /\ Active(req[q]) /\ p # q => ~req[q].alone

CleanupInv ==
    /\ CleanupTypes
    /\ FilesPrivate(engine, uses, units)
    /\ \A q \in Requests : Active(req[q]) =>
          Alone(req[q], uses, late) /\ Accounted(engine, req[q], uses, units)
    /\ Solitary
    /\ lost \subseteq late

-----------------------------------------------------------------------------
(* Sets, records. *)

LEMMA CleanupSets ==
    /\ \A S : S \in TargetSets <=> S \subseteq Cleanup!AllTargets
    /\ \A S : S \in UnitSets <=> S \subseteq Units
    /\ \A S : S \in Uses <=> S \subseteq Cleanup!AllTargets \X Units \X Cleanup!Kinds
    /\ \A S : S \in Pairs <=> S \subseteq Cleanup!AllTargets \X Units
BY DEF TargetSets, UnitSets, Uses, Pairs

LEMMA UseFields ==
    ASSUME NEW us \in Uses, NEW x \in us
    PROVE  /\ x = <<x[1], x[2], x[3]>> /\ x[1] \in Cleanup!AllTargets /\ x[2] \in Units
           /\ x[3] \in Cleanup!Kinds
BY DEF Uses

LEMMA RunFields ==
    ASSUME NEW r \in RunType
    PROVE  /\ r.phase \in {"next", "drop", "storage", "verify"} /\ r.todo \in TargetSets
           /\ r.target \in Cleanup!AllTargets /\ r.own \in UnitSets /\ r.drop \in BOOLEAN
           /\ r.held \in UnitSets /\ r.alone \in BOOLEAN /\ r.success \in BOOLEAN /\ r.failed \in BOOLEAN
BY DEF RunType

-----------------------------------------------------------------------------
(* Steps of one request. *)

LEMMA OneRequest ==
    ASSUME CleanupInv, NEW q \in Requests, Active(req[q]), NEW y,
           req' = [req EXCEPT ![q] = y], UNCHANGED <<engine, late>>,
           live' \in TargetSets, units' \in UnitSets, uses' \subseteq uses, lost' \in Pairs, lost' \subseteq late,
           FilesPrivate(engine, uses', units'),
           Active(y) => /\ y \in RunType /\ y.alone = req[q].alone /\ y.todo \subseteq req[q].todo
                        /\ Alone(y, uses', late) /\ Accounted(engine, y, uses', units')
    PROVE  CleanupInv'
<1>1. /\ req'[q] = y /\ \A p \in Requests \ {q} : req'[p] = req[p]
      /\ req' = [p \in Requests |-> req'[p]]
  BY DEF CleanupInv, CleanupTypes
<1>2. CleanupTypes'
  <2>1. uses' \in Uses
    BY CleanupSets DEF CleanupInv, CleanupTypes
  <2>2. ASSUME NEW p \in Requests, Active(req'[p])
        PROVE  req'[p] \in RunType /\ Unprotected(engine, req'[p])
    BY <1>1, <2>2 DEF CleanupInv, CleanupTypes, Unprotected
  <2> QED
    BY <1>1, <2>1, <2>2 DEF CleanupInv, CleanupTypes
<1>3. ASSUME NEW p \in Requests, Active(req'[p])
      PROVE  Alone(req'[p], uses', late) /\ Accounted(engine, req'[p], uses', units')
  <2>1. CASE p = q
    BY <1>1, <1>3, <2>1
  <2>2. CASE p # q
    <3>1. req'[p] = req[p] /\ ~req[p].alone /\ Alone(req[p], uses, late)
      BY <1>1, <1>3, <2>2 DEF CleanupInv, Solitary
    <3>2. Alone(req[p], uses', late)
      BY <3>1 DEF Alone
    <3> QED
      BY <3>1, <3>2 DEF Accounted
  <2> QED
    BY <2>1, <2>2
<1>4. Solitary'
  <2> SUFFICES ASSUME NEW p \in Requests, NEW o \in Requests, Active(req'[p]), Active(req'[o]), p # o
               PROVE  ~req'[o].alone
    BY DEF Solitary
  <2>1. Active(req[p]) /\ Active(req[o]) /\ req'[o].alone = req[o].alone
    BY <1>1
  <2> QED
    BY <2>1 DEF CleanupInv, Solitary
<1> QED
  BY <1>2, <1>3, <1>4 DEF CleanupInv

LEMMA StepReplan ==
    ASSUME CleanupInv, NEW q \in Requests, Cleanup!ReplanTarget(q)
    PROVE  CleanupInv'
<1> DEFINE r == req[q]
<1>1. r.phase = "next" /\ Active(r) /\ UNCHANGED <<engine, live, uses, units, late, lost>>
  BY DEF Cleanup!ReplanTarget, Active
<1>2. r \in RunType /\ Unprotected(engine, r) /\ Accounted(engine, r, uses, units)
      /\ live \in TargetSets /\ units \in UnitSets /\ uses \in Uses /\ lost \in Pairs /\ lost \subseteq late
      /\ FilesPrivate(engine, uses, units)
  BY <1>1 DEF CleanupInv, CleanupTypes
<1>3. CASE req' = [req EXCEPT ![q] = [phase |-> "error"]]
  <2> DEFINE y == [phase |-> "error"]
  <2>1. ~Active(y)
    BY DEF Active
  <2> HIDE DEF y
  <2>2. req' = [req EXCEPT ![q] = y]
    BY <1>3 DEF y
  <2> QED
    BY <1>1, <1>2, <2>1, <2>2, OneRequest
<1>4. ASSUME NEW t \in r.todo,
             req' = [req EXCEPT ![q].phase = "drop", ![q].target = t,
                                ![q].own = Cleanup!BuildCleanupPlan(t, req[q].drop)]
      PROVE  CleanupInv'
  <2> DEFINE plan == Cleanup!BuildCleanupPlan(t, r.drop)
             y == [r EXCEPT !.phase = "drop", !.target = t, !.own = plan]
  <2>1. t \in Cleanup!AllTargets /\ ~Cleanup!Protected(t)
    BY <1>2, RunFields, CleanupSets DEF Unprotected, Cleanup!Protected
  <2>2. plan \in UnitSets
    BY CleanupSets DEF Cleanup!BuildCleanupPlan, Cleanup!PlanOracle, Cleanup!PlanSqlserver, Cleanup!PlanMysql,
          Cleanup!PlanDoris, Cleanup!UserTablespaces
  <2>3. \A x \in uses : x[2] \in plan => x[1] = t
    <3> SUFFICES ASSUME NEW x \in uses, x[2] \in plan PROVE x[1] = t
      OBVIOUS
    <3>1. x = <<x[1], x[2], x[3]>> /\ x[1] \in Cleanup!AllTargets /\ x[2] \in Units /\ x[3] \in Cleanup!Kinds
      BY <1>2, UseFields
    <3>2. CASE engine = "oracle"
      <4>1. Cleanup!TablespaceSharedWith(x[2], t) = {}
        BY <3>2 DEF Cleanup!BuildCleanupPlan, Cleanup!PlanOracle
      <4>2. <<x[1], x[2], x[3]>> \in uses
        BY <3>1
      <4> QED
        BY <3>1, <4>1, <4>2 DEF Cleanup!TablespaceSharedWith
    <3>3. CASE engine = "sqlserver"
      <4>1. x[2] \in Cleanup!UserTablespaces(t)
        BY <3>3 DEF Cleanup!BuildCleanupPlan, Cleanup!PlanSqlserver
      <4>2. PICK k \in Cleanup!Kinds : <<t, x[2], k>> \in uses
        BY <4>1 DEF Cleanup!UserTablespaces
      <4> DEFINE z == <<t, x[2], k>>
      <4>3. z \in uses /\ z[1] = t /\ z[2] = x[2]
        BY <4>2
      <4> HIDE DEF z
      <4> QED
        BY <1>2, <3>3, <4>3 DEF FilesPrivate
    <3>4. CASE engine # "oracle" /\ engine # "sqlserver"
      <4>1. plan = {}
        BY <3>4 DEF Cleanup!BuildCleanupPlan, Cleanup!PlanMysql, Cleanup!PlanDoris
      <4> QED
        BY <4>1
    <3> QED
      BY <3>2, <3>3, <3>4
  <2>4. ASSUME engine = "oracle", r.drop, NEW u \in Units, u \notin SystemUnits, Used(u, uses)
        PROVE  u \in plan \/ \E x \in uses : x[1] # t /\ x[2] = u
    <3> SUFFICES ASSUME \A x \in uses : x[2] = u => x[1] = t PROVE u \in plan
      OBVIOUS
    <3>1. PICK x \in uses : x[2] = u
      BY <2>4 DEF Used
    <3>2. x = <<t, u, x[3]>> /\ x[3] \in Cleanup!Kinds
      BY <1>2, <3>1, UseFields
    <3>3. u \in Cleanup!UserTablespaces(t)
      BY <3>1, <3>2 DEF Cleanup!UserTablespaces
    <3>4. Cleanup!TablespaceSharedWith(u, t) = {}
      BY DEF Cleanup!TablespaceSharedWith
    <3>5. u \in Cleanup!PlanOracle(t)
      BY <2>4, <3>3, <3>4 DEF Cleanup!PlanOracle
    <3> QED
      BY <2>1, <2>4, <3>5 DEF Cleanup!BuildCleanupPlan
  <2>5. req' = [req EXCEPT ![q] = y]
    BY <1>4 DEF CleanupInv, CleanupTypes
  <2> HIDE DEF plan
  <2>6. y \in RunType /\ y.phase = "drop" /\ y.target = t /\ y.own = plan /\ y.drop = r.drop /\ y.held = r.held
        /\ y.alone = r.alone /\ y.failed = r.failed /\ y.todo = r.todo
    BY <1>2, <2>1, <2>2 DEF RunType
  <2> HIDE DEF y
  <2>7. Alone(y, uses, late)
    BY <2>3, <2>6 DEF Alone
  <2>8. Accounted(engine, y, uses, units)
    BY <1>1, <1>2, <2>4, <2>6, RunFields, CleanupSets DEF Accounted
  <2> QED
    BY <1>1, <1>2, <2>5, <2>6, <2>7, <2>8, OneRequest
<1> QED
  BY <1>3, <1>4 DEF Cleanup!ReplanTarget

\* The result of a target.
LEMMA StepEnds ==
    ASSUME CleanupInv, NEW q \in Requests, Active(req[q]), NEW result \in {"failed", "success"},
           Cleanup!Ends(q, result), result = "success" => req[q].phase = "verify",
           UNCHANGED <<engine, live, uses, units, late, lost>>
    PROVE  CleanupInv'
<1> DEFINE r == req[q]
           s == [r EXCEPT !.phase = "next", !.todo = @ \ {r.target},
                          !.success = @ \/ result = "success", !.failed = @ \/ result = "failed"]
           y == IF s.todo = {} THEN [phase |-> "ended", state |-> Cleanup!BatchState(s)] ELSE s
<1>1. r \in RunType /\ Accounted(engine, r, uses, units)
      /\ live \in TargetSets /\ units \in UnitSets /\ uses \in Uses /\ lost \in Pairs /\ lost \subseteq late
      /\ FilesPrivate(engine, uses, units)
  BY DEF CleanupInv, CleanupTypes
<1>2. req' = [req EXCEPT ![q] = y]
  BY DEF Cleanup!Ends
<1>3. s \in RunType /\ s.phase = "next" /\ s.todo = r.todo \ {r.target} /\ s.failed = (r.failed \/ result = "failed")
      /\ s.drop = r.drop /\ s.held = r.held /\ s.alone = r.alone
  <2> DEFINE todo == r.todo \ {r.target}
             success == r.success \/ result = "success"
             failed == r.failed \/ result = "failed"
  <2>1. todo \in TargetSets /\ success \in BOOLEAN /\ failed \in BOOLEAN
    BY <1>1, RunFields, CleanupSets
  <2>2. s = [r EXCEPT !.phase = "next", !.todo = todo, !.success = success, !.failed = failed]
    BY <1>1 DEF RunType
  <2> HIDE DEF s, todo, success, failed
  <2>3. s \in RunType /\ s.phase = "next" /\ s.todo = todo /\ s.failed = failed
        /\ s.drop = r.drop /\ s.held = r.held /\ s.alone = r.alone
    BY <1>1, <2>1, <2>2 DEF RunType
  <2> QED
    BY <2>3 DEF todo, failed
<1> HIDE DEF s
<1>4. Active(y) => y = s
  BY DEF Active
<1> HIDE DEF y
<1>5. Alone(s, uses, late)
  BY <1>3 DEF Alone
<1>6. Accounted(engine, s, uses, units)
  BY <1>1, <1>3 DEF Accounted
<1> QED
  BY <1>1, <1>2, <1>3, <1>4, <1>5, <1>6, OneRequest

LEMMA StepVerify ==
    ASSUME CleanupInv, NEW q \in Requests, Cleanup!VerifyTarget(q)
    PROVE  CleanupInv'
<1>1. Active(req[q]) /\ req[q].phase = "verify"
  BY DEF Cleanup!VerifyTarget, Active
<1>2. PICK result \in {"failed", "success"} : Cleanup!Ends(q, result)
  BY DEF Cleanup!VerifyTarget
<1> QED
  BY <1>1, <1>2, StepEnds DEF Cleanup!VerifyTarget

LEMMA StepCrash ==
    ASSUME CleanupInv, NEW q \in Requests, Cleanup!Crash(q)
    PROVE  CleanupInv'
<1> DEFINE y == [phase |-> "error"]
<1>1. ~Active(y)
  BY DEF Active
<1>2. Active(req[q]) /\ req' = [req EXCEPT ![q] = y] /\ UNCHANGED <<engine, live, uses, units, late, lost>>
  BY DEF Cleanup!Crash, Cleanup!Running, Active
<1> HIDE DEF y
<1> QED
  BY <1>1, <1>2, OneRequest DEF CleanupInv, CleanupTypes

\* The target is dropped, and of the storage remaining is left.
LEMMA StepDropped ==
    ASSUME CleanupInv, NEW q \in Requests, req[q].phase = "drop", UNCHANGED <<engine, late, lost>>,
           NEW remaining \in UnitSets, Cleanup!Dropped(q, remaining), remaining \subseteq units,
           engine # "sqlserver" \/ units \ Cleanup!UserTablespaces(req[q].target) \subseteq remaining
    PROVE  CleanupInv'
<1> DEFINE r == req[q]
           y == [r EXCEPT !.phase = IF r.own = {} THEN "verify" ELSE "storage"]
<1>1. Active(r) /\ r \in RunType /\ Accounted(engine, r, uses, units) /\ Alone(r, uses, late)
      /\ live \in TargetSets /\ units \in UnitSets /\ uses \in Uses /\ lost \in Pairs /\ lost \subseteq late
      /\ FilesPrivate(engine, uses, units)
  BY DEF CleanupInv, CleanupTypes, Active
<1>2. uses' = {x \in uses : x[1] # r.target} /\ units' = remaining /\ live' \in TargetSets /\ uses' \subseteq uses
      /\ req' = [req EXCEPT ![q] = y]
  BY <1>1, CleanupSets DEF Cleanup!Dropped, CleanupInv, CleanupTypes
<1>3. y \in RunType /\ y.phase = (IF r.own = {} THEN "verify" ELSE "storage") /\ y.own = r.own /\ y.todo = r.todo
      /\ y.failed = r.failed /\ y.drop = r.drop /\ y.held = r.held /\ y.alone = r.alone
  BY <1>1 DEF RunType
<1> HIDE DEF y
<1>4. FilesPrivate(engine, uses', units')
  <2> SUFFICES ASSUME engine = "sqlserver", NEW x \in uses, x[1] # r.target PROVE x[2] \in remaining
    BY <1>1, <1>2 DEF FilesPrivate
  <2>1. x[2] \in units
    BY <1>1 DEF FilesPrivate
  <2>2. ASSUME x[2] \in Cleanup!UserTablespaces(r.target) PROVE FALSE
    <3>1. PICK k \in Cleanup!Kinds : <<r.target, x[2], k>> \in uses
      BY <2>2 DEF Cleanup!UserTablespaces
    <3> DEFINE z == <<r.target, x[2], k>>
    <3>2. z \in uses /\ z[1] = r.target /\ z[2] = x[2]
      BY <3>1
    <3> HIDE DEF z
    <3> QED
      BY <1>1, <3>2 DEF FilesPrivate
  <2> QED
    BY <2>1, <2>2
<1>5. Alone(y, uses', late)
  BY <1>1, <1>2, <1>3 DEF Alone
<1>6. Accounted(engine, y, uses', units')
  BY <1>1, <1>2, <1>3 DEF Accounted, Used
<1> QED
  BY <1>1, <1>2, <1>3, <1>4, <1>5, <1>6, OneRequest

LEMMA StepDropTarget ==
    ASSUME CleanupInv, NEW q \in Requests, Cleanup!DropTarget(q)
    PROVE  CleanupInv'
<1>1. req[q].phase = "drop" /\ Active(req[q]) /\ UNCHANGED <<engine, late, lost>> /\ units \in UnitSets
  BY DEF Cleanup!DropTarget, Active, CleanupInv, CleanupTypes
<1>2. CASE Cleanup!Ends(q, "failed") /\ UNCHANGED <<live, uses, units>>
  BY <1>1, <1>2, StepEnds
<1>3. CASE Cleanup!DropMysql(q) \/ Cleanup!DropDoris(q) \/ Cleanup!DropOracle(q)
  <2>1. Cleanup!Dropped(q, units) /\ engine # "sqlserver"
    BY <1>3 DEF Cleanup!DropMysql, Cleanup!DropDoris, Cleanup!DropOracle
  <2> QED
    BY <1>1, <2>1, StepDropped
<1>4. CASE Cleanup!DropSqlserver(q)
  <2> DEFINE files == Cleanup!UserTablespaces(req[q].target)
  <2>1. PICK left \in {{}, files} : Cleanup!Dropped(q, (units \ files) \cup left)
    BY <1>4 DEF Cleanup!DropSqlserver
  <2>2. files \subseteq units
    <3> SUFFICES ASSUME NEW u \in files PROVE u \in units
      OBVIOUS
    <3>1. PICK k \in Cleanup!Kinds : <<req[q].target, u, k>> \in uses
      BY DEF Cleanup!UserTablespaces
    <3> DEFINE z == <<req[q].target, u, k>>
    <3>2. z \in uses /\ z[2] = u
      BY <3>1
    <3> HIDE DEF z
    <3> QED
      BY <1>4, <3>2 DEF CleanupInv, FilesPrivate, Cleanup!DropSqlserver
  <2> DEFINE remaining == (units \ files) \cup left
  <2>3. remaining \in UnitSets /\ remaining \subseteq units /\ units \ files \subseteq remaining
    BY <1>1, <2>1, <2>2, CleanupSets
  <2>4. Cleanup!Dropped(q, remaining)
    BY <2>1
  <2> HIDE DEF remaining
  <2> QED
    BY <1>1, <2>3, <2>4, StepDropped
<1> QED
  BY <1>2, <1>3, <1>4 DEF Cleanup!DropTarget

LEMMA StepDropStorage ==
    ASSUME CleanupInv, NEW q \in Requests, Cleanup!DropStorage(q)
    PROVE  CleanupInv'
<1> DEFINE r == req[q]
<1>1. r.phase = "storage" /\ Active(r) /\ UNCHANGED <<engine, live, late>>
  BY DEF Cleanup!DropStorage, Active
<1>2. r \in RunType /\ Accounted(engine, r, uses, units) /\ Alone(r, uses, late)
      /\ live \in TargetSets /\ units \in UnitSets /\ uses \in Uses /\ lost \in Pairs /\ lost \subseteq late /\ late \in Pairs
      /\ FilesPrivate(engine, uses, units)
  BY <1>1 DEF CleanupInv, CleanupTypes
<1>3. CASE Cleanup!Ends(q, "failed") /\ UNCHANGED <<units, uses, lost>>
  BY <1>1, <1>3, StepEnds
<1>4. ASSUME NEW u \in r.own, Cleanup!DropUnit(u),
             req' = [req EXCEPT ![q].own = r.own \ {u}, ![q].phase = IF r.own \ {u} = {} THEN "verify" ELSE "storage"]
      PROVE  CleanupInv'
  <2> DEFINE rest == r.own \ {u}
             y == [r EXCEPT !.own = rest, !.phase = IF rest = {} THEN "verify" ELSE "storage"]
  <2>1. units' = units \ {u} /\ uses' = {x \in uses : x[2] # u \/ x[3] = "default"} /\ uses' \subseteq uses
        /\ units' \in UnitSets
    BY <1>2, <1>4, CleanupSets DEF Cleanup!DropUnit
  <2>2. lost' \subseteq late /\ lost' \in Pairs
    <3>1. lost' = lost \cup {<<x[1], x[2]>> : x \in {z \in uses : z[2] = u}}
      BY <1>4 DEF Cleanup!DropUnit
    <3>2. \A x \in uses : x[2] = u => <<x[1], x[2]>> \in late
      BY <1>1, <1>2, <1>4 DEF Alone
    <3>3. lost' \subseteq late
      BY <1>2, <3>1, <3>2
    <3> QED
      BY <1>2, <3>3, CleanupSets
  <2>3. req' = [req EXCEPT ![q] = y]
    BY <1>4 DEF CleanupInv, CleanupTypes
  <2>4. y \in RunType /\ y.phase = (IF rest = {} THEN "verify" ELSE "storage") /\ y.own = rest /\ y.todo = r.todo
        /\ y.failed = r.failed /\ y.drop = r.drop /\ y.held = r.held /\ y.alone = r.alone
    <3> DEFINE phase == IF rest = {} THEN "verify" ELSE "storage"
    <3>1. rest \in UnitSets /\ phase \in {"verify", "storage"}
      BY <1>2, RunFields, CleanupSets
    <3> HIDE DEF rest, phase
    <3>2. LET e == [r EXCEPT !.own = rest, !.phase = phase] IN
            /\ e \in RunType /\ e.phase = phase /\ e.own = rest /\ e.todo = r.todo
            /\ e.failed = r.failed /\ e.drop = r.drop /\ e.held = r.held /\ e.alone = r.alone
      BY <1>2, <3>1 DEF RunType
    <3> QED
      BY <3>2 DEF phase
  <2> HIDE DEF y
  <2>5. FilesPrivate(engine, uses', units')
    BY <1>2, <2>1 DEF FilesPrivate
  <2>6. Alone(y, uses', late)
    BY <1>1, <1>2, <2>1, <2>4 DEF Alone
  <2>7. Accounted(engine, y, uses', units')
    BY <1>1, <1>2, <2>1, <2>4 DEF Accounted, Used
  <2> QED
    BY <1>1, <1>2, <2>1, <2>2, <2>3, <2>4, <2>5, <2>6, <2>7, OneRequest
<1> QED
  BY <1>3, <1>4 DEF Cleanup!DropStorage

-----------------------------------------------------------------------------
(* New requests, and what others do. *)

\* Nothing of the storage changes, and no request is nearer to being alone.
LEMMA StepExecuteBatch ==
    ASSUME CleanupInv, NEW q \in Requests, NEW S \in TargetSets, S # {}, NEW drop \in BOOLEAN,
           Cleanup!ExecuteCleanupBatch(q, S, drop)
    PROVE  CleanupInv'
<1> USE DEF Active
<1>1. req[q].phase = "idle" /\ UNCHANGED <<engine, live, uses, units, late, lost>> /\ req = [p \in Requests |-> req[p]]
  BY DEF Cleanup!ExecuteCleanupBatch, Cleanup!Idle, CleanupInv, CleanupTypes
<1>2. CASE req' = [req EXCEPT ![q] = [phase |-> "blocked"]]
  <2>1. /\ ~Active(req'[q]) /\ \A p \in Requests \ {q} : req'[p] = req[p]
        /\ req' = [p \in Requests |-> req'[p]]
    BY <1>1, <1>2
  <2> QED
    BY <1>1, <2>1 DEF CleanupInv, CleanupTypes, Solitary
<1>3. ASSUME Cleanup!BuildCleanupBatchPlan(S),
             req' = [p \in Requests |->
                       IF p = q THEN [phase |-> "next", todo |-> S, target |-> CHOOSE t \in S : TRUE, own |-> {},
                                      drop |-> drop, held |-> IF drop THEN Cleanup!HeldBy(S) ELSE {},
                                      alone |-> Cleanup!Running = {}, success |-> FALSE, failed |-> FALSE]
                       ELSE IF p \in Cleanup!Running THEN [req[p] EXCEPT !.alone = FALSE] ELSE req[p]]
      PROVE  CleanupInv'
  <2> DEFINE held == IF drop THEN Cleanup!HeldBy(S) ELSE {}
             some == CHOOSE t \in S : TRUE
             alone == Cleanup!Running = {}
             new == [phase |-> "next", todo |-> S, target |-> some, own |-> {}, drop |-> drop, held |-> held,
                     alone |-> alone, success |-> FALSE, failed |-> FALSE]
  <2>1. req'[q] = new /\ req' = [p \in Requests |-> req'[p]]
        /\ \A p \in Requests \ {q} :
              req'[p] = IF p \in Cleanup!Running THEN [req[p] EXCEPT !.alone = FALSE] ELSE req[p]
    BY <1>3
  <2>2. held \in UnitSets /\ some \in S /\ S \subseteq Cleanup!AllTargets /\ alone \in BOOLEAN
    <3>1. Cleanup!HeldBy(S) \subseteq Units
      BY UseFields DEF Cleanup!HeldBy, CleanupInv, CleanupTypes
    <3> QED
      BY <3>1, CleanupSets
  <2>3. drop => \A u \in held : Used(u, uses)
    BY DEF Cleanup!HeldBy, Used
  <2> HIDE DEF held, some, alone
  <2>4. new \in RunType /\ new.phase = "next" /\ new.todo = S /\ new.alone = alone /\ new.held = held /\ new.drop = drop
    BY <2>2, CleanupSets DEF RunType
  <2> HIDE DEF new
  <2>5. Unprotected(engine, new) /\ Alone(new, uses, late) /\ Accounted(engine, new, uses, units)
    BY <1>3, <2>2, <2>3, <2>4 DEF Cleanup!BuildCleanupBatchPlan, Cleanup!Protected, Unprotected, Alone, Accounted
  <2>6. ASSUME NEW p \in Requests, p # q, Active(req'[p])
        PROVE  /\ Active(req[p]) /\ req[p] \in RunType /\ Unprotected(engine, req[p]) /\ Alone(req[p], uses, late)
               /\ p \in Cleanup!Running /\ req'[p] = [req[p] EXCEPT !.alone = FALSE]
    <3>1. CASE p \in Cleanup!Running
      BY <2>1, <2>6, <3>1 DEF Cleanup!Running, CleanupInv, CleanupTypes
    <3>2. CASE p \notin Cleanup!Running
      BY <2>1, <2>6, <3>2 DEF Cleanup!Running
    <3> QED
      BY <3>1, <3>2
  <2>7. ASSUME NEW p \in Requests, p # q, Active(req'[p])
        PROVE  /\ req'[p] \in RunType /\ ~req'[p].alone /\ Unprotected(engine, req'[p])
               /\ Alone(req'[p], uses, late) /\ Accounted(engine, req'[p], uses, units)
    <3> DEFINE r == req[p]
               s == [r EXCEPT !.alone = FALSE]
    <3>1. r \in RunType /\ req'[p] = s /\ Unprotected(engine, r) /\ Alone(r, uses, late)
      BY <2>6, <2>7
    <3> HIDE DEF r
    <3>2. s \in RunType /\ ~s.alone /\ s.phase = r.phase /\ s.target = r.target /\ s.own = r.own /\ s.todo = r.todo
      BY <3>1 DEF RunType
    <3> HIDE DEF s
    <3> QED
      BY <3>1, <3>2 DEF Unprotected, Alone, Accounted
  <2>8. CleanupTypes'
    BY <1>1, <2>1, <2>4, <2>5, <2>7 DEF CleanupInv, CleanupTypes
  <2>9. \A p \in Requests : Active(req'[p]) =>
           Alone(req'[p], uses', late') /\ Accounted(engine', req'[p], uses', units')
    BY <1>1, <2>1, <2>5, <2>7
  <2>10. Solitary'
    <3> SUFFICES ASSUME NEW p \in Requests, NEW o \in Requests, Active(req'[p]), Active(req'[o]), p # o, req'[o].alone
                 PROVE  FALSE
      BY DEF Solitary
    <3>1. o = q /\ p # q
      BY <2>7
    <3>2. p \in Cleanup!Running /\ alone
      BY <2>1, <2>4, <2>6, <3>1
    <3> QED
      BY <3>2 DEF alone
  <2> QED
    BY <1>1, <2>8, <2>9, <2>10 DEF CleanupInv
<1> QED
  BY <1>2, <1>3 DEF Cleanup!ExecuteCleanupBatch

LEMMA StepPlace ==
    ASSUME CleanupInv, NEW t \in Targets, NEW u \in Units, NEW kind \in Cleanup!Kinds, Cleanup!Place(t, u, kind)
    PROVE  CleanupInv'
<1> DEFINE x == <<t, u, kind>>
<1>1. /\ UNCHANGED <<engine, req, lost>>
      /\ live' = live \cup {t} /\ uses' = uses \cup {x} /\ units' = units \cup {u}
      /\ late' = (IF \E q \in Cleanup!Running : u \in req[q].own THEN late \cup {<<t, u>>} ELSE late)
      /\ engine # "sqlserver" => units' = units
      /\ engine = "sqlserver" => u \notin units /\ kind = "segment"
  BY CleanupSets DEF Cleanup!Place, CleanupInv, CleanupTypes
<1>2. x \in Cleanup!AllTargets \X Units \X Cleanup!Kinds /\ x[1] = t /\ x[2] = u /\ x[3] = kind
      /\ <<t, u>> \in Cleanup!AllTargets \X Units /\ t \in Cleanup!AllTargets
  BY DEF Cleanup!AllTargets
<1> HIDE DEF x
<1>3. late \subseteq late'
  BY <1>1
<1>4. CleanupTypes'
  BY <1>1, <1>2, CleanupSets DEF CleanupInv, CleanupTypes
<1>5. FilesPrivate(engine', uses', units')
  BY <1>1, <1>2 DEF CleanupInv, FilesPrivate
<1>6. ASSUME NEW q \in Requests, Active(req[q])
      PROVE  Alone(req[q], uses', late') /\ Accounted(engine, req[q], uses', units')
  <2>1. Alone(req[q], uses, late) /\ Accounted(engine, req[q], uses, units)
    BY <1>6 DEF CleanupInv
  <2>2. u \in req[q].own => <<t, u>> \in late'
    BY <1>1, <1>6 DEF Cleanup!Running, Active
  <2>3. Alone(req[q], uses', late')
    BY <1>1, <1>2, <1>3, <2>1, <2>2 DEF Alone
  <2>4. Accounted(engine, req[q], uses', units')
    BY <1>1, <2>1 DEF Accounted, Used
  <2> QED
    BY <2>3, <2>4
<1> QED
  BY <1>1, <1>3, <1>4, <1>5, <1>6 DEF CleanupInv, Solitary

LEMMA StepCreateDatabase ==
    ASSUME CleanupInv, NEW t \in Targets, Cleanup!CreateDatabase(t)
    PROVE  CleanupInv'
<1>1. UNCHANGED <<engine, uses, units, req, late, lost>> /\ live' \in TargetSets
  BY CleanupSets DEF Cleanup!CreateDatabase, Cleanup!AllTargets, CleanupInv, CleanupTypes
<1> QED
  BY <1>1 DEF CleanupInv, CleanupTypes, Solitary

-----------------------------------------------------------------------------
LEMMA CleanupBegins == ASSUME Cleanup!Init PROVE CleanupInv
<1> USE CleanupWorkAssumption
<1>1. engine \in Engines /\ live = Cleanup!AllTargets /\ uses \in Layouts[engine] /\ late = {} /\ lost = {}
      /\ req = [q \in Requests |-> Cleanup!Idle] /\ \A q \in Requests : ~Active(req[q])
  BY DEF Cleanup!Init, Cleanup!Idle, Active
<1>2. uses \in Uses
  BY <1>1, CleanupSets DEF Cleanup!CleanupAssumption
<1>3. \A x \in uses : x[2] \in Units
  BY <1>2, UseFields
<1>4. units \in UnitSets /\ (engine # "oracle" => units = {x[2] : x \in uses})
  BY <1>3, CleanupSets DEF Cleanup!Init
<1>5. CleanupTypes
  BY <1>1, <1>2, <1>4, CleanupSets DEF CleanupTypes
<1>6. FilesPrivate(engine, uses, units)
  <2> SUFFICES ASSUME engine = "sqlserver", NEW x \in uses, NEW z \in uses
               PROVE  x[3] = "segment" /\ x[2] \in units /\ (x[2] = z[2] => x[1] = z[1])
    BY DEF FilesPrivate
  <2>1. uses \in Layouts["sqlserver"]
    BY <1>1
  <2> QED
    BY <1>4, <2>1 DEF Cleanup!CleanupAssumption
<1> QED
  BY <1>1, <1>5, <1>6 DEF CleanupInv, Solitary

LEMMA CleanupStep == ASSUME CleanupInv, Cleanup!Next PROVE CleanupInv'
<1>1. CASE \E q \in Requests : Cleanup!RequestStep(q) \/ Cleanup!Crash(q)
  BY <1>1, StepReplan, StepDropTarget, StepDropStorage, StepVerify, StepCrash DEF Cleanup!RequestStep
<1>2. ASSUME NEW q \in Requests, NEW S \in (SUBSET Cleanup!AllTargets) \ {{}}, NEW drop \in BOOLEAN,
             Cleanup!ExecuteCleanupBatch(q, S, drop)
      PROVE  CleanupInv'
  BY <1>2, StepExecuteBatch DEF TargetSets
<1>3. ASSUME NEW q \in Requests, NEW t \in Cleanup!AllTargets, NEW drop \in BOOLEAN, Cleanup!ExecuteCleanup(q, t, drop)
      PROVE  CleanupInv'
  <2>1. {t} \in (SUBSET Cleanup!AllTargets) \ {{}} /\ Cleanup!ExecuteCleanupBatch(q, {t}, drop)
    BY <1>3 DEF Cleanup!ExecuteCleanup
  <2> QED
    BY <1>2, <2>1
<1>4. CASE \E t \in Targets, u \in Units, kind \in Cleanup!Kinds : Cleanup!Place(t, u, kind)
  BY <1>4, StepPlace
<1>5. CASE \E t \in Targets : Cleanup!CreateDatabase(t)
  BY <1>5, StepCreateDatabase
<1> QED
  BY <1>1, <1>2, <1>3, <1>4, <1>5 DEF Cleanup!Next

LEMMA CleanupStutters == ASSUME CleanupInv, UNCHANGED cleanupVars PROVE CleanupInv'
BY DEF cleanupVars, CleanupInv, CleanupTypes, Solitary

\* A request has reported success: none of its targets failed, so what they used is still used.
LEMMA StorageStep == ASSUME CleanupInv, Cleanup!Next PROVE Cleanup!UnitsGone
<1> SUFFICES ASSUME NEW q \in Requests, engine = "oracle", req[q].phase = "verify",
                    req'[q] = [phase |-> "ended", state |-> "success"], req[q].drop, req[q].alone,
                    NEW u \in (req[q].held \cap units') \ SystemUnits
             PROVE  \E x \in uses' : x[2] = u
  BY DEF Cleanup!UnitsGone
<1> DEFINE r == req[q]
<1>1. Active(r) /\ r \in RunType /\ Accounted(engine, r, uses, units) /\ req'[q].phase = "ended"
      /\ req'[q].state = "success" /\ req = [p \in Requests |-> req[p]]
  BY DEF CleanupInv, CleanupTypes, Active
<1>2. ASSUME NEW p \in Requests, p # q, Cleanup!RequestStep(p) \/ Cleanup!Crash(p)
      PROVE  FALSE
  <2>1. req'[q] = r
    BY <1>1, <1>2 DEF Cleanup!RequestStep, Cleanup!ReplanTarget, Cleanup!DropTarget, Cleanup!DropMysql, Cleanup!DropDoris,
          Cleanup!DropOracle, Cleanup!DropSqlserver, Cleanup!Dropped, Cleanup!DropStorage, Cleanup!VerifyTarget,
          Cleanup!Ends, Cleanup!Crash
  <2> QED
    BY <1>1, <2>1
<1>3. ASSUME NEW p \in Requests, NEW S, NEW drop, Cleanup!ExecuteCleanupBatch(p, S, drop)
      PROVE  FALSE
  <2>1. p # q
    BY <1>3 DEF Cleanup!ExecuteCleanupBatch, Cleanup!Idle
  <2>2. req'[q].phase = r.phase
    <3>1. CASE req'[q] = r
      BY <3>1
    <3>2. CASE req'[q] = [r EXCEPT !.alone = FALSE]
      BY <1>1, <3>2 DEF RunType
    <3> QED
      BY <1>1, <1>3, <2>1, <3>1, <3>2 DEF Cleanup!ExecuteCleanupBatch
  <2> QED
    BY <1>1, <2>2
<1>4. ASSUME UNCHANGED req PROVE FALSE
  BY <1>1, <1>4
<1>5. Cleanup!RequestStep(q) \/ Cleanup!Crash(q)
  BY <1>2, <1>3, <1>4 DEF Cleanup!Next, Cleanup!ExecuteCleanup, Cleanup!Place, Cleanup!CreateDatabase
<1>6. Cleanup!VerifyTarget(q)
  <2>1. ~Cleanup!Crash(q)
    BY <1>1 DEF Cleanup!Crash
  <2> QED
    BY <1>5, <2>1 DEF Cleanup!RequestStep, Cleanup!ReplanTarget, Cleanup!DropTarget, Cleanup!DropStorage
<1>7. UNCHANGED <<engine, uses, units>> /\ \E result \in {"failed", "success"} : Cleanup!Ends(q, result)
  BY <1>6 DEF Cleanup!VerifyTarget
<1>8. ~r.failed
  <2>1. PICK result \in {"failed", "success"} : Cleanup!Ends(q, result)
    BY <1>7
  <2> DEFINE s == [r EXCEPT !.phase = "next", !.todo = @ \ {r.target},
                            !.success = @ \/ result = "success", !.failed = @ \/ result = "failed"]
  <2>2. req'[q] = IF s.todo = {} THEN [phase |-> "ended", state |-> Cleanup!BatchState(s)] ELSE s
    BY <1>1, <2>1 DEF Cleanup!Ends
  <2>3. s.phase = "next" /\ s.failed = (r.failed \/ result = "failed")
    BY <1>1 DEF RunType
  <2> HIDE DEF s
  <2>4. Cleanup!BatchState(s) = "success"
    BY <1>1, <2>2, <2>3
  <2>5. ~s.failed
    BY <2>4 DEF Cleanup!BatchState
  <2> QED
    BY <2>3, <2>5
<1> QED
  BY <1>1, <1>7, <1>8 DEF Accounted, Used

THEOREM CleanupInductive == RecoverySpec => [](active = "cleanup" => CleanupInv)
<1>1. RecoveryInit => (active = "cleanup" => CleanupInv)
  BY CleanupBegins DEF RecoveryInit
<1>2. (active = "cleanup" => CleanupInv) /\ [RecoveryNext]_recoveryVars => (active = "cleanup" => CleanupInv)'
  BY CleanupStep, CleanupStutters DEF RecoveryNext, recoveryVars
<1> QED
  BY <1>1, <1>2, PTL DEF RecoverySpec

THEOREM NeighboursAreSpared == RecoverySpec => []NeighboursSpared
<1>1. (active = "cleanup" => CleanupInv) => NeighboursSpared
  BY DEF CleanupInv, NeighboursSpared, Cleanup!NeighboursSpared
<1> QED
  BY <1>1, CleanupInductive, PTL

THEOREM StorageIsGone == RecoverySpec => StorageGone
<1>1. (active = "cleanup" => CleanupInv) /\ [RecoveryNext]_recoveryVars => [active = "cleanup" => Cleanup!UnitsGone]_recoveryVars
  BY StorageStep DEF RecoveryNext, recoveryVars
<1> QED
  BY <1>1, CleanupInductive, PTL DEF RecoverySpec, StorageGone
=============================================================================

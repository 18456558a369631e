-------------------------- MODULE StageDispatchProofs --------------------------
(***************************************************************************)
(* Proofs about StageDispatch, for any number of stage runs, dispatchers   *)
(* and executors and any number of faults: type correctness, one start per *)
(* grant (by implementing ClaimToken), one executor per run, no false news *)
(* and no forgotten run.                                                   *)
(***************************************************************************)
EXTENDS StageDispatch, TLAPS

USE DEF TargetState, Status, Settled

LEMMA SlotFields ==
    /\ \A x \in DispatcherSlot : x.for \in Target /\ x.status \in Status
    /\ \A x \in ExecutorSlot : x.for \in Target
BY DEF DispatcherSlot, ExecutorSlot

\* The status of a run is a status of its record.
LEMMA StatusType == \A s \in TargetState : StatusOf(s) \in Status
BY DEF StatusOf

\* Only SM4 jobs are ever reserved: what TypeOK needs to be inductive, since a
\* reservation that timed out enters returning.
ReservedIsSm4 == \A t \in Target : target[t] = "reserved" => t \in sm4

\* Every variable keeps its type, and only SM4 jobs are reserved.
THEOREM TypeCorrect == Spec => [](TypeOK /\ ReservedIsSm4)
<1>1. Init => TypeOK /\ ReservedIsSm4
  BY DEF Init, TypeOK, ReservedIsSm4, DispatcherSlot, ExecutorSlot
<1>2. TypeOK /\ ReservedIsSm4 /\ [Next]_vars => (TypeOK /\ ReservedIsSm4)'
  <2> SUFFICES ASSUME TypeOK, ReservedIsSm4, [Next]_vars
               PROVE  TypeOK' /\ ReservedIsSm4'
    OBVIOUS
  <2> USE DEF TypeOK, ReservedIsSm4, returns
  <2>1. ASSUME NEW d \in Dispatcher, NEW t \in Target, NEW s \in Status,
               NEW pc \in {"idle", "reconciling", "sending", "recording"},
               Become(d, pc, t, s)
        PROVE  dispatcher' \in [Dispatcher -> DispatcherSlot]
    BY <2>1 DEF Become, DispatcherSlot
  <2>2. \A d \in Dispatcher : dispatcher[d].for \in Target /\ dispatcher[d].status \in Status
    BY SlotFields
  <2>3. ASSUME Fault PROVE faults' \in Nat
    BY <2>3 DEF Fault
  <2>4. ASSUME NEW t \in Target, Register(t) PROVE TypeOK' /\ ReservedIsSm4'
    BY <2>4 DEF Register
  <2>5. ASSUME NEW t \in Target, CancelTarget(t) \/ ResetStale(t)
        PROVE  TypeOK' /\ ReservedIsSm4'
    BY <2>3, <2>5 DEF CancelTarget, ResetStale
  <2>6. ASSUME NEW t \in Target, ReconcileOrClaim(t) PROVE TypeOK' /\ ReservedIsSm4'
    <3>1. PICK d \in Dispatcher : ReadForReconcile(d, t) \/ Claim(d, t)
      BY <2>6 DEF ReconcileOrClaim
    <3>2. StatusOf(target[t]) \in Status
      BY StatusType
    <3>3. dispatcher' \in [Dispatcher -> DispatcherSlot]
      BY <2>1, <3>1, <3>2 DEF ReadForReconcile, Claim
    <3> QED
      BY <3>1, <3>3 DEF ReadForReconcile, Claim
  <2>7. ASSUME NEW t \in Target, Reserve(t)
        PROVE  /\ target' \in [Target -> TargetState]
               /\ messages' \in [Target -> Nat]
               /\ returning' \subseteq sm4
               /\ faults' \in Nat
               /\ \A u \in Target : target'[u] = "reserved" => u \in sm4
    BY <2>3, <2>7 DEF Reserve
  <2>8. ASSUME NEW t \in Target, ReserveSm4(t) PROVE TypeOK' /\ ReservedIsSm4'
    BY <2>7, <2>8 DEF ReserveSm4
  <2>9. ASSUME NEW t \in Target, ReadExpired(t) \/ ReturnToQueue(t)
        PROVE  TypeOK' /\ ReservedIsSm4'
    BY <2>3, <2>9 DEF ReadExpired, ReturnToQueue
  <2>10. ASSUME NEW t \in Target, Deliver(t) PROVE TypeOK' /\ ReservedIsSm4'
    <3>1. PICK e \in Executor : Start(e, t)
      BY <2>10 DEF Deliver
    <3>2. executor' \in [Executor -> ExecutorSlot]
      BY <3>1 DEF Start, ExecutorSlot
    <3>3. target' \in [Target -> TargetState] /\ starts' \in [Target -> Nat]
      BY <3>1 DEF Start
    <3>4. messages' \in [Target -> Nat]
      BY <3>1 DEF Start
    <3>5. ReservedIsSm4'
      BY <3>1 DEF Start
    <3> QED
      BY <3>1, <3>2, <3>3, <3>4, <3>5 DEF Start
  <2>11. ASSUME NEW d \in Dispatcher, WriteReconciled(d) \/ Record(d)
         PROVE  TypeOK' /\ ReservedIsSm4'
    <3>1. dispatcher' \in [Dispatcher -> DispatcherSlot]
      BY <2>1, <2>2, <2>11 DEF WriteReconciled, Record
    <3> QED
      BY <2>2, <2>11, <3>1 DEF WriteReconciled, Record
  <2>12. ASSUME NEW d \in Dispatcher, Send(d) PROVE TypeOK' /\ ReservedIsSm4'
    <3>1. dispatcher' \in [Dispatcher -> DispatcherSlot]
      BY <2>1, <2>2, <2>12 DEF Send
    <3>2. messages' \in [Target -> Nat] /\ faults' \in Nat
      BY <2>2, <2>3, <2>12 DEF Send
    <3> QED
      BY <2>12, <3>1, <3>2 DEF Send
  <2>13. ASSUME NEW d \in Dispatcher, SendSm4(d) PROVE TypeOK' /\ ReservedIsSm4'
    <3> DEFINE t == dispatcher[d].for
    <3>1. Reserve(t) \/ UNCHANGED <<target, messages, returning, faults>>
      BY <2>13 DEF SendSm4
    <3>2. /\ target' \in [Target -> TargetState]
          /\ messages' \in [Target -> Nat]
          /\ returning' \subseteq sm4
          /\ faults' \in Nat
          /\ \A u \in Target : target'[u] = "reserved" => u \in sm4
      BY <2>2, <2>7, <3>1
    <3>3. StatusOf(target'[t]) \in Status
      BY <2>2, <3>2, StatusType
    <3>4. dispatcher' \in [Dispatcher -> DispatcherSlot]
      BY <2>1, <2>2, <2>13, <3>3 DEF SendSm4
    <3> QED
      BY <2>13, <3>2, <3>4 DEF SendSm4
  <2>14. ASSUME NEW d \in Dispatcher, CrashDispatcher(d) PROVE TypeOK' /\ ReservedIsSm4'
    <3>1. dispatcher' \in [Dispatcher -> DispatcherSlot]
      BY <2>1, <2>2, <2>14 DEF CrashDispatcher
    <3> QED
      BY <2>3, <2>14, <3>1 DEF CrashDispatcher
  <2>15. ASSUME NEW e \in Executor, Finish(e) \/ Ack(e) \/ CrashExecutor(e) \/ Redeliver(e)
         PROVE  TypeOK' /\ ReservedIsSm4'
    <3>1. executor[e].for \in Target
      BY SlotFields
    <3>2. executor' \in [Executor -> ExecutorSlot]
      BY <2>15 DEF Finish, Ack, CrashExecutor, Redeliver, ExecutorSlot
    <3>3. target' \in [Target -> TargetState] /\ messages' \in [Target -> Nat]
      BY <2>15, <3>1 DEF Finish, Ack, CrashExecutor, Redeliver
    <3>4. ReservedIsSm4'
      BY <2>15, <3>1 DEF Finish, Ack, CrashExecutor, Redeliver
    <3> QED
      BY <2>3, <2>15, <3>2, <3>3, <3>4 DEF Finish, Ack, CrashExecutor, Redeliver
  <2>16. CASE UNCHANGED vars
    BY <2>16 DEF vars
  <2> QED
    BY <2>4, <2>5, <2>6, <2>8, <2>9, <2>10, <2>11, <2>12, <2>13, <2>14, <2>15, <2>16
       DEF Next, DispatchStep
<1> QED
  BY <1>1, <1>2, PTL DEF Spec

-----------------------------------------------------------------------------
\* The conditional UPDATEs of the executors implement the claim token: however
\* often a run is dispatched, redelivered or reset, it is started at most once
\* for each time it was made startable.
THEOREM ImplementsClaimToken == Spec => ClaimsSpec
<1> DEFINE Waiting == {"queued", "reserved"}
           Granted == [t \in Target |-> target[t] = "queued" \/ target[t] = "reserved"]
<1>1. Init => Claims!Init
  <2> SUFFICES ASSUME Init PROVE Claims!Init
    OBVIOUS
  <2>1. \A t \in Target : ~ (target[t] \in Waiting)
    BY DEF Init
  <2>2. Granted = [t \in Target |-> FALSE]
    BY <2>1
  <2> QED
    BY <2>2 DEF Init, Claims!Init
<1>2. TypeOK /\ [Next]_vars => [Claims!Next]_(Claims!vars)
  <2> SUFFICES ASSUME TypeOK, [Next]_vars
               PROVE  Claims!Next \/ UNCHANGED Claims!vars
    OBVIOUS
  <2>0. /\ target \in [Target -> TargetState]
        /\ dispatcher \in [Dispatcher -> DispatcherSlot]
        /\ executor \in [Executor -> ExecutorSlot]
    BY DEF TypeOK
  <2>1. ASSUME NEW t \in Target, NEW s \in TargetState,
               target' = [target EXCEPT ![t] = s],
               UNCHANGED <<grants, starts>>, s \notin Waiting \/ target[t] \in Waiting
        PROVE  Claims!Next \/ UNCHANGED Claims!vars
    <3>1. CASE target[t] \in Waiting /\ s \notin Waiting
      <4>0. /\ target'[t] \notin Waiting
            /\ \A u \in Target \ {t} : target'[u] = target[u]
        BY <2>0, <2>1, <3>1
      <4>1. Granted' = [Granted EXCEPT ![t] = FALSE]
        BY <4>0
      <4>2. Claims!Withdraw(t)
        BY <2>1, <3>1, <4>1 DEF Claims!Withdraw
      <4> QED
        BY <4>2 DEF Claims!Next
    <3>2. CASE ~ (target[t] \in Waiting /\ s \notin Waiting)
      <4>1. Granted' = Granted
        BY <2>0, <2>1, <3>2
      <4> QED
        BY <2>1, <4>1 DEF Claims!vars
    <3> QED
      BY <3>1, <3>2
  <2>2. ASSUME NEW t \in Target, target' = [target EXCEPT ![t] = "queued"],
               grants' = [grants EXCEPT ![t] = @ + 1], UNCHANGED starts
        PROVE  Claims!Next
    <3>1. Granted' = [Granted EXCEPT ![t] = TRUE]
      BY <2>0, <2>2
    <3>2. Claims!Grant(t)
      BY <2>2, <3>1 DEF Claims!Grant
    <3> QED
      BY <3>2 DEF Claims!Next
  <2>3. ASSUME UNCHANGED <<target, grants, starts>> PROVE UNCHANGED Claims!vars
    BY <2>3 DEF Claims!vars
  <2>4. ASSUME NEW t \in Target, Register(t) PROVE Claims!Next
    BY <2>2, <2>4 DEF Register
  <2>5. ASSUME NEW t \in Target, CancelTarget(t)
        PROVE  Claims!Next \/ UNCHANGED Claims!vars
    BY <2>1, <2>5 DEF CancelTarget
  <2>6. ASSUME NEW t \in Target, Reserve(t), UNCHANGED <<grants, starts>>
        PROVE  Claims!Next \/ UNCHANGED Claims!vars
    BY <2>1, <2>6 DEF Reserve
  <2>7. ASSUME NEW t \in Target, ReserveSm4(t)
        PROVE  Claims!Next \/ UNCHANGED Claims!vars
    BY <2>6, <2>7 DEF ReserveSm4
  <2>8. ASSUME NEW t \in Target, ReturnToQueue(t)
        PROVE  Claims!Next \/ UNCHANGED Claims!vars
    <3>1. CASE target[t] \in Waiting
      BY <2>1, <2>8, <3>1 DEF ReturnToQueue
    <3>2. CASE target[t] \notin Waiting
      BY <2>2, <2>8, <3>2 DEF ReturnToQueue
    <3> QED
      BY <3>1, <3>2
  <2>9. ASSUME NEW t \in Target, Deliver(t)
        PROVE  Claims!Next \/ UNCHANGED Claims!vars
    <3>1. PICK e \in Executor : Start(e, t)
      BY <2>9 DEF Deliver
    <3>2. CASE Startable(t)
      <4>1. Granted[t]
        BY <3>2 DEF Startable
      <4>2a. target' = [target EXCEPT ![t] = "running"]
        BY <3>1, <3>2 DEF Start
      <4>2b. /\ target'[t] \notin Waiting
             /\ \A u \in Target \ {t} : target'[u] = target[u]
        BY <2>0, <4>2a
      <4>2. Granted' = [Granted EXCEPT ![t] = FALSE]
        BY <4>2b
      <4>3. UNCHANGED grants /\ starts' = [starts EXCEPT ![t] = @ + 1]
        BY <3>1, <3>2 DEF Start
      <4>4. Claims!Start(t)
        BY <4>1, <4>2, <4>3 DEF Claims!Start
      <4> QED
        BY <4>4 DEF Claims!Next
    <3>3. CASE ~ Startable(t)
      BY <2>3, <3>1, <3>3 DEF Start
    <3> QED
      BY <3>2, <3>3
  <2>10. ASSUME NEW d \in Dispatcher, SendSm4(d)
         PROVE  Claims!Next \/ UNCHANGED Claims!vars
    <3>1. dispatcher[d].for \in Target
      BY <2>0, SlotFields
    <3>2. UNCHANGED <<grants, starts>>
      BY <2>10 DEF SendSm4
    <3>3. Reserve(dispatcher[d].for) \/ UNCHANGED target
      BY <2>10 DEF SendSm4
    <3> QED
      BY <2>3, <2>6, <3>1, <3>2, <3>3
  <2>11. ASSUME NEW e \in Executor, Finish(e)
         PROVE  Claims!Next \/ UNCHANGED Claims!vars
    <3>1. executor[e].for \in Target
      BY <2>0, SlotFields
    <3>2. PICK s \in Settled : target' = [target EXCEPT ![executor[e].for] = s]
      BY <2>11 DEF Finish
    <3> QED
      BY <2>1, <2>11, <3>1, <3>2 DEF Finish
  <2>12. ASSUME NEW t \in Target,
                ResetStale(t) \/ ReconcileOrClaim(t) \/ ReadExpired(t)
         PROVE  UNCHANGED Claims!vars
    BY <2>3, <2>12 DEF ResetStale, ReconcileOrClaim, ReadForReconcile, Claim, ReadExpired
  <2>13. ASSUME NEW d \in Dispatcher,
                WriteReconciled(d) \/ Send(d) \/ Record(d) \/ CrashDispatcher(d)
         PROVE  UNCHANGED Claims!vars
    BY <2>3, <2>13 DEF WriteReconciled, Send, Record, CrashDispatcher
  <2>14. ASSUME NEW e \in Executor, Ack(e) \/ CrashExecutor(e) \/ Redeliver(e)
         PROVE  UNCHANGED Claims!vars
    BY <2>3, <2>14 DEF Ack, CrashExecutor, Redeliver
  <2>15. CASE UNCHANGED vars
    BY <2>3, <2>15 DEF vars
  <2> QED
    BY <2>4, <2>5, <2>7, <2>8, <2>9, <2>10, <2>11, <2>12, <2>13, <2>14, <2>15
       DEF Next, DispatchStep
<1> QED
  BY <1>1, <1>2, TypeCorrect, PTL DEF Spec, ClaimsSpec, Claims!Spec

-----------------------------------------------------------------------------
\* At most one executor is inside a stage run that was not written back to
\* queued over a later state, whatever is dispatched twice.
THEOREM OneExecutorCorrect == Spec => []OneExecutor
<1> DEFINE One(t) == /\ \A e1, e2 \in Inside(t) : e1 = e2
                     /\ Inside(t) # {} => target[t] = "running"
<1>1. Init => OneExecutor
  <2> SUFFICES ASSUME Init PROVE \A t \in Target : Inside(t) = {}
    BY DEF OneExecutor
  <2>1. \A e \in Executor : executor[e].pc = "idle"
    BY DEF Init
  <2> QED
    BY <2>1 DEF Inside
<1>2. TypeOK /\ OneExecutor /\ [Next]_vars => OneExecutor'
  <2> SUFFICES ASSUME TypeOK, OneExecutor, [Next]_vars,
                      NEW t \in Target, t \notin overtaken'
               PROVE  One(t)'
    BY DEF OneExecutor
  <2>0. /\ target \in [Target -> TargetState]
        /\ dispatcher \in [Dispatcher -> DispatcherSlot]
        /\ executor \in [Executor -> ExecutorSlot]
    BY DEF TypeOK
  <2>1. ASSUME t \notin overtaken PROVE One(t)
    BY <2>1 DEF OneExecutor
  <2>2. ASSUME UNCHANGED <<executor, overtaken>>, NEW u \in Target, NEW s \in TargetState,
               target' = [target EXCEPT ![u] = s], target[u] # "running"
        PROVE  One(t)'
    <3>1. Inside(t)' = Inside(t)
      BY <2>2 DEF Inside
    <3> QED
      BY <2>0, <2>1, <2>2, <3>1
  <2>3. ASSUME UNCHANGED <<target, executor, overtaken>> PROVE One(t)'
    <3>1. Inside(t)' = Inside(t)
      BY <2>3 DEF Inside
    <3> QED
      BY <2>1, <2>3, <3>1
  <2>4. ASSUME NEW u \in Target, Register(u) \/ CancelTarget(u) PROVE One(t)'
    BY <2>2, <2>4 DEF Register, CancelTarget, returns
  <2>5. ASSUME NEW u \in Target, Reserve(u), UNCHANGED <<executor, overtaken>>
        PROVE  One(t)'
    BY <2>2, <2>5 DEF Reserve
  <2>6. ASSUME NEW u \in Target, ReserveSm4(u) PROVE One(t)'
    BY <2>5, <2>6 DEF ReserveSm4
  <2>7. ASSUME NEW u \in Target, ReturnToQueue(u) PROVE One(t)'
    <3>1. UNCHANGED executor /\ target' = [target EXCEPT ![u] = "queued"]
      BY <2>7 DEF ReturnToQueue
    <3>2. CASE target[u] \in {"queued", "reserved"}
      BY <2>2, <2>7, <3>1, <3>2 DEF ReturnToQueue
    <3>3. CASE target[u] \notin {"queued", "reserved"}
      <4>1. u # t /\ t \notin overtaken
        BY <2>7, <3>3 DEF ReturnToQueue
      <4>2. Inside(t)' = Inside(t)
        BY <3>1 DEF Inside
      <4> QED
        BY <2>0, <2>1, <3>1, <4>1, <4>2
    <3> QED
      BY <3>2, <3>3
  <2>8. ASSUME NEW u \in Target, Deliver(u) PROVE One(t)'
    <3>1. PICK e \in Executor : Start(e, u)
      BY <2>8 DEF Deliver
    <3>2. executor[e].pc = "idle" /\ UNCHANGED overtaken
      BY <3>1 DEF Start, returns
    <3>3. CASE Startable(u)
      <4>1. /\ target' = [target EXCEPT ![u] = "running"]
            /\ executor' = [executor EXCEPT ![e] = [pc |-> "running", for |-> u]]
        BY <3>1, <3>3 DEF Start
      <4>2. target[u] # "running"
        BY <3>3 DEF Startable
      <4>3. CASE u = t
        <5>1. Inside(t) = {}
          BY <2>1, <3>2, <4>2, <4>3
        <5>2. Inside(t)' \subseteq {e}
          BY <2>0, <4>1, <5>1 DEF Inside
        <5>3. target'[t] = "running"
          BY <2>0, <4>1, <4>3
        <5> QED
          BY <5>2, <5>3
      <4>4. CASE u # t
        <5>1. Inside(t)' = Inside(t)
          BY <2>0, <3>2, <4>1, <4>4 DEF Inside
        <5>2. target'[t] = target[t]
          BY <2>0, <4>1, <4>4
        <5> QED
          BY <2>1, <3>2, <5>1, <5>2
      <4> QED
        BY <4>3, <4>4
    <3>4. CASE ~ Startable(u)
      <4>1. executor' = [executor EXCEPT ![e] = [pc |-> "acking", for |-> u]]
        BY <3>1, <3>4 DEF Start
      <4>2. Inside(t)' = Inside(t)
        BY <2>0, <3>2, <4>1 DEF Inside
      <4> QED
        BY <2>1, <3>1, <3>2, <3>4, <4>2 DEF Start
    <3> QED
      BY <3>3, <3>4
  <2>9. ASSUME NEW d \in Dispatcher, SendSm4(d) PROVE One(t)'
    <3>1. dispatcher[d].for \in Target
      BY <2>0, SlotFields
    <3>2. UNCHANGED <<executor, overtaken>>
      BY <2>9 DEF SendSm4
    <3>3. Reserve(dispatcher[d].for) \/ UNCHANGED target
      BY <2>9 DEF SendSm4
    <3> QED
      BY <2>3, <2>5, <3>1, <3>2, <3>3
  <2>10. ASSUME NEW e \in Executor, Finish(e) \/ Ack(e) \/ CrashExecutor(e)
         PROVE  One(t)'
    <3>1. /\ UNCHANGED overtaken
          /\ executor'[e].pc # "running"
          /\ \A x \in Executor \ {e} : executor'[x] = executor[x]
      BY <2>0, <2>10 DEF Finish, Ack, CrashExecutor, returns, ExecutorSlot
    <3>2. Inside(t)' \subseteq Inside(t) \ {e}
      BY <3>1 DEF Inside
    <3>3. CASE e \in Inside(t)
      <4>1. Inside(t)' = {}
        BY <2>1, <3>1, <3>2, <3>3
      <4> QED
        BY <4>1
    <3>4. CASE e \notin Inside(t)
      <4>1. target'[t] = target[t]
        BY <2>0, <2>10, <3>4 DEF Finish, Ack, CrashExecutor, Inside
      <4> QED
        BY <2>1, <3>1, <3>2, <4>1
    <3> QED
      BY <3>3, <3>4
  <2>11. ASSUME NEW e \in Executor, Redeliver(e) PROVE One(t)'
    BY <2>3, <2>11 DEF Redeliver, returns
  <2>12. ASSUME NEW u \in Target,
                ResetStale(u) \/ ReconcileOrClaim(u) \/ ReadExpired(u)
         PROVE  One(t)'
    BY <2>3, <2>12 DEF ResetStale, ReconcileOrClaim, ReadForReconcile, Claim,
       ReadExpired, returns
  <2>13. ASSUME NEW d \in Dispatcher,
                WriteReconciled(d) \/ Send(d) \/ Record(d) \/ CrashDispatcher(d)
         PROVE  One(t)'
    BY <2>3, <2>13 DEF WriteReconciled, Send, Record, CrashDispatcher, returns
  <2>14. CASE UNCHANGED vars
    BY <2>3, <2>14 DEF vars, returns
  <2> QED
    BY <2>4, <2>6, <2>7, <2>8, <2>9, <2>10, <2>11, <2>12, <2>13, <2>14
       DEF Next, DispatchStep
<1> QED
  BY <1>1, <1>2, TypeCorrect, PTL DEF Spec

-----------------------------------------------------------------------------
True(t) == /\ "running" \in News(t) => starts[t] > 0
           /\ \A s \in Settled : s \in News(t) => target[t] = s

\* A running stage run was started.
Started == \A t \in Target : target[t] = "running" => starts[t] > 0

\* What is said of a run stays true in a step that says nothing new but what
\* announces nothing, or what the run itself says, and that lets a settled run
\* be.
LEMMA NewsStayTrue ==
    ASSUME TypeOK, TypeOK', Started', NEW t \in Target, True(t),
           starts'[t] >= starts[t],
           target[t] \in Settled => target'[t] = target[t],
           News(t)' \subseteq News(t) \cup {"none", "pending", "dispatching", "dispatched"}
                                      \cup {StatusOf(target'[t])}
    PROVE  True(t)'
<1>1. target'[t] \in TargetState /\ starts[t] \in Nat /\ starts'[t] \in Nat
  BY DEF TypeOK
<1>2. ASSUME "running" \in News(t)' PROVE starts'[t] > 0
  <2>1. "running" \in News(t) \/ StatusOf(target'[t]) = "running"
    BY <1>2
  <2>2. StatusOf(target'[t]) = "running" => target'[t] = "running"
    BY <1>1 DEF StatusOf
  <2> QED
    BY <1>1, <2>1, <2>2 DEF True, Started
<1>3. ASSUME NEW s \in Settled, s \in News(t)' PROVE target'[t] = s
  <2>1. s \in News(t) \/ StatusOf(target'[t]) = s
    BY <1>3
  <2>2. StatusOf(target'[t]) = s => target'[t] = s
    BY <1>1, <1>3 DEF StatusOf
  <2> QED
    BY <1>3, <2>1, <2>2 DEF True
<1> QED
  BY <1>2, <1>3 DEF True

\* Neither the record nor a slow dispatcher ever announces what did not happen.
\* The proof needs OneExecutor: a run that ends was running, so no end of it
\* had been announced before.
THEOREM NoFalseNewsCorrect == Spec => []NoFalseNews
<1>1. Init => Started /\ NoFalseNews
  <2> SUFFICES ASSUME Init PROVE Started /\ NoFalseNews
    OBVIOUS
  <2>1. PICK t0 \in Target : dispatcher = [d \in Dispatcher |->
                                 [pc |-> "idle", for |-> t0, status |-> "none"]]
    BY DEF Init
  <2>2. \A t \in Target : News(t) \subseteq {"none"}
    BY <2>1 DEF Init, News, Said
  <2>3. Started
    BY DEF Init, Started
  <2> QED
    BY <2>2, <2>3 DEF NoFalseNews
<1>2. TypeOK /\ TypeOK' /\ OneExecutor /\ Started /\ NoFalseNews /\ [Next]_vars
        => Started' /\ NoFalseNews'
  <2> SUFFICES ASSUME TypeOK, TypeOK', OneExecutor, Started, NoFalseNews, [Next]_vars
               PROVE  Started' /\ NoFalseNews'
    OBVIOUS
  <2>0. /\ target \in [Target -> TargetState]
        /\ record \in [Target -> Status]
        /\ starts \in [Target -> Nat]
        /\ dispatcher \in [Dispatcher -> DispatcherSlot]
        /\ executor \in [Executor -> ExecutorSlot]
    BY DEF TypeOK
  <2>1. ASSUME UNCHANGED starts,
               \A t \in Target : target'[t] = "running" => target[t] = "running"
        PROVE  Started'
    BY <2>1 DEF Started
  <2>2. ASSUME Started', NEW t \in Target, t \notin overtaken,
               starts'[t] >= starts[t],
               target[t] \in Settled => target'[t] = target[t],
               News(t)' \subseteq
                   News(t) \cup {"none", "pending", "dispatching", "dispatched"}
                           \cup {StatusOf(target'[t])}
        PROVE  True(t)'
    <3>1. True(t)
      BY <2>2 DEF NoFalseNews, True
    <3> QED
      BY <2>2, <3>1, NewsStayTrue
  <2>3. ASSUME \A t \in Target : t \notin overtaken' => True(t)'
        PROVE  NoFalseNews'
    BY <2>3 DEF NoFalseNews, True
  <2>4. ASSUME UNCHANGED <<record, dispatcher>>, NEW t \in Target
        PROVE  News(t)' = News(t)
    BY <2>4 DEF News, Said
  <2>5. \A t \in Target : starts[t] >= starts[t]
    BY <2>0
  <2>6. ASSUME NEW u \in Target, Register(u) PROVE Started' /\ NoFalseNews'
    <3>1. target' = [target EXCEPT ![u] = "queued"] /\ target[u] = "absent"
      BY <2>6 DEF Register
    <3>2. UNCHANGED <<dispatcher, starts, overtaken>>
          /\ record' = [record EXCEPT ![u] = "pending"]
      BY <2>6 DEF Register, returns
    <3>3. Started'
      BY <2>0, <2>1, <3>1, <3>2
    <3>4. \A t \in Target : News(t)' \subseteq News(t) \cup {"pending"}
      BY <2>0, <3>2 DEF News, Said
    <3>5. \A t \in Target : target[t] \in Settled => target'[t] = target[t]
      BY <2>0, <3>1
    <3> QED
      BY <2>2, <2>3, <2>5, <3>2, <3>3, <3>4, <3>5
  <2>7. ASSUME UNCHANGED <<record, dispatcher, starts, overtaken>>,
               NEW u \in Target, NEW s \in TargetState \ {"running"},
               target' = [target EXCEPT ![u] = s], target[u] \notin Settled
        PROVE  Started' /\ NoFalseNews'
    <3>1. Started'
      BY <2>0, <2>1, <2>7
    <3>2. \A t \in Target : target[t] \in Settled => target'[t] = target[t]
      BY <2>0, <2>7
    <3> QED
      BY <2>2, <2>3, <2>4, <2>5, <2>7, <3>1, <3>2
  <2>8. ASSUME UNCHANGED <<record, dispatcher, target, starts, overtaken>>
        PROVE  Started' /\ NoFalseNews'
    <3>1. Started'
      BY <2>1, <2>8
    <3> QED
      BY <2>2, <2>3, <2>4, <2>5, <2>8, <3>1
  <2>9. ASSUME NEW u \in Target, CancelTarget(u) PROVE Started' /\ NoFalseNews'
    BY <2>7, <2>9 DEF CancelTarget, returns
  <2>10. ASSUME NEW u \in Target, ReserveSm4(u) PROVE Started' /\ NoFalseNews'
    BY <2>7, <2>10 DEF ReserveSm4, Reserve
  <2>11. ASSUME NEW u \in Target, ReturnToQueue(u) PROVE Started' /\ NoFalseNews'
    <3>1. /\ UNCHANGED <<record, dispatcher, starts>>
          /\ target' = [target EXCEPT ![u] = "queued"]
      BY <2>11 DEF ReturnToQueue
    <3>2. CASE target[u] \in {"queued", "reserved"}
      BY <2>7, <2>11, <3>1, <3>2 DEF ReturnToQueue
    <3>3. CASE target[u] \notin {"queued", "reserved"}
      <4>1. overtaken' = overtaken \cup {u}
        BY <2>11, <3>3 DEF ReturnToQueue
      <4>2. Started'
        BY <2>0, <2>1, <3>1
      <4>3. \A t \in Target \ {u} : target'[t] = target[t]
        BY <2>0, <3>1
      <4>4. ASSUME NEW t \in Target, t \notin overtaken' PROVE True(t)'
        BY <2>2, <2>4, <2>5, <3>1, <4>1, <4>2, <4>3, <4>4
      <4> QED
        BY <2>3, <4>2, <4>4
    <3> QED
      BY <3>2, <3>3
  <2>12. ASSUME NEW u \in Target, Deliver(u) PROVE Started' /\ NoFalseNews'
    <3>1. PICK e \in Executor : Start(e, u)
      BY <2>12 DEF Deliver
    <3>2. UNCHANGED <<record, dispatcher, overtaken>>
      BY <3>1 DEF Start, returns
    <3>3. CASE Startable(u)
      <4>1. /\ target' = [target EXCEPT ![u] = "running"]
            /\ starts' = [starts EXCEPT ![u] = @ + 1]
        BY <3>1, <3>3 DEF Start
      <4>2. target[u] \notin Settled
        BY <3>3 DEF Startable
      <4>3. Started'
        BY <2>0, <4>1 DEF Started
      <4>4. \A t \in Target : starts'[t] >= starts[t]
        BY <2>0, <4>1
      <4>5. \A t \in Target : target[t] \in Settled => target'[t] = target[t]
        BY <2>0, <4>1, <4>2
      <4> QED
        BY <2>2, <2>3, <2>4, <3>2, <4>3, <4>4, <4>5
    <3>4. CASE ~ Startable(u)
      BY <2>8, <3>1, <3>2, <3>4 DEF Start
    <3> QED
      BY <3>3, <3>4
  <2>13. ASSUME NEW e \in Executor, Finish(e) PROVE Started' /\ NoFalseNews'
    <3> DEFINE u == executor[e].for
    <3>1. u \in Target
      BY <2>0, SlotFields
    <3>2. PICK s \in Settled : target' = [target EXCEPT ![u] = s]
      BY <2>13 DEF Finish
    <3>3. UNCHANGED <<record, dispatcher, starts, overtaken>>
      BY <2>13 DEF Finish, returns
    <3>4. u \notin overtaken => target[u] = "running"
      BY <2>13, <3>1 DEF OneExecutor, Inside, Finish
    <3>5. Started'
      BY <2>0, <2>1, <3>1, <3>2, <3>3
    <3>6. ASSUME NEW t \in Target, t \notin overtaken'
          PROVE  True(t)'
      <4>1. target[t] \in Settled => target'[t] = target[t]
        BY <2>0, <3>1, <3>2, <3>3, <3>4, <3>6
      <4> QED
        BY <2>2, <2>4, <2>5, <3>3, <3>5, <3>6, <4>1
    <3> QED
      BY <2>3, <3>5, <3>6
  <2>14. ASSUME UNCHANGED <<target, starts, overtaken>>,
                \A t \in Target : News(t)' \subseteq
                    News(t) \cup {"none", "pending", "dispatching", "dispatched"}
                            \cup {StatusOf(target[t])}
         PROVE  Started' /\ NoFalseNews'
    <3>1. Started'
      BY <2>1, <2>14
    <3> QED
      BY <2>2, <2>3, <2>5, <2>14, <3>1
  <2>15. ASSUME NEW u \in Target, ResetStale(u) PROVE Started' /\ NoFalseNews'
    <3>1. \A t \in Target : News(t)' \subseteq News(t) \cup {"pending"}
      BY <2>0, <2>15 DEF ResetStale, News, Said
    <3> QED
      BY <2>14, <2>15, <3>1 DEF ResetStale, returns
  <2>16. ASSUME NEW d \in Dispatcher, NEW pc, NEW u \in Target, NEW s,
                Become(d, pc, u, s)
         PROVE  \A t \in Target :
                  Said(t)' \subseteq Said(t) \cup (IF t = u THEN {s} ELSE {})
    BY <2>0, <2>16 DEF Become, Said
  <2>17. ASSUME NEW u \in Target, ReconcileOrClaim(u) PROVE Started' /\ NoFalseNews'
    <3>1. PICK d \in Dispatcher : ReadForReconcile(d, u) \/ Claim(d, u)
      BY <2>17 DEF ReconcileOrClaim
    <3>2. UNCHANGED <<target, starts, overtaken>>
      BY <3>1 DEF ReadForReconcile, Claim, returns
    <3>3. CASE ReadForReconcile(d, u)
      <4>1. Become(d, "reconciling", u, StatusOf(target[u])) /\ UNCHANGED record
        BY <3>3 DEF ReadForReconcile
      <4>2. \A t \in Target : News(t)' \subseteq News(t) \cup {StatusOf(target[t])}
        BY <2>16, <4>1 DEF News
      <4> QED
        BY <2>14, <3>2, <4>2
    <3>4. CASE Claim(d, u)
      <4>1. /\ Become(d, "sending", u, "none")
            /\ record' = [record EXCEPT ![u] = "dispatching"]
        BY <3>4 DEF Claim
      <4>2. \A t \in Target : News(t)' \subseteq News(t) \cup {"none", "dispatching"}
        BY <2>0, <2>16, <4>1 DEF News
      <4> QED
        BY <2>14, <3>2, <4>2
    <3> QED
      BY <3>1, <3>3, <3>4
  <2>18. ASSUME NEW d \in Dispatcher, WriteReconciled(d) \/ Record(d)
         PROVE  Started' /\ NoFalseNews'
    <3> DEFINE u == dispatcher[d].for
    <3>1. u \in Target
      BY <2>0, SlotFields
    <3>2. /\ record' = [record EXCEPT ![u] = dispatcher[d].status]
          /\ Become(d, "idle", u, "none")
          /\ UNCHANGED <<target, starts, overtaken>>
      BY <2>18 DEF WriteReconciled, Record, returns
    <3>3. dispatcher[d].status \in News(u)
      BY DEF News, Said
    <3>4. \A t \in Target : record'[t] \in News(t)
      BY <2>0, <3>1, <3>2, <3>3 DEF News
    <3>5. \A t \in Target : News(t)' \subseteq News(t) \cup {"none"}
      BY <2>16, <3>1, <3>2, <3>4 DEF News
    <3> QED
      BY <2>14, <3>2, <3>5
  <2>19. ASSUME NEW d \in Dispatcher, Send(d) \/ CrashDispatcher(d)
         PROVE  Started' /\ NoFalseNews'
    <3> DEFINE u == dispatcher[d].for
    <3>1. u \in Target
      BY <2>0, SlotFields
    <3>2. UNCHANGED <<record, target, starts, overtaken>>
      BY <2>19 DEF Send, CrashDispatcher, returns
    <3>3. \/ Become(d, "recording", u, "dispatched")
          \/ Become(d, "recording", u, "pending")
          \/ Become(d, "idle", u, "none")
      BY <2>19 DEF Send, CrashDispatcher
    <3>4. \A t \in Target : News(t)' \subseteq News(t) \cup {"none", "pending", "dispatched"}
      BY <2>16, <3>1, <3>2, <3>3 DEF News
    <3> QED
      BY <2>14, <3>2, <3>4
  <2>20. ASSUME NEW d \in Dispatcher, SendSm4(d) PROVE Started' /\ NoFalseNews'
    <3> DEFINE u == dispatcher[d].for
               said == IF StatusOf(target'[u]) = "none" THEN "pending"
                       ELSE StatusOf(target'[u])
    <3>1. u \in Target
      BY <2>0, SlotFields
    <3>2. UNCHANGED <<record, starts, overtaken>> /\ Become(d, "recording", u, said)
      BY <2>20 DEF SendSm4
    <3>3. \/ target' = [target EXCEPT ![u] = "reserved"] /\ target[u] = "queued"
          \/ UNCHANGED target
      BY <2>20 DEF SendSm4, Reserve
    <3>4. \A t \in Target : News(t)' \subseteq
              News(t) \cup {"pending"} \cup {StatusOf(target'[t])}
      BY <2>16, <3>1, <3>2 DEF News
    <3>5. /\ \A t \in Target : target[t] \in Settled => target'[t] = target[t]
          /\ \A t \in Target : target'[t] = "running" => target[t] = "running"
      BY <2>0, <3>1, <3>3
    <3>6. Started'
      BY <2>1, <3>2, <3>5
    <3> QED
      BY <2>2, <2>3, <2>5, <3>2, <3>4, <3>5, <3>6
  <2>21. ASSUME NEW u \in Target, ReadExpired(u) PROVE Started' /\ NoFalseNews'
    BY <2>8, <2>21 DEF ReadExpired
  <2>22. ASSUME NEW e \in Executor, Ack(e) \/ CrashExecutor(e) \/ Redeliver(e)
         PROVE  Started' /\ NoFalseNews'
    BY <2>8, <2>22 DEF Ack, CrashExecutor, Redeliver, returns
  <2>23. CASE UNCHANGED vars
    BY <2>8, <2>23 DEF vars, returns
  <2> QED
    BY <2>6, <2>9, <2>10, <2>11, <2>12, <2>13, <2>15, <2>17, <2>18, <2>19, <2>20,
       <2>21, <2>22, <2>23 DEF Next, DispatchStep
<1> QED
  BY <1>1, <1>2, TypeCorrect, OneExecutorCorrect, PTL DEF Spec

-----------------------------------------------------------------------------
\* Nobody works on a run that was not registered.
Fresh == \A t \in Target : target[t] = "absent" =>
            /\ record[t] = "none"
            /\ \A d \in Dispatcher : dispatcher[d].for = t => dispatcher[d].pc = "idle"

\* What keeps a waiting run from being forgotten: a dispatcher that is about to
\* record that it was dispatched has sent a message that nobody consumed, and
\* none is about to report a state the run has not reached.
Remembered(t) ==
    (t \notin sm4 /\ target[t] = "queued") =>
        /\ record[t] \in {"pending", "dispatching"} \/ messages[t] > 0
        /\ \A d \in Dispatcher : dispatcher[d].for = t =>
              /\ dispatcher[d].pc # "reconciling"
              /\ dispatcher[d].pc = "recording" =>
                    dispatcher[d].status = "pending" \/ messages[t] > 0

\* A run that waits for its executor is dispatched again, or its message is under
\* way, whatever broker errors, crashes and slow dispatchers there are.
THEOREM NothingForgottenCorrect == Spec => []NothingForgotten
<1> DEFINE IInv == Fresh /\ \A t \in Target : Remembered(t)
<1>1. Init => IInv
  BY DEF Init, Fresh, Remembered
<1>2. TypeOK /\ TypeOK' /\ IInv /\ [Next]_vars => IInv'
  <2> SUFFICES ASSUME TypeOK, TypeOK', IInv, [Next]_vars, NEW t \in Target
               PROVE  /\ Remembered(t)'
                      /\ target'[t] = "absent" =>
                            /\ record'[t] = "none"
                            /\ \A d \in Dispatcher : dispatcher'[d].for = t =>
                                  dispatcher'[d].pc = "idle"
    BY DEF Fresh
  <2> DEFINE Untouched == target'[t] = "absent" =>
                            /\ record'[t] = "none"
                            /\ \A d \in Dispatcher : dispatcher'[d].for = t =>
                                  dispatcher'[d].pc = "idle"
  <2>0. /\ target \in [Target -> TargetState]
        /\ record \in [Target -> Status]
        /\ messages \in [Target -> Nat]
        /\ dispatcher \in [Dispatcher -> DispatcherSlot]
        /\ executor \in [Executor -> ExecutorSlot]
        /\ returning \subseteq sm4
    BY DEF TypeOK
  <2>1. /\ Remembered(t)
        /\ target[t] = "absent" =>
             /\ record[t] = "none"
             /\ \A d \in Dispatcher : dispatcher[d].for = t => dispatcher[d].pc = "idle"
    BY DEF Fresh
  <2>2. ASSUME UNCHANGED <<record, dispatcher, sm4>>, messages'[t] >= messages[t],
               target'[t] = target[t]
        PROVE  Remembered(t)' /\ Untouched
    <3>1. messages[t] \in Nat /\ messages'[t] \in Nat
      BY DEF TypeOK
    <3>2. messages[t] > 0 => messages'[t] > 0
      BY <2>2, <3>1
    <3>3. Untouched
      BY <2>1, <2>2
    <3>4. Remembered(t)'
      BY <2>1, <2>2, <3>2 DEF Remembered
    <3> QED
      BY <3>3, <3>4
  <2>3. ASSUME UNCHANGED <<record, dispatcher>>,
               target'[t] # "absent", t \in sm4' \/ target'[t] # "queued"
        PROVE  Remembered(t)' /\ Untouched
    BY <2>3 DEF Remembered
  <2>4. messages[t] >= messages[t]
    BY <2>0
  <2>5. ASSUME NEW u \in Target, Register(u) PROVE Remembered(t)' /\ Untouched
    <3>1. /\ target[u] = "absent" /\ target' = [target EXCEPT ![u] = "queued"]
          /\ record' = [record EXCEPT ![u] = "pending"]
          /\ UNCHANGED <<messages, dispatcher>>
          /\ sm4' = sm4 \/ sm4' = sm4 \cup {u}
      BY <2>5 DEF Register
    <3>2. CASE u = t
      <4>1. target'[t] = "queued" /\ record'[t] = "pending"
        BY <2>0, <3>1, <3>2
      <4>2. \A d \in Dispatcher : dispatcher'[d].for = t => dispatcher'[d].pc = "idle"
        BY <2>1, <3>1, <3>2
      <4>3. Untouched
        BY <4>1
      <4>4. Remembered(t)'
        BY <4>1, <4>2 DEF Remembered
      <4> QED
        BY <4>3, <4>4
    <3>3. CASE u # t
      <4>1. target'[t] = target[t] /\ record'[t] = record[t] /\ (t \in sm4' <=> t \in sm4)
        BY <2>0, <3>1, <3>3
      <4> QED
        BY <2>1, <3>1, <4>1 DEF Remembered
    <3> QED
      BY <3>2, <3>3
  <2>6. ASSUME NEW u \in Target, CancelTarget(u) PROVE Remembered(t)' /\ Untouched
    <3>1. /\ target' = [target EXCEPT ![u] = "failed"]
          /\ UNCHANGED <<record, messages, dispatcher, sm4>>
      BY <2>6 DEF CancelTarget
    <3> QED
      BY <2>0, <2>2, <2>3, <2>4, <3>1
  <2>7. ASSUME NEW u \in Target, Reserve(u), UNCHANGED <<record, dispatcher, sm4>>
        PROVE  Remembered(t)' /\ Untouched
    <3>1. u \in sm4 /\ target' = [target EXCEPT ![u] = "reserved"]
      BY <2>7 DEF Reserve
    <3>2. messages'[t] >= messages[t]
      BY <2>0, <2>7 DEF Reserve
    <3> QED
      BY <2>0, <2>2, <2>3, <2>7, <3>1, <3>2
  <2>8. ASSUME NEW u \in Target, ReserveSm4(u) PROVE Remembered(t)' /\ Untouched
    BY <2>7, <2>8 DEF ReserveSm4
  <2>9. ASSUME NEW u \in Target, ReturnToQueue(u) PROVE Remembered(t)' /\ Untouched
    <3>1. /\ u \in sm4 /\ target' = [target EXCEPT ![u] = "queued"]
          /\ UNCHANGED <<record, messages, dispatcher, sm4>>
      BY <2>0, <2>9 DEF ReturnToQueue
    <3> QED
      BY <2>0, <2>2, <2>3, <2>4, <3>1
  <2>10. ASSUME NEW u \in Target, ResetStale(u) PROVE Remembered(t)' /\ Untouched
    <3>1. /\ record[u] = "dispatching" /\ record' = [record EXCEPT ![u] = "pending"]
          /\ UNCHANGED <<target, messages, dispatcher, sm4>>
      BY <2>10 DEF ResetStale
    <3>2. record'[t] = record[t] \/ (record[t] = "dispatching" /\ record'[t] = "pending")
      BY <2>0, <3>1
    <3> QED
      BY <2>1, <3>1, <3>2 DEF Remembered
  <2>11. ASSUME NEW d \in Dispatcher, NEW u \in Target, ReadForReconcile(d, u)
         PROVE  Remembered(t)' /\ Untouched
    <3>1. /\ target[u] # "queued" /\ record[u] # "none"
          /\ UNCHANGED <<record, target, messages, sm4>>
      BY <2>11 DEF ReadForReconcile, StatusOf
    <3>2. /\ dispatcher'[d].for = u
          /\ \A x \in Dispatcher \ {d} : dispatcher'[x] = dispatcher[x]
      BY <2>0, <2>11 DEF ReadForReconcile, Become
    <3> QED
      BY <2>1, <3>1, <3>2 DEF Remembered
  <2>12. ASSUME NEW d \in Dispatcher, NEW u \in Target, Claim(d, u)
         PROVE  Remembered(t)' /\ Untouched
    <3>1. /\ record[u] = "pending" /\ record' = [record EXCEPT ![u] = "dispatching"]
          /\ UNCHANGED <<target, messages, sm4>>
      BY <2>12 DEF Claim
    <3>2. /\ dispatcher'[d].for = u /\ dispatcher'[d].pc = "sending"
          /\ \A x \in Dispatcher \ {d} : dispatcher'[x] = dispatcher[x]
      BY <2>0, <2>12 DEF Claim, Become
    <3>3. record'[t] = record[t] \/ (record[t] = "pending" /\ record'[t] = "dispatching")
      BY <2>0, <3>1
    <3>4. u = t => target[t] # "absent"
      BY <2>1, <3>1
    <3>5. target[t] = "absent" => record'[t] = "none"
      BY <2>0, <2>1, <3>1, <3>4
    <3>6. Untouched
      BY <2>1, <3>1, <3>2, <3>4, <3>5
    <3>7. Remembered(t)'
      BY <2>1, <3>1, <3>2, <3>3 DEF Remembered
    <3> QED
      BY <3>6, <3>7
  <2>13. ASSUME NEW u \in Target, ReconcileOrClaim(u) PROVE Remembered(t)' /\ Untouched
    BY <2>11, <2>12, <2>13 DEF ReconcileOrClaim
  <2>14. ASSUME NEW d \in Dispatcher, WriteReconciled(d) \/ Record(d)
         PROVE  Remembered(t)' /\ Untouched
    <3> DEFINE u == dispatcher[d].for
    <3>1. u \in Target
      BY <2>0, SlotFields
    <3>2. /\ record' = [record EXCEPT ![u] = dispatcher[d].status]
          /\ UNCHANGED <<target, messages, sm4>>
          /\ dispatcher[d].pc \in {"reconciling", "recording"}
      BY <2>14 DEF WriteReconciled, Record
    <3>3. /\ dispatcher'[d].for = u /\ dispatcher'[d].pc = "idle"
          /\ \A x \in Dispatcher \ {d} : dispatcher'[x] = dispatcher[x]
      BY <2>0, <2>14 DEF WriteReconciled, Record, Become
    <3>4. CASE u = t
      <4>1. target[t] # "absent"
        BY <2>1, <3>2, <3>4
      <4>2. record'[t] = dispatcher[d].status
        BY <2>0, <3>2, <3>4
      <4>3. (t \notin sm4 /\ target[t] = "queued") =>
               record'[t] = "pending" \/ messages[t] > 0
        BY <2>1, <3>2, <3>4, <4>2 DEF Remembered
      <4> QED
        BY <2>1, <3>2, <3>3, <4>1, <4>3 DEF Remembered
    <3>5. CASE u # t
      <4>1. record'[t] = record[t]
        BY <2>0, <3>2, <3>5
      <4> QED
        BY <2>1, <3>2, <3>3, <3>5, <4>1 DEF Remembered
    <3> QED
      BY <3>4, <3>5
  <2>15. ASSUME NEW d \in Dispatcher, Send(d) PROVE Remembered(t)' /\ Untouched
    <3> DEFINE u == dispatcher[d].for
    <3>1. u \in Target
      BY <2>0, SlotFields
    <3>2. dispatcher[d].pc = "sending" /\ UNCHANGED <<record, target, sm4>>
      BY <2>15 DEF Send
    <3>3. /\ dispatcher'[d].for = u
          /\ \A x \in Dispatcher \ {d} : dispatcher'[x] = dispatcher[x]
          /\ dispatcher'[d].pc = "recording"
          /\ \/ dispatcher'[d].status = "pending"
             \/ messages' = [messages EXCEPT ![u] = @ + 1]
      BY <2>0, <2>15 DEF Send, Become
    <3>4. messages' = [messages EXCEPT ![u] = @ + 1] \/ messages' = messages
      BY <2>15 DEF Send
    <3>5. /\ messages[t] > 0 => messages'[t] > 0
          /\ messages' = [messages EXCEPT ![u] = @ + 1] /\ u = t => messages'[t] > 0
      BY <2>0, <3>1, <3>4
    <3>6. Untouched
      BY <2>1, <3>2, <3>3
    <3>7. Remembered(t)'
      BY <2>1, <3>2, <3>3, <3>5 DEF Remembered
    <3> QED
      BY <3>6, <3>7
  <2>16. ASSUME NEW d \in Dispatcher, SendSm4(d) PROVE Remembered(t)' /\ Untouched
    <3> DEFINE u == dispatcher[d].for
    <3>1. u \in Target
      BY <2>0, SlotFields
    <3>2. /\ u \in sm4 /\ dispatcher[d].pc = "sending" /\ UNCHANGED <<record, sm4>>
          /\ Reserve(u) \/ UNCHANGED <<target, messages>>
      BY <2>16 DEF SendSm4
    <3>3. /\ dispatcher'[d].for = u
          /\ \A x \in Dispatcher \ {d} : dispatcher'[x] = dispatcher[x]
      BY <2>0, <2>16 DEF SendSm4, Become
    <3>4. /\ messages[t] > 0 => messages'[t] > 0
          /\ u # t => target'[t] = target[t]
          /\ target'[t] = "absent" => target[t] = "absent"
      BY <2>0, <3>1, <3>2 DEF Reserve
    <3>5. u = t => target[t] # "absent"
      BY <2>1, <3>2
    <3>6. Untouched
      BY <2>1, <3>2, <3>3, <3>4, <3>5
    <3>7. Remembered(t)'
      BY <2>1, <3>2, <3>3, <3>4 DEF Remembered
    <3> QED
      BY <3>6, <3>7
  <2>17. ASSUME NEW d \in Dispatcher, CrashDispatcher(d)
         PROVE  Remembered(t)' /\ Untouched
    <3>1. UNCHANGED <<record, target, messages, sm4>>
      BY <2>17 DEF CrashDispatcher
    <3>2. /\ dispatcher'[d].pc = "idle"
          /\ \A x \in Dispatcher \ {d} : dispatcher'[x] = dispatcher[x]
      BY <2>0, <2>17 DEF CrashDispatcher, Become
    <3> QED
      BY <2>1, <3>1, <3>2 DEF Remembered
  <2>18. ASSUME NEW u \in Target, ReadExpired(u) PROVE Remembered(t)' /\ Untouched
    BY <2>2, <2>4, <2>18 DEF ReadExpired
  <2>19. ASSUME NEW u \in Target, Deliver(u) PROVE Remembered(t)' /\ Untouched
    <3>1. PICK e \in Executor : Start(e, u)
      BY <2>19 DEF Deliver
    <3>2. /\ UNCHANGED <<record, dispatcher, sm4>>
          /\ messages' = [messages EXCEPT ![u] = @ - 1]
          /\ IF Startable(u) THEN target' = [target EXCEPT ![u] = "running"]
             ELSE UNCHANGED target
      BY <3>1 DEF Start
    <3>3. CASE u # t
      BY <2>0, <2>2, <2>4, <3>2, <3>3
    <3>4. CASE u = t /\ Startable(u)
      BY <2>0, <2>3, <3>2, <3>4
    <3>5. CASE u = t /\ ~ Startable(u)
      <4>1. target' = target
        BY <3>2, <3>5
      <4>2. t \in sm4 \/ target[t] # "queued"
        BY <3>5 DEF Startable
      <4> QED
        BY <2>1, <3>2, <4>1, <4>2 DEF Remembered
    <3> QED
      BY <3>3, <3>4, <3>5
  <2>20. ASSUME NEW e \in Executor, Finish(e) PROVE Remembered(t)' /\ Untouched
    <3>1. executor[e].for \in Target
      BY <2>0, SlotFields
    <3>2. PICK s \in Settled : target' = [target EXCEPT ![executor[e].for] = s]
      BY <2>20 DEF Finish
    <3>3. UNCHANGED <<record, dispatcher, messages, sm4>>
      BY <2>20 DEF Finish
    <3>4. target'[t] = target[t] \/ target'[t] \in Settled
      BY <2>0, <3>1, <3>2
    <3> QED
      BY <2>2, <2>3, <2>4, <3>3, <3>4
  <2>21. ASSUME NEW e \in Executor, Ack(e) \/ CrashExecutor(e) \/ Redeliver(e)
         PROVE  Remembered(t)' /\ Untouched
    <3>1. executor[e].for \in Target
      BY <2>0, SlotFields
    <3>2. messages'[t] >= messages[t]
      BY <2>0, <2>21, <3>1 DEF Ack, CrashExecutor, Redeliver
    <3> QED
      BY <2>2, <2>21, <3>2 DEF Ack, CrashExecutor, Redeliver
  <2>22. CASE UNCHANGED vars
    BY <2>2, <2>4, <2>22 DEF vars
  <2> QED
    BY <2>5, <2>6, <2>8, <2>9, <2>10, <2>13, <2>14, <2>15, <2>16, <2>17, <2>18,
       <2>19, <2>20, <2>21, <2>22 DEF Next, DispatchStep
<1>3. TypeOK /\ IInv => NothingForgotten
  <2> SUFFICES ASSUME TypeOK, IInv, NEW t \in Target, Forgotten(t) PROVE FALSE
    BY DEF NothingForgotten
  <2> QED
    BY DEF Forgotten, Remembered
<1> HIDE DEF IInv
<1> QED
  BY <1>1, <1>2, <1>3, TypeCorrect, PTL DEF Spec
===============================================================================

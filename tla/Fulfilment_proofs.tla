-------------------------- MODULE Fulfilment_proofs --------------------------
(***************************************************************************)
(* Proofs about Fulfilment for any number of orders, items, sessions,      *)
(* events and administrators, and for any bounds.                          *)
(***************************************************************************)
EXTENDS Fulfilment, SequenceTheorems, TLAPS

-----------------------------------------------------------------------------
(* Type correctness                                                        *)

\* Replacing an element, or one that is not there, leaves a sequence.
LEMMA ExceptInSeq ==
  ASSUME NEW S, NEW q \in Seq(S), NEW n, NEW x \in S
  PROVE  [q EXCEPT ![n] = x] \in Seq(S)
<1>1. CASE n \in 1 .. Len(q)
  BY <1>1, ExceptSeq
<1>2. CASE n \notin 1 .. Len(q)
  <2>1. DOMAIN q = 1 .. Len(q) OBVIOUS
  <2>2. [q EXCEPT ![n] = x] = q BY <1>2, <2>1
  <2> QED BY <2>2
<1> QED BY <1>1, <1>2

LEMMA SetJobTyped ==
  ASSUME TypeOK, NEW i \in Items, NEW n, NEW s \in JobStatus, SetJob(i, n, s)
  PROVE  jobs' \in [Items -> Seq(JobStatus)]
<1>1. jobs[i] \in Seq(JobStatus) BY DEF TypeOK
<1>2. [jobs[i] EXCEPT ![n] = s] \in Seq(JobStatus) BY <1>1, ExceptInSeq
<1> QED BY <1>2 DEF TypeOK, SetJob

LEMMA SetLatestJobTyped ==
  ASSUME TypeOK, NEW i \in Items, NEW s \in JobStatus, SetLatestJob(i, s)
  PROVE  jobs' \in [Items -> Seq(JobStatus)]
BY SetJobTyped DEF SetLatestJob, TypeOK

LEMMA ForgetTyped ==
  ASSUME TypeOK, NEW e \in Events, Forget(e)
  PROVE  /\ saw' \in [Events -> OrderStatus]
         /\ now' \in [Events -> Nat]
         /\ newInvoice' \in [Events -> BOOLEAN]
         /\ newPayment' \in [Events -> BOOLEAN]
         /\ seen' \in [Events -> [Items -> ServiceStatus \cup {"none"}]]
         /\ newJobs' \in [Events -> SUBSET Items]
BY DEF TypeOK, Forget, NoService, OrderStatus

LEMMA UnlockedTyped ==
  ASSUME TypeOK, NEW t, Unlocked(t)
  PROVE  /\ orderLock' \in [Orders -> Txs \cup {Free}]
         /\ itemLock' \in [Items -> Txs \cup {Free}]
BY DEF TypeOK, Unlocked

LEMMA EventOrderTyped == \A e \in Events : EventOrder(e) \in Orders
BY ConstantsAssumption DEF EventOrder

\* A transaction that is part of a cycle is waiting for a lock.
LEMMA VictimWaits ==
  ASSUME NEW e \in Events, Deadlocked(e)
  PROVE  pc[e] \in TxPC
<1>1. WaitsFor(e) # {}
  BY DEF Deadlocked, Cycle
<1>2. pc[e] \in {"mark", "write", "commit"}
  BY <1>1 DEF WaitsFor
<1> QED BY <1>2 DEF TxPC

LEMMA InsertedTyped ==
  ASSUME TypeOK, NEW i \in Items, NEW t \in Nat
  PROVE  Inserted(i, t) \in [job : Nat, at : Nat]
<1>1. latest[i] \in [job : Nat, at : Nat] /\ jobs[i] \in Seq(JobStatus)
  BY DEF TypeOK
<1>2. Len(jobs[i]) + 1 \in Nat
  BY <1>1
<1> QED BY <1>1, <1>2 DEF Inserted

LEMMA RollbackTyped ==
  ASSUME TypeOK, NEW e \in Events, Rollback(e), faults' \in Nat
  PROVE  TypeOK'
BY ForgetTyped, UnlockedTyped
   DEF TypeOK, Rollback, db, jobRows, loop, queue, noted, PC, LivePC, TxPC

\* What a commit writes, but for the tasks it leaves to enqueue.
LEMMA CommittedTyped ==
  ASSUME TypeOK, NEW e \in Events, Committed(e)
  PROVE  /\ order' \in [Orders -> OrderStatus]
         /\ invoices' \in [Orders -> Nat]
         /\ payment' \in [Sessions -> {"none", "succeeded"}]
         /\ service' \in [Items -> ServiceStatus \cup {"none"}]
         /\ jobs' \in [Items -> Seq(JobStatus)]
         /\ latest' \in [Items -> [job : Nat, at : Nat]]
         /\ {<<i, Len(jobs[i]) + 1>> : i \in newJobs[e]} \subseteq Items \X JobNo
<1> USE ConstantsAssumption DEF TypeOK
<1> EventOrder(e) \in Orders /\ SessionOf[e] \in Sessions
  BY EventOrderTyped
<1>1. order' \in [Orders -> OrderStatus]
  BY DEF Committed, OrderStatus
<1>6. invoices' \in [Orders -> Nat]
  BY DEF Committed
<1>2. payment' \in [Sessions -> {"none", "succeeded"}]
  BY DEF Committed
<1>3. service' \in [Items -> ServiceStatus \cup {"none"}]
  BY DEF Committed, ServiceStatus
<1>4. jobs' \in [Items -> Seq(JobStatus)]
  <2> SUFFICES ASSUME NEW i \in Items PROVE jobs'[i] \in Seq(JobStatus)
    BY DEF Committed
  <2>1. jobs[i] \in Seq(JobStatus) /\ "pending" \in JobStatus BY DEF JobStatus
  <2>2. Append(jobs[i], "pending") \in Seq(JobStatus) BY <2>1
  <2> QED BY <2>1, <2>2 DEF Committed
<1>5. {<<i, Len(jobs[i]) + 1>> : i \in newJobs[e]} \subseteq Items \X JobNo
  <2>1. \A i \in newJobs[e] : Len(jobs[i]) + 1 \in JobNo
    <3> TAKE i \in newJobs[e]
    <3>1. i \in Items /\ jobs[i] \in Seq(JobStatus) OBVIOUS
    <3>2. Len(jobs[i]) < MaxJobs BY DEF Committed
    <3>3. Len(jobs[i]) \in Nat BY <3>1
    <3> QED BY <3>2, <3>3 DEF JobNo
  <2> QED BY <2>1
<1>7. latest' \in [Items -> [job : Nat, at : Nat]]
  <2> SUFFICES ASSUME NEW i \in Items PROVE latest'[i] \in [job : Nat, at : Nat]
    BY DEF Committed
  <2>1. Inserted(i, now[e]) \in [job : Nat, at : Nat]
    BY InsertedTyped
  <2> QED BY <2>1 DEF Committed
<1> QED BY <1>1, <1>2, <1>3, <1>4, <1>5, <1>6, <1>7

LEMMA ProceedTyped ==
  ASSUME TypeOK, NEW e \in Events, Proceed(e)
  PROVE  TypeOK'
<1> USE ConstantsAssumption DEF TypeOK, db, jobRows, locks, locals, loop, handler, queue,
        history, noted, Goto, PC, LivePC, TxPC
<1> EventOrder(e) \in Orders /\ SessionOf[e] \in Sessions
  BY EventOrderTyped
<1>1. CASE ReadOrder(e)
  BY <1>1 DEF ReadOrder
<1>2. CASE MarkPaid(e)
  <2>1. orderLock' \in [Orders -> Txs \cup {Free}]
    <3>1. CASE saw[e] = "paid"
      BY <1>2, <3>1 DEF MarkPaid
    <3>2. CASE saw[e] # "paid"
      <4>1. orderLock' = [orderLock EXCEPT ![EventOrder(e)] = e]
        BY <1>2, <3>2 DEF MarkPaid
      <4>2. e \in Txs \cup {Free} BY DEF Txs
      <4>3. orderLock \in [Orders -> Txs \cup {Free}] OBVIOUS
      <4> HIDE DEF TypeOK
      <4> QED BY <4>1, <4>2, <4>3
    <3> QED BY <3>1, <3>2
  <2> QED BY <1>2, <2>1 DEF MarkPaid
<1>3. CASE CreateInvoice(e)
  BY <1>3 DEF CreateInvoice
<1>4. CASE UpsertPayment(e)
  BY <1>4 DEF UpsertPayment
<1>5. CASE ReadServices(e)
  BY <1>5 DEF ReadServices
<1>6. CASE WriteServices(e)
  BY <1>6 DEF WriteServices, Txs
<1>7. CASE EnsureJobs(e)
  BY <1>7 DEF EnsureJobs, ItemsOf
<1>8. CASE CommitTx(e)
  <2>1. Committed(e) BY <1>8 DEF CommitTx
  <2>2. toEnqueue' \in [Events -> SUBSET (Items \X JobNo)]
    BY <1>8, <2>1, CommittedTyped DEF CommitTx
  <2>3. Forget(e) /\ Unlocked(e) /\ pc' \in [Events -> PC]
        /\ UNCHANGED <<event, toReset, reply, queue, adm>>
    BY <2>1 DEF Committed
  <2> QED
    BY <1>8, <2>1, <2>2, <2>3, CommittedTyped, ForgetTyped, UnlockedTyped DEF CommitTx
<1>9. CASE UniqueViolation(e)
  BY <1>9, RollbackTyped DEF UniqueViolation, NoFault
<1>10. CASE ConnBusy(e)
  BY <1>10, RollbackTyped DEF ConnBusy, NoFault
<1>11. CASE EventIsVictim(e)
  BY <1>11, RollbackTyped DEF EventIsVictim, NoFault
<1>12. CASE EnqueueTask(e)
  <2>1. PICK i \in Items, n \in JobNo :
          /\ task' = [task EXCEPT ![i][n] = "queued"]
          /\ toEnqueue' = [toEnqueue EXCEPT ![e] = @ \ {<<i, n>>}]
    BY <1>12 DEF EnqueueTask
  <2>2. task' \in [Items -> [JobNo -> TaskStatus]] BY <2>1 DEF TaskStatus
  <2>3. toEnqueue' \in [Events -> SUBSET (Items \X JobNo)] BY <2>1
  <2> QED BY <1>12, <2>2, <2>3 DEF EnqueueTask
<1>13. CASE ResetService(e)
  BY <1>13 DEF ResetService, ServiceStatus
<1>14. CASE FinishEvent(e)
  BY <1>14 DEF FinishEvent
<1> QED
  BY <1>1, <1>2, <1>3, <1>4, <1>5, <1>6, <1>7, <1>8, <1>9, <1>10, <1>11, <1>12,
     <1>13, <1>14 DEF Proceed
LEMMA WebhookTyped ==
  ASSUME TypeOK, NEW e \in Events, Webhook(e)
  PROVE  TypeOK'
<1> USE DEF TypeOK, db, jobRows, locks, locals, loop, handler, queue, history, noted, Goto, Fault, Faults,
        Crash, PC, LivePC, TxPC
<1>1. CASE ReceiveEvent(e)
  BY <1>1 DEF ReceiveEvent
<1>2. CASE ReceiveFails(e)
  BY <1>2 DEF ReceiveFails
<1>3. CASE DuplicateDelivery(e)
  BY <1>3 DEF DuplicateDelivery
<1>4. CASE TxFails(e)
  <2>1. Rollback(e) /\ faults' \in Nat BY <1>4 DEF TxFails
  <2> QED BY <2>1, RollbackTyped
<1>5. CASE EnqueueFails(e)
  <2>1. PICK i \in Items, n \in JobNo :
          /\ SetJob(i, n, "failed") \/ UNCHANGED jobs
          /\ toEnqueue' = [toEnqueue EXCEPT ![e] = @ \ {<<i, n>>}]
          /\ toReset' = [toReset EXCEPT ![e] = {i}]
    BY <1>5 DEF EnqueueFails
  <2>2. jobs' \in [Items -> Seq(JobStatus)]
    BY <2>1, SetJobTyped DEF JobStatus
  <2>3. faults' \in Nat
    BY <1>5 DEF EnqueueFails
  <2>4. toReset' \in [Events -> SUBSET Items]
    BY <2>1
  <2>5. unmarked' \subseteq Items \X JobNo
    BY <1>5 DEF EnqueueFails
  <2> QED BY <1>5, <2>1, <2>2, <2>3, <2>4, <2>5 DEF EnqueueFails
<1>6. CASE FinishFails(e)
  BY <1>6 DEF FinishFails
<1>7. CASE ResetFails(e)
  BY <1>7 DEF ResetFails
<1>9. CASE CommitUnknown(e)
  <2>1. Committed(e) /\ crashes' \in Nat BY <1>9 DEF CommitUnknown
  <2>2. Forget(e) /\ Unlocked(e) /\ pc' \in [Events -> PC]
        /\ UNCHANGED <<event, toReset, reply, queue, adm>>
    BY <2>1 DEF Committed
  <2> QED
    BY <1>9, <2>1, <2>2, CommittedTyped, ForgetTyped, UnlockedTyped DEF CommitUnknown
<1>8. CASE HandlerDies(e)
  <2>1. Forget(e) /\ Unlocked(e) /\ crashes' \in Nat BY <1>8 DEF HandlerDies
  <2>2. /\ pc' = [pc EXCEPT ![e] = "dead"]
        /\ toEnqueue' \in [Events -> SUBSET (Items \X JobNo)]
        /\ toReset' \in [Events -> SUBSET Items]
    BY <1>8 DEF HandlerDies
  <2> QED BY <1>8, <2>1, <2>2, ForgetTyped, UnlockedTyped DEF HandlerDies
<1> QED
  BY <1>1, <1>2, <1>3, <1>4, <1>5, <1>6, <1>7, <1>8, <1>9, ProceedTyped DEF Webhook

LEMMA RequeueTyped ==
  ASSUME TypeOK, NEW i \in Items, NEW n \in JobNo, Requeue(i, n)
  PROVE  /\ task' \in [Items -> [JobNo -> TaskStatus]]
         /\ retried' \in [Items -> [JobNo -> 0 .. MaxRetry]]
<1>1. task \in [Items -> [JobNo -> TaskStatus]]
  BY DEF TypeOK
<1>2. retried \in [Items -> [JobNo -> 0 .. MaxRetry]]
  BY DEF TypeOK
<1>3. {"queued", "archived"} \subseteq TaskStatus
  BY DEF TaskStatus
<1>4. CASE retried[i][n] < MaxRetry
  <2>1. retried[i][n] + 1 \in 0 .. MaxRetry
    BY <1>2, <1>4, ConstantsAssumption
  <2>2. task' \in [Items -> [JobNo -> TaskStatus]]
    BY <1>1, <1>3, <1>4 DEF Requeue
  <2>3. retried' = [retried EXCEPT ![i][n] = retried[i][n] + 1]
    BY <1>4 DEF Requeue
  <2>4. retried' \in [Items -> [JobNo -> 0 .. MaxRetry]]
    BY <1>2, <2>1, <2>3
  <2> QED BY <2>2, <2>4
<1>5. CASE ~(retried[i][n] < MaxRetry)
  BY SMTT(30), <1>1, <1>2, <1>3, <1>5 DEF Requeue
<1> QED BY <1>4, <1>5

LEMMA WorkerTyped ==
  ASSUME TypeOK, NEW i \in Items, NEW n \in JobNo, Worker(i, n)
  PROVE  TypeOK'
<1> USE ConstantsAssumption DEF TypeOK, db, jobRows, locks, locals, loop, handler, queue,
        history, noted, Fault, Faults, Crash, Step, TaskStatus, Running
<1>1. CASE StartTask(i, n)
  BY <1>1, SetLatestJobTyped DEF StartTask, JobStatus
<1>2. CASE ActivateService(i, n)
  BY <1>2 DEF ActivateService, ServiceStatus
<1>3. CASE CompleteJob(i, n)
  BY <1>3, SetLatestJobTyped DEF CompleteJob, JobStatus
<1>4. CASE ActivateOrder(i, n)
  BY <1>4 DEF ActivateOrder, OrderStatus
<1>5. CASE AckTask(i, n)
  BY <1>5 DEF AckTask
<1>6. CASE TaskFails(i, n)
  <2>1. jobs' \in [Items -> Seq(JobStatus)]
    BY <1>6, SetLatestJobTyped DEF TaskFails, JobStatus
  <2>2. Requeue(i, n) BY <1>6 DEF TaskFails
  <2>3. faults' \in Nat BY <1>6 DEF TaskFails
  <2> QED BY <1>6, <2>1, <2>2, <2>3, RequeueTyped DEF TaskFails
<1>7. CASE WorkerDies(i, n)
  <2>1. Requeue(i, n) /\ crashes' \in Nat BY <1>7 DEF WorkerDies
  <2> QED BY <1>7, <2>1, RequeueTyped DEF WorkerDies
<1> QED
  BY <1>1, <1>2, <1>3, <1>4, <1>5, <1>6, <1>7 DEF Worker, Work

LEMMA AdminTyped ==
  ASSUME TypeOK, NEW a \in Admins, adm' = [adm EXCEPT ![a] = Idle]
  PROVE  adm' \in [Admins -> AdminStates]
BY DEF TypeOK, AdminStates

\* What an administrator's request refers to, by where the request is.
LEMMA AdminRefersTo ==
  ASSUME TypeOK, NEW a \in Admins
  PROVE  /\ adm[a].pc = "setStatus" =>
              adm[a].order \in Orders /\ adm[a].to \in OrderStatus
         /\ adm[a].pc \in {"updateService", "updateOrder", "undoService",
                            "undoOrder", "enqueue", "undoJob"} =>
              adm[a].item \in Items
         /\ adm[a].pc \in {"enqueue", "undoJob"} => adm[a].job \in JobNo
         /\ adm[a].pc \in {"updateService", "updateOrder"} => adm[a].now \in Nat
<1>1. adm[a] \in AdminStates BY DEF TypeOK
<1> QED BY <1>1 DEF AdminStates, Idle

LEMMA AdministratorTyped ==
  ASSUME TypeOK, NEW a \in Admins, Administrator(a)
  PROVE  TypeOK'
<1> USE ConstantsAssumption DEF TypeOK, db, jobRows, locks, locals, loop, handler, queue,
        history, noted, Fault, Faults, Crash, Admin, Request
<1>1. ASSUME NEW o \in Orders, NEW to \in OrderStatus, AdminReadStatus(a, o, to)
      PROVE  TypeOK'
  <2>1. [pc |-> "setStatus", order |-> o, to |-> to] \in AdminStates
    BY DEF AdminStates
  <2>2. adm' \in [Admins -> AdminStates]
    BY <1>1, <2>1 DEF AdminReadStatus
  <2>3. adminOps' \in Nat
    BY <1>1 DEF AdminReadStatus
  <2> QED BY <1>1, <2>2, <2>3 DEF AdminReadStatus
<1>2. ASSUME NEW i \in Items, AdminReadService(a, i)
      PROVE  TypeOK'
  <2>1. clock \in Nat /\ clock' = clock + 1
    BY <1>2 DEF AdminReadService
  <2>2. [pc |-> "updateService", item |-> i, now |-> clock] \in AdminStates
    BY <2>1 DEF AdminStates
  <2>3. adm' \in [Admins -> AdminStates]
    BY <1>2, <2>2 DEF AdminReadService
  <2>4. adminOps' \in Nat
    BY <1>2 DEF AdminReadService
  <2>5. clock' \in Nat
    BY <2>1
  <2> QED BY <1>2, <2>3, <2>4, <2>5 DEF AdminReadService
<1>3. CASE AdminWriteStatus(a)
  BY ZenonT(60), <1>3, AdminTyped, AdminRefersTo DEF AdminWriteStatus
<1>4. CASE AdminUpdateService(a)
  <2>1. adm[a].item \in Items /\ adm[a].now \in Nat
    BY <1>4, AdminRefersTo DEF AdminUpdateService
  <2>2. [pc |-> "updateOrder", item |-> adm[a].item, now |-> adm[a].now] \in AdminStates
    BY <2>1 DEF AdminStates
  <2>3. adm' \in [Admins -> AdminStates]
    BY <1>4, <2>2 DEF AdminUpdateService
  <2>4. itemLock' \in [Items -> Txs \cup {Free}]
    BY <1>4 DEF AdminUpdateService, Txs
  <2> QED BY <1>4, <2>3, <2>4 DEF AdminUpdateService
<1>5. CASE AdminCommit(a)
  <2>1. adm[a].item \in Items BY <1>5, AdminRefersTo DEF AdminCommit
  <2>2. jobs[adm[a].item] \in Seq(JobStatus) /\ "pending" \in JobStatus
    BY <2>1 DEF JobStatus
  <2>3. Append(jobs[adm[a].item], "pending") \in Seq(JobStatus)
    BY <2>2
  <2>4. Len(jobs[adm[a].item]) + 1 \in JobNo
    <3>1. Len(jobs[adm[a].item]) \in Nat BY <2>2
    <3>2. Len(jobs[adm[a].item]) < MaxJobs BY <1>5 DEF AdminCommit
    <3> QED BY <3>1, <3>2 DEF JobNo
  <2>5. jobs' \in [Items -> Seq(JobStatus)]
    BY <1>5, <2>1, <2>3 DEF AdminCommit
  <2>6. adm' \in [Admins -> AdminStates]
    BY <1>5, <2>1, <2>4 DEF AdminCommit, AdminStates
  <2>7. service' \in [Items -> ServiceStatus \cup {"none"}]
    BY <1>5 DEF AdminCommit, ServiceStatus
  <2>8. order' \in [Orders -> OrderStatus]
    BY <1>5 DEF AdminCommit, OrderStatus
  <2>9. latest' \in [Items -> [job : Nat, at : Nat]]
    <3>1. adm[a].now \in Nat BY <1>5, AdminRefersTo DEF AdminCommit
    <3>2. Inserted(adm[a].item, adm[a].now) \in [job : Nat, at : Nat]
      BY <2>1, <3>1, InsertedTyped
    <3>3. latest' = [latest EXCEPT ![adm[a].item] = Inserted(adm[a].item, adm[a].now)]
      BY <1>5 DEF AdminCommit
    <3> QED BY <3>2, <3>3
  <2> QED BY <1>5, <2>5, <2>6, <2>7, <2>8, <2>9, UnlockedTyped DEF AdminCommit
<1>6. CASE AdminEnqueue(a)
  BY <1>6, AdminTyped, AdminRefersTo DEF AdminEnqueue, TaskStatus
<1>7. CASE AdminEnqueueFails(a)
  <2>1. adm' \in [Admins -> AdminStates]
    BY <1>7, AdminRefersTo DEF AdminEnqueueFails, AdminStates
  <2>2. faults' \in Nat
    BY <1>7 DEF AdminEnqueueFails
  <2> QED BY <1>7, <2>1, <2>2 DEF AdminEnqueueFails
<1>8. CASE AdminUndoJob(a)
  <2>1. jobs' \in [Items -> Seq(JobStatus)]
    BY <1>8, AdminRefersTo, SetJobTyped DEF AdminUndoJob, JobStatus
  <2> QED BY <1>8, <2>1, AdminRefersTo DEF AdminUndoJob, AdminStates
<1>9. CASE AdminUndoService(a)
  BY <1>9, AdminRefersTo DEF AdminUndoService, AdminStates, ServiceStatus
<1>10. CASE AdminUndoOrder(a)
  BY <1>10, AdminTyped DEF AdminUndoOrder, OrderStatus
<1>11. CASE AdminIsVictim(a)
  BY <1>11, AdminTyped, UnlockedTyped DEF AdminIsVictim
<1>12. CASE AdminDies(a)
  <2>1. adm' = [adm EXCEPT ![a] = Idle] BY <1>12 DEF AdminDies
  <2>2. adm' \in [Admins -> AdminStates] BY <2>1, AdminTyped
  <2>3. crashes' \in Nat BY <1>12 DEF AdminDies
  <2> QED BY <1>12, <2>2, <2>3, UnlockedTyped DEF AdminDies
<1>13. CASE AdminUndoFails(a)
  <2>1. adm' \in [Admins -> AdminStates]
    <3>1. CASE Admin(a, "undoJob", [pc |-> "undoService", item |-> adm[a].item])
      BY <3>1, AdminRefersTo DEF AdminStates
    <3>2. CASE Admin(a, "undoService", [pc |-> "undoOrder", item |-> adm[a].item])
      BY <3>2, AdminRefersTo DEF AdminStates
    <3>3. CASE Admin(a, "undoOrder", Idle)
      BY <3>3, AdminTyped
    <3> QED BY <1>13, <3>1, <3>2, <3>3 DEF AdminUndoFails
  <2>2. faults' \in Nat
    BY <1>13 DEF AdminUndoFails
  <2>3. unmarked' \subseteq Items \X JobNo
    <3>1. adm[a].pc = "undoJob" => <<adm[a].item, adm[a].job>> \in Items \X JobNo
      BY AdminRefersTo
    <3>2. \/ adm[a].pc = "undoJob" /\ unmarked' = unmarked \cup {<<adm[a].item, adm[a].job>>}
          \/ unmarked' = unmarked
      BY <1>13 DEF AdminUndoFails
    <3> QED BY <3>1, <3>2
  <2> QED BY <1>13, <2>1, <2>2, <2>3 DEF AdminUndoFails
<1> QED
  BY <1>1, <1>2, <1>3, <1>4, <1>5, <1>6, <1>7, <1>8, <1>9, <1>10, <1>11, <1>12, <1>13
     DEF Administrator, Continue

(***************************************************************************)
(* Every table and every process keeps to its type.                        *)
(***************************************************************************)
THEOREM TypeCorrect == Spec => []TypeOK
<1>1. Init => TypeOK
  <2> SUFFICES ASSUME Init PROVE TypeOK
    OBVIOUS
  <2> USE ConstantsAssumption
  <2>1. jobs \in [Items -> Seq(JobStatus)] BY DEF Init
  <2>2. order \in [Orders -> OrderStatus] BY DEF Init, OrderStatus
  <2> QED
    BY <2>1, <2>2 DEF Init, TypeOK, NoService, PC, TaskStatus, AdminStates,
       OrderStatus, Idle
<1>2. TypeOK /\ [Next]_vars => TypeOK'
  <2> SUFFICES ASSUME TypeOK, [Next]_vars PROVE TypeOK'
    OBVIOUS
  <2>1. CASE Next
    BY <2>1, WebhookTyped, WorkerTyped, AdministratorTyped DEF Next
  <2>2. CASE UNCHANGED vars
    BY <2>2 DEF vars, TypeOK, db, jobRows, locks, locals, loop, handler, queue, history, noted
  <2> QED BY <2>1, <2>2
<1> QED BY <1>1, <1>2, PTL DEF Spec
-----------------------------------------------------------------------------
(* One invoice per order; invoice, payment and services together or not    *)
(* at all.                                                                 *)

\* A rolled-back or dead transaction gives up its own locks only.
LEMMA UnlockedKeeps ==
  ASSUME NEW t, NEW u \in Txs, u # t, Unlocked(t), NEW o \in Orders, orderLock[o] = u
  PROVE  orderLock'[o] = u
BY DEF Unlocked

LEMMA RollbackInv ==
  ASSUME TypeOK, FulfilmentInv, NEW e \in Events, Rollback(e)
  PROVE  FulfilmentInv'
<1> USE ConstantsAssumption DEF FulfilmentInv, TypeOK, db, jobRows, noted, loop, queue,
        PastInvoice, PastMark, TxPC, PC, LivePC, Txs
<1> EventOrder(e) \in Orders
  BY EventOrderTyped
<1>1. LockedUnlessPaid'
  BY ZenonT(60) DEF Rollback, Unlocked, Forget, LockedUnlessPaid, EventOrder
<1>2. InvoiceLookupHolds'
  BY DEF Rollback, Forget, InvoiceLookupHolds, EventOrder
<1>3. PaidHasInvoice'
  BY DEF Rollback, Forget, PaidHasInvoice, EventOrder
<1>4. ServiceLookupHolds'
  BY DEF Rollback, Forget, ServiceLookupHolds, EventOrder, ItemsOf
<1>5. OneInvoicePerOrder' /\ AllOrNothing'
  BY DEF Rollback, OneInvoicePerOrder, AllOrNothing, Paid, ItemsOf
<1> QED BY <1>1, <1>2, <1>3, <1>4, <1>5

(***************************************************************************)
(* A step outside the webhook transactions keeps the invariant if it keeps *)
(* the invoices, the payments, the existence of services rows, the locks   *)
(* of the transactions, and makes no order 'paid' without an invoice.      *)
(***************************************************************************)
LEMMA QuietInv ==
  ASSUME TypeOK, FulfilmentInv,
         UNCHANGED <<invoices, payment, pc, saw, newInvoice, seen, newJobs>>,
         \A o \in Orders, e \in Events : orderLock[o] = e => orderLock'[o] = e,
         \A o \in Orders : order'[o] = "paid" =>
           order[o] = "paid" \/ o \in markedPaid' \/ invoices[o] > 0,
         markedPaid \subseteq markedPaid',
         \A i \in Items : service'[i] = "none" <=> service[i] = "none",
         \A a \in Admins : adm'[a].pc \notin {"idle", "setStatus"} =>
           service[adm'[a].item] # "none" /\ adm'[a].item \in Items,
         \A i \in Items, n \in JobNo :
           task'[i][n] # "none" \/ (\E e \in Events : <<i, n>> \in toEnqueue'[e]) =>
             service[i] # "none"
  PROVE  FulfilmentInv'
<1> USE ConstantsAssumption DEF FulfilmentInv
<1>1. LockedUnlessPaid'
  BY EventOrderTyped DEF LockedUnlessPaid, EventOrder
<1>2. InvoiceLookupHolds'
  BY EventOrderTyped DEF InvoiceLookupHolds, EventOrder
<1>3. PaidHasInvoice'
  BY EventOrderTyped DEF PaidHasInvoice, EventOrder
<1>4. ServiceLookupHolds'
  BY DEF ServiceLookupHolds, EventOrder, ItemsOf
<1>5. OneInvoicePerOrder'
  BY DEF OneInvoicePerOrder
<1>6. AllOrNothing'
  BY DEF AllOrNothing, Paid, ItemsOf
<1> QED BY <1>1, <1>2, <1>3, <1>4, <1>5, <1>6

\* A request that is past its first read of a service names an item.
LEMMA AdminItem ==
  ASSUME TypeOK, NEW a \in Admins, adm[a].pc \notin {"idle", "setStatus"}
  PROVE  adm[a].item \in Items
<1>1. adm[a] \in AdminStates BY DEF TypeOK
<1> QED BY <1>1 DEF AdminStates, Idle

\* A task of an item with a services row may change in any way.
LEMMA TaskStepInv ==
  ASSUME TypeOK, FulfilmentInv, NEW i \in Items, NEW n \in JobNo, NEW s,
         task[i][n] # "none", task' = [task EXCEPT ![i][n] = s],
         UNCHANGED <<invoices, payment, locks, handler, adm, markedPaid>>,
         \A o \in Orders : order'[o] = "paid" => order[o] = "paid",
         \A k \in Items : service'[k] = "none" <=> service[k] = "none"
  PROVE  FulfilmentInv'
<1>1. \A k \in Items, m \in JobNo : task'[k][m] # "none" => task[k][m] # "none"
  BY DEF TypeOK
<1>2. /\ \A k \in Items, m \in JobNo :
           task[k][m] # "none" \/ (\E e \in Events : <<k, m>> \in toEnqueue[e]) =>
             service[k] # "none"
      /\ \A a \in Admins : adm[a].pc \notin {"idle", "setStatus"} =>
           service[adm[a].item] # "none"
  BY DEF FulfilmentInv, ServiceLookupHolds
<1>3. toEnqueue' = toEnqueue
  BY DEF handler, loop
<1>4. \A a \in Admins : adm[a].pc \notin {"idle", "setStatus"} => adm[a].item \in Items
  BY AdminItem
<1>5. UNCHANGED <<invoices, payment, pc, saw, newInvoice, seen, newJobs, orderLock>>
  BY DEF handler, locals, locks
<1> QED BY <1>1, <1>2, <1>3, <1>4, <1>5, QuietInv

LEMMA WorkerInv ==
  ASSUME TypeOK, FulfilmentInv, NEW i \in Items, NEW n \in JobNo, Worker(i, n)
  PROVE  FulfilmentInv'
<1> USE DEF Step, history, noted
<1>1. CASE StartTask(i, n)
  BY <1>1, TaskStepInv DEF StartTask
<1>2. CASE ActivateService(i, n)
  <2>1. service[i] # "none"
    BY <1>2 DEF ActivateService, FulfilmentInv, ServiceLookupHolds
  <2>2. \A k \in Items : service'[k] = "none" <=> service[k] = "none"
    BY <1>2, <2>1 DEF ActivateService, TypeOK
  <2> QED BY <1>2, <2>2, TaskStepInv DEF ActivateService
<1>3. CASE CompleteJob(i, n)
  BY <1>3, TaskStepInv DEF CompleteJob
<1>4. CASE ActivateOrder(i, n)
  <2>1. \A o \in Orders : order'[o] = "paid" => order[o] = "paid"
    BY <1>4 DEF ActivateOrder, TypeOK
  <2> QED BY <1>4, <2>1, TaskStepInv DEF ActivateOrder
<1>5. CASE AckTask(i, n)
  BY <1>5, TaskStepInv DEF AckTask, db, jobRows
<1>6. CASE TaskFails(i, n) \/ WorkerDies(i, n)
  <2>1. /\ task[i][n] # "none"
        /\ UNCHANGED <<order, invoices, payment, service, locks, handler, adm, markedPaid>>
    BY <1>6 DEF TaskFails, WorkerDies, db, jobRows, Running
  <2>2. \E s : task' = [task EXCEPT ![i][n] = s]
    BY <1>6 DEF TaskFails, WorkerDies, Requeue
  <2> QED BY <2>1, <2>2, TaskStepInv
<1> QED BY <1>1, <1>2, <1>3, <1>4, <1>5, <1>6 DEF Worker, Work

\* A step of an administrator's request, to a state r that names an item with
\* a services row.
LEMMA AdminStepInv ==
  ASSUME TypeOK, FulfilmentInv, NEW a \in Admins, NEW r,
         adm' = [adm EXCEPT ![a] = r],
         r.pc \notin {"idle", "setStatus"} => r.item \in Items /\ service[r.item] # "none",
         UNCHANGED <<invoices, payment, handler>>,
         \A o \in Orders, e \in Events : orderLock[o] = e => orderLock'[o] = e,
         \A o \in Orders : order'[o] = "paid" =>
           order[o] = "paid" \/ o \in markedPaid' \/ invoices[o] > 0,
         markedPaid \subseteq markedPaid',
         \A i \in Items : service'[i] = "none" <=> service[i] = "none",
         \A i \in Items, n \in JobNo :
           task'[i][n] # "none" => task[i][n] # "none" \/ service[i] # "none"
  PROVE  FulfilmentInv'
<1>1. \A b \in Admins : adm[b].pc \notin {"idle", "setStatus"} =>
        service[adm[b].item] # "none" /\ adm[b].item \in Items
  BY AdminItem DEF FulfilmentInv, ServiceLookupHolds
<1>2. \A b \in Admins : adm'[b].pc \notin {"idle", "setStatus"} =>
        service[adm'[b].item] # "none" /\ adm'[b].item \in Items
  BY <1>1 DEF TypeOK
<1>3. \A i \in Items, n \in JobNo :
        task'[i][n] # "none" \/ (\E e \in Events : <<i, n>> \in toEnqueue'[e]) =>
          service[i] # "none"
  BY DEF FulfilmentInv, ServiceLookupHolds, handler, loop
<1>4. UNCHANGED <<invoices, payment, pc, saw, newInvoice, seen, newJobs>>
  BY DEF handler, locals
<1> QED BY <1>2, <1>3, <1>4, QuietInv

LEMMA AdminUnlocks ==
  ASSUME TypeOK, NEW a \in Admins, Unlocked(a)
  PROVE  \A o \in Orders, e \in Events : orderLock[o] = e => orderLock'[o] = e
BY ConstantsAssumption DEF Unlocked

LEMMA AdministratorInv ==
  ASSUME TypeOK, FulfilmentInv, NEW a \in Admins, Administrator(a)
  PROVE  FulfilmentInv'
<1> USE DEF db, jobRows, locks, queue, history, noted, Admin, Idle
<1> adm[a].pc \notin {"idle", "setStatus"} =>
      adm[a].item \in Items /\ service[adm[a].item] # "none"
  BY AdminItem DEF FulfilmentInv, ServiceLookupHolds
<1>1. ASSUME NEW o \in Orders, NEW to \in OrderStatus, AdminReadStatus(a, o, to)
      PROVE  FulfilmentInv'
  BY <1>1, AdminStepInv DEF AdminReadStatus
<1>2. ASSUME NEW i \in Items, AdminReadService(a, i)
      PROVE  FulfilmentInv'
  <2>1. service[i] # "none" BY <1>2 DEF AdminReadService
  <2> QED BY <1>2, <2>1, AdminStepInv DEF AdminReadService
<1>3. CASE AdminWriteStatus(a)
  <2>1. \A o \in Orders : order'[o] = "paid" => order[o] = "paid" \/ o \in markedPaid'
    BY <1>3 DEF AdminWriteStatus, TypeOK
  <2>2. markedPaid \subseteq markedPaid' BY <1>3 DEF AdminWriteStatus
  <2> QED BY <1>3, <2>1, <2>2, AdminStepInv DEF AdminWriteStatus
<1>4. CASE AdminUpdateService(a)
  BY <1>4, AdminStepInv DEF AdminUpdateService
<1>5. CASE AdminCommit(a)
  <2>1. \A o \in Orders : order'[o] = "paid" => order[o] = "paid"
    BY <1>5 DEF AdminCommit, TypeOK
  <2>2. \A i \in Items : service'[i] = "none" <=> service[i] = "none"
    BY <1>5 DEF AdminCommit, TypeOK
  <2> QED BY <1>5, <2>1, <2>2, AdminUnlocks, AdminStepInv DEF AdminCommit
<1>6. CASE AdminEnqueue(a)
  <2>1. \A i \in Items, n \in JobNo :
          task'[i][n] # "none" => task[i][n] # "none" \/ service[i] # "none"
    BY <1>6 DEF AdminEnqueue, TypeOK
  <2> QED BY <1>6, <2>1, AdminStepInv DEF AdminEnqueue
<1>7. CASE AdminEnqueueFails(a) \/ AdminUndoFails(a)
  BY <1>7, AdminStepInv DEF AdminEnqueueFails, AdminUndoFails
<1>8. CASE AdminUndoJob(a)
  BY <1>8, AdminStepInv DEF AdminUndoJob
<1>9. CASE AdminUndoService(a)
  <2>1. \A i \in Items : service'[i] = "none" <=> service[i] = "none"
    BY <1>9 DEF AdminUndoService, TypeOK
  <2> QED BY <1>9, <2>1, AdminStepInv DEF AdminUndoService
<1>10. CASE AdminUndoOrder(a)
  <2>1. adm[a].item \in ItemsOf(OrderOf[adm[a].item]) /\ OrderOf[adm[a].item] \in Orders
    BY <1>10, ConstantsAssumption DEF AdminUndoOrder, ItemsOf
  <2>2. invoices[OrderOf[adm[a].item]] > 0
    BY <1>10, <2>1 DEF AdminUndoOrder, FulfilmentInv, AllOrNothing
  <2>3. \A o \in Orders : order'[o] = "paid" => order[o] = "paid" \/ invoices[o] > 0
    BY <1>10, <2>2 DEF AdminUndoOrder, TypeOK
  <2> QED BY <1>10, <2>3, AdminStepInv DEF AdminUndoOrder
<1>11. CASE AdminIsVictim(a) \/ AdminDies(a)
  BY <1>11, AdminUnlocks, AdminStepInv DEF AdminIsVictim, AdminDies
<1> QED
  BY <1>1, <1>2, <1>3, <1>4, <1>5, <1>6, <1>7, <1>8, <1>9, <1>10, <1>11
     DEF Administrator, Continue

\* createInvoice finds no invoice: the order is not paid, or was marked paid.
LEMMA CreateInvoiceInv ==
  ASSUME TypeOK, FulfilmentInv, NEW e \in Events, CreateInvoice(e)
  PROVE  FulfilmentInv'
<1> USE DEF CreateInvoice, Goto, db, jobRows, locks, loop, queue, history, noted, PastInvoice,
        PastMark, TxPC, FulfilmentInv
<1> EventOrder(e) \in Orders /\ invoices[EventOrder(e)] \in Nat
  BY EventOrderTyped DEF TypeOK
<1>1. pc' = [pc EXCEPT ![e] = "payment"] /\ pc[e] = "invoice" /\ pc \in [Events -> PC]
  BY DEF TypeOK
<1>2. LockedUnlessPaid'
  BY <1>1 DEF LockedUnlessPaid, EventOrder
<1>3. InvoiceLookupHolds'
  <2> SUFFICES ASSUME NEW f \in Events, pc'[f] \in PastInvoice
               PROVE  IF newInvoice'[f]
                      THEN \/ EventOrder(f) \in markedPaid'
                           \/ saw'[f] # "paid" /\ invoices'[EventOrder(f)] = 0
                      ELSE invoices'[EventOrder(f)] > 0
    BY DEF InvoiceLookupHolds, EventOrder
  <2>1. CASE f = e
    <3>1. newInvoice'[e] = (invoices[EventOrder(e)] = 0)
      BY DEF TypeOK
    <3>2. saw[e] = "paid" =>
            invoices[EventOrder(e)] > 0 \/ EventOrder(e) \in markedPaid
      BY <1>1 DEF PaidHasInvoice
    <3>3. UNCHANGED <<saw, invoices, markedPaid>>
      OBVIOUS
    <3> HIDE DEF CreateInvoice
    <3>4. CASE invoices[EventOrder(e)] = 0
      <4>1. newInvoice'[e] = TRUE BY <3>1, <3>4
      <4> QED BY <2>1, <3>2, <3>3, <3>4, <4>1
    <3>5. CASE invoices[EventOrder(e)] # 0
      <4>1. newInvoice'[e] = FALSE BY <3>1, <3>5
      <4> QED BY <2>1, <3>3, <3>5, <4>1
    <3> QED BY <3>4, <3>5
  <2>2. CASE f # e
    <3>1. newInvoice'[f] = newInvoice[f] /\ pc'[f] = pc[f]
      BY <2>2, <1>1 DEF TypeOK
    <3>2. UNCHANGED <<saw, invoices, markedPaid>>
      OBVIOUS
    <3>3. IF newInvoice[f]
          THEN \/ EventOrder(f) \in markedPaid
               \/ saw[f] # "paid" /\ invoices[EventOrder(f)] = 0
          ELSE invoices[EventOrder(f)] > 0
      BY <3>1 DEF InvoiceLookupHolds
    <3> HIDE DEF CreateInvoice
    <3> QED BY <3>1, <3>2, <3>3
  <2> QED BY <2>1, <2>2
<1>4. PaidHasInvoice'
  BY <1>1 DEF PaidHasInvoice, EventOrder
<1>5. ServiceLookupHolds'
  BY <1>1 DEF ServiceLookupHolds, EventOrder, ItemsOf
<1>6. OneInvoicePerOrder' /\ AllOrNothing'
  BY DEF OneInvoicePerOrder, AllOrNothing, Paid, ItemsOf
<1> QED BY <1>2, <1>3, <1>4, <1>5, <1>6

(***************************************************************************)
(* The commit.  If it inserts an invoice for an order that nobody marked   *)
(* paid, the transaction owns the order's row: no other transaction on the *)
(* order is past its own UPDATE, and the lookup is still true.             *)
(***************************************************************************)
LEMMA CommittedInv ==
  ASSUME TypeOK, FulfilmentInv, NEW e \in Events, Committed(e), UNCHANGED noted,
         \/ toEnqueue' = [toEnqueue EXCEPT ![e] =
              {<<i, Len(jobs[i]) + 1>> : i \in newJobs[e]}]
         \/ UNCHANGED toEnqueue
  PROVE  FulfilmentInv'
<1> DEFINE o == EventOrder(e)
<1> USE ConstantsAssumption DEF FulfilmentInv
<1>1. /\ o \in Orders /\ invoices[o] \in Nat
      /\ SessionOf[e] \in Sessions /\ PaysFor[SessionOf[e]] = o
  BY EventOrderTyped DEF TypeOK, EventOrder
<1>2. /\ pc[e] = "commit" /\ pc'[e] = "finish"
      /\ \A f \in Events : f # e => pc'[f] = pc[f]
  BY DEF Committed, Goto, TypeOK
<1>3. IF newInvoice[e]
      THEN \/ o \in markedPaid
           \/ saw[e] # "paid" /\ invoices[o] = 0 /\ orderLock[o] = e
      ELSE invoices[o] > 0
  BY <1>2 DEF InvoiceLookupHolds, LockedUnlessPaid, PastInvoice, PastMark, TxPC
<1>4. /\ invoices'[o] = IF newInvoice[e] THEN invoices[o] + 1 ELSE invoices[o]
      /\ \A x \in Orders : x # o => invoices'[x] = invoices[x]
      /\ \A x \in Orders : invoices[x] \in Nat
  BY <1>1 DEF Committed, TypeOK
<1>5. invoices'[o] > 0 /\ \A x \in Orders : invoices[x] > 0 => invoices'[x] > 0
  BY <1>1, <1>3, <1>4
<1>6. /\ \A i \in ItemsOf(o) : service'[i] # "none"
      /\ \A i \in Items : OrderOf[i] # o => service'[i] = service[i]
      /\ \A i \in Items : service[i] # "none" => service'[i] # "none"
  <2>1. service' = [i \in Items |-> IF i \in Writes(e) THEN "provisioning"
                                   ELSE service[i]]
    BY DEF Committed
  <2>2. \A i \in ItemsOf(o) : i \notin Writes(e) => service[i] # "none"
    <3>1. \A i \in ItemsOf(o) : seen[e][i] # "none" => service[i] # "none"
      BY <1>2 DEF ServiceLookupHolds
    <3> QED BY <3>1 DEF Writes
  <2>3. \A i \in ItemsOf(o) : i \in Items
    BY DEF ItemsOf
  <2>4. \A i \in Writes(e) : OrderOf[i] = o
    BY DEF Writes, ItemsOf
  <2> QED BY <2>1, <2>2, <2>3, <2>4
<1>7. /\ UNCHANGED <<markedPaid, task, adm>>
      /\ \A f \in Events : f # e =>
           /\ saw'[f] = saw[f] /\ newInvoice'[f] = newInvoice[f]
           /\ seen'[f] = seen[f] /\ newJobs'[f] = newJobs[f]
           /\ toEnqueue'[f] = toEnqueue[f]
  BY DEF Committed, Forget, TypeOK, history, noted, queue
<1>8. LockedUnlessPaid'
  <2>1. \A f \in Events, x \in Orders : f # e /\ orderLock[x] = f => orderLock'[x] = f
    BY DEF Committed, Unlocked
  <2> QED
    BY <1>2, <1>7, <2>1, EventOrderTyped
       DEF LockedUnlessPaid, EventOrder, PastMark, TxPC
<1>9. InvoiceLookupHolds'
  <2> SUFFICES ASSUME NEW f \in Events, pc'[f] \in PastInvoice
               PROVE  IF newInvoice'[f]
                      THEN \/ EventOrder(f) \in markedPaid'
                           \/ saw'[f] # "paid" /\ invoices'[EventOrder(f)] = 0
                      ELSE invoices'[EventOrder(f)] > 0
    BY DEF InvoiceLookupHolds, EventOrder
  <2>1. f # e /\ pc[f] \in PastInvoice
    BY <1>2 DEF PastInvoice, PastMark, TxPC
  <2>2. saw'[f] = saw[f] /\ newInvoice'[f] = newInvoice[f] /\ EventOrder(f) \in Orders
    BY <1>7, <2>1, EventOrderTyped
  <2>3. CASE ~newInvoice[f]
    BY <2>1, <2>2, <2>3, <1>5 DEF InvoiceLookupHolds
  <2>4. CASE newInvoice[f] /\ EventOrder(f) \notin markedPaid
    <3>1. saw[f] # "paid" /\ invoices[EventOrder(f)] = 0
      BY <2>1, <2>4 DEF InvoiceLookupHolds
    <3>2. orderLock[EventOrder(f)] = f
      BY <2>1, <3>1 DEF LockedUnlessPaid, PastInvoice
    <3>3. EventOrder(f) # o
      BY <1>3, <2>1, <2>4, <3>1, <3>2
    <3> QED BY <1>4, <2>2, <2>4, <3>1, <3>3
  <2>5. CASE newInvoice[f] /\ EventOrder(f) \in markedPaid
    BY <1>7, <2>2, <2>5
  <2> QED BY <2>3, <2>4, <2>5
<1>10. PaidHasInvoice'
  <2>1. \A x \in Orders : x # o => order'[x] = order[x]
    BY DEF Committed, TypeOK
  <2> QED
    BY <1>2, <1>5, <1>7, <2>1, EventOrderTyped DEF PaidHasInvoice, EventOrder, TxPC
<1>11. ServiceLookupHolds'
  <2>1. \A i \in Items, n \in JobNo : <<i, n>> \in toEnqueue'[e] => service'[i] # "none"
    <3>1. \/ toEnqueue'[e] = {<<i, Len(jobs[i]) + 1>> : i \in newJobs[e]}
          \/ toEnqueue'[e] = toEnqueue[e]
      BY DEF TypeOK
    <3>2. newJobs[e] \subseteq ItemsOf(o)
      BY <1>2 DEF ServiceLookupHolds
    <3>3. CASE toEnqueue'[e] = {<<i, Len(jobs[i]) + 1>> : i \in newJobs[e]}
      BY <1>6, <3>2, <3>3
    <3>4. CASE toEnqueue'[e] = toEnqueue[e]
      BY <1>6, <3>4 DEF ServiceLookupHolds
    <3> QED BY <3>1, <3>3, <3>4
  <2>2. \A f \in Events : pc'[f] \in {"write", "jobs", "commit"} =>
          \A i \in ItemsOf(EventOrder(f)) :
            seen'[f][i] # "none" => service'[i] # "none"
    BY <1>2, <1>6, <1>7 DEF ServiceLookupHolds, ItemsOf
  <2>3. \A f \in Events : pc'[f] = "commit" => newJobs'[f] \subseteq ItemsOf(EventOrder(f))
    BY <1>2, <1>7 DEF ServiceLookupHolds
  <2>4. \A a \in Admins : adm'[a].pc \notin {"idle", "setStatus"} =>
          service'[adm'[a].item] # "none"
    BY <1>6, <1>7, AdminItem DEF ServiceLookupHolds
  <2>5. \A i \in Items, n \in JobNo :
          task'[i][n] # "none" \/ (\E f \in Events : <<i, n>> \in toEnqueue'[f]) =>
            service'[i] # "none"
    BY <1>6, <1>7, <2>1 DEF ServiceLookupHolds
  <2> QED BY <2>2, <2>3, <2>4, <2>5 DEF ServiceLookupHolds, EventOrder, ItemsOf
<1>12. OneInvoicePerOrder'
  BY <1>1, <1>3, <1>4, <1>7 DEF OneInvoicePerOrder
<1>13. AllOrNothing'
  <2> SUFFICES ASSUME NEW x \in Orders
               PROVE  /\ Paid(x)' <=> invoices'[x] > 0
                      /\ \A i \in ItemsOf(x) : service'[i] # "none" <=> invoices'[x] > 0
    BY DEF AllOrNothing, ItemsOf
  <2>1. payment' = [payment EXCEPT ![SessionOf[e]] = "succeeded"]
    BY DEF Committed
  <2>2. CASE x = o
    <3>1. Paid(o)'
      BY <1>1, <2>1 DEF Paid, TypeOK
    <3> QED BY <1>5, <1>6, <2>2, <3>1
  <2>3. CASE x # o
    <3>1. Paid(x)' <=> Paid(x)
      BY <1>1, <2>1, <2>3 DEF Paid, TypeOK
    <3>2. \A i \in ItemsOf(x) : service'[i] = service[i]
      BY <1>6, <2>3 DEF ItemsOf
    <3> QED BY <1>4, <2>3, <3>1, <3>2 DEF AllOrNothing
  <2> QED BY <2>2, <2>3
<1> QED BY <1>8, <1>9, <1>10, <1>11, <1>12, <1>13

\* The transaction's first two statements: the order is read, then locked.
LEMMA BeginTxInv ==
  ASSUME TypeOK, FulfilmentInv, NEW e \in Events, ReadOrder(e) \/ MarkPaid(e)
  PROVE  FulfilmentInv'
<1> USE ConstantsAssumption DEF FulfilmentInv, LockedUnlessPaid, InvoiceLookupHolds,
        PaidHasInvoice, ServiceLookupHolds, OneInvoicePerOrder, AllOrNothing, Paid,
        TypeOK, db, jobRows, locks, locals, loop, handler, queue, history, noted, Goto, PastInvoice,
        PastMark, TxPC, PC, LivePC, Txs, ItemsOf, EventOrder
<1>1. CASE ReadOrder(e)
  BY <1>1 DEF ReadOrder
<1>2. CASE MarkPaid(e)
  BY <1>2 DEF MarkPaid
<1> QED BY <1>1, <1>2

\* Its other statements add nothing to what is committed.
LEMMA LookupInv ==
  ASSUME TypeOK, FulfilmentInv, NEW e \in Events,
         UpsertPayment(e) \/ ReadServices(e) \/ WriteServices(e) \/ EnsureJobs(e)
  PROVE  FulfilmentInv'
<1> USE ConstantsAssumption DEF FulfilmentInv, LockedUnlessPaid, InvoiceLookupHolds,
        PaidHasInvoice, ServiceLookupHolds, OneInvoicePerOrder, AllOrNothing, Paid,
        TypeOK, db, jobRows, locks, locals, loop, handler, queue, history, noted, Goto, PastInvoice,
        PastMark, TxPC, PC, LivePC, Txs, ItemsOf, EventOrder
<1>1. CASE UpsertPayment(e)
  BY <1>1 DEF UpsertPayment
<1>2. CASE ReadServices(e)
  BY <1>2 DEF ReadServices
<1>3. CASE WriteServices(e)
  BY <1>3 DEF WriteServices
<1>4. CASE EnsureJobs(e)
  BY <1>4 DEF EnsureJobs
<1> QED BY <1>1, <1>2, <1>3, <1>4

\* What follows the transaction: the enqueues and the event's last UPDATE.
LEMMA FinishInv ==
  ASSUME TypeOK, FulfilmentInv, NEW e \in Events,
         EnqueueTask(e) \/ ResetService(e) \/ FinishEvent(e)
  PROVE  FulfilmentInv'
<1> USE ConstantsAssumption DEF FulfilmentInv, LockedUnlessPaid, InvoiceLookupHolds,
        PaidHasInvoice, ServiceLookupHolds, OneInvoicePerOrder, AllOrNothing, Paid,
        TypeOK, db, jobRows, locks, locals, loop, handler, queue, history, noted, Goto, PastInvoice,
        PastMark, TxPC, PC, LivePC, Txs, ItemsOf, EventOrder
<1>1. CASE EnqueueTask(e)
  <2>1. PICK i \in Items, n \in JobNo :
          /\ <<i, n>> \in toEnqueue[e]
          /\ task' = [task EXCEPT ![i][n] = "queued"]
          /\ toEnqueue' = [toEnqueue EXCEPT ![e] = @ \ {<<i, n>>}]
    BY <1>1 DEF EnqueueTask
  <2>2. service[i] # "none"
    BY <2>1
  <2>3. \A k \in Items, m \in JobNo :
          task'[k][m] # "none" \/ (\E f \in Events : <<k, m>> \in toEnqueue'[f]) =>
            service[k] # "none"
    BY SMTT(30), <2>1, <2>2
  <2>4. UNCHANGED <<invoices, payment, pc, saw, newInvoice, seen, newJobs, order,
                    orderLock, service, adm, markedPaid>>
    BY <1>1 DEF EnqueueTask
  <2>5. \A a \in Admins : adm[a].pc \notin {"idle", "setStatus"} =>
          service[adm[a].item] # "none" /\ adm[a].item \in Items
    BY AdminItem
  <2> HIDE DEF FulfilmentInv, TypeOK
  <2> QED BY <2>3, <2>4, <2>5, QuietInv
<1>2. CASE ResetService(e)
  BY SMTT(30), <1>2 DEF ResetService
<1>3. CASE FinishEvent(e)
  BY <1>3 DEF FinishEvent
<1> QED BY <1>1, <1>2, <1>3

LEMMA ProceedInv ==
  ASSUME TypeOK, FulfilmentInv, NEW e \in Events, Proceed(e)
  PROVE  FulfilmentInv'
<1>1. CASE ReadOrder(e) \/ MarkPaid(e)
  BY <1>1, BeginTxInv
<1>2. CASE CreateInvoice(e)
  BY <1>2, CreateInvoiceInv
<1>3. CASE UpsertPayment(e) \/ ReadServices(e) \/ WriteServices(e) \/ EnsureJobs(e)
  BY <1>3, LookupInv
<1>4. CASE CommitTx(e)
  BY <1>4, CommittedInv DEF CommitTx, history
<1>5. CASE UniqueViolation(e) \/ ConnBusy(e) \/ EventIsVictim(e)
  BY <1>5, RollbackInv DEF UniqueViolation, ConnBusy, EventIsVictim
<1>6. CASE EnqueueTask(e) \/ ResetService(e) \/ FinishEvent(e)
  BY <1>6, FinishInv
<1> QED BY <1>1, <1>2, <1>3, <1>4, <1>5, <1>6 DEF Proceed

LEMMA WebhookInv ==
  ASSUME TypeOK, FulfilmentInv, NEW e \in Events, Webhook(e)
  PROVE  FulfilmentInv'
<1>1. CASE Proceed(e)
  BY <1>1, ProceedInv
<1>2. CASE TxFails(e)
  BY <1>2, RollbackInv DEF TxFails
<1>9. CASE CommitUnknown(e)
  BY <1>9, CommittedInv DEF CommitUnknown
<1>4. CASE ReceiveFails(e) \/ DuplicateDelivery(e)
  <2>1. UNCHANGED <<db, event, locks, handler, queue, adm, noted>>
    BY <1>4 DEF ReceiveFails, DuplicateDelivery, history
  <2> QED
    BY <2>1 DEF FulfilmentInv, LockedUnlessPaid, InvoiceLookupHolds, PaidHasInvoice,
       ServiceLookupHolds, OneInvoicePerOrder, AllOrNothing, Paid, PastInvoice, PastMark,
       db, jobRows, locks, locals, loop, handler, queue, noted
<1> USE ConstantsAssumption DEF FulfilmentInv, LockedUnlessPaid, InvoiceLookupHolds,
        PaidHasInvoice, ServiceLookupHolds, OneInvoicePerOrder, AllOrNothing, Paid,
        TypeOK, db, jobRows, locks, locals, loop, handler, queue, history, noted, Goto, PastInvoice,
        PastMark, TxPC, PC, LivePC, Txs, ItemsOf, EventOrder
<1>3. CASE ReceiveEvent(e)
  BY <1>3 DEF ReceiveEvent
<1>5. CASE EnqueueFails(e)
  BY <1>5 DEF EnqueueFails
<1>6. CASE FinishFails(e)
  BY <1>6 DEF FinishFails
<1>7. CASE ResetFails(e)
  BY <1>7 DEF ResetFails
<1>8. CASE HandlerDies(e)
  BY <1>8 DEF HandlerDies, Unlocked, Forget
<1> QED BY <1>1, <1>2, <1>3, <1>4, <1>5, <1>6, <1>7, <1>8, <1>9 DEF Webhook

(***************************************************************************)
(* The theorems, for every value of the constants.                         *)
(***************************************************************************)

\* The inductive invariant holds in every reachable state.
THEOREM FulfilmentCorrect == Spec => []FulfilmentInv
<1>1. Init => FulfilmentInv
  <2> SUFFICES ASSUME Init PROVE FulfilmentInv
    OBVIOUS
  <2> USE ConstantsAssumption
  <2>1. LockedUnlessPaid /\ InvoiceLookupHolds
    BY DEF Init, LockedUnlessPaid, InvoiceLookupHolds, PastInvoice, PastMark, TxPC
  <2>2. PaidHasInvoice
    BY DEF Init, PaidHasInvoice, TxPC
  <2>3. \A a \in Admins : adm[a].pc = "idle"
    BY DEF Init, Idle
  <2>4. ServiceLookupHolds
    BY <2>3 DEF Init, ServiceLookupHolds
  <2>5. OneInvoicePerOrder /\ AllOrNothing
    BY DEF Init, OneInvoicePerOrder, AllOrNothing, Paid, ItemsOf
  <2> QED BY <2>1, <2>2, <2>4, <2>5 DEF FulfilmentInv
<1>2. TypeOK /\ FulfilmentInv /\ [Next]_vars => FulfilmentInv'
  <2> SUFFICES ASSUME TypeOK, FulfilmentInv, [Next]_vars PROVE FulfilmentInv'
    OBVIOUS
  <2>1. CASE Next
    BY <2>1, WebhookInv, WorkerInv, AdministratorInv DEF Next
  <2>2. CASE UNCHANGED vars
    BY <2>2 DEF vars, db, jobRows, locks, locals, loop, handler, queue, history, noted, FulfilmentInv,
       LockedUnlessPaid, InvoiceLookupHolds, PaidHasInvoice, ServiceLookupHolds,
       OneInvoicePerOrder, AllOrNothing, Paid, EventOrder, ItemsOf
  <2> QED BY <2>1, <2>2
<1> QED BY <1>1, <1>2, TypeCorrect, PTL DEF Spec

\* An order nobody has marked paid never gets a second invoice.
THEOREM InvoicedOnce == Spec => []OneInvoicePerOrder
<1>1. FulfilmentInv => OneInvoicePerOrder BY DEF FulfilmentInv
<1> QED BY <1>1, FulfilmentCorrect, PTL

\* An order's invoice, payment and services stand or fall together.
THEOREM AtomicFulfilment == Spec => []AllOrNothing
<1>1. FulfilmentInv => AllOrNothing BY DEF FulfilmentInv
<1> QED BY <1>1, FulfilmentCorrect, PTL

\* An order is 'paid' only with an invoice or by an administrator's hand.
THEOREM PaidOrdersAreInvoiced == Spec => []PaidHasInvoice
<1>1. FulfilmentInv => PaidHasInvoice BY DEF FulfilmentInv
<1> QED BY <1>1, FulfilmentCorrect, PTL

-----------------------------------------------------------------------------
(* Who may take a running service back                                     *)

TakenBack(i) == service[i] = "active" /\ service'[i] # "active"

TakenBackByReader(i) ==
  \/ \E e \in Events : pc[e] = "commit" /\ seen[e][i] # "active"
  \/ \E a \in Admins : adm[a].pc \in {"updateOrder", "undoService"} /\ adm[a].item = i

LEMMA WebhookTakesBack ==
  ASSUME TypeOK, NEW e \in Events, Webhook(e), NEW i \in Items, TakenBack(i)
  PROVE  TakenBackByReader(i)
<1> USE DEF TakenBack
<1>1. service' # service OBVIOUS
<1>2. CASE CommitTx(e) \/ CommitUnknown(e)
  <2>1. Committed(e) BY <1>2 DEF CommitTx, CommitUnknown
  <2>2. pc[e] = "commit" /\ i \in Writes(e)
    BY <2>1 DEF Committed, Goto
  <2> QED BY <2>2 DEF Writes, TakenBackByReader
<1>3. CASE ResetService(e)
  <2>1. PICK k \in toReset[e] :
          service' = [service EXCEPT ![k] = IF @ = "provisioning" THEN "pending" ELSE @]
    BY <1>3 DEF ResetService
  <2> QED BY <2>1 DEF TypeOK
<1>4. CommitTx(e) \/ CommitUnknown(e) \/ ResetService(e)
  <2> USE DEF db
  <2>1. ~ReceiveEvent(e) /\ ~ReceiveFails(e) /\ ~DuplicateDelivery(e)
    BY <1>1 DEF ReceiveEvent, ReceiveFails, DuplicateDelivery
  <2>2. ~Rollback(e) BY <1>1 DEF Rollback
  <2>3. ~TxFails(e) /\ ~UniqueViolation(e) /\ ~ConnBusy(e) /\ ~EventIsVictim(e)
    BY <2>2 DEF TxFails, UniqueViolation, ConnBusy, EventIsVictim
  <2>4. ~ReadOrder(e) /\ ~MarkPaid(e) /\ ~CreateInvoice(e) /\ ~UpsertPayment(e)
    BY <1>1 DEF ReadOrder, MarkPaid, CreateInvoice, UpsertPayment
  <2>5. ~ReadServices(e) /\ ~WriteServices(e) /\ ~EnsureJobs(e)
    BY <1>1 DEF ReadServices, WriteServices, EnsureJobs
  <2>6. ~EnqueueTask(e) /\ ~EnqueueFails(e) /\ ~ResetFails(e)
    BY <1>1 DEF EnqueueTask, EnqueueFails, ResetFails
  <2>7. ~FinishEvent(e) /\ ~FinishFails(e) /\ ~HandlerDies(e)
    BY <1>1 DEF FinishEvent, FinishFails, HandlerDies
  <2> QED BY <2>1, <2>3, <2>4, <2>5, <2>6, <2>7 DEF Webhook, Proceed
<1> QED BY <1>2, <1>3, <1>4

LEMMA WorkerTakesNothingBack ==
  ASSUME TypeOK, NEW k \in Items, NEW n \in JobNo, Worker(k, n), NEW i \in Items
  PROVE  ~TakenBack(i)
<1>1. CASE ActivateService(k, n)
  BY <1>1 DEF ActivateService, TakenBack, TypeOK
<1>2. CASE StartTask(k, n) \/ CompleteJob(k, n) \/ ActivateOrder(k, n)
  BY <1>2 DEF StartTask, CompleteJob, ActivateOrder, TakenBack
<1>3. CASE AckTask(k, n) \/ WorkerDies(k, n)
  BY <1>3 DEF AckTask, WorkerDies, TakenBack, db
<1>4. CASE TaskFails(k, n)
  BY <1>4 DEF TaskFails, TakenBack
<1> QED BY <1>1, <1>2, <1>3, <1>4 DEF Worker, Work

LEMMA AdministratorTakesBack ==
  ASSUME TypeOK, NEW a \in Admins, Administrator(a), NEW i \in Items, TakenBack(i)
  PROVE  TakenBackByReader(i)
<1> USE DEF TakenBack
<1>1. service' # service OBVIOUS
<1>2. CASE AdminCommit(a)
  <2>1. adm[a].pc = "updateOrder" /\ adm[a].item = i
    BY <1>2 DEF AdminCommit, Admin, TypeOK
  <2> QED BY <2>1 DEF TakenBackByReader
<1>3. CASE AdminUndoService(a)
  <2>1. adm[a].pc = "undoService" /\ adm[a].item = i
    BY <1>3 DEF AdminUndoService, Admin, TypeOK
  <2> QED BY <2>1 DEF TakenBackByReader
<1>4. AdminCommit(a) \/ AdminUndoService(a)
  <2> USE DEF db
  <2>1. \A o \in Orders, to \in OrderStatus : ~AdminReadStatus(a, o, to)
    BY <1>1 DEF AdminReadStatus
  <2>2. \A k \in Items : ~AdminReadService(a, k)
    BY <1>1 DEF AdminReadService
  <2>3. ~AdminWriteStatus(a) /\ ~AdminUpdateService(a) /\ ~AdminEnqueue(a)
    BY <1>1 DEF AdminWriteStatus, AdminUpdateService, AdminEnqueue
  <2>4. ~AdminUndoJob(a) /\ ~AdminUndoOrder(a) /\ ~AdminIsVictim(a)
    BY <1>1 DEF AdminUndoJob, AdminUndoOrder, AdminIsVictim
  <2>5. ~AdminEnqueueFails(a) /\ ~AdminUndoFails(a) /\ ~AdminDies(a)
    BY <1>1 DEF AdminEnqueueFails, AdminUndoFails, AdminDies
  <2> QED BY <2>1, <2>2, <2>3, <2>4, <2>5 DEF Administrator, Continue
<1> QED BY <1>2, <1>3, <1>4

\* Only a transaction or a request that read the service before it ran takes
\* it back, however many payments and administrators there are.
THEOREM ActiveServicesStay == Spec => ActiveUnlessReadBefore
<1>1. TypeOK /\ [Next]_vars => [\A i \in Items : TakenBack(i) => TakenBackByReader(i)]_service
  <2> SUFFICES ASSUME TypeOK, Next, NEW i \in Items, TakenBack(i)
               PROVE  TakenBackByReader(i)
    BY DEF vars, db
  <2> QED BY WebhookTakesBack, WorkerTakesNothingBack, AdministratorTakesBack DEF Next
<1>2. Spec => [][\A i \in Items : TakenBack(i) => TakenBackByReader(i)]_service
  BY <1>1, TypeCorrect, PTL DEF Spec
<1> QED BY <1>2 DEF ActiveUnlessReadBefore, TakenBack, TakenBackByReader


-----------------------------------------------------------------------------
(* What is acknowledged is recorded; Fulfilment implements Ledger           *)

\* An event that reaches its end without an error has committed its payment.
AckInv ==
  \A e \in Events :
    /\ pc[e] = "finish" /\ ~failed[e] => payment[SessionOf[e]] = "succeeded"
    /\ reply[e] = "ok" => /\ pc[e] = "done" /\ event[e] = "processed"
                          /\ payment[SessionOf[e]] = "succeeded"

LEMMA CommittedPays ==
  ASSUME TypeOK, NEW e \in Events, Committed(e)
  PROVE  /\ payment'[SessionOf[e]] = "succeeded"
         /\ \A s \in Sessions : payment[s] = "succeeded" => payment'[s] = "succeeded"
         /\ pc[e] = "commit" /\ pc' = [pc EXCEPT ![e] = "finish"]
         /\ UNCHANGED <<reply, event>>
BY ConstantsAssumption DEF Committed, TypeOK, Goto

LEMMA WebhookAck ==
  ASSUME TypeOK, AckInv, NEW e \in Events, Webhook(e)
  PROVE  AckInv'
<1>2. CASE CommitTx(e) \/ CommitUnknown(e)
  <2>1. failed' = failed \/ failed' = [failed EXCEPT ![e] = TRUE]
    BY <1>2 DEF CommitTx, CommitUnknown
  <2>2. \A f \in Events : f # e => failed'[f] = failed[f]
    BY <2>1 DEF TypeOK
  <2>3. Committed(e)
    BY <1>2 DEF CommitTx, CommitUnknown
  <2>4. \A f \in Events : SessionOf[f] \in Sessions
    BY ConstantsAssumption
  <2>5. /\ payment'[SessionOf[e]] = "succeeded"
        /\ \A s \in Sessions : payment[s] = "succeeded" => payment'[s] = "succeeded"
        /\ pc[e] = "commit" /\ pc' = [pc EXCEPT ![e] = "finish"]
        /\ UNCHANGED <<reply, event>>
    BY <2>3, CommittedPays
  <2>6. pc \in [Events -> PC]
    BY DEF TypeOK
  <2> QED BY <2>2, <2>4, <2>5, <2>6 DEF AckInv
<1> USE ConstantsAssumption DEF AckInv, TypeOK, db, jobRows, locks, locals, loop, handler,
        queue, history, noted, Goto, TxPC, LivePC
<1>1. CASE \/ ReadOrder(e) \/ MarkPaid(e) \/ CreateInvoice(e) \/ UpsertPayment(e)
           \/ ReadServices(e) \/ WriteServices(e) \/ EnsureJobs(e)
  BY <1>1 DEF ReadOrder, MarkPaid, CreateInvoice, UpsertPayment, ReadServices,
              WriteServices, EnsureJobs
<1>3. CASE UniqueViolation(e) \/ ConnBusy(e) \/ TxFails(e) \/ EventIsVictim(e)
  <2>1. Rollback(e) /\ pc[e] \in TxPC
    BY <1>3, VictimWaits DEF UniqueViolation, ConnBusy, TxFails, EventIsVictim
  <2> QED BY <2>1 DEF Rollback
<1>5. CASE EnqueueTask(e) \/ ResetService(e)
  BY <1>5 DEF EnqueueTask, ResetService
<1>10. CASE EnqueueFails(e)
  BY <1>10 DEF EnqueueFails
<1>11. CASE ResetFails(e)
  BY <1>11 DEF ResetFails
<1>6. CASE FinishEvent(e) \/ FinishFails(e)
  BY <1>6 DEF FinishEvent, FinishFails
<1>7. CASE HandlerDies(e)
  BY <1>7 DEF HandlerDies
<1>8. CASE ReceiveEvent(e) \/ ReceiveFails(e) \/ DuplicateDelivery(e)
  BY <1>8 DEF ReceiveEvent, ReceiveFails, DuplicateDelivery
<1> QED
  BY <1>1, <1>2, <1>3, <1>5, <1>6, <1>7, <1>8, <1>10, <1>11
  DEF Webhook, Proceed

\* Neither the worker nor an administrator touches an event.
LEMMA OthersKeepEvents ==
  ASSUME TypeOK,
         \/ \E i \in Items, n \in JobNo : Worker(i, n)
         \/ \E a \in Admins : Administrator(a)
  PROVE  UNCHANGED <<pc, failed, reply, event, payment>>
<1> USE DEF db, locks, locals, loop, handler, queue, history, noted
<1>1. ASSUME NEW i \in Items, NEW n \in JobNo, Worker(i, n)
      PROVE  UNCHANGED <<pc, failed, reply, event, payment>>
  BY <1>1 DEF Worker, Work, StartTask, ActivateService, CompleteJob, ActivateOrder,
              AckTask, Step, TaskFails, WorkerDies
<1>2. ASSUME NEW a \in Admins, Administrator(a)
      PROVE  UNCHANGED <<pc, failed, reply, event, payment>>
  <2>1. CASE Continue(a)
    BY <2>1 DEF Continue, AdminWriteStatus, AdminUpdateService, AdminCommit, AdminEnqueue,
                AdminUndoJob, AdminUndoService, AdminUndoOrder, AdminIsVictim
  <2>2. CASE ~Continue(a)
    BY <1>2, <2>2 DEF Administrator, AdminReadStatus, AdminReadService,
                      AdminEnqueueFails, AdminUndoFails, AdminDies
  <2> QED BY <2>1, <2>2
<1> QED BY <1>1, <1>2

\* Once a transaction has committed, the event it leaves is on record.
THEOREM AckInvariant == Spec => []AckInv
<1>1. Init => AckInv
  BY DEF Init, AckInv
<1>2. TypeOK /\ AckInv /\ [Next]_vars => AckInv'
  <2> SUFFICES ASSUME TypeOK, AckInv, [Next]_vars PROVE AckInv'
    OBVIOUS
  <2>1. CASE \E e \in Events : Webhook(e)
    BY <2>1, WebhookAck
  <2>2. CASE \/ \E i \in Items, n \in JobNo : Worker(i, n)
             \/ \E a \in Admins : Administrator(a)
    BY <2>2, OthersKeepEvents DEF AckInv
  <2>3. CASE UNCHANGED vars
    BY <2>3 DEF vars, db, handler, AckInv
  <2> QED BY <2>1, <2>2, <2>3 DEF Next
<1> QED BY <1>1, <1>2, TypeCorrect, PTL DEF Spec

\* A 200 "Webhook processed" means that the payment is on record.
THEOREM AcknowledgementsHold == Spec => []AcknowledgedIsRecorded
<1>1. AckInv => AcknowledgedIsRecorded
  BY DEF AckInv, AcknowledgedIsRecorded
<1> QED BY <1>1, AckInvariant, PTL

-----------------------------------------------------------------------------
(* Fulfilment implements Ledger.                                           *)

\* A step after which the ledger reads as before.
LedgerStays ==
  /\ UNCHANGED <<payment, invoices, markedPaid>>
  /\ \A i \in Items : service'[i] = "none" <=> service[i] = "none"
  /\ \A e \in Events : reply'[e] = "ok" <=> reply[e] = "ok"

LEMMA StaysIsStutter ==
  ASSUME LedgerStays
  PROVE  UNCHANGED L!vars
<1>1. {s \in Sessions : payment'[s] = "succeeded"} = {s \in Sessions : payment[s] = "succeeded"}
  BY DEF LedgerStays
<1>2. {i \in Items : service'[i] # "none"} = {i \in Items : service[i] # "none"}
  BY DEF LedgerStays
<1>3. {e \in Events : reply'[e] = "ok"} = {e \in Events : reply[e] = "ok"}
  BY DEF LedgerStays
<1> QED BY <1>1, <1>2, <1>3 DEF LedgerStays, L!vars

\* The commit posts the event's session.
LEMMA CommitPosts ==
  ASSUME TypeOK, FulfilmentInv, NEW e \in Events, Committed(e), UNCHANGED noted
  PROVE  L!Post(SessionOf[e])
<1> DEFINE o == EventOrder(e)
<1> USE ConstantsAssumption
<1>1. /\ o \in Orders /\ invoices[o] \in Nat /\ invoices \in [Orders -> Nat]
      /\ SessionOf[e] \in Sessions /\ PaysFor[SessionOf[e]] = o
      /\ pc[e] = "commit"
  BY EventOrderTyped DEF TypeOK, EventOrder, Committed, Goto
<1>2. {s \in Sessions : payment'[s] = "succeeded"} =
        {s \in Sessions : payment[s] = "succeeded"} \cup {SessionOf[e]}
  <2>1. payment' = [payment EXCEPT ![SessionOf[e]] = "succeeded"]
    BY DEF Committed
  <2> QED BY <1>1, <2>1 DEF TypeOK
<1>3. \/ /\ invoices[o] = 0 \/ o \in markedPaid
         /\ invoices' = [invoices EXCEPT ![o] = @ + 1]
      \/ invoices[o] > 0 /\ UNCHANGED invoices
  <2>1. IF newInvoice[e] THEN o \in markedPaid \/ invoices[o] = 0 ELSE invoices[o] > 0
    BY <1>1 DEF FulfilmentInv, InvoiceLookupHolds, PastInvoice, PastMark, TxPC
  <2>2. invoices' = [invoices EXCEPT ![o] = IF newInvoice[e] THEN @ + 1 ELSE @]
    BY DEF Committed
  <2>3. CASE newInvoice[e]
    BY <1>1, <2>1, <2>2, <2>3
  <2>4. CASE ~newInvoice[e]
    BY <1>1, <2>1, <2>2, <2>4
  <2> QED BY <2>3, <2>4
<1>4. {i \in Items : service'[i] # "none"} =
        {i \in Items : service[i] # "none"} \cup {i \in Items : OrderOf[i] = o}
  <2>1. service' = [i \in Items |-> IF i \in Writes(e) THEN "provisioning"
                                   ELSE service[i]]
    BY DEF Committed
  <2>2. \A i \in ItemsOf(o) : seen[e][i] # "none" => service[i] # "none"
    BY <1>1 DEF FulfilmentInv, ServiceLookupHolds
  <2>3. \A i \in Items : OrderOf[i] = o => i \in Writes(e) \/ service[i] # "none"
    BY <2>2 DEF Writes, ItemsOf
  <2>4. \A i \in Writes(e) : i \in Items /\ OrderOf[i] = o
    BY DEF Writes, ItemsOf
  <2> QED BY <2>1, <2>3, <2>4
<1>5. UNCHANGED <<markedPaid, reply>>
  BY DEF Committed, noted
<1> QED BY <1>1, <1>2, <1>3, <1>4, <1>5 DEF L!Post

LEMMA WebhookLedger ==
  ASSUME TypeOK, FulfilmentInv, AckInv, NEW e \in Events, Webhook(e)
  PROVE  L!Next \/ UNCHANGED L!vars
<1>1. CASE CommitTx(e) \/ CommitUnknown(e)
  <2>1. Committed(e) /\ UNCHANGED noted
    BY <1>1 DEF CommitTx, CommitUnknown, history
  <2>2. SessionOf[e] \in Sessions
    BY ConstantsAssumption
  <2> QED BY <2>1, <2>2, CommitPosts DEF L!Next
<1>2. CASE FinishEvent(e) /\ ~failed[e]
  <2>1. /\ SessionOf[e] \in Sessions
        /\ payment[SessionOf[e]] = "succeeded"
    BY <1>2, ConstantsAssumption DEF FinishEvent, Goto, AckInv
  <2>2. reply' = [reply EXCEPT ![e] = "ok"] /\ UNCHANGED <<payment, invoices, service, markedPaid>>
    BY <1>2 DEF FinishEvent, db, history, noted
  <2>3. {SessionOf[f] : f \in {x \in Events : reply'[x] = "ok"}} =
          {SessionOf[f] : f \in {x \in Events : reply[x] = "ok"}} \cup {SessionOf[e]}
    <3>1. {x \in Events : reply'[x] = "ok"} = {x \in Events : reply[x] = "ok"} \cup {e}
      BY <2>2 DEF TypeOK
    <3> QED BY <3>1
  <2>4. L!Acknowledge(SessionOf[e])
    BY <2>1, <2>2, <2>3 DEF L!Acknowledge
  <2> QED BY <2>1, <2>4 DEF L!Next
<1> USE DEF LedgerStays, TypeOK, AckInv, db, jobRows, locks, locals, loop, handler,
        queue, history, noted, Goto
<1>3. CASE FinishEvent(e) /\ failed[e]
  BY <1>3, StaysIsStutter DEF FinishEvent
<1>4. CASE \/ ReadOrder(e) \/ MarkPaid(e) \/ CreateInvoice(e) \/ UpsertPayment(e)
           \/ ReadServices(e) \/ WriteServices(e) \/ EnsureJobs(e)
  BY <1>4, StaysIsStutter DEF ReadOrder, MarkPaid, CreateInvoice, UpsertPayment,
     ReadServices, WriteServices, EnsureJobs
<1>5. CASE \/ UniqueViolation(e) \/ ConnBusy(e) \/ TxFails(e) \/ EventIsVictim(e)
  <2>1. Rollback(e)
    BY <1>5 DEF UniqueViolation, ConnBusy, TxFails, EventIsVictim
  <2> QED BY <2>1, StaysIsStutter DEF Rollback
<1>6. CASE EnqueueTask(e) \/ EnqueueFails(e) \/ ResetFails(e)
  BY <1>6, StaysIsStutter DEF EnqueueTask, EnqueueFails, ResetFails
<1>7. CASE ResetService(e)
  BY <1>7, StaysIsStutter DEF ResetService
<1>8. CASE FinishFails(e)
  BY <1>8, StaysIsStutter DEF FinishFails
<1>9. CASE HandlerDies(e)
  BY <1>9, StaysIsStutter DEF HandlerDies
<1>10. CASE ReceiveEvent(e) \/ DuplicateDelivery(e)
  BY <1>10, StaysIsStutter DEF ReceiveEvent, DuplicateDelivery
<1>11. CASE ReceiveFails(e)
  <2>1. reply[e] # "ok"
    BY <1>11 DEF ReceiveFails
  <2> QED BY <1>11, <2>1, StaysIsStutter DEF ReceiveFails
<1> QED
  BY <1>1, <1>2, <1>3, <1>4, <1>5, <1>6, <1>7, <1>8, <1>9, <1>10, <1>11
  DEF Webhook, Proceed

LEMMA OthersLedger ==
  ASSUME TypeOK, FulfilmentInv,
         \/ \E i \in Items, n \in JobNo : Worker(i, n)
         \/ \E a \in Admins : Administrator(a)
  PROVE  L!Next \/ UNCHANGED L!vars
<1> USE DEF db, locks, locals, loop, handler, queue, history, noted
<1>1. ASSUME NEW i \in Items, NEW n \in JobNo, Worker(i, n)
      PROVE  LedgerStays
  <2>1. UNCHANGED <<payment, invoices, markedPaid, reply>>
    BY <1>1 DEF Worker, Work, StartTask, ActivateService, CompleteJob, ActivateOrder,
                AckTask, Step, TaskFails, WorkerDies
  <2>2. CASE ActivateService(i, n)
    <3>1. service[i] # "none" /\ service' = [service EXCEPT ![i] = "active"]
      BY <2>2 DEF ActivateService, Step, FulfilmentInv, ServiceLookupHolds
    <3> QED BY <2>1, <3>1 DEF LedgerStays, TypeOK
  <2>3. CASE ~ActivateService(i, n)
    <3>1. UNCHANGED service
      BY <1>1, <2>3 DEF Worker, Work, StartTask, CompleteJob, ActivateOrder,
                        AckTask, Step, TaskFails, WorkerDies
    <3> QED BY <2>1, <3>1 DEF LedgerStays
  <2> QED BY <2>2, <2>3
<1>2. ASSUME NEW a \in Admins, Administrator(a)
      PROVE  L!Next \/ LedgerStays
  <2>1. CASE AdminWriteStatus(a)
    <3>1. UNCHANGED <<payment, invoices, service, reply>>
      BY <2>1 DEF AdminWriteStatus
    <3>2. CASE adm[a].to = "paid"
      <4>1. adm[a].order \in Orders
        <5>1. adm[a] \in AdminStates /\ adm[a].pc = "setStatus"
          BY <2>1 DEF AdminWriteStatus, Admin, TypeOK
        <5> QED BY <5>1 DEF AdminStates, Idle
      <4>2. L!DeclarePaid(adm[a].order)
        BY <2>1, <3>1, <3>2 DEF AdminWriteStatus, L!DeclarePaid
      <4> QED BY <4>1, <4>2 DEF L!Next
    <3>3. CASE adm[a].to # "paid"
      BY <2>1, <3>1, <3>3 DEF AdminWriteStatus, LedgerStays
    <3> QED BY <3>2, <3>3
  <2>2. CASE AdminCommit(a) \/ AdminUndoService(a)
    <3>1. adm[a].pc \notin {"idle", "setStatus"}
      BY <2>2 DEF AdminCommit, AdminUndoService, Admin
    <3>2. service[adm[a].item] # "none"
      BY <3>1 DEF FulfilmentInv, ServiceLookupHolds
    <3>3. \E s \in ServiceStatus : service' = [service EXCEPT ![adm[a].item] = s]
      BY <2>2 DEF AdminCommit, AdminUndoService, ServiceStatus
    <3>4. UNCHANGED <<payment, invoices, markedPaid, reply>>
      BY <2>2 DEF AdminCommit, AdminUndoService
    <3> QED BY <3>2, <3>3, <3>4 DEF LedgerStays, TypeOK, ServiceStatus
  <2>3. CASE \/ AdminUpdateService(a) \/ AdminEnqueue(a) \/ AdminUndoJob(a)
             \/ AdminUndoOrder(a) \/ AdminIsVictim(a)
    BY <2>3 DEF AdminUpdateService, AdminEnqueue, AdminUndoJob, AdminUndoOrder,
                AdminIsVictim, LedgerStays
  <2>4. CASE ~Continue(a)
    BY <1>2, <2>4 DEF Administrator, AdminReadStatus, AdminReadService,
                      AdminEnqueueFails, AdminUndoFails, AdminDies, LedgerStays
  <2> QED BY <2>1, <2>2, <2>3, <2>4 DEF Continue
<1> QED BY <1>1, <1>2, StaysIsStutter

(***************************************************************************)
(* Every step of the webhooks, the worker and the administrators posts one *)
(* session whole, acknowledges a posted one, or changes nothing that the   *)
(* ledger shows (handleCheckoutSessionCompleted, HandleWebhook).           *)
(***************************************************************************)
THEOREM LedgerImplemented == Spec => ImplementsLedger
<1>1. Init => L!Init
  BY DEF Init, L!Init
<1>2. TypeOK /\ FulfilmentInv /\ AckInv /\ [Next]_vars => [L!Next]_(L!vars)
  <2> SUFFICES ASSUME TypeOK, FulfilmentInv, AckInv, [Next]_vars
               PROVE  L!Next \/ UNCHANGED L!vars
    OBVIOUS
  <2>1. CASE \E e \in Events : Webhook(e)
    BY <2>1, WebhookLedger
  <2>2. CASE \/ \E i \in Items, n \in JobNo : Worker(i, n)
             \/ \E a \in Admins : Administrator(a)
    BY <2>2, OthersLedger
  <2>3. CASE UNCHANGED vars
    <3>1. LedgerStays
      BY <2>3 DEF vars, db, history, noted, LedgerStays
    <3> QED BY <3>1, StaysIsStutter
  <2> QED BY <2>1, <2>2, <2>3 DEF Next
<1> QED
  BY <1>1, <1>2, TypeCorrect, FulfilmentCorrect, AckInvariant, PTL
  DEF Spec, ImplementsLedger, L!Spec
=============================================================================

----------------------------- MODULE Jobs_proofs -----------------------------
(***************************************************************************)
(* Provisioning jobs and Asynq's tasks: no task without a committed job,   *)
(* no pending job that everyone has forgotten, no running job without a    *)
(* task, for any number of events, requests, failures and deaths.          *)
(***************************************************************************)
EXTENDS Fulfilment_proofs

LEMMA JobsTyped ==
  ASSUME TypeOK
  PROVE  \A i \in Items : jobs[i] \in Seq(JobStatus) /\ Len(jobs[i]) \in Nat
BY DEF TypeOK

\* An UPDATE of one job changes no other and adds none.
LEMMA JobWritten ==
  ASSUME TypeOK, NEW i \in Items, NEW n, NEW s, SetJob(i, n, s)
  PROVE  /\ \A k \in Items : Len(jobs'[k]) = Len(jobs[k])
         /\ \A k \in Items : \A m \in 1 .. Len(jobs[k]) :
              jobs'[k][m] = IF k = i /\ m = n THEN s ELSE jobs[k][m]
<1>1. jobs' = [jobs EXCEPT ![i] = [@ EXCEPT ![n] = s]]
  BY DEF SetJob
<1>2. /\ jobs \in [Items -> Seq(JobStatus)]
      /\ \A k \in Items : DOMAIN jobs[k] = 1 .. Len(jobs[k]) /\ Len(jobs[k]) \in Nat
  BY DEF TypeOK
<1>3. jobs'[i] = [jobs[i] EXCEPT ![n] = s] /\ \A k \in Items : k # i => jobs'[k] = jobs[k]
  BY <1>1, <1>2
<1>4. jobs[i] \in Seq(JobStatus)
  BY <1>2
<1>5. jobs'[i] \in Seq(JobStatus \cup {s}) /\ Len(jobs'[i]) = Len(jobs[i])
  <2>1. jobs[i] \in Seq(JobStatus \cup {s})
    BY <1>4
  <2>2. CASE n \in 1 .. Len(jobs[i])
    BY <1>3, <2>1, <2>2, ExceptSeq
  <2>3. CASE n \notin 1 .. Len(jobs[i])
    <3>1. jobs'[i] = jobs[i]
      BY <1>2, <1>3, <2>3
    <3> QED BY <3>1, <2>1
  <2> QED BY <2>2, <2>3
<1>6. \A m \in 1 .. Len(jobs[i]) : jobs'[i][m] = IF m = n THEN s ELSE jobs[i][m]
  BY <1>2, <1>3
<1> QED BY <1>3, <1>5, <1>6

LEMMA LatestWritten ==
  ASSUME TypeOK, NEW i \in Items, NEW s, SetLatestJob(i, s)
  PROVE  /\ \A k \in Items : Len(jobs'[k]) = Len(jobs[k])
         /\ \A k \in Items : \A m \in 1 .. Len(jobs[k]) :
              jobs'[k][m] = IF k = i /\ m = latest[i].job THEN s ELSE jobs[k][m]
<1>1. CASE jobs[i] = <<>>
  <2>1. UNCHANGED jobs
    BY <1>1 DEF SetLatestJob
  <2>2. Len(jobs[i]) = 0
    BY <1>1
  <2> QED BY <2>1, <2>2
<1>2. CASE jobs[i] # <<>>
  <2>1. SetJob(i, latest[i].job, s)
    BY <1>2 DEF SetLatestJob
  <2> QED BY <2>1, JobWritten
<1> QED BY <1>1, <1>2

LEMMA JobsAppended ==
  ASSUME TypeOK, NEW new \in SUBSET Items,
         jobs' = [i \in Items |-> IF i \in new THEN Append(jobs[i], "pending") ELSE jobs[i]]
  PROVE  \A i \in Items :
           /\ Len(jobs'[i]) = IF i \in new THEN Len(jobs[i]) + 1 ELSE Len(jobs[i])
           /\ \A n \in 1 .. Len(jobs[i]) : jobs'[i][n] = jobs[i][n]
           /\ i \in new => jobs'[i][Len(jobs[i]) + 1] = "pending"
BY JobsTyped, AppendProperties

-----------------------------------------------------------------------------
(* A task, and whatever is about to enqueue one, refers to a committed job;*)
(* a pending job has a task, or somebody who is about to enqueue it.       *)

Refers(a) == adm[a].pc \in {"enqueue", "undoJob"}

HasJob ==
  /\ TaskHasJob
  /\ \A i \in Items : Len(jobs[i]) <= MaxJobs
  /\ \A e \in Events, i \in Items, n \in JobNo :
       <<i, n>> \in toEnqueue[e] => n <= Len(jobs[i])
  /\ \A a \in Admins : Refers(a) => adm[a].job <= Len(jobs[adm[a].item])

Scheduled ==
  /\ \A e \in Events : pc[e] \notin {"finish", "dead"} => toEnqueue[e] = {}
  /\ \A e \in Events : pc[e] = "dead" => crashes > 0
  /\ PendingJobIsScheduled

\* A step that adds no job, sends no task and takes none off a sender's hands.
LEMMA QuietJobs ==
  ASSUME TypeOK, HasJob, Scheduled,
         \A i \in Items : Len(jobs'[i]) = Len(jobs[i]),
         \A i \in Items : \A n \in 1 .. Len(jobs[i]) :
           jobs'[i][n] = "pending" => jobs[i][n] = "pending",
         \A i \in Items, n \in JobNo : task'[i][n] = "none" <=> task[i][n] = "none",
         UNCHANGED toEnqueue,
         \A e \in Events : pc'[e] \notin {"finish", "dead"} => toEnqueue[e] = {},
         \A e \in Events : pc'[e] = "dead" => pc[e] = "dead" \/ crashes' > 0,
         \A e \in Events : pc[e] = "finish" /\ toEnqueue[e] # {} =>
                             pc'[e] = "finish" \/ crashes' > 0,
         \A a \in Admins : Refers(a) \/ Refers(a)' => adm'[a] = adm[a] \/
                             (crashes' > 0 /\ ~Refers(a)'),
         unmarked \subseteq unmarked', crashes' >= crashes, crashes' \in Nat
  PROVE  HasJob' /\ Scheduled'
<1>1. HasJob'
  <2>1. TaskHasJob'
    BY DEF HasJob, TaskHasJob
  <2>2. \A a \in Admins : Refers(a)' => adm'[a].job <= Len(jobs'[adm'[a].item])
    <3>1. \A a \in Admins : Refers(a)' => adm'[a] = adm[a]
      OBVIOUS
    <3>2. \A a \in Admins : Refers(a) => adm[a].item \in Items
      BY AdminItem DEF Refers
    <3> QED BY <3>1, <3>2 DEF HasJob, Refers
  <2> QED BY <2>1, <2>2 DEF HasJob
<1>2. \A e \in Events : pc'[e] = "dead" => crashes' > 0
  BY DEF Scheduled, TypeOK
<1>3. ASSUME NEW i \in Items, NEW n \in 1 .. Len(jobs'[i]),
             jobs'[i][n] = "pending", task'[i][n] = "none"
      PROVE  WillSend(i, n)' \/ <<i, n>> \in unmarked' \/ crashes' > 0
  <2>1. n \in 1 .. Len(jobs[i]) /\ jobs[i][n] = "pending"
    BY <1>3
  <2>2. n \in JobNo
    BY <2>1, ConstantsAssumption DEF HasJob, JobNo
  <2> QED
    <3>1. task[i][n] = "none"
      BY <1>3, <2>2
    <3>2. WillSend(i, n) \/ <<i, n>> \in unmarked \/ crashes > 0
      BY <2>1, <3>1 DEF Scheduled, PendingJobIsScheduled
    <3>3. CASE WillSend(i, n)
      BY <3>3 DEF WillSend, Refers
    <3>4. CASE crashes > 0
      BY <3>4 DEF TypeOK
    <3> QED BY <3>2, <3>3, <3>4
<1> QED BY <1>1, <1>2, <1>3 DEF Scheduled, PendingJobIsScheduled

LEMMA CommittedJobs ==
  ASSUME TypeOK, HasJob, Scheduled, NEW e \in Events, CommitTx(e) \/ CommitUnknown(e)
  PROVE  HasJob' /\ Scheduled'
<1> DEFINE new == newJobs[e]
<1>1. /\ pc[e] = "commit" /\ pc' = [pc EXCEPT ![e] = "finish"] /\ pc \in [Events -> PC]
      /\ toEnqueue[e] = {} /\ toEnqueue \in [Events -> SUBSET (Items \X JobNo)]
      /\ new \in SUBSET Items /\ UNCHANGED <<task, adm, unmarked>>
      /\ \A i \in new : Len(jobs[i]) < MaxJobs
  BY DEF CommitTx, CommitUnknown, Committed, Goto, queue, history, noted, TypeOK, Scheduled
<1>2. \A i \in Items :
        /\ Len(jobs'[i]) = IF i \in new THEN Len(jobs[i]) + 1 ELSE Len(jobs[i])
        /\ \A n \in 1 .. Len(jobs[i]) : jobs'[i][n] = jobs[i][n]
  BY <1>1, JobsAppended DEF CommitTx, CommitUnknown, Committed
<1>3. \A i \in Items : Len(jobs[i]) \in Nat
  BY JobsTyped
<1>4. \/ crashes' > 0 /\ UNCHANGED toEnqueue
      \/ /\ toEnqueue' = [toEnqueue EXCEPT ![e] = {<<i, Len(jobs[i]) + 1>> : i \in new}]
         /\ UNCHANGED crashes
  BY DEF CommitTx, CommitUnknown, history, Crash, TypeOK
<1>5. HasJob'
  <2>1. TaskHasJob' /\ \A i \in Items : Len(jobs'[i]) <= MaxJobs
    <3>1. \A i \in Items : Len(jobs'[i]) \in Nat /\ Len(jobs[i]) <= Len(jobs'[i])
      BY <1>2, <1>3
    <3>2. TaskHasJob'
      BY <1>1, <1>3, <3>1 DEF HasJob, TaskHasJob, JobNo
    <3>3. \A i \in Items : Len(jobs'[i]) <= MaxJobs
      BY <1>1, <1>2, <1>3, ConstantsAssumption DEF HasJob
    <3> QED BY <3>2, <3>3
  <2>2. \A f \in Events, i \in Items, n \in JobNo :
          <<i, n>> \in toEnqueue'[f] => n <= Len(jobs'[i])
    <3>1. ASSUME NEW f \in Events, NEW i \in Items, NEW n \in JobNo, <<i, n>> \in toEnqueue'[f]
          PROVE  n <= Len(jobs'[i])
      <4>1. CASE <<i, n>> \in toEnqueue[f]
        BY <4>1, <1>2, <1>3 DEF HasJob, JobNo
      <4>2. CASE <<i, n>> \notin toEnqueue[f]
        <5>1. f = e /\ <<i, n>> \in {<<k, Len(jobs[k]) + 1>> : k \in new}
          BY <3>1, <4>2, <1>1, <1>4
        <5> QED BY <5>1, <1>2
      <4> QED BY <4>1, <4>2
    <3> QED BY <3>1
  <2>3. \A a \in Admins : Refers(a)' => adm'[a].job <= Len(jobs'[adm'[a].item])
    <3>1. \A a \in Admins : Refers(a) => adm[a].item \in Items /\ adm[a].job \in Nat
      <4> SUFFICES ASSUME NEW a \in Admins, Refers(a)
                   PROVE  adm[a].item \in Items /\ adm[a].job \in Nat
        OBVIOUS
      <4>1. adm[a] \in AdminStates
        BY DEF TypeOK
      <4> QED BY <4>1 DEF AdminStates, Refers, Idle, JobNo
    <3> QED BY <3>1, <1>1, <1>2, <1>3 DEF HasJob, Refers
  <2> QED BY <2>1, <2>2, <2>3 DEF HasJob
<1>6. Scheduled'
  <2>1. \A f \in Events : pc'[f] \notin {"finish", "dead"} => toEnqueue'[f] = {}
    BY <1>1, <1>4 DEF Scheduled
  <2>2. \A f \in Events : pc'[f] = "dead" => crashes' > 0
    BY <1>1, <1>4 DEF Scheduled
  <2>3. ASSUME NEW i \in Items, NEW n \in 1 .. Len(jobs'[i]),
               jobs'[i][n] = "pending", task'[i][n] = "none"
        PROVE  WillSend(i, n)' \/ <<i, n>> \in unmarked' \/ crashes' > 0
    <3>1. n \in JobNo
      BY <1>5, <1>2, <1>3, ConstantsAssumption DEF HasJob, JobNo
    <3>2. CASE n \in 1 .. Len(jobs[i])
      <4>1. WillSend(i, n) \/ <<i, n>> \in unmarked \/ crashes > 0
        BY <1>1, <1>2, <2>3, <3>2 DEF Scheduled, PendingJobIsScheduled
      <4>2. CASE WillSend(i, n)
        <5>1. \A f \in Events : pc[f] = "finish" => f # e
          BY <1>1
        <5> QED BY <1>1, <1>4, <4>2, <5>1 DEF WillSend
      <4> QED BY <1>1, <1>4, <4>1, <4>2
    <3>3. CASE n \notin 1 .. Len(jobs[i])
      <4>1. i \in new /\ n = Len(jobs[i]) + 1
        BY <1>2, <1>3, <3>3
      <4>2. crashes' > 0 \/ (pc'[e] = "finish" /\ <<i, n>> \in toEnqueue'[e])
        BY <1>1, <1>4, <4>1
      <4> QED BY <4>2 DEF WillSend
    <3> QED BY <3>2, <3>3
  <2> QED BY <2>1, <2>2, <2>3 DEF Scheduled, PendingJobIsScheduled
<1> QED BY <1>5, <1>6

LEMMA EnqueueJobs ==
  ASSUME TypeOK, HasJob, Scheduled, NEW e \in Events, EnqueueTask(e) \/ EnqueueFails(e)
  PROVE  HasJob' /\ Scheduled'
<1>1. PICK i \in Items, n \in JobNo :
        /\ <<i, n>> \in toEnqueue[e]
        /\ toEnqueue' = [toEnqueue EXCEPT ![e] = @ \ {<<i, n>>}]
        /\ \/ task' = [task EXCEPT ![i][n] = "queued"] /\ UNCHANGED <<jobs, unmarked>>
           \/ UNCHANGED <<task, unmarked>> /\ SetJob(i, n, "failed")
           \/ UNCHANGED <<task, jobs>> /\ unmarked' = unmarked \cup {<<i, n>>}
  BY DEF EnqueueTask, EnqueueFails, db, jobRows, history, noted, queue
<1>2. UNCHANGED <<pc, adm, crashes>> /\ pc[e] = "finish"
  BY DEF EnqueueTask, EnqueueFails, history
<1>3. /\ \A k \in Items : Len(jobs'[k]) = Len(jobs[k])
      /\ \A k \in Items : \A m \in 1 .. Len(jobs[k]) :
           jobs'[k][m] = jobs[k][m] \/ (k = i /\ m = n /\ jobs'[k][m] = "failed")
  <2>1. CASE SetJob(i, n, "failed")
    BY <2>1, JobWritten
  <2>2. CASE UNCHANGED jobs
    BY <2>2
  <2> QED BY <1>1, <2>1, <2>2
<1>4. /\ \A k \in Items, m \in JobNo :
           /\ task'[k][m] # "none" => task[k][m] # "none" \/ <<k, m>> = <<i, n>>
           /\ task'[k][m] = "none" => task[k][m] = "none"
      /\ jobs'[i][n] # "pending" \/ task'[i][n] # "none" \/ <<i, n>> \in unmarked'
      /\ unmarked \subseteq unmarked'
  <2>1. n \in 1 .. Len(jobs[i])
    BY <1>1, JobsTyped DEF HasJob, JobNo
  <2>2. SetJob(i, n, "failed") => jobs'[i][n] = "failed"
    BY <2>1, JobWritten
  <2> QED BY <1>1, <2>2 DEF TypeOK, TaskStatus
<1>5. /\ \A f \in Events : toEnqueue'[f] \subseteq toEnqueue[f]
      /\ \A f \in Events, k \in Items, m \in JobNo :
           <<k, m>> \in toEnqueue[f] => <<k, m>> \in toEnqueue'[f] \/ <<k, m>> = <<i, n>>
  BY <1>1 DEF TypeOK
<1>6. HasJob'
  <2>1. TaskHasJob'
    BY <1>1, <1>3, <1>4 DEF HasJob, TaskHasJob
  <2>2. \A a \in Admins : Refers(a) => adm[a].item \in Items
    BY AdminItem DEF Refers
  <2> QED BY <1>2, <1>3, <1>5, <2>1, <2>2 DEF HasJob, Refers
<1>7. Scheduled'
  <2>1. ASSUME NEW k \in Items, NEW m \in 1 .. Len(jobs'[k]),
               jobs'[k][m] = "pending", task'[k][m] = "none"
        PROVE  WillSend(k, m)' \/ <<k, m>> \in unmarked' \/ crashes' > 0
    <3>1. m \in JobNo /\ m \in 1 .. Len(jobs[k])
      BY <1>3, JobsTyped, ConstantsAssumption DEF HasJob, JobNo
    <3>2. <<k, m>> # <<i, n>> \/ <<k, m>> \in unmarked'
      BY <1>4, <2>1
    <3>3. jobs[k][m] = "pending" /\ task[k][m] = "none"
      BY <1>3, <1>4, <2>1, <3>1
    <3>4. WillSend(k, m) \/ <<k, m>> \in unmarked \/ crashes > 0
      BY <3>1, <3>3 DEF Scheduled, PendingJobIsScheduled
    <3> QED BY <1>2, <1>4, <1>5, <3>1, <3>2, <3>4 DEF WillSend
  <2> QED BY <1>2, <1>5, <2>1 DEF Scheduled, PendingJobIsScheduled
<1> QED BY <1>6, <1>7

LEMMA WebhookJobs ==
  ASSUME TypeOK, HasJob, Scheduled, TypeOK', NEW e \in Events, Webhook(e)
  PROVE  HasJob' /\ Scheduled'
<1>1. CASE CommitTx(e) \/ CommitUnknown(e)
  BY <1>1, CommittedJobs
<1>2. CASE EnqueueTask(e) \/ EnqueueFails(e)
  BY <1>2, EnqueueJobs
<1>3. CASE ~(CommitTx(e) \/ CommitUnknown(e) \/ EnqueueTask(e) \/ EnqueueFails(e))
  <2>1. UNCHANGED <<jobs, task, toEnqueue, adm, unmarked>>
    <3> USE DEF db, jobRows, locks, locals, loop, handler, queue, history, noted
    <3>1. CASE Proceed(e) \/ TxFails(e)
      BY <1>3, <3>1 DEF Proceed, ReadOrder, MarkPaid, CreateInvoice, UpsertPayment,
         ReadServices, WriteServices, EnsureJobs, UniqueViolation, ConnBusy, TxFails,
         EventIsVictim, Rollback, ResetService, FinishEvent
    <3>2. CASE ~Proceed(e) /\ ~TxFails(e)
      BY <1>3, <3>2 DEF Webhook, ReceiveEvent, ReceiveFails, DuplicateDelivery,
         ResetFails, FinishFails, HandlerDies
    <3> QED BY <3>1, <3>2
  <2>2. crashes' \in Nat /\ crashes' >= crashes
    <3>1. UNCHANGED crashes \/ Crash
      <4> USE DEF history
      <4>1. CASE Proceed(e) \/ TxFails(e)
        BY <1>3, <4>1 DEF Proceed, ReadOrder, MarkPaid, CreateInvoice, UpsertPayment,
           ReadServices, WriteServices, EnsureJobs, UniqueViolation, ConnBusy, TxFails,
           EventIsVictim, Rollback, ResetService, FinishEvent
      <4>2. CASE ~Proceed(e) /\ ~TxFails(e)
        BY <1>3, <4>2 DEF Webhook, ReceiveEvent, ReceiveFails, DuplicateDelivery,
           ResetFails, FinishFails, HandlerDies
      <4> QED BY <4>1, <4>2
    <3> QED BY <3>1 DEF TypeOK, Crash
  <2>3. \A f \in Events :
          /\ pc'[f] \notin {"finish", "dead"} => toEnqueue[f] = {}
          /\ pc'[f] = "dead" => pc[f] = "dead" \/ crashes' > 0
          /\ pc[f] = "finish" /\ toEnqueue[f] # {} => pc'[f] = "finish" \/ crashes' > 0
    <3> USE DEF Goto, TxPC, LivePC, handler, Scheduled, TypeOK
    <3>1. CASE \/ ReadOrder(e) \/ MarkPaid(e) \/ CreateInvoice(e) \/ UpsertPayment(e)
               \/ ReadServices(e) \/ WriteServices(e) \/ EnsureJobs(e)
      <4>1. \E p \in TxPC, q \in TxPC : pc[e] = p /\ pc' = [pc EXCEPT ![e] = q]
        BY <3>1 DEF ReadOrder, MarkPaid, CreateInvoice, UpsertPayment,
           ReadServices, WriteServices, EnsureJobs
      <4>2. /\ pc[e] \in TxPC
            /\ \A f \in Events : pc'[f] = pc[f] \/ (f = e /\ pc'[f] \in TxPC)
        BY <4>1
      <4> HIDE DEF TypeOK
      <4> QED BY <4>1, <4>2
    <3>2. CASE \/ UniqueViolation(e) \/ ConnBusy(e) \/ TxFails(e) \/ EventIsVictim(e)
      <4>1. pc' = [pc EXCEPT ![e] = "finish"]
        BY <3>2 DEF UniqueViolation, ConnBusy, TxFails, EventIsVictim, Rollback
      <4>2. \A f \in Events : pc'[f] = IF f = e THEN "finish" ELSE pc[f]
        BY <4>1
      <4> HIDE DEF TypeOK
      <4> QED BY <4>2
    <3>3. CASE ResetService(e) \/ ResetFails(e)
      BY <3>3 DEF ResetService, ResetFails
    <3>4. CASE FinishEvent(e) \/ FinishFails(e)
      BY SMTT(30), <3>4 DEF FinishEvent, FinishFails
    <3>5. CASE HandlerDies(e)
      BY <3>5 DEF HandlerDies, Crash
    <3>6. CASE ReceiveEvent(e) \/ ReceiveFails(e) \/ DuplicateDelivery(e)
      BY SMTT(30), <3>6 DEF ReceiveEvent, ReceiveFails, DuplicateDelivery
    <3> QED BY <1>3, <3>1, <3>2, <3>3, <3>4, <3>5, <3>6 DEF Webhook, Proceed
  <2> QED BY <2>1, <2>2, <2>3, QuietJobs
<1> QED BY <1>1, <1>2, <1>3

\* The worker never makes a job pending and never forgets a task.
LEMMA WorkerJobs ==
  ASSUME TypeOK, HasJob, Scheduled, TypeOK', NEW i \in Items, NEW n \in JobNo, Worker(i, n)
  PROVE  HasJob' /\ Scheduled'
<1>1. UNCHANGED <<pc, toEnqueue, adm, unmarked>>
  BY DEF Worker, Work, StartTask, ActivateService, CompleteJob, ActivateOrder,
         AckTask, Step, TaskFails, WorkerDies, handler, loop, history, noted
<1>2. crashes' \in Nat /\ crashes' >= crashes
  <2>1. UNCHANGED crashes \/ Crash
    BY DEF Worker, Work, StartTask, ActivateService, CompleteJob, ActivateOrder,
           AckTask, Step, TaskFails, WorkerDies, history
  <2> QED BY <2>1 DEF Crash, TypeOK
<1>3. UNCHANGED jobs \/ \E s \in {"running", "completed", "failed"} : SetLatestJob(i, s)
  BY DEF Worker, Work, StartTask, ActivateService, CompleteJob, ActivateOrder,
         AckTask, Step, TaskFails, WorkerDies, db, jobRows
<1>4. /\ \A k \in Items : Len(jobs'[k]) = Len(jobs[k])
      /\ \A k \in Items : \A m \in 1 .. Len(jobs[k]) :
           jobs'[k][m] = "pending" => jobs[k][m] = "pending"
  BY <1>3, LatestWritten
<1>5. \A k \in Items, m \in JobNo : task'[k][m] = "none" <=> task[k][m] = "none"
  <2>1. task[i][n] # "none"
    BY DEF Worker, Work, StartTask, ActivateService, CompleteJob, ActivateOrder,
           AckTask, Step, TaskFails, WorkerDies, Running
  <2>2. \E s : s # "none" /\ task' = [task EXCEPT ![i][n] = s]
    <3>1. CASE TaskFails(i, n) \/ WorkerDies(i, n)
      BY <3>1 DEF TaskFails, WorkerDies, Requeue
    <3>2. CASE Work(i, n)
      BY <3>2 DEF Work, StartTask, ActivateService, CompleteJob, ActivateOrder, AckTask, Step
    <3> QED BY <3>1, <3>2 DEF Worker
  <2>3. PICK s : s # "none" /\ task' = [task EXCEPT ![i][n] = s]
    BY <2>2
  <2>4. task \in [Items -> [JobNo -> TaskStatus]]
    BY DEF TypeOK
  <2> QED BY <2>1, <2>3, <2>4
<1>6. \A e \in Events :
        /\ pc[e] \notin {"finish", "dead"} => toEnqueue[e] = {}
  BY DEF Scheduled
<1> QED BY <1>1, <1>2, <1>4, <1>5, <1>6, QuietJobs

\* A transaction of an administrator that is part of a cycle waits for a lock.
LEMMA AdminVictimWaits ==
  ASSUME NEW a \in Admins, Deadlocked(a)
  PROVE  adm[a].pc \in {"updateService", "updateOrder"}
<1>1. WaitsFor(a) # {} /\ a \notin Events
  BY ConstantsAssumption DEF Deadlocked, Cycle
<1> QED BY <1>1 DEF WaitsFor

LEMMA RefersTyped ==
  ASSUME TypeOK, NEW a \in Admins, Refers(a)
  PROVE  adm[a].item \in Items /\ adm[a].job \in JobNo
<1>1. adm[a] \in AdminStates
  BY DEF TypeOK
<1> QED BY <1>1 DEF AdminStates, Refers, Idle

\* The request commits its job and keeps the task to enqueue.
LEMMA AdminCommitJobs ==
  ASSUME TypeOK, HasJob, Scheduled, NEW a \in Admins, AdminCommit(a)
  PROVE  HasJob' /\ Scheduled'
<1> DEFINE i == adm[a].item
<1>1. /\ adm[a].pc = "updateOrder" /\ adm \in [Admins -> AdminStates]
      /\ adm' = [adm EXCEPT ![a] = [pc |-> "enqueue", item |-> i, job |-> Len(jobs[i]) + 1]]
      /\ UNCHANGED <<task, toEnqueue, pc, crashes, unmarked>>
      /\ Len(jobs[i]) < MaxJobs
  BY DEF AdminCommit, Admin, handler, loop, queue, history, noted, TypeOK
<1>2. i \in Items
  BY <1>1, AdminItem
<1>3. \A k \in Items :
        /\ Len(jobs'[k]) = IF k = i THEN Len(jobs[k]) + 1 ELSE Len(jobs[k])
        /\ \A n \in 1 .. Len(jobs[k]) : jobs'[k][n] = jobs[k][n]
  <2>1. jobs' = [k \in Items |-> IF k \in {i} THEN Append(jobs[k], "pending") ELSE jobs[k]]
    BY <1>2 DEF AdminCommit, TypeOK
  <2> QED BY <1>2, <2>1, JobsAppended
<1>4. \A k \in Items : Len(jobs[k]) \in Nat
  BY JobsTyped
<1>5. HasJob'
  <2>1. TaskHasJob'
    BY <1>1, <1>3, <1>4 DEF HasJob, TaskHasJob, JobNo
  <2>2. \A k \in Items : Len(jobs'[k]) <= MaxJobs
    BY SMTT(30), <1>1, <1>3, <1>4, ConstantsAssumption DEF HasJob
  <2>3. \A e \in Events, k \in Items, n \in JobNo :
          <<k, n>> \in toEnqueue'[e] => n <= Len(jobs'[k])
    BY <1>1, <1>3, <1>4 DEF HasJob, JobNo
  <2>4. ASSUME NEW b \in Admins, Refers(b)'
        PROVE  adm'[b].job <= Len(jobs'[adm'[b].item])
    <3>1. CASE b = a
      BY <1>1, <1>2, <1>3, <1>4, <3>1
    <3>2. CASE b # a
      <4>1. adm'[b] = adm[b] /\ Refers(b)
        BY <1>1, <2>4, <3>2 DEF Refers
      <4>2. /\ adm[b].item \in Items /\ adm[b].job \in Nat
            /\ adm[b].job <= Len(jobs[adm[b].item])
        BY <4>1, RefersTyped DEF HasJob, JobNo
      <4> QED BY <1>3, <1>4, <4>1, <4>2
    <3> QED BY <3>1, <3>2
  <2> QED BY <2>1, <2>2, <2>3, <2>4 DEF HasJob
<1>6. ASSUME NEW k \in Items, NEW n \in 1 .. Len(jobs'[k]),
             jobs'[k][n] = "pending", task'[k][n] = "none"
      PROVE  WillSend(k, n)' \/ <<k, n>> \in unmarked' \/ crashes' > 0
  <2>1. CASE n \in 1 .. Len(jobs[k])
    <3>1. WillSend(k, n) \/ <<k, n>> \in unmarked \/ crashes > 0
      BY <1>1, <1>3, <1>6, <2>1 DEF Scheduled, PendingJobIsScheduled
    <3> QED BY <1>1, <3>1 DEF WillSend
  <2>2. CASE n \notin 1 .. Len(jobs[k])
    <3>1. k = i /\ n = Len(jobs[i]) + 1
      BY <1>3, <1>4, <2>2
    <3> QED BY <1>1, <3>1 DEF WillSend
  <2> QED BY <2>1, <2>2
<1> QED BY <1>1, <1>5, <1>6 DEF Scheduled, PendingJobIsScheduled

\* The request enqueues the task, or undoes, or fails to undo, its job.
LEMMA AdminSends ==
  ASSUME TypeOK, HasJob, Scheduled, NEW a \in Admins,
         \/ AdminEnqueue(a) \/ AdminEnqueueFails(a) \/ AdminUndoJob(a)
         \/ AdminUndoFails(a) /\ adm[a].pc = "undoJob"
  PROVE  HasJob' /\ Scheduled'
<1> DEFINE i == adm[a].item
           n == adm[a].job
<1>1. Refers(a) /\ i \in Items /\ n \in JobNo
  <2>1. Refers(a)
    BY DEF AdminEnqueue, AdminEnqueueFails, AdminUndoJob, Admin, Refers
  <2> QED BY <2>1, RefersTyped
<1>2. UNCHANGED <<pc, toEnqueue, crashes>>
  BY DEF AdminEnqueue, AdminEnqueueFails, AdminUndoJob, AdminUndoFails, handler, loop, history
<1>3. /\ \/ task' = [task EXCEPT ![i][n] = "queued"] /\ UNCHANGED <<jobs, unmarked>>
         \/ UNCHANGED <<task, unmarked>> /\ SetJob(i, n, "failed")
         \/ UNCHANGED <<task, jobs>> /\ unmarked' = unmarked \cup {<<i, n>>}
         \/ UNCHANGED <<task, jobs, unmarked>> /\ Refers(a)' /\ adm'[a].item = i /\ adm'[a].job = n
      /\ \A b \in Admins : b # a => adm'[b] = adm[b]
      /\ Refers(a)' => adm'[a].item = i /\ adm'[a].job = n
  BY DEF AdminEnqueue, AdminEnqueueFails, AdminUndoJob, AdminUndoFails, Admin, Refers, Idle,
         db, jobRows, history, noted, queue, TypeOK
<1>4. /\ \A k \in Items : Len(jobs'[k]) = Len(jobs[k])
      /\ \A k \in Items : \A m \in 1 .. Len(jobs[k]) :
           jobs'[k][m] = jobs[k][m] \/ (k = i /\ m = n /\ jobs'[k][m] = "failed")
  <2>1. CASE SetJob(i, n, "failed")
    BY <1>1, <2>1, JobWritten
  <2>2. CASE UNCHANGED jobs
    BY <2>2
  <2> QED BY <1>3, <2>1, <2>2
<1>5. /\ \A k \in Items, m \in JobNo :
           /\ task'[k][m] # "none" => task[k][m] # "none" \/ <<k, m>> = <<i, n>>
           /\ task'[k][m] = "none" => task[k][m] = "none"
      /\ \/ jobs'[i][n] # "pending" \/ task'[i][n] # "none" \/ <<i, n>> \in unmarked'
         \/ Refers(a)' /\ adm'[a].item = i /\ adm'[a].job = n
      /\ unmarked \subseteq unmarked'
  <2>1. n \in 1 .. Len(jobs[i])
    BY <1>1, JobsTyped DEF HasJob, JobNo
  <2>2. SetJob(i, n, "failed") => jobs'[i][n] = "failed"
    BY <1>1, <2>1, JobWritten
  <2>3. task \in [Items -> [JobNo -> TaskStatus]]
    BY DEF TypeOK
  <2>4. CASE task' = [task EXCEPT ![i][n] = "queued"] /\ UNCHANGED <<jobs, unmarked>>
    BY <1>1, <2>3, <2>4
  <2>5. CASE UNCHANGED <<task, unmarked>> /\ SetJob(i, n, "failed")
    BY <2>2, <2>5
  <2>6. CASE UNCHANGED <<task, jobs>> /\ unmarked' = unmarked \cup {<<i, n>>}
    BY <2>6
  <2>7. CASE UNCHANGED <<task, jobs, unmarked>> /\ Refers(a)' /\ adm'[a].item = i /\ adm'[a].job = n
    BY <2>7
  <2> QED BY <1>3, <2>4, <2>5, <2>6, <2>7
<1>6. HasJob'
  <2>1. TaskHasJob'
    BY <1>1, <1>4, <1>5 DEF HasJob, TaskHasJob
  <2>2. ASSUME NEW b \in Admins, Refers(b)'
        PROVE  Refers(b) /\ adm'[b].item = adm[b].item /\ adm'[b].job = adm[b].job
    BY <1>1, <1>3, <2>2 DEF Refers
  <2>3. \A b \in Admins : Refers(b)' => adm'[b].job <= Len(jobs'[adm'[b].item])
    BY <1>4, <2>2, RefersTyped DEF HasJob
  <2> QED BY <1>2, <1>4, <2>1, <2>3 DEF HasJob
<1>7. ASSUME NEW k \in Items, NEW m \in 1 .. Len(jobs'[k]),
             jobs'[k][m] = "pending", task'[k][m] = "none"
      PROVE  WillSend(k, m)' \/ <<k, m>> \in unmarked' \/ crashes' > 0
  <2>1. m \in JobNo /\ m \in 1 .. Len(jobs[k])
    BY <1>4, JobsTyped, ConstantsAssumption DEF HasJob, JobNo
  <2>2. WillSend(k, m) \/ <<k, m>> \in unmarked \/ crashes > 0
    BY <1>4, <1>5, <1>7, <2>1 DEF Scheduled, PendingJobIsScheduled
  <2>3. CASE <<k, m>> = <<i, n>>
    BY <1>5, <1>7, <2>3 DEF WillSend, Refers
  <2>4. CASE <<k, m>> # <<i, n>>
    BY <1>2, <1>3, <1>5, <2>2, <2>4 DEF WillSend
  <2> QED BY <2>3, <2>4
<1> QED BY <1>2, <1>6, <1>7 DEF Scheduled, PendingJobIsScheduled

LEMMA AdministratorJobs ==
  ASSUME TypeOK, HasJob, Scheduled, TypeOK', NEW a \in Admins, Administrator(a)
  PROVE  HasJob' /\ Scheduled'
<1>1. CASE AdminCommit(a)
  BY <1>1, AdminCommitJobs
<1>2. CASE \/ AdminEnqueue(a) \/ AdminEnqueueFails(a) \/ AdminUndoJob(a)
           \/ AdminUndoFails(a) /\ adm[a].pc = "undoJob"
  BY <1>2, AdminSends
<1>3. CASE ~ \/ AdminCommit(a) \/ AdminEnqueue(a) \/ AdminEnqueueFails(a) \/ AdminUndoJob(a)
             \/ AdminUndoFails(a) /\ adm[a].pc = "undoJob"
  <2> DEFINE Others == \A b \in Admins : b # a => adm'[b] = adm[b]
             Quiet == UNCHANGED <<jobs, task, toEnqueue, pc, unmarked>>
             Silent == Quiet /\ Others /\ UNCHANGED crashes /\ ~Refers(a) /\ ~Refers(a)'
  <2>0. adm \in [Admins -> AdminStates] /\ crashes \in Nat
    BY DEF TypeOK
  <2>1. CASE AdminDies(a)
    <3>1. Others /\ ~Refers(a)' /\ Quiet /\ crashes' = crashes + 1
      BY <2>0, <2>1 DEF AdminDies, Crash, db, jobRows, handler, loop, queue, noted, Refers, Idle
    <3>2. crashes' > 0 /\ crashes' \in Nat /\ crashes' >= crashes
      BY <2>0, <3>1
    <3>3. \A b \in Admins : Refers(b) \/ Refers(b)' => adm'[b] = adm[b] \/
                             (crashes' > 0 /\ ~Refers(b)')
      BY <3>1, <3>2
    <3>4. \A e \in Events : pc[e] \notin {"finish", "dead"} => toEnqueue[e] = {}
      BY DEF Scheduled
    <3> QED BY <3>1, <3>2, <3>3, <3>4, QuietJobs
  <2>2. CASE ~AdminDies(a)
    <3>1. ASSUME AdminIsVictim(a) PROVE Silent
      BY <2>0, <3>1, AdminVictimWaits
      DEF AdminIsVictim, db, jobRows, handler, loop, queue, history, noted, Refers, Idle
    <3>2. ASSUME \/ AdminWriteStatus(a) \/ AdminUpdateService(a) \/ AdminUndoService(a)
                 \/ AdminUndoOrder(a)
          PROVE  Silent
      BY <2>0, <3>2 DEF AdminWriteStatus, AdminUpdateService, AdminUndoService,
         AdminUndoOrder, Admin, db, jobRows, handler, loop, queue, history, noted, Refers, Idle
    <3>3. ASSUME AdminUndoFails(a) PROVE Silent
      BY <2>0, <1>3, <3>3 DEF AdminUndoFails, Admin, Fault, Faults, db, jobRows, handler, loop,
         queue, Refers, Idle
    <3>4. ASSUME NEW o \in Orders, NEW to \in OrderStatus, AdminReadStatus(a, o, to)
          PROVE  Silent
      BY <2>0, <3>4 DEF AdminReadStatus, Request, db, jobRows, handler, loop, queue, noted,
         Refers, Idle
    <3>5. ASSUME NEW i \in Items, AdminReadService(a, i)
          PROVE  Silent
      BY <2>0, <3>5 DEF AdminReadService, Request, db, jobRows, handler, loop, queue, noted,
         Refers, Idle
    <3>6. Silent
      BY <1>3, <2>2, <3>1, <3>2, <3>3, <3>4, <3>5 DEF Administrator, Continue
    <3>7. \A b \in Admins : Refers(b) \/ Refers(b)' => adm'[b] = adm[b]
      BY <3>6
    <3>8. \A e \in Events : pc[e] \notin {"finish", "dead"} => toEnqueue[e] = {}
      BY DEF Scheduled
    <3> QED BY <2>0, <3>6, <3>7, <3>8, QuietJobs
  <2> QED BY <2>1, <2>2
<1> QED BY <1>1, <1>2, <1>3

\* Tasks have jobs, and pending jobs without tasks have a goroutine at work.
THEOREM JobsInvariant == Spec => [](HasJob /\ Scheduled)
<1>1. Init => HasJob /\ Scheduled
  BY ConstantsAssumption
  DEF Init, HasJob, TaskHasJob, Scheduled, PendingJobIsScheduled, Refers, Idle
<1>2. TypeOK /\ TypeOK' /\ HasJob /\ Scheduled /\ [Next]_vars => HasJob' /\ Scheduled'
  <2> SUFFICES ASSUME TypeOK, TypeOK', HasJob, Scheduled, [Next]_vars
               PROVE  HasJob' /\ Scheduled'
    OBVIOUS
  <2>1. CASE Next
    BY <2>1, WebhookJobs, WorkerJobs, AdministratorJobs DEF Next
  <2>2. CASE UNCHANGED vars
    BY <2>2 DEF vars, db, jobRows, handler, loop, queue, history, noted, HasJob, TaskHasJob,
       Scheduled, PendingJobIsScheduled, WillSend, Refers
  <2> QED BY <2>1, <2>2
<1> QED BY <1>1, <1>2, TypeCorrect, PTL DEF Spec

\* What Asynq holds a task for is committed: enqueues come after the commit.
THEOREM TasksHaveJobs == Spec => []TaskHasJob
<1>1. HasJob => TaskHasJob
  BY DEF HasJob
<1> QED BY <1>1, JobsInvariant, PTL

\* A pending job without a task has a goroutine that will enqueue the task or
\* mark the job failed, unless a process died or the marking failed.
THEOREM PendingJobsAreScheduled == Spec => []PendingJobIsScheduled
<1>1. Scheduled => PendingJobIsScheduled
  BY DEF Scheduled
<1> QED BY <1>1, JobsInvariant, PTL

-----------------------------------------------------------------------------
(* The latest job of an item, and the task that a running one has.         *)

Live == {"queued", "started", "activated", "archived"}

Times ==
  /\ clock >= 1
  /\ \A e \in Events : pc[e] \in TxPC \ {"read"} => now[e] >= 1
  /\ \A a \in Admins : adm[a].pc \in {"updateService", "updateOrder"} => adm[a].now >= 1

Latest ==
  /\ \A i \in Items : IF jobs[i] = <<>> THEN latest[i].at = 0
                     ELSE latest[i].job \in 1 .. Len(jobs[i])
  /\ RunningJobHasTask

\* A created_at is a reading of the clock, which starts at 1.
LEMMA TimesStep ==
  ASSUME TypeOK, TypeOK', Times, [Next]_vars
  PROVE  Times'
<1> USE DEF Times
<1>1. ASSUME NEW e \in Events, Webhook(e) PROVE Times'
  <2>1. CASE ReadOrder(e)
    BY <2>1 DEF ReadOrder, Goto, TypeOK
  <2>2. CASE \/ MarkPaid(e) \/ CreateInvoice(e) \/ UpsertPayment(e) \/ ReadServices(e)
             \/ WriteServices(e) \/ EnsureJobs(e)
    <3>1. \E p \in TxPC \ {"read"}, q \in TxPC : pc[e] = p /\ pc' = [pc EXCEPT ![e] = q]
      BY <2>2 DEF MarkPaid, CreateInvoice, UpsertPayment, ReadServices, WriteServices,
         EnsureJobs, Goto, TxPC
    <3>2. UNCHANGED <<now, clock, adm>>
      BY <2>2 DEF MarkPaid, CreateInvoice, UpsertPayment, ReadServices, WriteServices,
         EnsureJobs, locals, history
    <3> QED BY <3>1, <3>2 DEF TypeOK
  <2>3. CASE ~ \/ ReadOrder(e) \/ MarkPaid(e) \/ CreateInvoice(e) \/ UpsertPayment(e)
               \/ ReadServices(e) \/ WriteServices(e) \/ EnsureJobs(e)
    <3>1. UNCHANGED <<clock, adm>>
      <4> USE DEF history
      <4>1. CASE Proceed(e)
        BY <2>3, <4>1 DEF Proceed, CommitTx, Committed, UniqueViolation, ConnBusy, EventIsVictim,
           Rollback, EnqueueTask, ResetService, FinishEvent
      <4>2. CASE ~Proceed(e)
        BY <1>1, <4>2 DEF Webhook, ReceiveEvent, ReceiveFails, DuplicateDelivery, TxFails, Rollback,
           CommitUnknown, Committed, EnqueueFails, ResetFails, FinishFails, HandlerDies
      <4> QED BY <4>1, <4>2
    <3>2. \/ \E q \in {"finish", "dead"} : pc' = [pc EXCEPT ![e] = q] /\ Forget(e)
          \/ \E q \in {"read", "done"} : pc' = [pc EXCEPT ![e] = q] /\ UNCHANGED now
          \/ UNCHANGED <<pc, now>>
      <4>1. CASE CommitTx(e) \/ CommitUnknown(e) \/ HandlerDies(e)
        BY <4>1 DEF CommitTx, CommitUnknown, Committed, Goto, HandlerDies
      <4>2. CASE UniqueViolation(e) \/ ConnBusy(e) \/ TxFails(e) \/ EventIsVictim(e)
        BY <4>2 DEF UniqueViolation, ConnBusy, TxFails, EventIsVictim, Rollback
      <4>3. CASE EnqueueTask(e) \/ EnqueueFails(e) \/ ResetFails(e) \/ ResetService(e)
        BY <4>3 DEF EnqueueTask, EnqueueFails, ResetFails, ResetService, locals
      <4>4. CASE FinishEvent(e) \/ FinishFails(e) \/ ReceiveEvent(e)
        BY <4>4 DEF FinishEvent, FinishFails, ReceiveEvent, Goto, locals
      <4>5. CASE ReceiveFails(e) \/ DuplicateDelivery(e)
        BY <4>5 DEF ReceiveFails, DuplicateDelivery, handler, locals
      <4> QED BY <1>1, <2>3, <4>1, <4>2, <4>3, <4>4, <4>5 DEF Webhook, Proceed
    <3>3. pc \in [Events -> PC] /\ now \in [Events -> Nat]
      BY DEF TypeOK
    <3>4. Forget(e) => \A f \in Events : f # e => now'[f] = now[f]
      BY <3>3 DEF Forget
    <3> QED BY <3>1, <3>2, <3>3, <3>4 DEF TxPC
  <2> QED BY <2>1, <2>2, <2>3
<1>2. ASSUME NEW i \in Items, NEW n \in JobNo, Worker(i, n) PROVE Times'
  BY <1>2 DEF Worker, Work, StartTask, ActivateService, CompleteJob, ActivateOrder,
     AckTask, Step, TaskFails, WorkerDies, handler, locals, history
<1>3. ASSUME NEW a \in Admins, Administrator(a) PROVE Times'
  <2>1. UNCHANGED <<pc, now>> /\ clock' >= clock
    <3> USE DEF handler, locals, history, TypeOK
    <3>1. CASE Continue(a)
      BY <3>1 DEF Continue, AdminWriteStatus, AdminUpdateService, AdminCommit, AdminEnqueue,
         AdminUndoJob, AdminUndoService, AdminUndoOrder, AdminIsVictim
    <3>2. CASE ~Continue(a)
      BY <1>3, <3>2 DEF Administrator, AdminReadStatus, AdminReadService,
         AdminEnqueueFails, AdminUndoFails, AdminDies
    <3> QED BY <3>1, <3>2
  <2>2. adm \in [Admins -> AdminStates] /\ adm' \in [Admins -> AdminStates] /\ clock \in Nat
    BY DEF TypeOK
  <2>3. /\ \A b \in Admins : b # a => adm'[b] = adm[b]
        /\ adm'[a].pc \in {"updateService", "updateOrder"} => adm'[a].now >= 1
    <3> USE <2>2 DEF Admin, Idle
    <3>1. CASE AdminUpdateService(a)
      BY <3>1 DEF AdminUpdateService
    <3>2. ASSUME NEW i \in Items, AdminReadService(a, i) PROVE <2>3
      BY <3>2 DEF AdminReadService
    <3>3. ASSUME NEW o \in Orders, NEW to \in OrderStatus, AdminReadStatus(a, o, to) PROVE <2>3
      BY <3>3 DEF AdminReadStatus
    <3>4. CASE AdminWriteStatus(a) \/ AdminEnqueue(a) \/ AdminUndoOrder(a) \/ AdminIsVictim(a) \/ AdminDies(a)
      BY <3>4 DEF AdminWriteStatus, AdminEnqueue, AdminUndoOrder, AdminIsVictim, AdminDies
    <3>5. CASE AdminCommit(a) \/ AdminEnqueueFails(a) \/ AdminUndoJob(a) \/ AdminUndoService(a)
      BY <3>5 DEF AdminCommit, AdminEnqueueFails, AdminUndoJob, AdminUndoService
    <3>6. CASE AdminUndoFails(a)
      BY <3>6 DEF AdminUndoFails
    <3> QED BY <1>3, <3>1, <3>2, <3>3, <3>4, <3>5, <3>6 DEF Administrator, Continue
  <2>4. clock' >= 1
    BY <2>1 DEF TypeOK
  <2> QED BY <2>1, <2>2, <2>3, <2>4
<1>4. CASE UNCHANGED vars
  BY <1>4 DEF vars, handler, locals, history
<1> QED BY <1>1, <1>2, <1>3, <1>4 DEF Next

\* A step that leaves each item's latest job where it is, or behind a new one
\* that is pending, and every task of Live in Live.
LEMMA QuietLatest ==
  ASSUME TypeOK, Latest, UNCHANGED latest,
         \A i \in Items : Len(jobs'[i]) = Len(jobs[i]) /\ (jobs'[i] = <<>> <=> jobs[i] = <<>>),
         \A i \in Items : \A n \in 1 .. Len(jobs[i]) :
           jobs'[i][n] = "running" => jobs[i][n] = "running",
         \A i \in Items, n \in JobNo : task[i][n] \in Live => task'[i][n] \in Live
  PROVE  Latest'
<1>1. ASSUME NEW i \in Items, LatestJob(i)' = "running"
      PROVE  \E n \in JobNo : task'[i][n] \in Live
  <2>1. jobs[i] # <<>> /\ jobs'[i][latest[i].job] = "running"
    BY <1>1 DEF LatestJob
  <2>2. LatestJob(i) = "running"
    BY <2>1 DEF Latest, LatestJob
  <2> QED BY <2>2 DEF Latest, RunningJobHasTask, Live
<1> QED BY <1>1 DEF Latest, RunningJobHasTask, Live

\* Emptiness is a matter of length.
LEMMA EmptyJobs ==
  ASSUME TypeOK, TypeOK', \A i \in Items : Len(jobs'[i]) = Len(jobs[i])
  PROVE  \A i \in Items : jobs'[i] = <<>> <=> jobs[i] = <<>>
<1>1. \A i \in Items : jobs[i] \in Seq(JobStatus) /\ jobs'[i] \in Seq(JobStatus)
  BY DEF TypeOK
<1>2. \A i \in Items : (jobs[i] = <<>> <=> Len(jobs[i]) = 0) /\ (jobs'[i] = <<>> <=> Len(jobs'[i]) = 0)
  BY <1>1, EmptySeq
<1> QED BY <1>2

\* New jobs, created at t: the latest one is theirs or stays.
LEMMA NewLatest ==
  ASSUME TypeOK, TypeOK', Latest, NEW new \in SUBSET Items, NEW t \in Nat, t >= 1,
         jobs' = [i \in Items |-> IF i \in new THEN Append(jobs[i], "pending") ELSE jobs[i]],
         latest' = [i \in Items |-> IF i \in new THEN Inserted(i, t) ELSE latest[i]],
         UNCHANGED task
  PROVE  Latest'
<1> SUFFICES ASSUME NEW i \in Items
             PROVE  /\ IF jobs'[i] = <<>> THEN latest'[i].at = 0
                       ELSE latest'[i].job \in 1 .. Len(jobs'[i])
                    /\ LatestJob(i)' = "running" => LatestJob(i) = "running"
  BY DEF Latest, RunningJobHasTask
<1>1. CASE i \notin new
  BY <1>1 DEF Latest, LatestJob
<1>2. CASE i \in new
  <2>1. /\ Len(jobs[i]) \in Nat /\ Len(jobs'[i]) = Len(jobs[i]) + 1
        /\ jobs'[i][Len(jobs[i]) + 1] = "pending"
        /\ \A n \in 1 .. Len(jobs[i]) : jobs'[i][n] = jobs[i][n]
    BY <1>2, JobsAppended, JobsTyped
  <2>2. jobs'[i] # <<>>
    BY <2>1
  <2>3. CASE t > latest[i].at
    <3>1. latest'[i].job = Len(jobs[i]) + 1
      BY <1>2, <2>3 DEF Inserted
    <3> QED BY <2>1, <2>2, <3>1 DEF LatestJob
  <2>4. CASE ~(t > latest[i].at)
    <3>1. jobs[i] # <<>>
      BY <2>4 DEF Latest
    <3>2. latest'[i] = latest[i] /\ latest[i].job \in 1 .. Len(jobs[i])
      BY <1>2, <2>4, <3>1 DEF Inserted, Latest
    <3> QED BY <2>1, <2>2, <3>1, <3>2 DEF LatestJob
  <2> QED BY <2>3, <2>4
<1> QED BY <1>1, <1>2

LEMMA WebhookLatest ==
  ASSUME TypeOK, TypeOK', Latest, Times, NEW e \in Events, Webhook(e)
  PROVE  Latest'
<1>1. CASE CommitTx(e) \/ CommitUnknown(e)
  <2>1. Committed(e)
    BY <1>1 DEF CommitTx, CommitUnknown
  <2>2. now[e] \in Nat /\ now[e] >= 1 /\ newJobs[e] \in SUBSET Items /\ UNCHANGED task
    BY <2>1 DEF Committed, Goto, Times, TxPC, TypeOK, queue
  <2> QED BY <2>1, <2>2, NewLatest DEF Committed
<1>2. CASE EnqueueTask(e)
  <2>1. PICK i \in Items, n \in JobNo : task' = [task EXCEPT ![i][n] = "queued"]
    BY <1>2 DEF EnqueueTask
  <2>2. UNCHANGED <<jobs, latest>>
    BY <1>2 DEF EnqueueTask, db, jobRows
  <2>3. \A k \in Items, m \in JobNo : task[k][m] \in Live => task'[k][m] \in Live
    BY <2>1 DEF TypeOK, Live
  <2> QED BY <2>2, <2>3, QuietLatest
<1>3. CASE EnqueueFails(e)
  <2>1. UNCHANGED <<latest, task>>
    BY <1>3 DEF EnqueueFails, queue
  <2>2. UNCHANGED jobs \/ \E i \in Items, n \in JobNo : SetJob(i, n, "failed")
    BY <1>3 DEF EnqueueFails
  <2>3. /\ \A i \in Items : Len(jobs'[i]) = Len(jobs[i])
        /\ \A i \in Items : \A n \in 1 .. Len(jobs[i]) :
             jobs'[i][n] = "running" => jobs[i][n] = "running"
    BY <2>2, JobWritten
  <2> QED BY <2>1, <2>3, EmptyJobs, QuietLatest
<1>4. CASE ~(CommitTx(e) \/ CommitUnknown(e) \/ EnqueueTask(e) \/ EnqueueFails(e))
  <2>1. UNCHANGED <<jobs, latest, task>>
    <3> USE DEF db, jobRows, locks, locals, loop, handler, queue, history, noted
    <3>1. CASE Proceed(e) \/ TxFails(e)
      BY <1>4, <3>1 DEF Proceed, ReadOrder, MarkPaid, CreateInvoice, UpsertPayment,
         ReadServices, WriteServices, EnsureJobs, UniqueViolation, ConnBusy, TxFails,
         EventIsVictim, Rollback, ResetService, FinishEvent
    <3>2. CASE ~Proceed(e) /\ ~TxFails(e)
      BY <1>4, <3>2 DEF Webhook, ReceiveEvent, ReceiveFails, DuplicateDelivery,
         ResetFails, FinishFails, HandlerDies
    <3> QED BY <3>1, <3>2
  <2> QED BY <2>1, QuietLatest
<1> QED BY <1>1, <1>2, <1>3, <1>4

LEMMA WorkerLatest ==
  ASSUME TypeOK, TypeOK', Latest, NEW i \in Items, NEW n \in JobNo, Worker(i, n)
  PROVE  Latest'
<1>1. UNCHANGED latest
  BY DEF Worker, Work, StartTask, ActivateService, CompleteJob, ActivateOrder,
         AckTask, Step, TaskFails, WorkerDies, db, jobRows
<1>2. task \in [Items -> [JobNo -> TaskStatus]]
  BY DEF TypeOK
<1>3. CASE StartTask(i, n)
  <2>1. /\ \A k \in Items : Len(jobs'[k]) = Len(jobs[k])
        /\ \A k \in Items : \A m \in 1 .. Len(jobs[k]) : k # i => jobs'[k][m] = jobs[k][m]
    BY <1>3, LatestWritten DEF StartTask
  <2>2. task' = [task EXCEPT ![i][n] = "started"]
    BY <1>3 DEF StartTask, Step
  <2>3. \A k \in Items : jobs'[k] = <<>> <=> jobs[k] = <<>>
    BY <2>1, EmptyJobs
  <2>4. \A k \in Items : IF jobs'[k] = <<>> THEN latest'[k].at = 0
                         ELSE latest'[k].job \in 1 .. Len(jobs'[k])
    BY <1>1, <2>1, <2>3 DEF Latest
  <2>5. ASSUME NEW k \in Items, LatestJob(k)' = "running"
        PROVE  \E m \in JobNo : task'[k][m] \in Live
    <3>1. CASE k = i
      BY <1>2, <2>2, <3>1 DEF Live
    <3>2. CASE k # i
      <4>1. LatestJob(k) = "running"
        BY <1>1, <2>1, <2>3, <2>4, <2>5, <3>2 DEF LatestJob, Latest
      <4> QED BY <1>2, <2>2, <3>2, <4>1 DEF Latest, RunningJobHasTask, Live
    <3> QED BY <3>1, <3>2
  <2> QED BY <2>4, <2>5 DEF Latest, RunningJobHasTask, Live
<1>4. CASE CompleteJob(i, n)
  <2>1. /\ \A k \in Items : Len(jobs'[k]) = Len(jobs[k])
        /\ \A k \in Items : \A m \in 1 .. Len(jobs[k]) :
             jobs'[k][m] = IF k = i /\ m = latest[i].job THEN "completed" ELSE jobs[k][m]
    BY <1>4, LatestWritten DEF CompleteJob
  <2>2. task' = [task EXCEPT ![i][n] = "recorded"]
    BY <1>4 DEF CompleteJob, Step
  <2>3. \A k \in Items : jobs'[k] = <<>> <=> jobs[k] = <<>>
    BY <2>1, EmptyJobs
  <2>4. \A k \in Items : IF jobs'[k] = <<>> THEN latest'[k].at = 0
                         ELSE latest'[k].job \in 1 .. Len(jobs'[k])
    BY <1>1, <2>1, <2>3 DEF Latest
  <2>5. ASSUME NEW k \in Items, LatestJob(k)' = "running"
        PROVE  \E m \in JobNo : task'[k][m] \in Live
    <3>1. k # i /\ LatestJob(k) = "running"
      BY <1>1, <2>1, <2>3, <2>4, <2>5 DEF LatestJob, Latest
    <3> QED BY <1>2, <2>2, <3>1 DEF Latest, RunningJobHasTask, Live
  <2> QED BY <2>4, <2>5 DEF Latest, RunningJobHasTask, Live
<1>5. CASE ActivateService(i, n) \/ ActivateOrder(i, n) \/ AckTask(i, n)
  <2>1. UNCHANGED jobs
    BY <1>5 DEF ActivateService, ActivateOrder, AckTask, db, jobRows
  <2>2. \/ task[i][n] = "started" /\ task' = [task EXCEPT ![i][n] = "activated"]
        \/ task[i][n] = "recorded" /\ task' = [task EXCEPT ![i][n] = "finished"]
        \/ task[i][n] = "finished" /\ task' = [task EXCEPT ![i][n] = "done"]
    BY <1>5 DEF ActivateService, ActivateOrder, AckTask, Step
  <2>3. \A k \in Items, m \in JobNo : task[k][m] \in Live => task'[k][m] \in Live
    BY <1>2, <2>2 DEF Live
  <2> QED BY <1>1, <2>1, <2>3, QuietLatest
<1>6. CASE TaskFails(i, n) \/ WorkerDies(i, n)
  <2>1. UNCHANGED jobs \/ SetLatestJob(i, "failed")
    BY <1>6 DEF TaskFails, WorkerDies, db, jobRows
  <2>2. /\ \A k \in Items : Len(jobs'[k]) = Len(jobs[k])
        /\ \A k \in Items : \A m \in 1 .. Len(jobs[k]) :
             jobs'[k][m] = "running" => jobs[k][m] = "running"
    BY <2>1, LatestWritten
  <2>3. \E s \in Live : task' = [task EXCEPT ![i][n] = s]
    BY <1>6 DEF TaskFails, WorkerDies, Requeue, Live
  <2>4. \A k \in Items, m \in JobNo : task[k][m] \in Live => task'[k][m] \in Live
    BY <1>2, <2>3
  <2> QED BY <1>1, <2>2, <2>4, EmptyJobs, QuietLatest
<1> QED BY <1>3, <1>4, <1>5, <1>6 DEF Worker, Work

LEMMA AdministratorLatest ==
  ASSUME TypeOK, TypeOK', Latest, Times, NEW a \in Admins, Administrator(a)
  PROVE  Latest'
<1>1. CASE AdminCommit(a)
  <2>1. adm[a].pc = "updateOrder" /\ adm[a] \in AdminStates
    BY <1>1 DEF AdminCommit, Admin, TypeOK
  <2>2. adm[a].item \in Items /\ adm[a].now \in Nat /\ adm[a].now >= 1
    BY <2>1 DEF AdminStates, Idle, Times
  <2>3. /\ jobs' = [k \in Items |-> IF k \in {adm[a].item} THEN Append(jobs[k], "pending")
                                   ELSE jobs[k]]
        /\ latest' = [k \in Items |-> IF k \in {adm[a].item} THEN Inserted(k, adm[a].now)
                                     ELSE latest[k]]
        /\ UNCHANGED task
    <3>1. jobs \in [Items -> Seq(JobStatus)] /\ latest \in [Items -> [job : Nat, at : Nat]]
      BY DEF TypeOK
    <3>2. /\ jobs' = [jobs EXCEPT ![adm[a].item] = Append(@, "pending")]
          /\ latest' = [latest EXCEPT ![adm[a].item] = Inserted(adm[a].item, adm[a].now)]
          /\ UNCHANGED task
      BY <1>1 DEF AdminCommit, queue
    <3> QED BY <2>2, <3>1, <3>2
  <2> QED BY <2>2, <2>3, NewLatest
<1>2. CASE AdminEnqueue(a)
  <2>1. UNCHANGED <<jobs, latest>> /\ task' = [task EXCEPT ![adm[a].item][adm[a].job] = "queued"]
    BY <1>2 DEF AdminEnqueue, db, jobRows
  <2>2. adm[a].item \in Items /\ adm[a].job \in JobNo
    BY <1>2, RefersTyped DEF AdminEnqueue, Admin, Refers
  <2>3. task \in [Items -> [JobNo -> TaskStatus]]
    BY DEF TypeOK
  <2>4. \A k \in Items, m \in JobNo : task[k][m] \in Live => task'[k][m] \in Live
    BY <2>1, <2>2, <2>3 DEF Live
  <2> QED BY <2>1, <2>4, QuietLatest
<1>3. CASE AdminUndoJob(a)
  <2>1. adm[a].item \in Items
    BY <1>3, AdminItem DEF AdminUndoJob, Admin
  <2>2. /\ \A i \in Items : Len(jobs'[i]) = Len(jobs[i])
        /\ \A i \in Items : \A n \in 1 .. Len(jobs[i]) :
             jobs'[i][n] = "running" => jobs[i][n] = "running"
    BY <1>3, <2>1, JobWritten DEF AdminUndoJob
  <2>3. UNCHANGED <<latest, task>>
    BY <1>3 DEF AdminUndoJob, queue
  <2> QED BY <2>2, <2>3, EmptyJobs, QuietLatest
<1>4. CASE ~(AdminCommit(a) \/ AdminEnqueue(a) \/ AdminUndoJob(a))
  <2>1. UNCHANGED <<jobs, latest, task>>
    <3> USE DEF db, jobRows, queue
    <3>1. CASE Continue(a)
      BY <1>4, <3>1 DEF Continue, AdminWriteStatus, AdminUpdateService, AdminUndoService,
         AdminUndoOrder, AdminIsVictim
    <3>2. CASE ~Continue(a)
      BY <1>4, <3>2 DEF Administrator, AdminReadStatus, AdminReadService,
         AdminEnqueueFails, AdminUndoFails, AdminDies
    <3> QED BY <3>1, <3>2
  <2> QED BY <2>1, QuietLatest
<1> QED BY <1>1, <1>2, <1>3, <1>4

\* A service whose latest job runs has a task that runs, waits or was archived.
THEOREM RunningJobsHaveTasks == Spec => []RunningJobHasTask
<1>1. Init => Times /\ Latest
  <2> SUFFICES ASSUME Init PROVE Times /\ Latest
    OBVIOUS
  <2>1. Times
    <3>1. \A a \in Admins : adm[a].pc = "idle"
      BY DEF Init, Idle
    <3>2. \A e \in Events : pc[e] = "idle"
      BY DEF Init
    <3> QED BY <3>1, <3>2 DEF Init, Times, TxPC
  <2>2. \A i \in Items : jobs[i] = <<>> /\ latest[i].at = 0
    BY DEF Init
  <2> QED BY <2>1, <2>2 DEF Latest, RunningJobHasTask, LatestJob
<1>2. TypeOK /\ TypeOK' /\ Times /\ Latest /\ [Next]_vars => Times' /\ Latest'
  <2> SUFFICES ASSUME TypeOK, TypeOK', Times, Latest, [Next]_vars
               PROVE  Times' /\ Latest'
    OBVIOUS
  <2>3. Times'
    BY TimesStep
  <2>1. CASE Next
    BY <2>1, <2>3, WebhookLatest, WorkerLatest, AdministratorLatest DEF Next
  <2>2. CASE UNCHANGED vars
    BY <2>2, <2>3, QuietLatest DEF vars, db, jobRows, queue
  <2> QED BY <2>1, <2>2, <2>3
<1>3. Latest => RunningJobHasTask
  BY DEF Latest
<1> QED BY <1>1, <1>2, <1>3, TypeCorrect, PTL DEF Spec
=============================================================================

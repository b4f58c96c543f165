----------------------------- MODULE Fulfilment -----------------------------
(***************************************************************************)
(* From a paid Stripe checkout session to an active service.               *)
(*                                                                         *)
(* Three kinds of process share the Postgres tables: the API goroutine     *)
(* that processes a Stripe event (internal/payment/webhook.go and          *)
(* provisioning.go), the Asynq worker (internal/provisioning/handler.go)   *)
(* and the administrator's requests (internal/order/handler.go,            *)
(* internal/admin/service.go).  Postgres runs READ COMMITTED: a statement  *)
(* sees what is committed when it starts, an UPDATE holds the row until    *)
(* its transaction ends, a unique index makes the second INSERT wait and   *)
(* then fail.  A transaction's writes are kept in its locals and applied   *)
(* by its commit.                                                          *)
(***************************************************************************)
EXTENDS Naturals, Sequences, FiniteSets

CONSTANTS
  Orders,        \* rows of orders
  Items,         \* rows of order_items; services.order_item_id is UNIQUE
  Sessions,      \* Stripe checkout sessions that customers have paid
  Events,        \* checkout.session.completed events (stripe_event_id)
  Admins,        \* concurrent administrator requests
  OrderOf,       \* item -> order
  SessionOf,     \* event -> session
  PaysFor,       \* session -> order, its metadata order_id
  Free,          \* the owner of a row nobody has locked
  Concurrency,   \* tasks the Asynq server runs at once
  MaxRetry,      \* asynq.MaxRetry of a provisioning task
  RowsBlockConn, \* whether the driver may refuse a statement while Rows are open
  MaxJobs,       \* bound: provisioning_jobs rows of one service
  MaxFaults,     \* bound: statements and enqueues that fail
  MaxCrashes,    \* bound: handlers and tasks that die, connections lost in COMMIT
  MaxAdminOps    \* bound: administrator requests

Txs == Events \cup Admins

ASSUME ConstantsAssumption ==
  /\ OrderOf \in [Items -> Orders]
  /\ SessionOf \in [Events -> Sessions]
  /\ PaysFor \in [Sessions -> Orders]
  /\ Free \notin Txs
  /\ Events \cap Admins = {}
  /\ RowsBlockConn \subseteq BOOLEAN
  /\ Concurrency \in Nat /\ MaxRetry \in Nat /\ MaxJobs \in Nat
  /\ MaxFaults \in Nat /\ MaxCrashes \in Nat /\ MaxAdminOps \in Nat
\* CreateCheckoutSession refuses an order without items (payment/service.go:113).
ASSUME NoEmptyOrder == \A o \in Orders : \E i \in Items : OrderOf[i] = o

VARIABLES
  order,      \* orders.status
  invoices,   \* how many invoices rows an order has
  payment,    \* payments.status of a session, "none" without a row
  service,    \* services.status of an item, "none" without a row
  jobs,       \* provisioning_jobs.status of an item's service, as inserted
  latest,     \* which of them has the latest created_at, and that time
  event,      \* payment_events row of an event
  orderLock,  \* transaction that has updated the orders row
  itemLock,   \* transaction that has written the item's services row
  pc,         \* where the goroutine that processes an event is
  saw,        \* its transaction: the orders.status it has read,
  now,        \*   the created_at of its rows,
  newInvoice, \*   whether it inserts an invoice
  newPayment, \*   and a payment,
  seen,       \*   the services.status it has read,
  newJobs,    \*   the items it inserts a job for
  failed,     \* its processErr # nil
  toEnqueue,  \* (item, job number) of the tasks it has yet to enqueue
  toReset,    \* items whose task it failed to enqueue
  reply,      \* the last response Stripe has for the event
  task,       \* Asynq's task for the n-th job of an item
  retried,    \* and how often it has been retried
  adm,        \* administrator requests in progress
  faults, crashes, adminOps,  \* bounded counters
  clock,      \* what time.Now() returns next
  markedPaid, \* history: orders an administrator has marked paid,
  unmarked,   \*   jobs whose task was refused and that stayed 'pending'
  rowsBlock   \* the driver of this deployment refuses it, or does not

jobRows == <<jobs, latest>>
db      == <<order, invoices, payment, service, jobRows>>
locks   == <<orderLock, itemLock>>
locals  == <<saw, now, newInvoice, newPayment, seen, newJobs>>
loop    == <<toEnqueue, toReset>>
handler == <<pc, locals, failed, loop>>
queue   == <<task, retried>>
noted   == <<markedPaid, unmarked, rowsBlock>>
history == <<faults, crashes, adminOps, clock, noted>>
vars    == <<db, event, locks, handler, reply, queue, adm, history>>

OrderStatus == {"draft", "pending_payment", "paid", "provisioning", "active",
                "cancelled", "refunded"}
ServiceStatus == {"pending", "provisioning", "active", "suspended",
                  "cancelled", "terminated"}
JobStatus == {"pending", "running", "completed", "failed"}
JobNo == 1 .. MaxJobs

EventOrder(e) == PaysFor[SessionOf[e]]
ItemsOf(o) == {i \in Items : OrderOf[i] = o}

TxPC == {"read", "mark", "invoice", "payment", "services", "write", "jobs",
         "commit"}
LivePC == TxPC \cup {"finish"}
PC == LivePC \cup {"idle", "done", "dead"}

Running == {"started", "activated", "recorded", "finished"}
TaskStatus == Running \cup {"none", "queued", "done", "archived"}

NoService == [i \in Items |-> "none"]
Idle == [pc |-> "idle"]

AdminStates ==
  {Idle} \cup [pc : {"setStatus"}, order : Orders, to : OrderStatus]
         \cup [pc : {"updateService", "updateOrder"}, item : Items, now : Nat]
         \cup [pc : {"undoService", "undoOrder"}, item : Items]
         \cup [pc : {"enqueue", "undoJob"}, item : Items, job : JobNo]

Init ==
  /\ order = [o \in Orders |-> "pending_payment"]
  /\ invoices = [o \in Orders |-> 0]
  /\ payment = [s \in Sessions |-> "none"]
  /\ service = [i \in Items |-> "none"]
  /\ jobs = [i \in Items |-> <<>>]
  /\ latest = [i \in Items |-> [job |-> 0, at |-> 0]]
  /\ event = [e \in Events |-> "none"]
  /\ orderLock = [o \in Orders |-> Free]
  /\ itemLock = [i \in Items |-> Free]
  /\ pc = [e \in Events |-> "idle"]
  /\ saw = [e \in Events |-> "draft"]
  /\ now = [e \in Events |-> 0]
  /\ newInvoice = [e \in Events |-> FALSE]
  /\ newPayment = [e \in Events |-> FALSE]
  /\ seen = [e \in Events |-> NoService]
  /\ newJobs = [e \in Events |-> {}]
  /\ failed = [e \in Events |-> FALSE]
  /\ toEnqueue = [e \in Events |-> {}]
  /\ toReset = [e \in Events |-> {}]
  /\ reply = [e \in Events |-> "none"]
  /\ task = [i \in Items |-> [n \in JobNo |-> "none"]]
  /\ retried = [i \in Items |-> [n \in JobNo |-> 0]]
  /\ adm = [a \in Admins |-> Idle]
  /\ faults = 0 /\ crashes = 0 /\ adminOps = 0
  /\ clock = 1
  /\ markedPaid = {} /\ unmarked = {}
  /\ rowsBlock \in RowsBlockConn

Faults(k) == faults + k <= MaxFaults /\ faults' = faults + k
Fault == Faults(1)
NoFault == UNCHANGED faults
Crash == crashes < MaxCrashes /\ crashes' = crashes + 1

Goto(e, from, to) == pc[e] = from /\ pc' = [pc EXCEPT ![e] = to]

\* The transaction ends: its locks are released, its locals are gone.
Unlocked(t) ==
  /\ orderLock' = [o \in Orders |-> IF orderLock[o] = t THEN Free ELSE orderLock[o]]
  /\ itemLock' = [i \in Items |-> IF itemLock[i] = t THEN Free ELSE itemLock[i]]

Forget(e) ==
  /\ saw' = [saw EXCEPT ![e] = "draft"]
  /\ now' = [now EXCEPT ![e] = 0]
  /\ newInvoice' = [newInvoice EXCEPT ![e] = FALSE]
  /\ newPayment' = [newPayment EXCEPT ![e] = FALSE]
  /\ seen' = [seen EXCEPT ![e] = NoService]
  /\ newJobs' = [newJobs EXCEPT ![e] = {}]

-----------------------------------------------------------------------------
(* HandleWebhook: the payment_events ledger.                               *)

\* The INSERT ... ON CONFLICT DO NOTHING stores the event's row.
ReceiveEvent(e) ==
  /\ event[e] = "none"
  /\ event' = [event EXCEPT ![e] = "received"]
  /\ Goto(e, "idle", "read")
  /\ UNCHANGED <<db, locks, locals, failed, loop, reply, queue, adm, history>>

\* The INSERT itself fails: 500, nothing is stored, Stripe delivers again.
ReceiveFails(e) ==
  /\ event[e] = "none" /\ Fault
  /\ reply' = [reply EXCEPT ![e] = "error"]
  /\ UNCHANGED <<db, event, locks, handler, queue, adm, crashes, adminOps, clock, noted>>

\* Another delivery of a stored event: RowsAffected() = 0, answered 200.
DuplicateDelivery(e) ==
  /\ event[e] # "none"
  /\ reply[e] \in {"none", "error"}
  /\ reply' = [reply EXCEPT ![e] = "duplicate"]
  /\ UNCHANGED <<db, event, locks, handler, queue, adm, history>>

-----------------------------------------------------------------------------
(* handleCheckoutSessionCompleted: one transaction, then the enqueues.     *)

ReadOrder(e) ==
  /\ Goto(e, "read", "mark")
  /\ saw' = [saw EXCEPT ![e] = order[EventOrder(e)]]
  /\ now' = [now EXCEPT ![e] = clock]
  /\ clock' = clock + 1
  /\ UNCHANGED <<db, event, locks, newInvoice, newPayment, seen, newJobs, failed,
                 loop, reply, queue, adm, faults, crashes, adminOps, noted>>

\* Mutant: the UPDATE on the pool, committed at once and holding no lock.
MarkPaidOutsideTx(e) ==
  /\ Goto(e, "mark", "invoice")
  /\ orderLock[EventOrder(e)] = Free
  /\ order' = [order EXCEPT ![EventOrder(e)] = IF saw[e] = "paid" THEN @ ELSE "paid"]
  /\ UNCHANGED <<invoices, payment, service, jobRows, event, locks, locals, failed,
                 loop, reply, queue, adm, history>>

\* UPDATE orders SET status = 'paid' unless it was read as paid already.
MarkPaid(e) ==
  LET o == EventOrder(e) IN
  /\ Goto(e, "mark", "invoice")
  /\ IF saw[e] = "paid" THEN UNCHANGED orderLock
     ELSE orderLock[o] = Free /\ orderLock' = [orderLock EXCEPT ![o] = e]
  /\ UNCHANGED <<db, event, itemLock, locals, failed, loop, reply, queue, adm, history>>

\* A statement inside the loop over order_items, whose Rows are still open.
NestedStatement(e) ==
  \/ pc[e] = "invoice" /\ invoices[EventOrder(e)] = 0
  \/ pc[e] = "services"

ConnIsFree(e) == ~(rowsBlock /\ NestedStatement(e))

\* createInvoice: the order's latest invoice, or a new one.
CreateInvoice(e) ==
  /\ ConnIsFree(e)
  /\ Goto(e, "invoice", "payment")
  /\ newInvoice' = [newInvoice EXCEPT ![e] = (invoices[EventOrder(e)] = 0)]
  /\ UNCHANGED <<db, event, locks, saw, now, newPayment, seen, newJobs,
                 failed, loop, reply, queue, adm, history>>

\* Mutant: the payment is written on the pool, outside the transaction.
PayOutsideTx(e) ==
  /\ Goto(e, "payment", "services")
  /\ payment' = [payment EXCEPT ![SessionOf[e]] = "succeeded"]
  /\ UNCHANGED <<order, invoices, service, jobRows, event, locks, locals, failed,
                 loop, reply, queue, adm, history>>

\* Updates the payment of this intent or session, or inserts one.
UpsertPayment(e) ==
  /\ Goto(e, "payment", "services")
  /\ newPayment' = [newPayment EXCEPT ![e] = (payment[SessionOf[e]] = "none")]
  /\ UNCHANGED <<db, event, locks, saw, now, newInvoice, seen, newJobs,
                 failed, loop, reply, queue, adm, history>>

\* ensureServiceRecord's SELECT, for each item of the order.
ReadServices(e) ==
  /\ ConnIsFree(e)
  /\ Goto(e, "services", "write")
  /\ seen' = [seen EXCEPT ![e] =
       [i \in Items |-> IF OrderOf[i] = EventOrder(e) THEN service[i] ELSE "none"]]
  /\ UNCHANGED <<db, event, locks, saw, now, newInvoice, newPayment, newJobs,
                 failed, loop, reply, queue, adm, history>>

\* The items whose services row ensureServiceRecord inserts or updates.
Writes(e) == {i \in ItemsOf(EventOrder(e)) :
                seen[e][i] \notin {"active", "provisioning"}}

UniqueConflict(e) ==
  \/ newPayment[e] /\ payment[SessionOf[e]] # "none"
  \/ \E i \in Writes(e) : seen[e][i] = "none" /\ service[i] # "none"

\* ensureServiceRecord's INSERT or UPDATE.
WriteServices(e) ==
  /\ Goto(e, "write", "jobs")
  /\ ~UniqueConflict(e)
  /\ \A i \in Writes(e) : itemLock[i] = Free
  /\ itemLock' = [i \in Items |-> IF i \in Writes(e) THEN e ELSE itemLock[i]]
  /\ UNCHANGED <<db, event, orderLock, locals, failed, loop, reply, queue, adm, history>>

SetJob(i, n, s) == jobs' = [jobs EXCEPT ![i] = [@ EXCEPT ![n] = s]]

LatestJob(i) == IF jobs[i] = <<>> THEN "none" ELSE jobs[i][latest[i].job]

\* INSERT of a job created at t; ORDER BY created_at goes by t.
Inserted(i, t) ==
  IF t > latest[i].at THEN [job |-> Len(jobs[i]) + 1, at |-> t] ELSE latest[i]

\* Mutant: the tasks are enqueued before the commit.
EnqueueBeforeCommit(e) ==
  LET new == {i \in ItemsOf(EventOrder(e)) :
                /\ seen[e][i] # "active"
                /\ LatestJob(i) \notin {"pending", "running"}} IN
  /\ Goto(e, "jobs", "commit")
  /\ newJobs' = [newJobs EXCEPT ![e] = new]
  /\ task' = [i \in Items |-> [n \in JobNo |->
       IF i \in new /\ n = Len(jobs[i]) + 1 THEN "queued" ELSE task[i][n]]]
  /\ UNCHANGED <<db, event, locks, saw, now, newInvoice, newPayment, seen, failed,
                 loop, reply, retried, adm, history>>

\* ensureProvisioningJob: a job for each service that has none under way.
EnsureJobs(e) ==
  /\ Goto(e, "jobs", "commit")
  /\ newJobs' = [newJobs EXCEPT ![e] =
       {i \in ItemsOf(EventOrder(e)) :
          /\ seen[e][i] # "active"
          /\ LatestJob(i) \notin {"pending", "running"}}]
  /\ UNCHANGED <<db, event, locks, saw, now, newInvoice, newPayment, seen,
                 failed, loop, reply, queue, adm, history>>

\* UPDATE orders SET status = 'provisioning' if there are tasks; COMMIT.
Committed(e) ==
  LET o == EventOrder(e)
      new == newJobs[e] IN
  /\ Goto(e, "commit", "finish")
  /\ ~UniqueConflict(e)
  /\ new # {} => orderLock[o] \in {Free, e}
  /\ \A i \in new : Len(jobs[i]) < MaxJobs
  /\ order' = [order EXCEPT ![o] = IF new # {} THEN "provisioning"
                                   ELSE IF saw[e] = "paid" THEN @ ELSE "paid"]
  /\ invoices' = [invoices EXCEPT ![o] = IF newInvoice[e] THEN @ + 1 ELSE @]
  /\ payment' = [payment EXCEPT ![SessionOf[e]] = "succeeded"]
  /\ service' = [i \in Items |-> IF i \in Writes(e) THEN "provisioning" ELSE service[i]]
  /\ jobs' = [i \in Items |-> IF i \in new THEN Append(jobs[i], "pending") ELSE jobs[i]]
  /\ latest' = [i \in Items |-> IF i \in new THEN Inserted(i, now[e]) ELSE latest[i]]
  /\ Unlocked(e)
  /\ Forget(e)
  /\ UNCHANGED <<event, toReset, reply, queue, adm>>

CommitTx(e) ==
  /\ Committed(e)
  /\ toEnqueue' = [toEnqueue EXCEPT ![e] =
       {<<i, Len(jobs[i]) + 1>> : i \in newJobs[e]}]
  /\ UNCHANGED <<failed, history>>

\* The connection is lost after the COMMIT took effect: an error all the same.
CommitUnknown(e) ==
  /\ Committed(e) /\ Crash
  /\ failed' = [failed EXCEPT ![e] = TRUE]
  /\ UNCHANGED <<toEnqueue, faults, adminOps, clock, noted>>

\* Mutant: no deferred Rollback, the transaction stays open.
NoRollback(e) ==
  /\ pc' = [pc EXCEPT ![e] = "finish"]
  /\ failed' = [failed EXCEPT ![e] = TRUE]
  /\ Forget(e)
  /\ UNCHANGED <<db, event, locks, loop, reply, queue, adm, crashes, adminOps, clock,
                 noted>>

\* Any error before the commit: the deferred Rollback runs.
Rollback(e) ==
  /\ pc' = [pc EXCEPT ![e] = "finish"]
  /\ failed' = [failed EXCEPT ![e] = TRUE]
  /\ Forget(e)
  /\ Unlocked(e)
  /\ UNCHANGED <<db, event, loop, reply, queue, adm, crashes, adminOps, clock, noted>>

TxFails(e) == pc[e] \in TxPC /\ Fault /\ Rollback(e)

UniqueViolation(e) ==
  /\ pc[e] \in {"write", "commit"} /\ UniqueConflict(e)
  /\ Rollback(e) /\ NoFault

ConnBusy(e) ==
  /\ pc[e] \in TxPC /\ ~ConnIsFree(e)
  /\ Rollback(e) /\ NoFault

\* client.Enqueue of the next task.
EnqueueTask(e) ==
  /\ pc[e] = "finish" /\ toReset[e] = {}
  /\ \E i \in Items, n \in JobNo :
       /\ <<i, n>> \in toEnqueue[e]
       /\ task' = [task EXCEPT ![i][n] = "queued"]
       /\ toEnqueue' = [toEnqueue EXCEPT ![e] = @ \ {<<i, n>>}]
  /\ UNCHANGED <<db, event, locks, pc, locals, failed, toReset, reply, retried,
                 adm, history>>

\* Mutant: an enqueue that fails leaves its job as it is.
EnqueueForgets(e) ==
  /\ pc[e] = "finish" /\ toReset[e] = {} /\ Fault
  /\ \E i \in Items, n \in JobNo :
       /\ <<i, n>> \in toEnqueue[e]
       /\ toEnqueue' = [toEnqueue EXCEPT ![e] = @ \ {<<i, n>>}]
       /\ toReset' = [toReset EXCEPT ![e] = {i}]
  /\ failed' = [failed EXCEPT ![e] = TRUE]
  /\ UNCHANGED <<db, event, locks, pc, locals, reply, queue, adm, crashes, adminOps,
                 clock, noted>>

\* Enqueue fails: markProvisioningJobFailed, whose errors are ignored, its
\* first statement ...
EnqueueFails(e) ==
  /\ pc[e] = "finish" /\ toReset[e] = {}
  /\ \E i \in Items, n \in JobNo :
       /\ <<i, n>> \in toEnqueue[e]
       /\ \/ Fault /\ SetJob(i, n, "failed") /\ UNCHANGED unmarked
          \/ Faults(2) /\ unmarked' = unmarked \cup {<<i, n>>} /\ UNCHANGED jobs
       /\ toEnqueue' = [toEnqueue EXCEPT ![e] = @ \ {<<i, n>>}]
       /\ toReset' = [toReset EXCEPT ![e] = {i}]
  /\ failed' = [failed EXCEPT ![e] = TRUE]
  /\ UNCHANGED <<order, invoices, payment, service, latest, event, locks, pc,
                 locals, reply, queue, adm, crashes, adminOps, clock, markedPaid,
                 rowsBlock>>

\* ... and its second, WHERE status = 'provisioning', which may fail as well.
ResetFails(e) ==
  /\ pc[e] = "finish" /\ toReset[e] # {} /\ Fault
  /\ toReset' = [toReset EXCEPT ![e] = {}]
  /\ UNCHANGED <<db, event, locks, pc, locals, failed, toEnqueue, reply, queue, adm,
                 crashes, adminOps, clock, noted>>

\* Mutant: the second statement without its WHERE status = 'provisioning'.
ResetAnyService(e) ==
  /\ pc[e] = "finish"
  /\ \E i \in toReset[e] :
       /\ itemLock[i] = Free
       /\ service' = [service EXCEPT ![i] = "pending"]
  /\ toReset' = [toReset EXCEPT ![e] = {}]
  /\ UNCHANGED <<order, invoices, payment, jobRows, event, locks, pc, locals, failed,
                 toEnqueue, reply, queue, adm, history>>

ResetService(e) ==
  /\ pc[e] = "finish"
  /\ \E i \in toReset[e] :
       /\ itemLock[i] = Free
       /\ service' = [service EXCEPT ![i] = IF @ = "provisioning" THEN "pending" ELSE @]
  /\ toReset' = [toReset EXCEPT ![e] = {}]
  /\ UNCHANGED <<order, invoices, payment, jobRows, event, locks, pc, locals, failed,
                 toEnqueue, reply, queue, adm, history>>

\* Mutant: processErr is dropped.
FinishAnyway(e) ==
  /\ toEnqueue[e] = {} /\ toReset[e] = {}
  /\ Goto(e, "finish", "done")
  /\ event' = [event EXCEPT ![e] = "processed"]
  /\ reply' = [reply EXCEPT ![e] = "ok"]
  /\ UNCHANGED <<db, locks, locals, failed, loop, queue, adm, history>>

\* Marks the event processed, with error_message after an error; responds.
FinishEvent(e) ==
  /\ toEnqueue[e] = {} /\ toReset[e] = {}
  /\ Goto(e, "finish", "done")
  /\ event' = [event EXCEPT ![e] = IF failed[e] THEN "failed" ELSE "processed"]
  /\ reply' = [reply EXCEPT ![e] = IF failed[e] THEN "error" ELSE "ok"]
  /\ UNCHANGED <<db, locks, locals, failed, loop, queue, adm, history>>

\* The UPDATE of payment_events fails: 500, the row stays unprocessed.
FinishFails(e) ==
  /\ toEnqueue[e] = {} /\ toReset[e] = {} /\ Fault
  /\ Goto(e, "finish", "done")
  /\ reply' = [reply EXCEPT ![e] = "error"]
  /\ UNCHANGED <<db, event, locks, locals, failed, loop, queue, adm,
                 crashes, adminOps, clock, noted>>

\* The API process dies; Postgres rolls an open transaction back.
HandlerDies(e) ==
  /\ pc[e] \in LivePC /\ Crash
  /\ pc' = [pc EXCEPT ![e] = "dead"]
  /\ Forget(e)
  /\ Unlocked(e)
  /\ UNCHANGED <<db, event, failed, loop, reply, queue, adm,
                 faults, adminOps, clock, noted>>

-----------------------------------------------------------------------------
(* HandleProvisionVPS, run by Asynq for task n of item i.                  *)

RunningTasks == {x \in Items \X JobNo : task[x[1]][x[2]] \in Running}

Step(i, n, from, to) ==
  /\ task[i][n] = from
  /\ task' = [task EXCEPT ![i][n] = to]
  /\ UNCHANGED <<event, locks, handler, reply, retried, adm, history>>

\* UPDATE ... WHERE id = the service's latest job.
SetLatestJob(i, s) ==
  IF jobs[i] = <<>> THEN UNCHANGED jobs ELSE SetJob(i, latest[i].job, s)

StartTask(i, n) ==
  /\ Cardinality(RunningTasks) < Concurrency
  /\ Step(i, n, "queued", "started")
  /\ SetLatestJob(i, "running")
  /\ UNCHANGED <<order, invoices, payment, service, latest>>

ActivateService(i, n) ==
  /\ itemLock[i] = Free
  /\ Step(i, n, "started", "activated")
  /\ service' = [service EXCEPT ![i] = "active"]
  /\ UNCHANGED <<order, invoices, payment, jobRows>>

\* Mutant: the job is not updated once the service is active.
CompleteNothing(i, n) ==
  /\ Step(i, n, "activated", "recorded")
  /\ UNCHANGED db

CompleteJob(i, n) ==
  /\ Step(i, n, "activated", "recorded")
  /\ SetLatestJob(i, "completed")
  /\ UNCHANGED <<order, invoices, payment, service, latest>>

ActivateOrder(i, n) ==
  /\ orderLock[OrderOf[i]] = Free
  /\ Step(i, n, "recorded", "finished")
  /\ order' = [order EXCEPT ![OrderOf[i]] = "active"]
  /\ UNCHANGED <<invoices, payment, service, jobRows>>

\* The handler has returned nil and Asynq removes the task.
AckTask(i, n) == Step(i, n, "finished", "done") /\ UNCHANGED db

\* Mutant: the handler swallows its errors and returns nil.
DoneAnyway(i, n) ==
  /\ task' = [task EXCEPT ![i][n] = "done"]
  /\ UNCHANGED retried

\* Asynq puts a task that failed back in the queue, or archives it.
Requeue(i, n) ==
  IF retried[i][n] < MaxRetry
  THEN /\ task' = [task EXCEPT ![i][n] = "queued"]
       /\ retried' = [retried EXCEPT ![i][n] = @ + 1]
  ELSE /\ task' = [task EXCEPT ![i][n] = "archived"]
       /\ UNCHANGED retried

\* A statement of the handler fails; only a failed activation is recorded, if
\* the statement that records it does not fail too.
TaskFails(i, n) ==
  /\ \/ task[i][n] = "started" /\ Fault /\ SetLatestJob(i, "failed")
     \/ task[i][n] = "started" /\ Faults(2) /\ UNCHANGED jobs
     \/ /\ task[i][n] = "queued" /\ Cardinality(RunningTasks) < Concurrency
        /\ Fault /\ UNCHANGED jobs
     \/ task[i][n] \in {"activated", "recorded"} /\ Fault /\ UNCHANGED jobs
  /\ Requeue(i, n)
  /\ UNCHANGED <<order, invoices, payment, service, latest, event, locks, handler,
                 reply, adm, crashes, adminOps, clock, noted>>

\* The worker dies: the task's lease expires and it is recovered.
WorkerDies(i, n) ==
  /\ task[i][n] \in Running /\ Crash
  /\ Requeue(i, n)
  /\ UNCHANGED <<db, event, locks, handler, reply, adm, faults, adminOps, clock, noted>>

-----------------------------------------------------------------------------
(* AdminUpdateOrderStatus: a read, then an unconditional UPDATE.           *)

validTransitions ==
  [draft           |-> {"pending_payment", "cancelled"},
   pending_payment |-> {"paid", "cancelled"},
   paid            |-> {"provisioning", "refunded", "cancelled"},
   provisioning    |-> {"active", "cancelled"},
   active          |-> {},
   cancelled       |-> {},
   refunded        |-> {}]

isValidStatusTransition(from, to) == to \in validTransitions[from]

Request(a) ==
  /\ adm[a] = Idle
  /\ adminOps < MaxAdminOps /\ adminOps' = adminOps + 1

Admin(a, from, to) == adm[a].pc = from /\ adm' = [adm EXCEPT ![a] = to]

AdminReadStatus(a, o, to) ==
  /\ Request(a)
  /\ isValidStatusTransition(order[o], to)
  /\ adm' = [adm EXCEPT ![a] = [pc |-> "setStatus", order |-> o, to |-> to]]
  /\ UNCHANGED <<db, event, locks, handler, reply, queue, faults, crashes, clock,
                 noted>>

AdminWriteStatus(a) ==
  /\ Admin(a, "setStatus", Idle)
  /\ orderLock[adm[a].order] = Free
  /\ order' = [order EXCEPT ![adm[a].order] = adm[a].to]
  /\ markedPaid' = IF adm[a].to = "paid" THEN markedPaid \cup {adm[a].order}
                   ELSE markedPaid
  /\ UNCHANGED <<invoices, payment, service, jobRows, event, locks, handler, reply,
                 queue, faults, crashes, adminOps, clock, unmarked, rowsBlock>>

(* provisionService: a read, a transaction, the enqueue.                   *)

AdminReadService(a, i) ==
  /\ Request(a)
  /\ service[i] \in {"pending", "suspended"}
  /\ adm' = [adm EXCEPT ![a] = [pc |-> "updateService", item |-> i, now |-> clock]]
  /\ clock' = clock + 1
  /\ UNCHANGED <<db, event, locks, handler, reply, queue, faults, crashes, noted>>

\* INSERT of the job and UPDATE of the service, which it locks.
AdminUpdateService(a) ==
  LET i == adm[a].item IN
  /\ Admin(a, "updateService", [pc |-> "updateOrder", item |-> i, now |-> adm[a].now])
  /\ itemLock[i] = Free
  /\ itemLock' = [itemLock EXCEPT ![i] = a]
  /\ UNCHANGED <<db, event, orderLock, handler, reply, queue, history>>

\* UPDATE of the order and COMMIT.
AdminCommit(a) ==
  LET i == adm[a].item IN
  /\ Admin(a, "updateOrder",
           [pc |-> "enqueue", item |-> i, job |-> Len(jobs[i]) + 1])
  /\ orderLock[OrderOf[i]] = Free
  /\ Len(jobs[i]) < MaxJobs
  /\ jobs' = [jobs EXCEPT ![i] = Append(@, "pending")]
  /\ latest' = [latest EXCEPT ![i] = Inserted(i, adm[a].now)]
  /\ service' = [service EXCEPT ![i] = "provisioning"]
  /\ order' = [order EXCEPT ![OrderOf[i]] = "provisioning"]
  /\ Unlocked(a)
  /\ UNCHANGED <<invoices, payment, event, handler, reply, queue, history>>

AdminEnqueue(a) ==
  /\ Admin(a, "enqueue", Idle)
  /\ task' = [task EXCEPT ![adm[a].item][adm[a].job] = "queued"]
  /\ UNCHANGED <<db, event, locks, handler, reply, retried, history>>

AdminEnqueueFails(a) ==
  /\ Fault
  /\ Admin(a, "enqueue", [pc |-> "undoJob", item |-> adm[a].item, job |-> adm[a].job])
  /\ UNCHANGED <<db, event, locks, handler, reply, queue, crashes, adminOps, clock, noted>>

AdminUndoJob(a) ==
  /\ Admin(a, "undoJob", [pc |-> "undoService", item |-> adm[a].item])
  /\ SetJob(adm[a].item, adm[a].job, "failed")
  /\ UNCHANGED <<order, invoices, payment, service, latest, event, locks, handler,
                 reply, queue, history>>

AdminUndoService(a) ==
  /\ Admin(a, "undoService", [pc |-> "undoOrder", item |-> adm[a].item])
  /\ itemLock[adm[a].item] = Free
  /\ service' = [service EXCEPT ![adm[a].item] = "pending"]
  /\ UNCHANGED <<order, invoices, payment, jobRows, event, locks, handler, reply,
                 queue, history>>

AdminUndoOrder(a) ==
  LET o == OrderOf[adm[a].item] IN
  /\ Admin(a, "undoOrder", Idle)
  /\ orderLock[o] = Free
  /\ order' = [order EXCEPT ![o] = IF @ = "provisioning" THEN "paid" ELSE @]
  /\ UNCHANGED <<invoices, payment, service, jobRows, event, locks, handler, reply,
                 queue, history>>

\* The errors of the three are ignored.
AdminUndoFails(a) ==
  /\ Fault
  /\ \/ /\ Admin(a, "undoJob", [pc |-> "undoService", item |-> adm[a].item])
        /\ unmarked' = unmarked \cup {<<adm[a].item, adm[a].job>>}
     \/ /\ Admin(a, "undoService", [pc |-> "undoOrder", item |-> adm[a].item])
        /\ UNCHANGED unmarked
     \/ Admin(a, "undoOrder", Idle) /\ UNCHANGED unmarked
  /\ UNCHANGED <<db, event, locks, handler, reply, queue, crashes, adminOps, clock,
                 markedPaid, rowsBlock>>

\* The request's goroutine fails or dies where it stands.
AdminDies(a) ==
  /\ adm[a] # Idle /\ Crash
  /\ adm' = [adm EXCEPT ![a] = Idle]
  /\ Unlocked(a)
  /\ UNCHANGED <<db, event, handler, reply, queue, faults, adminOps, clock, noted>>

-----------------------------------------------------------------------------
(* Postgres' deadlock detector.                                            *)

WaitsFor(t) ==
  IF t \in Events
  THEN CASE pc[t] = "mark" /\ saw[t] # "paid" -> {orderLock[EventOrder(t)]}
         [] pc[t] = "write" -> {itemLock[i] : i \in Writes(t)}
         [] pc[t] = "commit" /\ newJobs[t] # {} ->
              {orderLock[EventOrder(t)]} \ {t}
         [] OTHER -> {}
  ELSE CASE adm[t].pc = "updateService" -> {itemLock[adm[t].item]}
         [] adm[t].pc = "updateOrder" -> {orderLock[OrderOf[adm[t].item]]}
         [] OTHER -> {}

\* A set of transactions each of which waits for one of them and blocks one.
Cycle(S) == \A t \in S : /\ WaitsFor(t) \cap S # {}
                         /\ \E u \in S : t \in WaitsFor(u)
Deadlocked(t) == \E S \in SUBSET Txs : t \in S /\ Cycle(S)

EventIsVictim(e) == Deadlocked(e) /\ Rollback(e) /\ NoFault

AdminIsVictim(a) ==
  /\ Deadlocked(a)
  /\ adm' = [adm EXCEPT ![a] = Idle]
  /\ Unlocked(a)
  /\ UNCHANGED <<db, event, handler, reply, queue, history>>

-----------------------------------------------------------------------------
Proceed(e) ==
  \/ ReadOrder(e) \/ MarkPaid(e) \/ CreateInvoice(e) \/ UpsertPayment(e)
  \/ ReadServices(e) \/ WriteServices(e) \/ EnsureJobs(e) \/ CommitTx(e)
  \/ UniqueViolation(e) \/ ConnBusy(e) \/ EventIsVictim(e)
  \/ EnqueueTask(e) \/ ResetService(e) \/ FinishEvent(e)

Webhook(e) ==
  \/ ReceiveEvent(e) \/ ReceiveFails(e) \/ DuplicateDelivery(e)
  \/ Proceed(e)
  \/ TxFails(e) \/ CommitUnknown(e) \/ EnqueueFails(e) \/ ResetFails(e)
  \/ FinishFails(e) \/ HandlerDies(e)

Work(i, n) ==
  \/ StartTask(i, n) \/ ActivateService(i, n) \/ CompleteJob(i, n)
  \/ ActivateOrder(i, n) \/ AckTask(i, n)

Worker(i, n) == Work(i, n) \/ TaskFails(i, n) \/ WorkerDies(i, n)

Continue(a) ==
  \/ AdminWriteStatus(a) \/ AdminUpdateService(a) \/ AdminCommit(a)
  \/ AdminEnqueue(a) \/ AdminUndoJob(a) \/ AdminUndoService(a)
  \/ AdminUndoOrder(a) \/ AdminIsVictim(a)

Administrator(a) ==
  \/ \E o \in Orders, to \in OrderStatus : AdminReadStatus(a, o, to)
  \/ \E i \in Items : AdminReadService(a, i)
  \/ Continue(a) \/ AdminEnqueueFails(a) \/ AdminUndoFails(a)
  \/ AdminDies(a)

Next ==
  \/ \E e \in Events : Webhook(e)
  \/ \E i \in Items, n \in JobNo : Worker(i, n)
  \/ \E a \in Admins : Administrator(a)

Spec == Init /\ [][Next]_vars

(***************************************************************************)
(* Stripe retries a delivery until it is answered, Go schedules every      *)
(* goroutine, Asynq every task.  Nothing is assumed of faults, deaths,     *)
(* duplicates or of an administrator beginning a request.                  *)
(***************************************************************************)
Fairness ==
  /\ \A e \in Events : WF_vars(ReceiveEvent(e) \/ Proceed(e))
  /\ \A i \in Items, n \in JobNo : WF_vars(Work(i, n))
  /\ \A a \in Admins : WF_vars(Continue(a))

FairSpec == Spec /\ Fairness

-----------------------------------------------------------------------------
(* Properties                                                              *)

\* Every variable holds a value of its table's or process's type.
TypeOK ==
  /\ order \in [Orders -> OrderStatus]
  /\ invoices \in [Orders -> Nat]
  /\ payment \in [Sessions -> {"none", "succeeded"}]
  /\ service \in [Items -> ServiceStatus \cup {"none"}]
  /\ jobs \in [Items -> Seq(JobStatus)]
  /\ latest \in [Items -> [job : Nat, at : Nat]]
  /\ event \in [Events -> {"none", "received", "processed", "failed"}]
  /\ orderLock \in [Orders -> Txs \cup {Free}]
  /\ itemLock \in [Items -> Txs \cup {Free}]
  /\ pc \in [Events -> PC]
  /\ saw \in [Events -> OrderStatus]
  /\ now \in [Events -> Nat]
  /\ newInvoice \in [Events -> BOOLEAN]
  /\ newPayment \in [Events -> BOOLEAN]
  /\ seen \in [Events -> [Items -> ServiceStatus \cup {"none"}]]
  /\ newJobs \in [Events -> SUBSET Items]
  /\ failed \in [Events -> BOOLEAN]
  /\ toEnqueue \in [Events -> SUBSET (Items \X JobNo)]
  /\ toReset \in [Events -> SUBSET Items]
  /\ reply \in [Events -> {"none", "ok", "error", "duplicate"}]
  /\ task \in [Items -> [JobNo -> TaskStatus]]
  /\ retried \in [Items -> [JobNo -> 0 .. MaxRetry]]
  /\ adm \in [Admins -> AdminStates]
  /\ faults \in Nat /\ crashes \in Nat /\ adminOps \in Nat /\ clock \in Nat
  /\ markedPaid \subseteq Orders /\ unmarked \subseteq Items \X JobNo
  /\ rowsBlock \in BOOLEAN

(***************************************************************************)
(* createInvoice reuses the order's invoice (payment/service.go:175).  The *)
(* lookup is safe because the UPDATE to 'paid' locks the order first; an   *)
(* order an administrator has marked paid is not locked.                   *)
(***************************************************************************)
OneInvoicePerOrder == \A o \in Orders : o \in markedPaid \/ invoices[o] <= 1

Paid(o) == \E s \in Sessions : PaysFor[s] = o /\ payment[s] = "succeeded"

(***************************************************************************)
(* Whatever fails, dies or deadlocks, an order's invoice, its payment and  *)
(* a services row for each of its items exist together or not at all.      *)
(***************************************************************************)
AllOrNothing ==
  \A o \in Orders :
    /\ Paid(o) <=> invoices[o] > 0
    /\ \A i \in ItemsOf(o) : service[i] # "none" <=> invoices[o] > 0

PastMark == TxPC \ {"read", "mark"}
PastInvoice == PastMark \ {"invoice"}

(***************************************************************************)
(* The inductive invariant behind OneInvoicePerOrder and AllOrNothing: a   *)
(* webhook transaction that did not read 'paid' owns the order's row, what *)
(* it looked up is still so when it commits, and an order is only ever     *)
(* 'paid' with an invoice or by an administrator's hand.                   *)
(***************************************************************************)
LockedUnlessPaid ==
  \A e \in Events :
    pc[e] \in PastMark /\ saw[e] # "paid" => orderLock[EventOrder(e)] = e

InvoiceLookupHolds ==
  \A e \in Events : pc[e] \in PastInvoice =>
    IF newInvoice[e]
    THEN \/ EventOrder(e) \in markedPaid
         \/ saw[e] # "paid" /\ invoices[EventOrder(e)] = 0
    ELSE invoices[EventOrder(e)] > 0

\* An order that says 'paid' has its invoice, unless an administrator set it:
\* the status is not committed ahead of what the payment entails.
PaidHasInvoice ==
  /\ \A o \in Orders : order[o] = "paid" => invoices[o] > 0 \/ o \in markedPaid
  /\ \A e \in Events : pc[e] \in TxPC \ {"read"} /\ saw[e] = "paid" =>
       invoices[EventOrder(e)] > 0 \/ EventOrder(e) \in markedPaid

ServiceLookupHolds ==
  /\ \A e \in Events : pc[e] \in {"write", "jobs", "commit"} =>
       \A i \in ItemsOf(EventOrder(e)) :
         seen[e][i] # "none" => service[i] # "none"
  /\ \A e \in Events : pc[e] = "commit" => newJobs[e] \subseteq ItemsOf(EventOrder(e))
  /\ \A a \in Admins : adm[a].pc \notin {"idle", "setStatus"} =>
       service[adm[a].item] # "none"
  /\ \A i \in Items, n \in JobNo :
       task[i][n] # "none" \/ (\E e \in Events : <<i, n>> \in toEnqueue[e]) =>
         service[i] # "none"

\* All of it: what createInvoice and ensureServiceRecord look up still holds
\* when the webhook's transaction commits.
FulfilmentInv ==
  /\ LockedUnlessPaid
  /\ InvoiceLookupHolds
  /\ PaidHasInvoice
  /\ ServiceLookupHolds
  /\ OneInvoicePerOrder
  /\ AllOrNothing

\* A 200 "Webhook processed" means that the payment is on record.
AcknowledgedIsRecorded ==
  \A e \in Events :
    reply[e] = "ok" => event[e] = "processed" /\ payment[SessionOf[e]] = "succeeded"

\* What Asynq holds a task for is committed: enqueues come after the commit.
TaskHasJob ==
  \A i \in Items, n \in JobNo : task[i][n] # "none" => n <= Len(jobs[i])

WillSend(i, n) ==
  \/ \E e \in Events : pc[e] = "finish" /\ <<i, n>> \in toEnqueue[e]
  \/ \E a \in Admins : adm[a].pc \in {"enqueue", "undoJob"}
                       /\ adm[a].item = i /\ adm[a].job = n

(***************************************************************************)
(* A pending job whose task was never enqueued has a goroutine that will   *)
(* enqueue it or mark it failed, unless a process has died or the marking  *)
(* has failed as well: nothing else in the code ever picks the job up.     *)
(***************************************************************************)
PendingJobIsScheduled ==
  \A i \in Items : \A n \in 1 .. Len(jobs[i]) :
    jobs[i][n] = "pending" /\ task[i][n] = "none" =>
      WillSend(i, n) \/ <<i, n>> \in unmarked \/ crashes > 0

\* A service whose latest job runs has a task that runs, waits or was archived.
RunningJobHasTask ==
  \A i \in Items :
    LatestJob(i) = "running" =>
      \E n \in JobNo : task[i][n] \in {"queued", "started", "activated", "archived"}

(***************************************************************************)
(* Transactions, locks, deadlocks, failures and deaths implement Ledger:   *)
(* every step of them posts one session whole, acknowledges a posted one,  *)
(* or changes nothing of the ledger (handleCheckoutSessionCompleted).      *)
(***************************************************************************)
L == INSTANCE Ledger WITH
  posted <- {s \in Sessions : payment[s] = "succeeded"},
  served <- {i \in Items : service[i] # "none"},
  byHand <- markedPaid,
  acked  <- {SessionOf[e] : e \in {x \in Events : reply[x] = "ok"}}

ImplementsLedger == L!Spec

(***************************************************************************)
(* A service that runs is only taken back by a webhook transaction that    *)
(* read its row before the worker activated it (ensureServiceRecord), or   *)
(* by an administrator's request for it: no undo of a refused task, no     *)
(* retry and no later payment does so.                                     *)
(***************************************************************************)
ActiveUnlessReadBefore ==
  [][\A i \in Items : service[i] = "active" /\ service'[i] # "active" =>
       \/ \E e \in Events : pc[e] = "commit" /\ seen[e][i] # "active"
       \/ \E a \in Admins : adm[a].pc \in {"updateOrder", "undoService"}
                           /\ adm[a].item = i]_service

\* Every row lock is given up in the end, deadlocks included.
LocksAreReleased ==
  /\ \A o \in Orders : orderLock[o] # Free ~> orderLock[o] = Free
  /\ \A i \in Items : itemLock[i] # Free ~> itemLock[i] = Free

Provisioned(o) ==
  order[o] = "active" /\ \A i \in ItemsOf(o) : service[i] = "active"

(***************************************************************************)
(* "Your services will be provisioned shortly" (en.json:977): every paid   *)
(* session ends with its order and its services active.                    *)
(***************************************************************************)
PaidIsProvisioned == \A s \in Sessions : <>Provisioned(PaysFor[s])

(***************************************************************************)
(* What the webhook has acknowledged, Asynq's retries carry through: fewer *)
(* failures than retries cannot keep an acknowledged order from activity.  *)
(***************************************************************************)
AcknowledgedIsProvisioned ==
  \A e \in Events : reply[e] = "ok" ~> Provisioned(EventOrder(e))
=============================================================================

------------------------------ MODULE Renewals ------------------------------
(***************************************************************************)
(* The worker's scheduled tasks and the rest of its handlers               *)
(* (internal/provisioning/handler.go, scheduler.go, cmd/worker/main.go).   *)
(*                                                                         *)
(* One process runs Asynq's server and its scheduler: an expiry check      *)
(* every hour, a batch of renewal reminders every 24 hours after it        *)
(* started.  A task whose handler returns an error or dies is run again    *)
(* from the start, later, up to MaxRetry times.  Each statement of a       *)
(* handler commits by itself; a batch runs them between the rows of its    *)
(* first query.  Beside it the API's requests that provision a service     *)
(* again (internal/admin/service.go, internal/payment/provisioning.go).    *)
(* Time is counted in units of which Day make 24 hours.                    *)
(***************************************************************************)
EXTENDS Naturals, FiniteSets

CONSTANTS
  Services,    \* rows of services
  Expires,     \* services.expires_at, which no statement ever changes
  Requests,    \* goroutines of the API that provision a service again
  Day,         \* time units of 24 hours
  Concurrency, \* tasks the Asynq server runs at once
  MaxRetry,    \* retries of a task before it is archived
  MaxTasks,    \* bound: tasks in Asynq at once
  Starts,      \* bound: the moments at which the worker is first started,
  Span,        \* bound: how long a behaviour runs from there,
  Horizon,     \* bound: the last moment of all
  MaxAsked,    \* bound: requests, suspend, terminate, generate_invoice tasks
  MaxFaults    \* bound: statements and calls that fail, restarts

ASSUME RenewalsAssumption ==
  /\ Expires \in [Services -> Nat]
  /\ Day \in Nat \ {0}
  /\ {Concurrency, MaxRetry, MaxTasks, Span, Horizon, MaxAsked, MaxFaults} \subseteq Nat
  /\ Starts \subseteq 0 .. Horizon
  /\ Requests \cap (1 .. MaxTasks) = {}

VARIABLES
  start,      \* when the worker was first started
  now,        \* the clock of the worker and of Postgres
  nextRemind, \* when the scheduler enqueues the next batch of reminders
  service,    \* services.status
  invoices,   \* renewal invoices of a service
  rows,       \* audit_logs: renewal_reminder_sent of (service, date, days left)
  kind,       \* type of the task in a place of the queue
  pc,         \* where its handler is
  retried,    \* how often it has been run again
  todo,       \* handler: services of its first query that are left,
  cur,        \*   the service at hand,
  at,         \*   its time.Now(),
  ok,         \*   whether the notification went out,
  erred,      \*   whether errs has an element
  request,    \* an API request: whose, where it is and of which service
  notified,   \* history: notifications sent of (service, date, days left)
  lost,       \*   services with a notification that no record says was sent,
  hit,        \*   services whose reminder some failure concerned,
  late,       \*   services with a day that went by while a batch was waiting,
  overlap,    \*   whether two batches have ever run at the same time,
  left,       \*   services that have not been active throughout,
  atWork,     \*   work under way on a service when it was terminated,
  asked,      \*   requests and tasks asked for so far,
  ordered,    \*   generate_invoice tasks of a service asked for,
  unheard,    \*   invoices of a service whose task did not learn of them
  faults

queue   == <<kind, pc, retried>>
locals  == <<todo, cur, at, ok, erred>>
tables  == <<service, invoices, rows>>
sending == <<notified, lost, hit, late, overlap>>
outcome == <<left, atWork, asked, ordered, unheard>>
history == <<sending, outcome>>
bounds  == <<start, faults>>
vars    == <<now, nextRemind, tables, queue, locals, request, history, bounds>>

Tasks == 1 .. MaxTasks
ServiceStatus == {"pending", "provisioning", "active", "suspended",
                  "cancelled", "terminated"}
Asked == {"suspend", "terminate", "invoice"}
ForOne == Asked \cup {"provision"}
Kinds == ForOne \cup {"expire", "remind"}
Running == {"listed", "next", "suspend", "send", "record", "update", "written"}
PC == Running \cup {"idle", "queued"}
ReminderDays == {7, 3, 1}
Dates == 0 .. Horizon \div Day
Keys == Services \X Dates \X ReminderDays

NoRequest == [by |-> "nobody", pc |-> "idle", of |-> {}]
Request == [by : {"admin", "payment"}, pc : {"update", "enqueue", "undo"},
            of : SUBSET Services]

Init ==
  /\ start \in Starts /\ now = start /\ nextRemind = start + Day
  /\ service = [s \in Services |-> "active"]
  /\ invoices = [s \in Services |-> 0]
  /\ rows = [k \in Keys |-> 0]
  /\ kind = [t \in Tasks |-> "expire"]
  /\ pc = [t \in Tasks |-> "idle"]
  /\ retried = [t \in Tasks |-> 0]
  /\ todo = [t \in Tasks |-> {}]
  /\ cur = [t \in Tasks |-> {}]
  /\ at = [t \in Tasks |-> 0]
  /\ ok = [t \in Tasks |-> FALSE]
  /\ erred = [t \in Tasks |-> FALSE]
  /\ request = [r \in Requests |-> NoRequest]
  /\ notified = [k \in Keys |-> 0]
  /\ lost = {} /\ hit = {} /\ late = {} /\ overlap = FALSE /\ left = {}
  /\ atWork = [s \in Services |-> {}]
  /\ asked = 0 /\ ordered = [s \in Services |-> 0]
  /\ unheard = [s \in Services |-> 0]
  /\ faults = 0

Fault == faults < MaxFaults /\ faults' = faults + 1 /\ UNCHANGED start

-----------------------------------------------------------------------------
(* The queue                                                               *)

\* A task of kind k on the services S in the first free place.
Enqueue(t, k, S) ==
  /\ pc[t] = "idle" /\ \A u \in 1 .. t - 1 : pc[u] # "idle"
  /\ kind' = [kind EXCEPT ![t] = k]
  /\ pc' = [pc EXCEPT ![t] = "queued"]
  /\ retried' = [retried EXCEPT ![t] = 0]
  /\ cur' = [cur EXCEPT ![t] = S]
  /\ UNCHANGED <<todo, at, ok, erred>>

Slots == Cardinality({t \in Tasks : pc[t] \in Running}) < Concurrency

Goto(t, from, to) == pc[t] = from /\ pc' = [pc EXCEPT ![t] = to]

\* The handler has returned: its locals are gone, an asked task keeps its payload.
Clean(t) ==
  /\ todo' = [todo EXCEPT ![t] = {}]
  /\ cur' = [cur EXCEPT ![t] = IF kind[t] \in ForOne THEN @ ELSE {}]
  /\ at' = [at EXCEPT ![t] = 0]
  /\ ok' = [ok EXCEPT ![t] = FALSE]
  /\ erred' = [erred EXCEPT ![t] = FALSE]

\* nil: Asynq removes the task.
Ack(t) ==
  /\ pc' = [pc EXCEPT ![t] = "idle"]
  /\ Clean(t)
  /\ atWork' = [s \in Services |-> atWork[s] \ {t}]
  /\ UNCHANGED <<kind, retried>>

\* An error: Asynq runs the task again later, or archives it.
Requeue(t) ==
  /\ IF retried[t] < MaxRetry
     THEN /\ pc' = [pc EXCEPT ![t] = "queued"]
          /\ retried' = [retried EXCEPT ![t] = @ + 1] /\ UNCHANGED atWork
     ELSE /\ pc' = [pc EXCEPT ![t] = "idle"]
          /\ atWork' = [s \in Services |-> atWork[s] \ {t}] /\ UNCHANGED retried
  /\ Clean(t) /\ UNCHANGED kind

-----------------------------------------------------------------------------
(* The clock and the scheduler                                             *)

\* daysUntil: the hours left, in days, rounded up.
daysUntil(future, n) == IF future <= n THEN 0 ELSE (future - n + Day - 1) \div Day

\* A batch is due, or its first run has not come to time.Now().
BatchWaits ==
  \/ now >= nextRemind
  \/ \E t \in Tasks :
       kind[t] = "remind" /\ retried[t] = 0 /\ pc[t] \in {"queued", "listed"}

\* Time passes, whatever is under way.
Pass ==
  /\ now < Horizon /\ now < start + Span
  /\ now' = now + 1
  /\ late' = IF BatchWaits
             THEN late \cup {s \in Services :
                    daysUntil(Expires[s], now + 1) # daysUntil(Expires[s], now)}
             ELSE late
  /\ UNCHANGED <<nextRemind, tables, queue, locals, request, notified, lost, hit,
                 overlap, outcome, bounds>>

\* @every 24h, when the scheduler comes to it.
TickRemind(t) ==
  /\ now >= nextRemind
  /\ nextRemind' = now + Day
  /\ Enqueue(t, "remind", {})
  /\ UNCHANGED <<now, tables, request, history, bounds>>

\* Redis does not take the task: there is no batch this time.
TickFails ==
  /\ now >= nextRemind /\ Fault
  /\ nextRemind' = now + Day
  /\ hit' = Services
  /\ UNCHANGED <<now, tables, queue, locals, request, notified, lost, late, overlap,
                 outcome>>

Expired(s) == now >= Expires[s]

\* @every 1h.  Bounds: not while an earlier check is still under way, nor when
\* the check would find nothing to do.
TickExpire(t) ==
  /\ \E s \in Services : service[s] = "active" /\ Expired(s)
  /\ \A u \in Tasks : kind[u] = "expire" => pc[u] = "idle"
  /\ Enqueue(t, "expire", {})
  /\ UNCHANGED <<now, nextRemind, tables, request, history, bounds>>

Asking == asked < MaxAsked /\ asked' = asked + 1

\* A task for one service, of a kind with a constructor and a handler that
\* nothing enqueues yet.
Ask(t, k, s) ==
  /\ Asking /\ Enqueue(t, k, {s})
  /\ ordered' = IF k = "invoice" THEN [ordered EXCEPT ![s] = @ + 1] ELSE ordered
  /\ UNCHANGED <<now, nextRemind, tables, request, sending, left, atWork, unheard,
                 bounds>>

\* Invoices that are committed and not acknowledged.
Unheard(s) == {t \in Tasks : kind[t] = "invoice" /\ pc[t] = "written" /\ s \in cur[t]}

\* The process dies and is started again: Asynq recovers its tasks, the
\* scheduler counts its 24 hours anew.  Bound: not while it is at rest.
Restart ==
  /\ \E t \in Tasks : pc[t] \in Running
  /\ Fault
  /\ nextRemind' = now + Day
  /\ hit' = Services
  /\ pc' = [t \in Tasks |-> IF pc[t] \notin Running THEN pc[t]
                            ELSE IF retried[t] < MaxRetry THEN "queued" ELSE "idle"]
  /\ retried' = [t \in Tasks |-> IF pc[t] \in Running /\ retried[t] < MaxRetry
                                 THEN retried[t] + 1 ELSE retried[t]]
  /\ lost' = lost \cup UNION {cur[t] : t \in {u \in Tasks : pc[u] = "record" /\ ok[u]}}
  /\ unheard' = [s \in Services |-> unheard[s] + Cardinality(Unheard(s))]
  /\ atWork' = [s \in Services |->
       {w \in atWork[s] : w \in Requests \/ pc'[w] # "idle"}]
  /\ todo' = [t \in Tasks |-> {}]
  /\ cur' = [t \in Tasks |-> IF kind[t] \in ForOne THEN cur[t] ELSE {}]
  /\ at' = [t \in Tasks |-> 0]
  /\ ok' = [t \in Tasks |-> FALSE]
  /\ erred' = [t \in Tasks |-> FALSE]
  /\ UNCHANGED <<now, tables, kind, request, notified, late, overlap, left, asked,
                 ordered>>

-----------------------------------------------------------------------------
(* The API: requests that provision a service again, as far as they touch  *)
(* its status and the queue (in detail in Fulfilment).                     *)

Begin(r, by, where, s) ==
  /\ request[r] = NoRequest /\ Asking
  /\ request' = [request EXCEPT ![r] = [by |-> by, pc |-> where, of |-> {s}]]
  /\ UNCHANGED <<now, nextRemind, tables, queue, locals, sending, left, atWork,
                 ordered, unheard, bounds>>

\* The administrator's provisionService refuses the other statuses.
AdminReads(r, s) ==
  /\ service[s] \in {"pending", "suspended"}
  /\ Begin(r, "admin", "update", s)

\* One more payment of the service's order: an active service needs nothing,
\* and ensureServiceRecord leaves one that is being provisioned as it is.
PaymentReads(r, s) ==
  /\ service[s] # "active"
  /\ Begin(r, "payment", IF service[s] = "provisioning" THEN "enqueue" ELSE "update", s)

\* Sets the status of a request's service, which is not 'active' then.
SetStatus(r, status) ==
  \E s \in request[r].of : /\ service' = [service EXCEPT ![s] = status]
                           /\ left' = left \cup {s}

\* UPDATE services SET status = 'provisioning', whatever it is by now.
RequestUpdates(r) ==
  /\ request[r].pc = "update"
  /\ SetStatus(r, "provisioning")
  /\ request' = [request EXCEPT ![r].pc = "enqueue"]
  /\ UNCHANGED <<now, nextRemind, invoices, rows, queue, locals, sending, atWork,
                 asked, ordered, unheard, bounds>>

\* What was under way on a service when it was terminated goes on in a task.
Inherits(t, r) ==
  [s \in Services |-> IF r \in atWork[s] THEN atWork[s] \cup {t} ELSE atWork[s]]

RequestEnqueues(r, t) ==
  /\ request[r].pc = "enqueue"
  /\ Enqueue(t, "provision", request[r].of)
  /\ request' = [request EXCEPT ![r] = NoRequest]
  /\ atWork' = [s \in Services |-> Inherits(t, r)[s] \ {r}]
  /\ UNCHANGED <<now, nextRemind, tables, sending, left, asked, ordered, unheard,
                 bounds>>

\* Enqueue returns an error, whether or not Redis has the task.
EnqueueFails(r) ==
  /\ request[r].pc = "enqueue" /\ Fault
  /\ request' = [request EXCEPT ![r].pc = "undo"]
  /\ \/ UNCHANGED <<queue, locals, atWork>>
     \/ \E t \in Tasks : /\ Enqueue(t, "provision", request[r].of)
                         /\ atWork' = Inherits(t, r)
  /\ UNCHANGED <<now, nextRemind, tables, sending, left, asked, ordered, unheard>>

RequestEnds(r) ==
  /\ request' = [request EXCEPT ![r] = NoRequest]
  /\ atWork' = [s \in Services |-> atWork[s] \ {r}]
  /\ UNCHANGED <<now, nextRemind, invoices, rows, queue, locals, sending, asked,
                 ordered, unheard>>

\* UPDATE services SET status = 'pending': the webhook's is conditional.
Undo(r) ==
  /\ request[r].pc = "undo" /\ RequestEnds(r)
  /\ IF request[r].by = "admin"
       \/ \A s \in request[r].of : service[s] = "provisioning"
     THEN SetStatus(r, "pending") ELSE UNCHANGED <<service, left>>
  /\ UNCHANGED bounds

\* A payment finds a job of the service that is pending or running.
HasJob(r) ==
  /\ request[r].pc = "enqueue" /\ request[r].by = "payment"
  /\ RequestEnds(r) /\ UNCHANGED <<service, left, bounds>>

\* A statement fails, COMMIT's answer is lost, or the process dies.
RequestFails(r) ==
  /\ request[r] # NoRequest /\ Fault
  /\ RequestEnds(r) /\ UNCHANGED <<service, left>>

-----------------------------------------------------------------------------
(* HandleExpireService                                                     *)

\* SELECT of the active services that have expired; its Rows are read whole.
StartExpire(t) ==
  /\ kind[t] = "expire" /\ Slots /\ Goto(t, "queued", "next")
  /\ todo' = [todo EXCEPT ![t] = {s \in Services : service[s] = "active" /\ Expired(s)}]
  /\ UNCHANGED <<now, nextRemind, tables, kind, retried, cur, at, ok, erred,
                 request, history, bounds>>

\* Mutant: the status is not looked at again.
ReadListed(t, s) ==
  /\ kind[t] = "expire" /\ s \in todo[t]
  /\ todo' = [todo EXCEPT ![t] = @ \ {s}]
  /\ Goto(t, "next", "suspend") /\ cur' = [cur EXCEPT ![t] = {s}]
  /\ UNCHANGED <<now, nextRemind, tables, kind, retried, at, ok, erred, request,
                 history, bounds>>

\* Mutant: the comparison of the clock is turned round.
ReadUnexpired(t, s) ==
  /\ kind[t] = "expire" /\ s \in todo[t]
  /\ todo' = [todo EXCEPT ![t] = @ \ {s}]
  /\ IF ~Expired(s) /\ service[s] = "active"
     THEN Goto(t, "next", "suspend") /\ cur' = [cur EXCEPT ![t] = {s}]
     ELSE Goto(t, "next", "next") /\ UNCHANGED cur
  /\ UNCHANGED <<now, nextRemind, tables, kind, retried, at, ok, erred, request,
                 history, bounds>>

\* expireSingleService reads status and expires_at once more ...
ReadService(t, s) ==
  /\ kind[t] = "expire" /\ s \in todo[t]
  /\ todo' = [todo EXCEPT ![t] = @ \ {s}]
  /\ IF Expired(s) /\ service[s] = "active"
     THEN Goto(t, "next", "suspend") /\ cur' = [cur EXCEPT ![t] = {s}]
     ELSE Goto(t, "next", "next") /\ UNCHANGED cur
  /\ UNCHANGED <<now, nextRemind, tables, kind, retried, at, ok, erred, request,
                 history, bounds>>

\* ... and then updates, whatever the status is by now.  An error only matters
\* if the UPDATE has had no effect.
SuspendExpired(t) ==
  /\ kind[t] = "expire" /\ Goto(t, "suspend", "next")
  /\ \E s \in cur[t] : /\ service' = [service EXCEPT ![s] = "suspended"]
                       /\ left' = left \cup {s}
  /\ cur' = [cur EXCEPT ![t] = {}]
  /\ UNCHANGED <<now, nextRemind, invoices, rows, kind, retried, todo, at, ok,
                 erred, request, sending, atWork, asked, ordered, unheard, bounds>>

\* Either statement fails: the error is logged, the next service follows.
ExpireFails(t) ==
  /\ kind[t] = "expire" /\ Fault
  /\ \/ Goto(t, "suspend", "next") /\ cur' = [cur EXCEPT ![t] = {}] /\ UNCHANGED todo
     \/ /\ Goto(t, "next", "next") /\ UNCHANGED cur
        /\ \E s \in todo[t] : todo' = [todo EXCEPT ![t] = @ \ {s}]
  /\ UNCHANGED <<now, nextRemind, tables, kind, retried, at, ok, erred, request,
                 history>>

-----------------------------------------------------------------------------
(* HandleRenewalReminder, a batch                                          *)

Today == now \div Day

isReminderDay(d) == d \in ReminderDays

\* SELECT of the active services that expire within 8 days ...
StartRemind(t) ==
  /\ kind[t] = "remind" /\ Slots /\ Goto(t, "queued", "listed")
  /\ todo' = [todo EXCEPT ![t] =
       {s \in Services : /\ service[s] = "active" /\ ~Expired(s)
                         /\ Expires[s] <= now + 8 * Day}]
  /\ overlap' = (overlap \/ \E u \in Tasks : kind[u] = "remind" /\ pc[u] \in Running)
  /\ UNCHANGED <<now, nextRemind, tables, kind, retried, cur, at, ok, erred, request,
                 notified, lost, hit, late, outcome, bounds>>

\* ... and time.Now(), which the days left are counted from.
TakeTime(t) ==
  /\ kind[t] = "remind" /\ Goto(t, "listed", "next")
  /\ at' = [at EXCEPT ![t] = now]
  /\ UNCHANGED <<now, nextRemind, tables, kind, retried, todo, cur, ok, erred, request,
                 history, bounds>>

DaysLeft(t, s) == daysUntil(Expires[s], at[t])

\* Mutant: the record of the day's reminders is not looked up.
NeverSent(s, d) == FALSE

reminderAlreadySentToday(s, d) == rows[<<s, Today, d>>] > 0

\* The next service of the batch: on a reminder day, and not yet reminded?
NextReminder(t, s) ==
  LET d == DaysLeft(t, s) IN
  /\ kind[t] = "remind" /\ s \in todo[t]
  /\ todo' = [todo EXCEPT ![t] = @ \ {s}]
  /\ IF isReminderDay(d) /\ ~reminderAlreadySentToday(s, d)
     THEN Goto(t, "next", "send") /\ cur' = [cur EXCEPT ![t] = {s}]
     ELSE Goto(t, "next", "next") /\ UNCHANGED cur
  /\ UNCHANGED <<now, nextRemind, tables, kind, retried, at, ok, erred, request,
                 history, bounds>>

\* The lookup fails: the error is collected, the next service follows.
LookupFails(t) ==
  /\ kind[t] = "remind" /\ Goto(t, "next", "next") /\ Fault
  /\ \E s \in todo[t] : /\ todo' = [todo EXCEPT ![t] = @ \ {s}]
                        /\ hit' = hit \cup {s}
  /\ erred' = [erred EXCEPT ![t] = TRUE]
  /\ UNCHANGED <<now, nextRemind, tables, kind, retried, cur, at, ok, request,
                 notified, lost, late, overlap, outcome>>

\* rows.Scan or rows.Err: the batch ends before the services that are left.
BatchAborts(t) ==
  /\ kind[t] = "remind" /\ pc[t] = "next" /\ Fault /\ Requeue(t)
  /\ hit' = hit \cup todo[t]
  /\ UNCHANGED <<now, nextRemind, tables, request, notified, lost, late, overlap,
                 left, asked, ordered, unheard>>

\* The customer hears of the days that are left.
Notified(t) ==
  \E s \in cur[t] :
    notified' = [notified EXCEPT ![<<s, Today, DaysLeft(t, s)>>] = @ + 1]

\* sendRenewalWebhook: posted; without a URL the record is all there is.
Send(t) ==
  /\ kind[t] = "remind" /\ Goto(t, "send", "record")
  /\ ok' = [ok EXCEPT ![t] = TRUE]
  /\ Notified(t)
  /\ UNCHANGED <<now, nextRemind, tables, kind, retried, todo, cur, at, erred,
                 request, lost, hit, late, overlap, outcome, bounds>>

\* An error: not delivered, or the answer is lost, late or not a 2xx.
SendFails(t) ==
  /\ kind[t] = "remind" /\ Goto(t, "send", "record") /\ Fault
  /\ hit' = hit \cup cur[t]
  /\ \/ UNCHANGED <<notified, lost>>
     \/ Notified(t) /\ lost' = lost \cup cur[t]
  /\ UNCHANGED <<now, nextRemind, tables, kind, retried, locals, request, late,
                 overlap, outcome>>

\* The row of a notification that went out; that of one that failed is of no
\* consequence.
Recorded(t) ==
  \E s \in cur[t] :
    rows' = IF ok[t] THEN [rows EXCEPT ![<<s, Today, DaysLeft(t, s)>>] = @ + 1]
            ELSE rows

\* Mutant: the first error ends the batch.
RecordAndStop(t) ==
  /\ kind[t] = "remind" /\ pc[t] = "record"
  /\ Recorded(t)
  /\ IF ok[t]
     THEN /\ Goto(t, "record", "next")
          /\ ok' = [ok EXCEPT ![t] = FALSE] /\ cur' = [cur EXCEPT ![t] = {}]
          /\ UNCHANGED <<kind, retried, todo, at, erred, atWork>>
     ELSE Requeue(t)
  /\ UNCHANGED <<now, nextRemind, service, invoices, request, sending, left, asked,
                 ordered, unheard, bounds>>

\* INSERT INTO audit_logs, as renewal_reminder_sent or renewal_reminder_failed.
Record(t) ==
  /\ kind[t] = "remind" /\ Goto(t, "record", "next")
  /\ Recorded(t)
  /\ erred' = [erred EXCEPT ![t] = @ \/ ~ok[t]]
  /\ ok' = [ok EXCEPT ![t] = FALSE]
  /\ cur' = [cur EXCEPT ![t] = {}]
  /\ UNCHANGED <<now, nextRemind, service, invoices, kind, retried, todo, at,
                 request, history, bounds>>

\* The INSERT fails after the notification, or only its answer does.
RecordFails(t) ==
  /\ kind[t] = "remind" /\ Goto(t, "record", "next") /\ Fault
  /\ hit' = hit \cup cur[t]
  /\ \/ lost' = (IF ok[t] THEN lost \cup cur[t] ELSE lost) /\ UNCHANGED rows
     \/ Recorded(t) /\ UNCHANGED lost
  /\ erred' = [erred EXCEPT ![t] = TRUE]
  /\ ok' = [ok EXCEPT ![t] = FALSE]
  /\ cur' = [cur EXCEPT ![t] = {}]
  /\ UNCHANGED <<now, nextRemind, service, invoices, kind, retried, todo, at,
                 request, notified, late, overlap, outcome>>

\* The loop is over: the collected errors fail the task.
EndLoop(t) ==
  /\ pc[t] = "next" /\ todo[t] = {}
  /\ IF erred[t] THEN Requeue(t) ELSE Ack(t)
  /\ UNCHANGED <<now, nextRemind, tables, request, sending, left, asked, ordered,
                 unheard, bounds>>

\* The first statement fails, and with it the task.
StartFails(t) ==
  /\ pc[t] = "queued" /\ Slots /\ Fault /\ Requeue(t)
  /\ hit' = IF kind[t] = "remind" THEN Services ELSE hit
  /\ UNCHANGED <<now, nextRemind, tables, request, notified, lost, late, overlap,
                 left, asked, ordered, unheard>>

-----------------------------------------------------------------------------
(* Suspend, terminate, generate_invoice, and the activation of provision.  *)

\* The statements before the one that counts: pricing, the job's status.
StartForOne(t) ==
  /\ kind[t] \in ForOne /\ Slots /\ Goto(t, "queued", "update")
  /\ UNCHANGED <<now, nextRemind, tables, kind, retried, locals, request, history,
                 bounds>>

Target(k) == CASE k = "provision" -> "active"
               [] k = "suspend"   -> "suspended"
               [] k = "terminate" -> "terminated"

\* What is under way that may set the status of a service again.
AtWork(s) ==
  {t \in Tasks : /\ s \in cur[t]
                 /\ pc[t] = "suspend" \/ (kind[t] = "provision" /\ pc[t] # "idle")}
    \cup {r \in Requests : s \in request[r].of}

\* UPDATE services SET status = ... WHERE id = $1, whatever it was.
WriteStatus(t) ==
  /\ kind[t] \in {"provision", "suspend", "terminate"}
  /\ Goto(t, "update", "written")
  /\ \E s \in cur[t] :
       /\ service' = [service EXCEPT ![s] = Target(kind[t])]
       /\ left' = IF kind[t] = "provision" THEN left ELSE left \cup {s}
       /\ atWork' = IF kind[t] = "terminate" /\ service[s] # "terminated"
                    THEN [atWork EXCEPT ![s] = AtWork(s)] ELSE atWork
  /\ UNCHANGED <<now, nextRemind, invoices, rows, kind, retried, locals, request,
                 sending, asked, ordered, unheard, bounds>>

\* The invoice and its item, in one transaction.
CommitInvoice(t) ==
  /\ kind[t] = "invoice" /\ Goto(t, "update", "written")
  /\ \E s \in cur[t] : invoices' = [invoices EXCEPT ![s] = @ + 1]
  /\ UNCHANGED <<now, nextRemind, service, rows, kind, retried, locals, request,
                 history, bounds>>

\* Mutant: the item is inserted after the commit of the invoice.
InvoiceThenFail(t) ==
  /\ pc[t] = "update" /\ Fault /\ Requeue(t)
  /\ invoices' = [s \in Services |-> IF kind[t] = "invoice" /\ s \in cur[t]
                                     THEN invoices[s] + 1 ELSE invoices[s]]
  /\ UNCHANGED <<now, nextRemind, service, rows, request, sending, left, asked,
                 ordered, unheard>>

\* A statement of the handler fails; an open transaction is rolled back.
UpdateFails(t) ==
  /\ pc[t] = "update" /\ Fault /\ Requeue(t)
  /\ UNCHANGED <<now, nextRemind, tables, request, sending, left, asked, ordered,
                 unheard>>

EndForOne(t) ==
  /\ pc[t] = "written" /\ Ack(t)
  /\ UNCHANGED <<now, nextRemind, tables, request, sending, left, asked, ordered,
                 unheard, bounds>>

\* The UPDATE or the COMMIT has taken effect and returns an error, or one of
\* HandleProvisionVPS' statements after it does.
WrittenFails(t) ==
  /\ pc[t] = "written" /\ Fault /\ Requeue(t)
  /\ unheard' = [s \in Services |->
       IF t \in Unheard(s) THEN unheard[s] + 1 ELSE unheard[s]]
  /\ UNCHANGED <<now, nextRemind, tables, request, sending, left, asked, ordered>>

-----------------------------------------------------------------------------
Work(t) ==
  \/ StartExpire(t) \/ SuspendExpired(t)
  \/ StartRemind(t) \/ TakeTime(t) \/ Send(t) \/ Record(t)
  \/ \E s \in Services : ReadService(t, s) \/ NextReminder(t, s)
  \/ EndLoop(t) \/ StartForOne(t) \/ WriteStatus(t) \/ CommitInvoice(t) \/ EndForOne(t)

Fails(t) ==
  \/ StartFails(t) \/ ExpireFails(t) \/ LookupFails(t) \/ BatchAborts(t) \/ SendFails(t)
  \/ RecordFails(t) \/ UpdateFails(t) \/ WrittenFails(t)

Serve(r) ==
  \/ \E s \in Services : AdminReads(r, s) \/ PaymentReads(r, s)
  \/ RequestUpdates(r) \/ (\E t \in Tasks : RequestEnqueues(r, t)) \/ EnqueueFails(r)
  \/ Undo(r) \/ HasJob(r) \/ RequestFails(r)

Next ==
  \/ Pass \/ TickFails \/ Restart
  \/ \E t \in Tasks : TickRemind(t) \/ TickExpire(t) \/ Work(t) \/ Fails(t)
  \/ \E t \in Tasks, k \in Asked, s \in Services : Ask(t, k, s)
  \/ \E r \in Requests : Serve(r)

Spec == Init /\ [][Next]_vars

\* The scheduler keeps its hourly check, Asynq runs what is in its queue.
FairSpec ==
  /\ Spec
  /\ WF_vars(\E t \in Tasks : TickExpire(t))
  /\ \A t \in Tasks : WF_vars(Work(t))

-----------------------------------------------------------------------------
(* Properties                                                              *)

\* Every variable keeps its type.
TypeOK ==
  /\ start \in 0 .. Horizon /\ now \in 0 .. Horizon /\ nextRemind \in Nat
  /\ service \in [Services -> ServiceStatus]
  /\ invoices \in [Services -> Nat]
  /\ rows \in [Keys -> Nat] /\ notified \in [Keys -> Nat]
  /\ kind \in [Tasks -> Kinds] /\ pc \in [Tasks -> PC]
  /\ retried \in [Tasks -> 0 .. MaxRetry]
  /\ todo \in [Tasks -> SUBSET Services] /\ cur \in [Tasks -> SUBSET Services]
  /\ at \in [Tasks -> 0 .. Horizon]
  /\ ok \in [Tasks -> BOOLEAN] /\ erred \in [Tasks -> BOOLEAN]
  /\ request \in [Requests -> {NoRequest} \cup Request]
  /\ lost \subseteq Services /\ hit \subseteq Services /\ left \subseteq Services
  /\ late \subseteq Services /\ overlap \in BOOLEAN
  /\ atWork \in [Services -> SUBSET (Tasks \cup Requests)]
  /\ asked \in Nat /\ ordered \in [Services -> Nat]
  /\ unheard \in [Services -> Nat] /\ faults \in Nat

(***************************************************************************)
(* Whatever fails and is run again, a customer hears of the same number of *)
(* days once a date (reminderAlreadySentToday), unless a notification went *)
(* out that no row says was sent, because the answer or the row was lost,  *)
(* or two batches ran at the same time.                                    *)
(***************************************************************************)
RemindedOnce ==
  overlap \/ \A k \in Keys : rows[k] <= 1 /\ (k[1] \in lost \/ notified[k] <= 1)

Reminded(s, d) == \E date \in Dates : rows[<<s, date, d>>] > 0

(***************************************************************************)
(* "7/3/1 days" (scheduler.go:15): whatever the time of day at which it    *)
(* expires, an active service is reminded for each of the three day        *)
(* counts, or a batch is about to.  Not if the worker was started anew or  *)
(* a failure concerned this very service (another service's does not       *)
(* matter), nor if one of its days ended while a batch was due or waited   *)
(* for a worker: the next one finds a smaller count.                       *)
(***************************************************************************)
EveryCountReminded ==
  \A s \in Services \ (hit \cup left \cup late) : \A d \in ReminderDays :
    Expires[s] >= start + (d + 1) * Day /\ now + (d - 1) * Day >= Expires[s] =>
      Reminded(s, d) \/ \E t \in Tasks : kind[t] = "remind" /\ s \in todo[t] \cup cur[t]

(***************************************************************************)
(* A generate_invoice task makes one invoice, and one more for each that   *)
(* was committed without the task hearing of it: the COMMIT returned an    *)
(* error, or the worker was restarted before the task's end.               *)
(***************************************************************************)
InvoicedPerTask == \A s \in Services : invoices[s] <= ordered[s] + unheard[s]

(***************************************************************************)
(* A terminated service is brought back only by what was under way when it *)
(* was terminated: an expiry check that had read it as active, an          *)
(* administrator's request or a payment's, the provisioning task of        *)
(* either; or by a task to suspend it or one more payment of its order.    *)
(* The unconditional UPDATEs reach no further.                             *)
(***************************************************************************)
RevivedByOldWork ==
  [][\A s \in Services :
       service[s] = "terminated" /\ service'[s] # "terminated" =>
         \/ atWork[s] \cap AtWork(s) # {}
         \/ \E t \in Tasks : kind[t] = "suspend" /\ pc[t] = "update" /\ s \in cur[t]
         \/ \E r \in Requests : /\ request[r].by = "payment"
                               /\ request[r].pc = "update" /\ s \in request[r].of]_service

\* A service that has expired does not stay active (scheduler.go:9).
ExpiredIsSuspended ==
  \A s \in Services : service[s] = "active" /\ Expired(s) ~> service[s] # "active"
=============================================================================

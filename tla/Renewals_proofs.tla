--------------------------- MODULE Renewals_proofs ---------------------------
(***************************************************************************)
(* The safety of Renewals for any services, expiries, queue and bounds:    *)
(* what can bring a terminated service back, how many invoices the         *)
(* generate_invoice tasks make, how often a customer is reminded, and      *)
(* that none of the three day counts is missed.                            *)
(***************************************************************************)
EXTENDS Renewals, FiniteSetTheorems, TLAPS

-----------------------------------------------------------------------------
(* Types                                                                   *)

LEMMA Constants ==
  /\ Day \in Nat \ {0} /\ MaxRetry \in Nat /\ MaxTasks \in Nat /\ Horizon \in Nat
  /\ Concurrency \in Nat /\ Span \in Nat
  /\ Expires \in [Services -> Nat] /\ Starts \subseteq 0 .. Horizon
  /\ Requests \cap Tasks = {}
BY RenewalsAssumption DEF Tasks

LEMMA Sizes ==
  /\ IsFiniteSet(Tasks)
  /\ \A S \in SUBSET Tasks : IsFiniteSet(S) /\ Cardinality(S) \in Nat
<1>1. IsFiniteSet(Tasks)
  BY Constants, FS_Interval DEF Tasks
<1> QED BY <1>1, FS_Subset, FS_CardinalityType

QueueOK ==
  /\ kind \in [Tasks -> Kinds] /\ pc \in [Tasks -> PC]
  /\ retried \in [Tasks -> 0 .. MaxRetry]
  /\ todo \in [Tasks -> SUBSET Services] /\ cur \in [Tasks -> SUBSET Services]
  /\ at \in [Tasks -> 0 .. Horizon]
  /\ ok \in [Tasks -> BOOLEAN] /\ erred \in [Tasks -> BOOLEAN]

TablesOK ==
  /\ service \in [Services -> ServiceStatus]
  /\ invoices \in [Services -> Nat] /\ rows \in [Keys -> Nat]

ClockOK ==
  start \in 0 .. Horizon /\ now \in 0 .. Horizon /\ nextRemind \in Nat

HistoryOK ==
  /\ notified \in [Keys -> Nat]
  /\ lost \subseteq Services /\ hit \subseteq Services /\ left \subseteq Services
  /\ late \subseteq Services /\ overlap \in BOOLEAN
  /\ atWork \in [Services -> SUBSET (Tasks \cup Requests)]
  /\ asked \in Nat /\ ordered \in [Services -> Nat]
  /\ unheard \in [Services -> Nat] /\ faults \in Nat

\* A request provisions one service.
RequestOK ==
  /\ request \in [Requests -> {NoRequest} \cup Request]
  /\ \A r \in Requests : request[r] # NoRequest => \E s \in Services : request[r].of = {s}

TypeInv == QueueOK /\ TablesOK /\ ClockOK /\ HistoryOK /\ RequestOK

LEMMA EnqueueTyped ==
  ASSUME QueueOK, NEW t \in Tasks, NEW k \in Kinds, NEW S \in SUBSET Services,
         Enqueue(t, k, S)
  PROVE  QueueOK'
<1>1. 0 \in 0 .. MaxRetry /\ "queued" \in PC
  BY Constants DEF PC
<1> QED BY <1>1 DEF QueueOK, Enqueue

LEMMA CleanTyped ==
  ASSUME QueueOK, NEW t \in Tasks, Clean(t)
  PROVE  /\ todo' \in [Tasks -> SUBSET Services] /\ cur' \in [Tasks -> SUBSET Services]
         /\ at' \in [Tasks -> 0 .. Horizon]
         /\ ok' \in [Tasks -> BOOLEAN] /\ erred' \in [Tasks -> BOOLEAN]
<1>1. 0 \in 0 .. Horizon
  BY Constants
<1> QED BY <1>1 DEF QueueOK, Clean

LEMMA AckTyped ==
  ASSUME QueueOK, atWork \in [Services -> SUBSET (Tasks \cup Requests)],
         NEW t \in Tasks, Ack(t)
  PROVE  QueueOK' /\ atWork' \in [Services -> SUBSET (Tasks \cup Requests)]
<1>1. /\ Clean(t) /\ UNCHANGED <<kind, retried>>
      /\ pc' = [pc EXCEPT ![t] = "idle"]
      /\ atWork' = [s \in Services |-> atWork[s] \ {t}]
  BY DEF Ack
<1>2. "idle" \in PC
  BY DEF PC
<1> QED BY <1>1, <1>2, CleanTyped DEF QueueOK

LEMMA RequeueTyped ==
  ASSUME QueueOK, atWork \in [Services -> SUBSET (Tasks \cup Requests)],
         NEW t \in Tasks, Requeue(t)
  PROVE  QueueOK' /\ atWork' \in [Services -> SUBSET (Tasks \cup Requests)]
<1>0. Clean(t) /\ UNCHANGED kind
  BY DEF Requeue
<1>1. "idle" \in PC /\ "queued" \in PC
  BY DEF PC
<1>2. CASE retried[t] < MaxRetry
  <2>1. /\ pc' = [pc EXCEPT ![t] = "queued"]
        /\ retried' = [retried EXCEPT ![t] = @ + 1] /\ UNCHANGED atWork
    BY <1>2 DEF Requeue
  <2>2. retried[t] \in Nat /\ retried[t] + 1 \in 0 .. MaxRetry
    BY <1>2, Constants DEF QueueOK
  <2> QED BY <1>0, <1>1, <2>1, <2>2, CleanTyped DEF QueueOK
<1>3. CASE ~(retried[t] < MaxRetry)
  <2>1. /\ pc' = [pc EXCEPT ![t] = "idle"] /\ UNCHANGED retried
        /\ atWork' = [s \in Services |-> atWork[s] \ {t}]
    BY <1>3 DEF Requeue
  <2> QED BY <1>0, <1>1, <2>1, CleanTyped DEF QueueOK
<1> QED BY <1>2, <1>3

\* The steps of the clock and the scheduler.
LEMMA ClockTyped ==
  ASSUME TypeInv, Pass \/ TickFails \/ \E t \in Tasks : TickRemind(t) \/ TickExpire(t)
  PROVE  TypeInv'
<1> USE DEF TypeInv, TablesOK, ClockOK, HistoryOK, RequestOK, tables, queue, locals,
        sending, outcome, history, bounds
<1>1. CASE Pass
  <2>1. now + 1 \in 0 .. Horizon /\ UNCHANGED <<tables, queue, locals, request>>
    BY <1>1, Constants DEF Pass
  <2>2. late' \subseteq Services
    BY <1>1 DEF Pass
  <2>3. QueueOK' /\ TablesOK' /\ RequestOK'
    BY <2>1 DEF QueueOK
  <2>4. UNCHANGED <<start, nextRemind, notified, lost, hit, overlap, left, atWork, asked,
                    ordered, unheard, faults>> /\ now' = now + 1
    BY <1>1 DEF Pass
  <2> QED BY <2>1, <2>2, <2>3, <2>4
<1>2. CASE TickFails
  <2>1. now + Day \in Nat
    BY Constants
  <2>2. UNCHANGED <<now, start, tables, queue, locals, request, notified, lost, late, overlap,
                    outcome>>
        /\ nextRemind' = now + Day /\ hit' = Services /\ faults' = faults + 1
    BY <1>2 DEF TickFails, Fault
  <2>3. QueueOK' /\ TablesOK' /\ RequestOK'
    BY <2>2 DEF QueueOK
  <2> QED BY <2>1, <2>2, <2>3
<1>3. ASSUME NEW t \in Tasks, TickRemind(t) PROVE TypeInv'
  <2>1. now + Day \in Nat
    BY Constants
  <2>2. Enqueue(t, "remind", {}) /\ "remind" \in Kinds /\ {} \in SUBSET Services
    BY <1>3 DEF TickRemind, Kinds
  <2>3. QueueOK'
    BY <2>2, EnqueueTyped
  <2> QED BY <1>3, <2>1, <2>3 DEF TickRemind
<1>4. ASSUME NEW t \in Tasks, TickExpire(t) PROVE TypeInv'
  <2>2. Enqueue(t, "expire", {}) /\ "expire" \in Kinds /\ {} \in SUBSET Services
    BY <1>4 DEF TickExpire, Kinds
  <2>3. QueueOK'
    BY <2>2, EnqueueTyped
  <2> QED BY <1>4, <2>3 DEF TickExpire
<1> QED BY <1>1, <1>2, <1>3, <1>4

LEMMA RestartTyped ==
  ASSUME TypeInv, Restart
  PROVE  TypeInv'
<1> USE DEF TypeInv, tables
<1>1. \A t \in Tasks : /\ kind[t] \in Kinds /\ pc[t] \in PC /\ retried[t] \in 0 .. MaxRetry
                       /\ cur[t] \in SUBSET Services
  BY DEF QueueOK
<1>2. "queued" \in PC /\ "idle" \in PC /\ 0 \in 0 .. Horizon /\ {} \in SUBSET Services
  BY Constants DEF PC
<1>3. QueueOK'
  <2>1. pc' \in [Tasks -> PC]
    BY <1>1, <1>2 DEF Restart
  <2>2. retried' \in [Tasks -> 0 .. MaxRetry]
    BY <1>1, Constants DEF Restart
  <2>3. cur' \in [Tasks -> SUBSET Services]
    BY <1>1, <1>2 DEF Restart
  <2>4. /\ todo' \in [Tasks -> SUBSET Services] /\ at' \in [Tasks -> 0 .. Horizon]
        /\ ok' \in [Tasks -> BOOLEAN] /\ erred' \in [Tasks -> BOOLEAN]
    BY <1>2 DEF Restart
  <2> QED BY <2>1, <2>2, <2>3, <2>4 DEF Restart, QueueOK
<1>4. unheard' \in [Services -> Nat]
  <2>1. \A s \in Services : Cardinality(Unheard(s)) \in Nat
    BY Sizes DEF Unheard
  <2>2. unheard' = [s \in Services |-> unheard[s] + Cardinality(Unheard(s))]
    BY DEF Restart
  <2> QED BY <2>1, <2>2 DEF HistoryOK
<1>5. /\ lost' \subseteq Services /\ hit' \subseteq Services /\ faults' \in Nat
      /\ atWork' \in [Services -> SUBSET (Tasks \cup Requests)]
  BY <1>1 DEF Restart, Fault, HistoryOK
<1>6. ClockOK'
  BY Constants DEF Restart, Fault, ClockOK
<1>7. UNCHANGED <<now, tables, kind, request, notified, late, overlap, left, asked, ordered>>
  BY DEF Restart
<1> QED BY <1>3, <1>4, <1>5, <1>6, <1>7 DEF TablesOK, HistoryOK, RequestOK

\* The API's requests.
LEMMA ServeTyped ==
  ASSUME TypeInv, NEW r \in Requests, Serve(r)
  PROVE  TypeInv'
<1> USE DEF TypeInv, tables, queue, locals, sending, outcome, history, bounds
<1>0. NoRequest \notin Request
  BY DEF NoRequest, Request
<1>1. ASSUME NEW s \in Services, AdminReads(r, s) \/ PaymentReads(r, s) PROVE TypeInv'
  <2>1. PICK by \in {"admin", "payment"}, where \in {"update", "enqueue"} :
          Begin(r, by, where, s)
    BY <1>1 DEF AdminReads, PaymentReads
  <2>2. [by |-> by, pc |-> where, of |-> {s}] \in Request
    BY DEF Request
  <2>3. RequestOK'
    BY <2>1, <2>2 DEF Begin, RequestOK
  <2>4. asked' \in Nat
    BY <2>1 DEF Begin, Asking, HistoryOK
  <2>5. QueueOK' /\ TablesOK' /\ ClockOK'
    BY <2>1 DEF Begin, QueueOK, TablesOK, ClockOK
  <2> QED BY <2>1, <2>3, <2>4, <2>5 DEF Begin, HistoryOK
<1>2. /\ request[r].pc \in {"update", "enqueue", "undo"} => request[r] \in Request
      /\ request[r] # NoRequest => request[r] \in Request /\ \E s \in Services : request[r].of = {s}
  BY DEF RequestOK, NoRequest
<1>3. /\ [request EXCEPT ![r] = NoRequest] \in [Requests -> {NoRequest} \cup Request]
      /\ \A q \in Requests : [request EXCEPT ![r] = NoRequest][q] # NoRequest =>
           \E s \in Services : request[q].of = {s} /\ q # r
  BY DEF RequestOK
<1>4. ASSUME request' = [request EXCEPT ![r] = NoRequest] PROVE RequestOK'
  BY <1>3, <1>4 DEF RequestOK
<1>5. ASSUME NEW p \in {"enqueue", "undo"}, request' = [request EXCEPT ![r].pc = p],
             request[r].pc \in {"update", "enqueue", "undo"}
      PROVE RequestOK'
  <2>1. request[r] \in Request
    BY <1>2, <1>5
  <2>2. [request[r] EXCEPT !.pc = p] \in Request /\ [request[r] EXCEPT !.pc = p].of = request[r].of
    BY <2>1, <1>5 DEF Request
  <2>3. request' = [request EXCEPT ![r] = [request[r] EXCEPT !.pc = p]]
    BY <1>5
  <2>4. request[r] # NoRequest
    BY <1>0, <2>1
  <2> QED BY <2>2, <2>3, <2>4 DEF RequestOK
<1>6. ASSUME NEW status \in ServiceStatus, SetStatus(r, status), request[r] # NoRequest
      PROVE  /\ service' \in [Services -> ServiceStatus] /\ left' \subseteq Services
  BY <1>2, <1>6 DEF SetStatus, TablesOK, HistoryOK
<1>7. CASE RequestUpdates(r)
  <2>1. request[r] # NoRequest /\ "provisioning" \in ServiceStatus
    BY <1>7 DEF RequestUpdates, NoRequest, ServiceStatus
  <2>2. RequestOK' /\ service' \in [Services -> ServiceStatus] /\ left' \subseteq Services
    BY <1>7, <2>1, <1>5, <1>6 DEF RequestUpdates
  <2> QED BY <1>7, <2>2 DEF RequestUpdates, QueueOK, TablesOK, ClockOK, HistoryOK
<1>8. ASSUME NEW t \in Tasks, Enqueue(t, "provision", request[r].of), request[r].pc = "enqueue"
      PROVE  /\ QueueOK'
             /\ Inherits(t, r) \in [Services -> SUBSET (Tasks \cup Requests)]
  <2>1. request[r].of \in SUBSET Services /\ "provision" \in Kinds
    BY <1>2, <1>8 DEF Request, Kinds, ForOne
  <2>2. QueueOK'
    BY <1>8, <2>1, EnqueueTyped
  <2>3. Inherits(t, r) \in [Services -> SUBSET (Tasks \cup Requests)]
    BY DEF Inherits, HistoryOK
  <2> QED BY <2>2, <2>3
<1>9. ASSUME NEW t \in Tasks, RequestEnqueues(r, t) PROVE TypeInv'
  <2>1. QueueOK' /\ Inherits(t, r) \in [Services -> SUBSET (Tasks \cup Requests)]
    BY <1>8, <1>9 DEF RequestEnqueues
  <2>2. atWork' \in [Services -> SUBSET (Tasks \cup Requests)]
    BY <1>9, <2>1 DEF RequestEnqueues
  <2>3. RequestOK'
    BY <1>4, <1>9 DEF RequestEnqueues
  <2> QED BY <1>9, <2>1, <2>2, <2>3 DEF RequestEnqueues, TablesOK, ClockOK, HistoryOK
<1>10. CASE EnqueueFails(r)
  <2>1. QueueOK' /\ atWork' \in [Services -> SUBSET (Tasks \cup Requests)]
    <3>1. CASE UNCHANGED <<queue, locals, atWork>>
      BY <3>1 DEF QueueOK, HistoryOK
    <3>2. CASE \E t \in Tasks : Enqueue(t, "provision", request[r].of) /\ atWork' = Inherits(t, r)
      BY <1>8, <1>10, <3>2 DEF EnqueueFails
    <3> QED BY <1>10, <3>1, <3>2 DEF EnqueueFails
  <2>2. RequestOK'
    BY <1>5, <1>10 DEF EnqueueFails
  <2> QED BY <1>10, <2>1, <2>2 DEF EnqueueFails, Fault, TablesOK, ClockOK, HistoryOK
<1>11. ASSUME RequestEnds(r), service' \in [Services -> ServiceStatus],
              left' \subseteq Services, faults' \in Nat, UNCHANGED start
       PROVE  TypeInv'
  <2>1. /\ RequestOK' /\ atWork' \in [Services -> SUBSET (Tasks \cup Requests)]
    BY <1>4, <1>11 DEF RequestEnds, HistoryOK
  <2> QED BY <1>11, <2>1 DEF RequestEnds, QueueOK, TablesOK, ClockOK, HistoryOK
<1>12. CASE Undo(r)
  <2>1. request[r] # NoRequest /\ "pending" \in ServiceStatus /\ RequestEnds(r)
    BY <1>12 DEF Undo, NoRequest, ServiceStatus
  <2>2. service' \in [Services -> ServiceStatus] /\ left' \subseteq Services
    <3>1. CASE SetStatus(r, "pending")
      BY <1>6, <2>1, <3>1
    <3>2. CASE UNCHANGED <<service, left>>
      BY <3>2 DEF TablesOK, HistoryOK
    <3> QED BY <1>12, <3>1, <3>2 DEF Undo
  <2> QED BY <1>11, <1>12, <2>1, <2>2 DEF Undo, HistoryOK
<1>13. CASE HasJob(r)
  BY <1>11, <1>13 DEF HasJob, TablesOK, HistoryOK
<1>14. CASE RequestFails(r)
  BY <1>11, <1>14 DEF RequestFails, Fault, TablesOK, HistoryOK
<1> QED BY <1>1, <1>7, <1>9, <1>10, <1>12, <1>13, <1>14 DEF Serve

LEMMA CountTyped ==
  ASSUME NEW t \in Tasks, notified \in [Keys -> Nat], rows \in [Keys -> Nat]
  PROVE  /\ Notified(t) => notified' \in [Keys -> Nat]
         /\ Recorded(t) => rows' \in [Keys -> Nat]
<1>1. ASSUME NEW f \in [Keys -> Nat], NEW k PROVE [f EXCEPT ![k] = @ + 1] \in [Keys -> Nat]
  <2>1. ASSUME k \in Keys PROVE [f EXCEPT ![k] = @ + 1] \in [Keys -> Nat]
    <3>1. f[k] + 1 \in Nat
      BY <1>1, <2>1
    <3> QED BY <1>1, <3>1
  <2>2. ASSUME k \notin Keys PROVE [f EXCEPT ![k] = @ + 1] = f
    <3>1. \A x \in Keys : [f EXCEPT ![k] = @ + 1][x] = f[x]
      BY <1>1, <2>2
    <3> QED BY <1>1, <3>1
  <2> QED BY <1>1, <2>1, <2>2
<1>2. ASSUME Notified(t) PROVE notified' \in [Keys -> Nat]
  <2>1. PICK s \in cur[t] :
          notified' = [notified EXCEPT ![<<s, Today, DaysLeft(t, s)>>] = @ + 1]
    BY <1>2 DEF Notified
  <2> QED BY <1>1, <2>1
<1>3. ASSUME Recorded(t) PROVE rows' \in [Keys -> Nat]
  <2>1. PICK s \in cur[t] :
          rows' = IF ok[t] THEN [rows EXCEPT ![<<s, Today, DaysLeft(t, s)>>] = @ + 1]
                  ELSE rows
    BY <1>3 DEF Recorded
  <2> QED BY <1>1, <2>1
<1> QED BY <1>2, <1>3

\* The handlers' steps.
LEMMA WorkTyped ==
  ASSUME TypeInv, NEW t \in Tasks, Work(t)
  PROVE  TypeInv'
<1> USE DEF TypeInv, tables, queue, locals, sending, outcome, history, bounds
<1>0. /\ {"listed", "next", "suspend", "send", "record", "update", "written"} \subseteq PC
      /\ {"suspended", "active", "terminated"} \subseteq ServiceStatus
      /\ now \in 0 .. Horizon
  BY DEF PC, Running, ServiceStatus, ClockOK
<1>1. CASE StartExpire(t)
  <2>1. QueueOK'
    BY <1>0, <1>1 DEF StartExpire, Goto, QueueOK
  <2> QED BY <1>1, <2>1 DEF StartExpire, TablesOK, ClockOK, HistoryOK, RequestOK
<1>2. CASE SuspendExpired(t)
  <2>1. QueueOK'
    BY <1>0, <1>2 DEF SuspendExpired, Goto, QueueOK
  <2>2. service' \in [Services -> ServiceStatus] /\ left' \subseteq Services
    BY <1>0, <1>2 DEF SuspendExpired, TablesOK, QueueOK, HistoryOK
  <2> QED BY <1>2, <2>1, <2>2 DEF SuspendExpired, TablesOK, ClockOK, HistoryOK, RequestOK
<1>3. CASE StartRemind(t)
  <2>1. QueueOK'
    BY <1>0, <1>3 DEF StartRemind, Goto, QueueOK
  <2> QED BY <1>3, <2>1 DEF StartRemind, TablesOK, ClockOK, HistoryOK, RequestOK
<1>4. CASE TakeTime(t)
  <2>1. QueueOK'
    BY <1>0, <1>4 DEF TakeTime, Goto, QueueOK
  <2> QED BY <1>4, <2>1 DEF TakeTime, TablesOK, ClockOK, HistoryOK, RequestOK
<1>5. CASE Send(t)
  <2>1. QueueOK'
    BY <1>0, <1>5 DEF Send, Goto, QueueOK
  <2>2. notified' \in [Keys -> Nat]
    BY <1>5, CountTyped DEF Send, HistoryOK, TablesOK
  <2> QED BY <1>5, <2>1, <2>2 DEF Send, TablesOK, ClockOK, HistoryOK, RequestOK
<1>6. CASE Record(t)
  <2>1. QueueOK'
    BY <1>0, <1>6 DEF Record, Goto, QueueOK
  <2>2. rows' \in [Keys -> Nat]
    BY <1>6, CountTyped DEF Record, HistoryOK, TablesOK
  <2> QED BY <1>6, <2>1, <2>2 DEF Record, TablesOK, ClockOK, HistoryOK, RequestOK
<1>7. ASSUME NEW s \in Services, ReadService(t, s) PROVE TypeInv'
  <2>1. QueueOK'
    BY <1>0, <1>7 DEF ReadService, Goto, QueueOK
  <2> QED BY <1>7, <2>1 DEF ReadService, TablesOK, ClockOK, HistoryOK, RequestOK
<1>8. ASSUME NEW s \in Services, NextReminder(t, s) PROVE TypeInv'
  <2>1. QueueOK'
    BY <1>0, <1>8 DEF NextReminder, Goto, QueueOK
  <2> QED BY <1>8, <2>1 DEF NextReminder, TablesOK, ClockOK, HistoryOK, RequestOK
<1>9. ASSUME Ack(t) \/ Requeue(t),
             UNCHANGED <<now, nextRemind, tables, request, sending, left, asked, ordered,
                         unheard, bounds>>
      PROVE TypeInv'
  <2>1. QueueOK' /\ atWork' \in [Services -> SUBSET (Tasks \cup Requests)]
    BY <1>9, AckTyped, RequeueTyped DEF HistoryOK
  <2> QED BY <1>9, <2>1 DEF TablesOK, ClockOK, HistoryOK, RequestOK
<1>10. CASE EndLoop(t)
  BY <1>9, <1>10 DEF EndLoop
<1>11. CASE StartForOne(t)
  <2>1. QueueOK'
    BY <1>0, <1>11 DEF StartForOne, Goto, QueueOK
  <2> QED BY <1>11, <2>1 DEF StartForOne, TablesOK, ClockOK, HistoryOK, RequestOK
<1>12. CASE WriteStatus(t)
  <2>1. QueueOK'
    BY <1>0, <1>12 DEF WriteStatus, Goto, QueueOK
  <2>2. Target(kind[t]) \in ServiceStatus
    BY <1>0, <1>12 DEF WriteStatus, Target
  <2>3. \A s \in Services : AtWork(s) \in SUBSET (Tasks \cup Requests)
    BY DEF AtWork
  <2>4. PICK s \in cur[t] :
          /\ service' = [service EXCEPT ![s] = Target(kind[t])]
          /\ left' = IF kind[t] = "provision" THEN left ELSE left \cup {s}
          /\ atWork' = IF kind[t] = "terminate" /\ service[s] # "terminated"
                       THEN [atWork EXCEPT ![s] = AtWork(s)] ELSE atWork
    BY <1>12 DEF WriteStatus
  <2>5. s \in Services
    BY DEF QueueOK
  <2>6. /\ service' \in [Services -> ServiceStatus] /\ left' \subseteq Services
        /\ atWork' \in [Services -> SUBSET (Tasks \cup Requests)]
    BY <2>2, <2>3, <2>4, <2>5 DEF TablesOK, HistoryOK
  <2> QED BY <1>12, <2>1, <2>6 DEF WriteStatus, TablesOK, ClockOK, HistoryOK, RequestOK
<1>13. CASE CommitInvoice(t)
  <2>1. QueueOK'
    BY <1>0, <1>13 DEF CommitInvoice, Goto, QueueOK
  <2>2. invoices' \in [Services -> Nat]
    BY <1>13 DEF CommitInvoice, TablesOK, QueueOK
  <2> QED BY <1>13, <2>1, <2>2 DEF CommitInvoice, TablesOK, ClockOK, HistoryOK, RequestOK
<1>14. CASE EndForOne(t)
  BY <1>9, <1>14 DEF EndForOne
<1> QED BY <1>1, <1>2, <1>3, <1>4, <1>5, <1>6, <1>7, <1>8, <1>10, <1>11, <1>12, <1>13,
     <1>14 DEF Work

LEMMA FailsTyped ==
  ASSUME TypeInv, NEW t \in Tasks, Fails(t)
  PROVE  TypeInv'
<1> USE DEF TypeInv, tables, queue, locals, sending, outcome, history, bounds
<1>0. {"next", "record"} \subseteq PC
  BY DEF PC, Running
<1>1. ASSUME Requeue(t), Fault, hit' \subseteq Services, unheard' \in [Services -> Nat],
             UNCHANGED <<now, nextRemind, tables, request, notified, lost, late, overlap,
                         left, asked, ordered>>
      PROVE TypeInv'
  <2>1. QueueOK' /\ atWork' \in [Services -> SUBSET (Tasks \cup Requests)]
    BY <1>1, RequeueTyped DEF HistoryOK
  <2> QED BY <1>1, <2>1 DEF Fault, TablesOK, ClockOK, HistoryOK, RequestOK
<1>2. CASE StartFails(t)
  <2>1. hit' \subseteq Services
    BY <1>2 DEF StartFails, HistoryOK
  <2> QED BY <1>1, <1>2, <2>1 DEF StartFails, HistoryOK
<1>3. CASE BatchAborts(t)
  <2>1. hit' \subseteq Services
    BY <1>3 DEF BatchAborts, HistoryOK, QueueOK
  <2> QED BY <1>1, <1>3, <2>1 DEF BatchAborts, HistoryOK
<1>4. CASE UpdateFails(t)
  BY <1>1, <1>4 DEF UpdateFails, HistoryOK
<1>5. CASE WrittenFails(t)
  <2>1. unheard' \in [Services -> Nat]
    BY <1>5 DEF WrittenFails, HistoryOK
  <2> QED BY <1>1, <1>5, <2>1 DEF WrittenFails, HistoryOK
<1>6. CASE ExpireFails(t)
  <2>1. QueueOK'
    BY <1>0, <1>6 DEF ExpireFails, Goto, QueueOK
  <2> QED BY <1>6, <2>1 DEF ExpireFails, Fault, TablesOK, ClockOK, HistoryOK, RequestOK
<1>7. CASE LookupFails(t)
  <2>1. QueueOK'
    BY <1>0, <1>7 DEF LookupFails, Goto, QueueOK
  <2>2. hit' \subseteq Services
    BY <1>7 DEF LookupFails, HistoryOK, QueueOK
  <2> QED BY <1>7, <2>1, <2>2 DEF LookupFails, Fault, TablesOK, ClockOK, HistoryOK, RequestOK
<1>8. CASE SendFails(t)
  <2>1. QueueOK'
    BY <1>0, <1>8 DEF SendFails, Goto, QueueOK
  <2>2. hit' \subseteq Services /\ lost' \subseteq Services
    BY <1>8 DEF SendFails, HistoryOK, QueueOK
  <2>3. notified' \in [Keys -> Nat]
    BY <1>8, CountTyped DEF SendFails, HistoryOK, TablesOK
  <2> QED BY <1>8, <2>1, <2>2, <2>3
       DEF SendFails, Fault, TablesOK, ClockOK, HistoryOK, RequestOK
<1>9. CASE RecordFails(t)
  <2>1. QueueOK'
    BY <1>0, <1>9 DEF RecordFails, Goto, QueueOK
  <2>2. hit' \subseteq Services /\ lost' \subseteq Services
    BY <1>9 DEF RecordFails, HistoryOK, QueueOK
  <2>3. rows' \in [Keys -> Nat]
    BY <1>9, CountTyped DEF RecordFails, HistoryOK, TablesOK
  <2> QED BY <1>9, <2>1, <2>2, <2>3
       DEF RecordFails, Fault, TablesOK, ClockOK, HistoryOK, RequestOK
<1> QED BY <1>2, <1>3, <1>4, <1>5, <1>6, <1>7, <1>8, <1>9 DEF Fails

LEMMA TypeStep == TypeInv /\ [Next]_vars => TypeInv'
<1> SUFFICES ASSUME TypeInv, [Next]_vars PROVE TypeInv'
  OBVIOUS
<1>1. CASE UNCHANGED vars
  <2>1. UNCHANGED <<now, nextRemind, service, invoices, rows, kind, pc, retried, todo, cur,
                    at, ok, erred, request, notified, lost, hit, late, overlap, left,
                    atWork, asked, ordered, unheard, start, faults>>
    BY <1>1 DEF vars, tables, queue, locals, sending, outcome, history, bounds
  <2> QED BY <2>1 DEF TypeInv, QueueOK, TablesOK, ClockOK, HistoryOK, RequestOK
<1>2. ASSUME NEW t \in Tasks, NEW k \in Asked, NEW s \in Services, Ask(t, k, s)
      PROVE  TypeInv'
  <2>1. Enqueue(t, k, {s}) /\ k \in Kinds /\ {s} \in SUBSET Services
    BY <1>2 DEF Ask, Kinds, ForOne
  <2>2. QueueOK'
    BY <2>1, EnqueueTyped DEF TypeInv
  <2>3. UNCHANGED <<now, nextRemind, tables, request, sending, left, atWork, unheard, bounds>>
    BY <1>2 DEF Ask
  <2>4. asked' \in Nat /\ ordered' \in [Services -> Nat]
    BY <1>2 DEF Ask, Asking, TypeInv, HistoryOK
  <2> QED BY <2>2, <2>3, <2>4
       DEF TypeInv, TablesOK, ClockOK, HistoryOK, RequestOK, tables, sending, bounds
<1> QED BY <1>1, <1>2, ClockTyped, RestartTyped, ServeTyped, WorkTyped, FailsTyped DEF Next

-----------------------------------------------------------------------------
(* What a step of one task leaves of the others                            *)

Alone(t) ==
  \A u \in Tasks \ {t} :
    /\ kind'[u] = kind[u] /\ pc'[u] = pc[u] /\ retried'[u] = retried[u]
    /\ todo'[u] = todo[u] /\ cur'[u] = cur[u] /\ at'[u] = at[u]
    /\ ok'[u] = ok[u] /\ erred'[u] = erred[u]

\* What Enqueue, Ack and Requeue do to the task itself.
LEMMA EnqueueAlone ==
  ASSUME QueueOK, NEW t \in Tasks, NEW k, NEW S, Enqueue(t, k, S)
  PROVE  /\ Alone(t)
         /\ pc[t] = "idle" /\ pc'[t] = "queued" /\ kind'[t] = k /\ retried'[t] = 0
         /\ cur'[t] = S /\ todo'[t] = todo[t]
BY DEF QueueOK, Enqueue, Alone

LEMMA CleanAlone ==
  ASSUME QueueOK, NEW t \in Tasks, Clean(t)
  PROVE  /\ todo'[t] = {} /\ cur'[t] = (IF kind[t] \in ForOne THEN cur[t] ELSE {})
         /\ \A u \in Tasks \ {t} :
              /\ todo'[u] = todo[u] /\ cur'[u] = cur[u] /\ at'[u] = at[u]
              /\ ok'[u] = ok[u] /\ erred'[u] = erred[u]
BY DEF QueueOK, Clean

LEMMA EndAlone ==
  ASSUME QueueOK, atWork \in [Services -> SUBSET (Tasks \cup Requests)],
         NEW t \in Tasks, Ack(t) \/ Requeue(t)
  PROVE  /\ Alone(t)
         /\ kind'[t] = kind[t] /\ pc'[t] \in {"idle", "queued"}
         /\ pc'[t] = "queued" => retried'[t] = retried[t] + 1
         /\ todo'[t] = {} /\ cur'[t] = (IF kind[t] \in ForOne THEN cur[t] ELSE {})
         /\ \A s \in Services : \A w \in atWork[s] :
              w \in atWork'[s] \/ (w = t /\ pc'[t] = "idle")
<1>0. Clean(t) /\ UNCHANGED kind
  BY DEF Ack, Requeue
<1>1. CASE Requeue(t) /\ retried[t] < MaxRetry
  <2>1. /\ pc' = [pc EXCEPT ![t] = "queued"]
        /\ retried' = [retried EXCEPT ![t] = @ + 1] /\ UNCHANGED atWork
    BY <1>1 DEF Requeue
  <2> QED BY <1>0, <2>1, CleanAlone DEF QueueOK, Alone
<1>2. CASE Ack(t) \/ ~(retried[t] < MaxRetry)
  <2>1. /\ pc' = [pc EXCEPT ![t] = "idle"] /\ UNCHANGED retried
        /\ atWork' = [s \in Services |-> atWork[s] \ {t}]
    BY <1>2 DEF Ack, Requeue
  <2> QED BY <1>0, <2>1, CleanAlone DEF QueueOK, Alone
<1> QED BY <1>1, <1>2

LEMMA WorkAlone ==
  ASSUME TypeInv, NEW t \in Tasks, Work(t)
  PROVE  Alone(t)
<1> USE DEF TypeInv, QueueOK, tables, queue, locals, Goto
<1>1. CASE StartExpire(t)
  BY <1>1 DEF StartExpire, Alone
<1>2. CASE SuspendExpired(t)
  BY <1>2 DEF SuspendExpired, Alone
<1>3. CASE StartRemind(t)
  BY <1>3 DEF StartRemind, Alone
<1>4. CASE TakeTime(t)
  BY <1>4 DEF TakeTime, Alone
<1>5. CASE Send(t)
  BY <1>5 DEF Send, Alone
<1>6. CASE Record(t)
  BY <1>6 DEF Record, Alone
<1>7. ASSUME NEW s \in Services, ReadService(t, s) PROVE Alone(t)
  BY <1>7 DEF ReadService, Alone
<1>8. ASSUME NEW s \in Services, NextReminder(t, s) PROVE Alone(t)
  BY <1>8 DEF NextReminder, Alone
<1>9. CASE EndLoop(t) \/ EndForOne(t)
  BY <1>9, EndAlone DEF EndLoop, EndForOne, HistoryOK
<1>10. CASE StartForOne(t)
  BY <1>10 DEF StartForOne, Alone
<1>11. CASE WriteStatus(t)
  BY <1>11 DEF WriteStatus, Alone
<1>12. CASE CommitInvoice(t)
  BY <1>12 DEF CommitInvoice, Alone
<1> QED BY <1>1, <1>2, <1>3, <1>4, <1>5, <1>6, <1>7, <1>8, <1>9, <1>10, <1>11, <1>12 DEF Work

LEMMA FailsAlone ==
  ASSUME TypeInv, NEW t \in Tasks, Fails(t)
  PROVE  Alone(t)
<1> USE DEF TypeInv, QueueOK, tables, queue, locals, Goto
<1>1. CASE StartFails(t) \/ BatchAborts(t) \/ UpdateFails(t) \/ WrittenFails(t)
  BY <1>1, EndAlone DEF StartFails, BatchAborts, UpdateFails, WrittenFails, HistoryOK
<1>2. CASE ExpireFails(t)
  BY <1>2 DEF ExpireFails, Alone
<1>3. CASE LookupFails(t)
  BY <1>3 DEF LookupFails, Alone
<1>4. CASE SendFails(t)
  BY <1>4 DEF SendFails, Alone
<1>5. CASE RecordFails(t)
  BY <1>5 DEF RecordFails, Alone
<1> QED BY <1>1, <1>2, <1>3, <1>4, <1>5 DEF Fails

-----------------------------------------------------------------------------
(* What brings a terminated service back                                   *)

\* A payment that has yet to run its UPDATE.
Revives(r) == r \in Requests /\ request[r].by = "payment" /\ request[r].pc = "update"

\* What is at work on a terminated service was so when it was terminated.
OldWork ==
  \A s \in Services : service[s] = "terminated" =>
    \A w \in AtWork(s) : w \in atWork[s] \/ Revives(w)

\* A step of task t that adds nothing to the work on a service.
Calm(t) ==
  /\ Alone(t) /\ UNCHANGED <<service, request>>
  /\ pc'[t] = "suspend" => pc[t] = "suspend" /\ cur'[t] = cur[t]
  /\ kind'[t] = "provision" /\ pc'[t] # "idle" =>
       kind[t] = "provision" /\ pc[t] # "idle" /\ cur'[t] = cur[t]
  /\ \A s \in Services : \A w \in atWork[s] :
       w \in atWork'[s] \/ (w = t /\ pc'[t] = "idle")

LEMMA CalmOld ==
  ASSUME TypeInv, OldWork, NEW t \in Tasks, Calm(t)
  PROVE  OldWork'
<1> SUFFICES ASSUME NEW s \in Services, service'[s] = "terminated", NEW w \in AtWork(s)'
             PROVE  w \in atWork'[s] \/ Revives(w)'
  BY DEF OldWork
<1>1. service[s] = "terminated"
  BY DEF Calm
<1>2. w # t => w \in AtWork(s) /\ (w \in atWork[s] => w \in atWork'[s])
  <2>1. w # t /\ w \in atWork[s] => w \in atWork'[s]
    BY DEF Calm
  <2>2. UNCHANGED request /\ \A u \in Tasks \ {t} :
          kind'[u] = kind[u] /\ pc'[u] = pc[u] /\ cur'[u] = cur[u]
    BY DEF Calm, Alone
  <2>3. w # t => w \in AtWork(s)
    BY <2>2 DEF AtWork
  <2> QED BY <2>1, <2>3
<1>3. w = t => w \in AtWork(s) /\ (w \in atWork[s] => w \in atWork'[s])
  <2> SUFFICES ASSUME w = t PROVE w \in AtWork(s) /\ (w \in atWork[s] => w \in atWork'[s])
    OBVIOUS
  <2>0. t \notin Requests
    BY Constants
  <2>1. s \in cur'[t] /\ (pc'[t] = "suspend" \/ (kind'[t] = "provision" /\ pc'[t] # "idle"))
    BY <2>0 DEF AtWork
  <2>2. /\ s \in cur[t] /\ pc'[t] # "idle"
        /\ pc[t] = "suspend" \/ (kind[t] = "provision" /\ pc[t] # "idle")
    BY <2>1 DEF Calm
  <2>3. t \in AtWork(s)
    BY <2>2 DEF AtWork
  <2>4. t \in atWork[s] => t \in atWork'[s]
    BY <2>2 DEF Calm
  <2> QED BY <2>3, <2>4
<1>4. Revives(w) => Revives(w)'
  BY DEF Revives, Calm
<1> QED BY <1>1, <1>2, <1>3, <1>4 DEF OldWork

LEMMA EndCalm ==
  ASSUME TypeInv, NEW t \in Tasks, Ack(t) \/ Requeue(t), pc[t] # "idle",
         UNCHANGED <<service, request>>
  PROVE  Calm(t)
<1>1. "provision" \in ForOne
  BY DEF ForOne
<1> QED BY <1>1, EndAlone DEF TypeInv, HistoryOK, Calm

LEMMA CalmWork ==
  ASSUME TypeInv, NEW t \in Tasks,
         \/ StartExpire(t) \/ StartRemind(t) \/ TakeTime(t) \/ Send(t) \/ Record(t)
         \/ \E s \in Services : NextReminder(t, s)
         \/ EndLoop(t) \/ StartForOne(t) \/ CommitInvoice(t) \/ EndForOne(t) \/ Fails(t)
  PROVE  Calm(t)
<1> USE DEF tables, queue, locals, history, outcome, Goto
<1>0. Alone(t) /\ kind \in [Tasks -> Kinds] /\ pc \in [Tasks -> PC]
  BY WorkAlone, FailsAlone DEF Work, TypeInv, QueueOK
<1>1. CASE EndLoop(t) \/ EndForOne(t)
  BY <1>1, EndCalm DEF EndLoop, EndForOne
<1>2. CASE StartFails(t) \/ BatchAborts(t) \/ UpdateFails(t) \/ WrittenFails(t)
  BY <1>2, EndCalm DEF StartFails, BatchAborts, UpdateFails, WrittenFails
<1>3. CASE StartExpire(t) \/ StartRemind(t) \/ TakeTime(t)
  BY <1>0, <1>3 DEF StartExpire, StartRemind, TakeTime, Calm
<1>4. CASE Send(t) \/ SendFails(t) \/ Record(t) \/ RecordFails(t) \/ LookupFails(t)
  BY <1>0, <1>4 DEF Send, SendFails, Record, RecordFails, LookupFails, Calm
<1>5. ASSUME NEW s \in Services, NextReminder(t, s) PROVE Calm(t)
  BY <1>0, <1>5 DEF NextReminder, Calm
<1>6. CASE StartForOne(t) \/ CommitInvoice(t)
  BY <1>0, <1>6 DEF StartForOne, CommitInvoice, Calm
<1>7. CASE ExpireFails(t)
  BY <1>0, <1>7 DEF ExpireFails, Calm
<1> QED BY <1>1, <1>2, <1>3, <1>4, <1>5, <1>6, <1>7 DEF Fails

LEMMA ReadOld ==
  ASSUME TypeInv, OldWork, NEW t \in Tasks, NEW s \in Services, ReadService(t, s)
  PROVE  OldWork'
<1>0. Alone(t) /\ UNCHANGED <<service, request, kind, atWork>> /\ kind[t] = "expire"
  BY WorkAlone DEF Work, ReadService, tables, history, outcome
<1>1. CASE Expired(s) /\ service[s] = "active"
  <2>1. cur' = [cur EXCEPT ![t] = {s}] /\ cur'[t] = {s}
    BY <1>1 DEF ReadService, TypeInv, QueueOK
  <2> SUFFICES ASSUME NEW z \in Services, service[z] = "terminated", NEW w \in AtWork(z)'
               PROVE  w \in atWork[z] \/ Revives(w)
    BY <1>0 DEF OldWork, Revives
  <2>2. t \notin Requests /\ z # s
    BY <1>1, Constants
  <2>3. w # t
    BY <1>0, <2>1, <2>2 DEF AtWork
  <2>4. w \in AtWork(z)
    BY <1>0, <2>3 DEF AtWork, Alone
  <2> QED BY <2>4 DEF OldWork
<1>2. CASE ~(Expired(s) /\ service[s] = "active")
  <2>1. UNCHANGED cur /\ pc'[t] = "next"
    BY <1>2 DEF ReadService, Goto, TypeInv, QueueOK
  <2>2. Calm(t)
    BY <1>0, <2>1 DEF Calm
  <2> QED BY <2>2, CalmOld
<1> QED BY <1>1, <1>2

LEMMA SuspendOld ==
  ASSUME TypeInv, OldWork, NEW t \in Tasks, SuspendExpired(t)
  PROVE  OldWork'
<1>0. /\ Alone(t) /\ UNCHANGED <<request, kind, atWork>> /\ pc'[t] = "next"
      /\ kind[t] = "expire"
      /\ \E s \in cur[t] : service' = [service EXCEPT ![s] = "suspended"]
  BY WorkAlone DEF Work, SuspendExpired, outcome, Goto, TypeInv, QueueOK
<1> SUFFICES ASSUME NEW z \in Services, service'[z] = "terminated", NEW w \in AtWork(z)'
             PROVE  w \in atWork[z] \/ Revives(w)
  BY <1>0 DEF OldWork, Revives
<1>1. service[z] = "terminated"
  BY <1>0 DEF TypeInv, TablesOK
<1>2. t \notin Requests
  BY Constants
<1>3. w # t
  BY <1>0, <1>2 DEF AtWork
<1>4. w \in AtWork(z)
  BY <1>0, <1>3 DEF AtWork, Alone
<1> QED BY <1>1, <1>4 DEF OldWork

LEMMA WriteOld ==
  ASSUME TypeInv, OldWork, NEW t \in Tasks, WriteStatus(t)
  PROVE  OldWork'
<1>0. /\ Alone(t) /\ UNCHANGED <<request, kind, cur>>
      /\ pc[t] = "update" /\ pc'[t] = "written"
  BY WorkAlone DEF Work, WriteStatus, Goto, locals, TypeInv, QueueOK
<1>1. PICK s \in cur[t] :
        /\ service' = [service EXCEPT ![s] = Target(kind[t])]
        /\ atWork' = IF kind[t] = "terminate" /\ service[s] # "terminated"
                     THEN [atWork EXCEPT ![s] = AtWork(s)] ELSE atWork
  BY DEF WriteStatus
<1>2. s \in Services /\ t \notin Requests
  BY Constants DEF TypeInv, QueueOK
<1> SUFFICES ASSUME NEW z \in Services, service'[z] = "terminated", NEW w \in AtWork(z)'
             PROVE  w \in atWork'[z] \/ Revives(w)
  BY <1>0 DEF OldWork, Revives
<1>3. w \in AtWork(z)
  <2>1. CASE w # t
    BY <1>0, <2>1 DEF AtWork, Alone
  <2>2. CASE w = t
    BY <1>0, <1>2, <2>2 DEF AtWork
  <2> QED BY <2>1, <2>2
<1>4. CASE z = s /\ kind[t] = "terminate" /\ service[s] # "terminated"
  <2>1. atWork'[z] = AtWork(z)
    BY <1>1, <1>2, <1>4 DEF TypeInv, HistoryOK
  <2> QED BY <1>3, <2>1
<1>5. CASE ~(z = s /\ kind[t] = "terminate" /\ service[s] # "terminated")
  <2>1. atWork'[z] = atWork[z]
    BY <1>1, <1>2, <1>5 DEF TypeInv, HistoryOK
  <2>2. service[z] = "terminated"
    <3>1. kind[t] \in {"provision", "suspend", "terminate"}
      BY DEF WriteStatus
    <3>2. z = s => kind[t] = "terminate"
      BY <1>1, <1>2, <3>1 DEF Target, TypeInv, TablesOK
    <3>3. z # s => service'[z] = service[z]
      BY <1>1 DEF TypeInv, TablesOK
    <3> QED BY <1>5, <3>2, <3>3
  <2> QED BY <1>3, <2>1, <2>2 DEF OldWork
<1> QED BY <1>4, <1>5

LEMMA RestartOld ==
  ASSUME TypeInv, OldWork, Restart
  PROVE  OldWork'
<1>0. UNCHANGED <<service, request, kind>>
  BY DEF Restart, tables
<1> SUFFICES ASSUME NEW z \in Services, service[z] = "terminated", NEW w \in AtWork(z)'
             PROVE  w \in atWork'[z] \/ Revives(w)
  BY <1>0 DEF OldWork, Revives
<1>1. CASE w \in Requests
  <2>1. w \in AtWork(z)
    BY <1>0, <1>1, Constants DEF AtWork
  <2>2. w \in atWork[z] => w \in atWork'[z]
    BY <1>1 DEF Restart
  <2> QED BY <2>1, <2>2 DEF OldWork
<1>2. CASE w \in Tasks
  <2>0. w \notin Requests
    BY <1>2, Constants
  <2>1. /\ z \in cur'[w]
        /\ pc'[w] = "suspend" \/ (kind[w] = "provision" /\ pc'[w] # "idle")
    BY <1>0, <1>2, <2>0 DEF AtWork
  <2>2. pc'[w] = IF pc[w] \notin Running THEN pc[w]
                 ELSE IF retried[w] < MaxRetry THEN "queued" ELSE "idle"
    BY <1>2 DEF Restart
  <2>3. pc'[w] # "suspend" /\ (pc'[w] # "idle" => pc[w] # "idle")
    BY <2>2 DEF Running
  <2>4. cur'[w] = IF kind[w] \in ForOne THEN cur[w] ELSE {}
    BY <1>2 DEF Restart
  <2>5. w \in AtWork(z)
    BY <1>2, <2>1, <2>3, <2>4 DEF AtWork
  <2>6. w \in atWork[z]
    BY <2>0, <2>5 DEF OldWork, Revives
  <2>7. atWork'[z] = {x \in atWork[z] : x \in Requests \/ pc'[x] # "idle"}
    BY DEF Restart
  <2> QED BY <2>1, <2>3, <2>6, <2>7
<1> QED BY <1>1, <1>2 DEF AtWork

LEMMA ServeOld ==
  ASSUME TypeInv, OldWork, NEW r \in Requests, Serve(r)
  PROVE  OldWork'
<1> USE DEF tables, queue, locals, outcome
<1>0. /\ request \in [Requests -> {NoRequest} \cup Request]
      /\ service \in [Services -> ServiceStatus]
      /\ atWork \in [Services -> SUBSET (Tasks \cup Requests)]
      /\ request[r] # NoRequest => \E s \in Services : request[r].of = {s}
      /\ r \notin Tasks
  BY Constants DEF TypeInv, RequestOK, TablesOK, HistoryOK
<1>1. ASSUME NEW s \in Services, AdminReads(r, s) \/ PaymentReads(r, s) PROVE OldWork'
  <2>1. PICK by \in {"admin", "payment"}, where \in {"update", "enqueue"} :
          /\ Begin(r, by, where, s)
          /\ service[s] = "terminated" => by = "payment" /\ where = "update"
    BY <1>1 DEF AdminReads, PaymentReads
  <2>2. /\ request' = [request EXCEPT ![r] = [by |-> by, pc |-> where, of |-> {s}]]
        /\ UNCHANGED <<service, kind, pc, cur, atWork>>
    BY <2>1 DEF Begin
  <2> SUFFICES ASSUME NEW z \in Services, service[z] = "terminated", NEW w \in AtWork(z)'
               PROVE  w \in atWork[z] \/ Revives(w)'
    BY <2>2 DEF OldWork
  <2>3. CASE w = r
    <3>1. z \in request'[r].of
      BY <1>0, <2>3 DEF AtWork
    <3>2. request'[r] = [by |-> by, pc |-> where, of |-> {s}]
      BY <1>0, <2>2
    <3>3. z = s
      BY <3>1, <3>2
    <3> QED BY <2>1, <2>3, <3>2, <3>3 DEF Revives
  <2>4. CASE w # r
    <3>1. w \in AtWork(z)
      BY <2>2, <2>4 DEF AtWork
    <3>2. Revives(w) => Revives(w)'
      BY <2>2, <2>4 DEF Revives
    <3> QED BY <3>1, <3>2 DEF OldWork
  <2> QED BY <2>3, <2>4
<1>2. CASE RequestUpdates(r)
  <2>1. PICK s \in request[r].of : service' = [service EXCEPT ![s] = "provisioning"]
    BY <1>2 DEF RequestUpdates, SetStatus
  <2>2. request[r].of = {s} /\ s \in Services
    BY <1>0, <1>2, <2>1 DEF RequestUpdates, NoRequest
  <2>3. UNCHANGED <<kind, pc, cur, atWork>> /\ request' = [request EXCEPT ![r].pc = "enqueue"]
    BY <1>2 DEF RequestUpdates
  <2> SUFFICES ASSUME NEW z \in Services, service'[z] = "terminated", NEW w \in AtWork(z)'
               PROVE  w \in atWork[z] \/ Revives(w)'
    BY <2>3 DEF OldWork
  <2>4. service[z] = "terminated" /\ z # s
    BY <1>0, <2>1, <2>2
  <2>5. w # r
    <3>1. request'[r].of = request[r].of
      BY <1>0, <2>3
    <3> QED BY <1>0, <2>2, <2>4, <3>1 DEF AtWork
  <2>6. w \in AtWork(z) /\ (Revives(w) => Revives(w)')
    BY <2>3, <2>5 DEF AtWork, Revives
  <2> QED BY <2>4, <2>6 DEF OldWork
\* The request's work goes over to the task it enqueues.
<1>3. ASSUME NEW t \in Tasks, Enqueue(t, "provision", request[r].of),
             request[r].pc = "enqueue", UNCHANGED service,
             \A q \in Requests \ {r} : request'[q] = request[q],
             request'[r].of = {} \/ request'[r].of = request[r].of,
             \A z \in Services : \A w \in Inherits(t, r)[z] :
               w \in atWork'[z] \/ (w = r /\ request'[r].of = {})
      PROVE OldWork'
  <2>1. Alone(t) /\ cur'[t] = request[r].of
    BY <1>3, EnqueueAlone DEF TypeInv
  <2> SUFFICES ASSUME NEW z \in Services, service[z] = "terminated", NEW w \in AtWork(z)'
               PROVE  w \in atWork'[z] \/ Revives(w)'
    BY <1>3 DEF OldWork
  <2>2. z \in request[r].of => r \in atWork[z]
    <3>1. z \in request[r].of => r \in AtWork(z)
      BY DEF AtWork
    <3>2. ~Revives(r)
      BY <1>3 DEF Revives
    <3> QED BY <3>1, <3>2 DEF OldWork
  <2>3. CASE w = t
    <3>1. z \in request[r].of
      BY <2>1, <2>3, Constants DEF AtWork
    <3>2. t \in Inherits(t, r)[z] /\ t # r
      BY <1>0, <2>2, <3>1 DEF Inherits
    <3> QED BY <1>3, <2>3, <3>2
  <2>4. CASE w = r
    <3>1. z \in request[r].of /\ request'[r].of # {}
      BY <1>0, <1>3, <2>4 DEF AtWork
    <3>2. r \in Inherits(t, r)[z]
      BY <2>2, <3>1 DEF Inherits
    <3> QED BY <1>3, <2>4, <3>1, <3>2
  <2>5. CASE w # t /\ w # r
    <3>1. w \in AtWork(z)
      BY <1>3, <2>1, <2>5 DEF AtWork, Alone
    <3>2. Revives(w) => Revives(w)'
      BY <1>3, <2>5 DEF Revives
    <3>3. w \in atWork[z] => w \in Inherits(t, r)[z]
      BY DEF Inherits
    <3> QED BY <1>3, <2>5, <3>1, <3>2, <3>3 DEF OldWork
  <2> QED BY <2>3, <2>4, <2>5
<1>4. ASSUME NEW t \in Tasks, RequestEnqueues(r, t) PROVE OldWork'
  <2>1. /\ Enqueue(t, "provision", request[r].of) /\ request[r].pc = "enqueue"
        /\ UNCHANGED service /\ request' = [request EXCEPT ![r] = NoRequest]
        /\ atWork' = [s \in Services |-> Inherits(t, r)[s] \ {r}]
    BY <1>4 DEF RequestEnqueues
  <2>2. request'[r].of = {} /\ \A q \in Requests \ {r} : request'[q] = request[q]
    BY <1>0, <2>1 DEF NoRequest
  <2>3. \A z \in Services : \A w \in Inherits(t, r)[z] : w \in atWork'[z] \/ w = r
    BY <2>1
  <2> QED BY <1>3, <2>1, <2>2, <2>3
<1>5. CASE EnqueueFails(r)
  <2>1. /\ request[r].pc = "enqueue" /\ request' = [request EXCEPT ![r].pc = "undo"]
        /\ UNCHANGED service
    BY <1>5 DEF EnqueueFails
  <2>2. request'[r].of = request[r].of /\ \A q \in Requests \ {r} : request'[q] = request[q]
    BY <1>0, <2>1
  <2>3. CASE UNCHANGED <<queue, locals, atWork>>
    <3> SUFFICES ASSUME NEW z \in Services, service[z] = "terminated", NEW w \in AtWork(z)'
                 PROVE  w \in atWork[z] \/ Revives(w)'
      BY <2>1, <2>3 DEF OldWork
    <3>1. w \in AtWork(z)
      <4>1. w \in Requests => z \in request[w].of
        BY <1>0, <2>2, Constants DEF AtWork
      <4>2. w \notin Requests => w \in AtWork(z)
        BY <2>3 DEF AtWork
      <4> QED BY <4>1, <4>2 DEF AtWork
    <3>2. Revives(w) => Revives(w)'
      BY <2>1, <2>2 DEF Revives
    <3> QED BY <3>1, <3>2 DEF OldWork
  <2>4. ASSUME NEW t \in Tasks, Enqueue(t, "provision", request[r].of),
               atWork' = Inherits(t, r)
        PROVE OldWork'
    BY <1>3, <2>1, <2>2, <2>4
  <2> QED BY <1>5, <2>3, <2>4 DEF EnqueueFails
<1>6. ASSUME RequestEnds(r), \A z \in Services : service'[z] = "terminated" => service[z] = "terminated"
      PROVE OldWork'
  <2>1. /\ request' = [request EXCEPT ![r] = NoRequest] /\ UNCHANGED <<kind, pc, cur>>
        /\ atWork' = [s \in Services |-> atWork[s] \ {r}]
    BY <1>6 DEF RequestEnds
  <2> SUFFICES ASSUME NEW z \in Services, service'[z] = "terminated", NEW w \in AtWork(z)'
               PROVE  w \in atWork'[z] \/ Revives(w)'
    BY DEF OldWork
  <2>2. w # r
    <3>1. request'[r].of = {}
      BY <1>0, <2>1 DEF NoRequest
    <3> QED BY <1>0, <3>1 DEF AtWork
  <2>3. w \in AtWork(z) /\ (Revives(w) => Revives(w)')
    BY <2>1, <2>2 DEF AtWork, Revives
  <2>4. w \in atWork[z] => w \in atWork'[z]
    BY <2>1, <2>2
  <2> QED BY <1>6, <2>3, <2>4 DEF OldWork
<1>7. CASE Undo(r)
  <2>1. \A z \in Services : service'[z] = "terminated" => service[z] = "terminated"
    <3>1. CASE UNCHANGED <<service, left>>
      BY <3>1
    <3>2. CASE SetStatus(r, "pending")
      BY <1>0, <3>2 DEF SetStatus
    <3> QED BY <1>7, <3>1, <3>2 DEF Undo
  <2> QED BY <1>6, <1>7, <2>1 DEF Undo
<1>8. CASE HasJob(r) \/ RequestFails(r)
  BY <1>6, <1>8 DEF HasJob, RequestFails
<1> QED BY <1>1, <1>2, <1>4, <1>5, <1>7, <1>8 DEF Serve

LEMMA OldStep == TypeInv /\ OldWork /\ [Next]_vars => OldWork'
<1> SUFFICES ASSUME TypeInv, OldWork, [Next]_vars PROVE OldWork'
  OBVIOUS
<1>1. ASSUME UNCHANGED <<service, request, kind, pc, cur, atWork>> PROVE OldWork'
  <2>1. \A s \in Services : AtWork(s)' = AtWork(s)
    BY <1>1 DEF AtWork
  <2>2. \A w : Revives(w)' = Revives(w)
    BY <1>1 DEF Revives
  <2> QED BY <1>1, <2>1, <2>2 DEF OldWork
<1>2. CASE UNCHANGED vars \/ Pass \/ TickFails
  <2>1. UNCHANGED <<service, request, kind, pc, cur, atWork>>
    BY <1>2 DEF vars, Pass, TickFails, tables, queue, locals, history, outcome
  <2> QED BY <1>1, <2>1
<1>3. ASSUME NEW t \in Tasks, NEW k \in Kinds \ {"provision"}, NEW S, Enqueue(t, k, S),
             UNCHANGED <<service, request, atWork>>
      PROVE OldWork'
  <2>1. Calm(t)
    BY <1>3, EnqueueAlone DEF Calm, TypeInv
  <2> QED BY <2>1, CalmOld
<1>4. ASSUME NEW t \in Tasks, TickRemind(t) \/ TickExpire(t) PROVE OldWork'
  BY <1>3, <1>4 DEF TickRemind, TickExpire, Kinds, tables, history, outcome
<1>5. ASSUME NEW t \in Tasks, NEW k \in Asked, NEW s \in Services, Ask(t, k, s)
      PROVE OldWork'
  BY <1>3, <1>5 DEF Ask, Kinds, ForOne, Asked, tables
<1>6. ASSUME NEW t \in Tasks, Work(t) PROVE OldWork'
  BY <1>6, CalmWork, CalmOld, ReadOld, SuspendOld, WriteOld DEF Work
<1>7. ASSUME NEW t \in Tasks, Fails(t) PROVE OldWork'
  BY <1>7, CalmWork, CalmOld
<1> QED BY <1>2, <1>4, <1>5, <1>6, <1>7, RestartOld, ServeOld DEF Next

\* The steps that may change a status.
LEMMA StatusSteps ==
  ASSUME TypeInv, [Next]_vars
  PROVE  \/ UNCHANGED service
         \/ \E t \in Tasks : SuspendExpired(t) \/ WriteStatus(t)
         \/ \E r \in Requests : SetStatus(r, "provisioning") \/ SetStatus(r, "pending")
<1> USE DEF tables, history, Begin
<1>1. CASE UNCHANGED vars \/ Pass \/ TickFails \/ Restart
  BY <1>1 DEF vars, Pass, TickFails, Restart
<1>2. ASSUME NEW t \in Tasks, TickRemind(t) \/ TickExpire(t) PROVE UNCHANGED service
  BY <1>2 DEF TickRemind, TickExpire
<1>3. ASSUME NEW t \in Tasks, NEW k \in Asked, NEW z \in Services, Ask(t, k, z)
      PROVE UNCHANGED service
  BY <1>3 DEF Ask
<1>4. ASSUME NEW t \in Tasks, Work(t) \/ Fails(t)
      PROVE  UNCHANGED service \/ SuspendExpired(t) \/ WriteStatus(t)
  BY <1>4, CalmWork DEF Work, Calm, ReadService
<1>5. ASSUME NEW r \in Requests, Serve(r)
      PROVE  UNCHANGED service \/ SetStatus(r, "provisioning") \/ SetStatus(r, "pending")
  BY <1>5 DEF Serve, AdminReads, PaymentReads, RequestUpdates, RequestEnqueues,
     EnqueueFails, Undo, HasJob, RequestFails
<1> QED BY <1>1, <1>2, <1>3, <1>4, <1>5 DEF Next

\* A step that brings a terminated service back.
ByOldWork(s) ==
  \/ atWork[s] \cap AtWork(s) # {}
  \/ \E t \in Tasks : kind[t] = "suspend" /\ pc[t] = "update" /\ s \in cur[t]
  \/ \E r \in Requests : Revives(r) /\ s \in request[r].of

LEMMA OldWorkRevives ==
  ASSUME TypeInv, OldWork, [Next]_vars, NEW s \in Services,
         service[s] = "terminated", service'[s] # "terminated"
  PROVE  ByOldWork(s)
<1>0. service \in [Services -> ServiceStatus] /\ cur \in [Tasks -> SUBSET Services]
  BY DEF TypeInv, TablesOK, QueueOK
<1>1. ASSUME NEW w \in AtWork(s) PROVE ByOldWork(s)
  <2>1. CASE Revives(w)
    <3>1. s \in request[w].of
      BY <2>1, Constants DEF Revives, AtWork
    <3> QED BY <2>1, <3>1 DEF Revives, ByOldWork
  <2>2. CASE w \in atWork[s]
    BY <2>2 DEF ByOldWork
  <2> QED BY <2>1, <2>2 DEF OldWork
<1>2. ASSUME NEW t \in Tasks, SuspendExpired(t) PROVE ByOldWork(s)
  <2>1. pc[t] = "suspend" /\ \E z \in cur[t] : service' = [service EXCEPT ![z] = "suspended"]
    BY <1>2 DEF SuspendExpired, Goto
  <2>2. s \in cur[t]
    BY <1>0, <2>1
  <2>3. t \in AtWork(s)
    BY <2>1, <2>2 DEF AtWork
  <2> QED BY <1>1, <2>3
<1>3. ASSUME NEW t \in Tasks, WriteStatus(t) PROVE ByOldWork(s)
  <2>1. /\ pc[t] = "update" /\ kind[t] \in {"provision", "suspend", "terminate"}
        /\ \E z \in cur[t] : service' = [service EXCEPT ![z] = Target(kind[t])]
    BY <1>3 DEF WriteStatus, Goto
  <2>2. s \in cur[t] /\ service'[s] = Target(kind[t])
    BY <1>0, <2>1
  <2>3. CASE kind[t] = "provision"
    <3>1. t \in AtWork(s)
      BY <2>1, <2>2, <2>3 DEF AtWork
    <3> QED BY <1>1, <3>1
  <2>4. CASE kind[t] = "suspend"
    BY <2>1, <2>2, <2>4 DEF ByOldWork
  <2>5. CASE kind[t] = "terminate"
    BY <2>2, <2>5 DEF Target
  <2> QED BY <2>1, <2>3, <2>4, <2>5
<1>4. ASSUME NEW r \in Requests, NEW status, SetStatus(r, status) PROVE ByOldWork(s)
  <2>1. s \in request[r].of
    BY <1>0, <1>4 DEF SetStatus
  <2>2. r \in AtWork(s)
    BY <2>1 DEF AtWork
  <2> QED BY <1>1, <2>2
<1> QED BY <1>2, <1>3, <1>4, StatusSteps

LEMMA InitTyped == Init => TypeInv
<1> SUFFICES ASSUME Init PROVE TypeInv
  OBVIOUS
<1>1. QueueOK
  <2>1. 0 \in 0 .. Horizon /\ 0 \in 0 .. MaxRetry /\ "expire" \in Kinds /\ "idle" \in PC
    BY Constants DEF Kinds, PC
  <2> QED BY <2>1 DEF Init, QueueOK
<1>2. TablesOK
  BY DEF Init, TablesOK, ServiceStatus
<1>3. ClockOK
  <2>1. start \in 0 .. Horizon /\ now = start /\ nextRemind = start + Day
    BY Constants DEF Init
  <2> QED BY <2>1, Constants DEF ClockOK
<1>4. HistoryOK /\ RequestOK
  BY DEF Init, HistoryOK, RequestOK
<1> QED BY <1>1, <1>2, <1>3, <1>4 DEF TypeInv

LEMMA Types == Spec => []TypeInv
BY InitTyped, TypeStep, PTL DEF Spec

(***************************************************************************)
(* Every variable keeps its type, whatever the queue and the API do; the   *)
(* other theorems rest on it.                                              *)
(***************************************************************************)
THEOREM TypeCorrect == Spec => []TypeOK
<1>1. TypeInv => TypeOK
  BY DEF TypeInv, QueueOK, TablesOK, ClockOK, HistoryOK, RequestOK, TypeOK
<1> QED BY <1>1, Types, PTL

Revive ==
  \A s \in Services : service[s] = "terminated" /\ service'[s] # "terminated" => ByOldWork(s)

(***************************************************************************)
(* What brings a terminated service back, of all the UPDATEs that do not   *)
(* look at the status they replace (handler.go, admin/service.go,          *)
(* payment/provisioning.go): RevivedByOldWork, for any number of services, *)
(* requests and tasks, however long the worker runs and however often it   *)
(* is restarted.                                                           *)
(***************************************************************************)
THEOREM OnlyOldWorkRevives == Spec => RevivedByOldWork
<1>1. Init => OldWork
  BY DEF Init, OldWork
<1>2. TypeInv /\ OldWork /\ [Next]_vars => [Revive]_service
  BY OldWorkRevives DEF Revive
<1>3. Spec => []OldWork
  BY <1>1, OldStep, Types, PTL DEF Spec
<1>4. Spec => [][Revive]_service
  BY <1>2, <1>3, Types, PTL DEF Spec
<1>5. [Revive]_service <=>
        [\A s \in Services :
           service[s] = "terminated" /\ service'[s] # "terminated" =>
             \/ atWork[s] \cap AtWork(s) # {}
             \/ \E t \in Tasks : kind[t] = "suspend" /\ pc[t] = "update" /\ s \in cur[t]
             \/ \E r \in Requests : /\ request[r].by = "payment"
                                   /\ request[r].pc = "update" /\ s \in request[r].of]_service
  BY DEF Revive, ByOldWork, Revives
<1> QED BY <1>4, <1>5, PTL DEF RevivedByOldWork

-----------------------------------------------------------------------------
(* Where the handler of each kind of task can be                           *)

At(t) ==
  \/ pc[t] \in {"idle", "queued"}
  \/ kind[t] = "expire" /\ pc[t] \in {"next", "suspend"}
  \/ kind[t] = "remind" /\ pc[t] \in {"listed", "next", "send", "record"}
  \/ kind[t] \in ForOne /\ pc[t] \in {"update", "written"}

Shape == \A t \in Tasks : At(t)

LEMMA ShapeAlone ==
  ASSUME Shape, NEW t \in Tasks, Alone(t), At(t)'
  PROVE  Shape'
BY DEF Shape, Alone, At

LEMMA ShapeStep == TypeInv /\ Shape /\ [Next]_vars => Shape'
<1> SUFFICES ASSUME TypeInv, Shape, [Next]_vars PROVE Shape'
  OBVIOUS
<1> USE DEF tables, queue, locals, Goto
<1>0. kind \in [Tasks -> Kinds] /\ pc \in [Tasks -> PC]
  BY DEF TypeInv, QueueOK
<1>1. ASSUME UNCHANGED <<kind, pc>> PROVE Shape'
  BY <1>1 DEF Shape, At
<1>2. CASE UNCHANGED vars \/ Pass \/ TickFails
  BY <1>1, <1>2 DEF vars, Pass, TickFails
<1>3. CASE Restart
  <2> SUFFICES ASSUME NEW t \in Tasks PROVE At(t)'
    BY DEF Shape
  <2>1. UNCHANGED kind /\ pc'[t] = IF pc[t] \notin Running THEN pc[t]
                                   ELSE IF retried[t] < MaxRetry THEN "queued" ELSE "idle"
    BY <1>3 DEF Restart
  <2>2. At(t)
    BY DEF Shape
  <2> QED BY <2>1, <2>2 DEF At
<1>4. ASSUME NEW t \in Tasks, NEW k, NEW S, Enqueue(t, k, S) PROVE Shape'
  <2>1. Alone(t) /\ pc'[t] = "queued"
    BY <1>4, EnqueueAlone DEF TypeInv
  <2> QED BY <2>1, ShapeAlone DEF At
<1>5. ASSUME NEW t \in Tasks, TickRemind(t) \/ TickExpire(t) PROVE Shape'
  BY <1>4, <1>5 DEF TickRemind, TickExpire
<1>6. ASSUME NEW t \in Tasks, NEW k \in Asked, NEW s \in Services, Ask(t, k, s) PROVE Shape'
  BY <1>4, <1>6 DEF Ask
<1>7. ASSUME NEW r \in Requests, Serve(r) PROVE Shape'
  BY <1>1, <1>4, <1>7 DEF Serve, Begin, AdminReads, PaymentReads, RequestUpdates, RequestEnqueues,
     EnqueueFails, RequestEnds, Undo, HasJob, RequestFails
<1>8. ASSUME NEW t \in Tasks, Ack(t) \/ Requeue(t) PROVE Shape'
  <2>1. Alone(t) /\ pc'[t] \in {"idle", "queued"}
    BY <1>8, EndAlone DEF TypeInv, HistoryOK
  <2> QED BY <2>1, ShapeAlone DEF At
<1>9. ASSUME NEW t \in Tasks, Work(t) PROVE Shape'
  <2>0. Alone(t)
    BY <1>9, WorkAlone
  <2>1. CASE StartExpire(t) \/ SuspendExpired(t)
    <3>1. kind'[t] = "expire" /\ pc'[t] = "next"
      BY <1>0, <2>1 DEF StartExpire, SuspendExpired
    <3> QED BY <2>0, <3>1, ShapeAlone DEF At
  <2>2. CASE StartRemind(t) \/ TakeTime(t) \/ Send(t) \/ Record(t)
    <3>1. kind'[t] = "remind" /\ pc'[t] \in {"listed", "next", "record"}
      BY <1>0, <2>2 DEF StartRemind, TakeTime, Send, Record
    <3> QED BY <2>0, <3>1, ShapeAlone DEF At
  <2>3. ASSUME NEW s \in Services, ReadService(t, s) PROVE Shape'
    <3>1. kind'[t] = "expire" /\ pc'[t] \in {"next", "suspend"}
      BY <1>0, <2>3 DEF ReadService
    <3> QED BY <2>0, <3>1, ShapeAlone DEF At
  <2>4. ASSUME NEW s \in Services, NextReminder(t, s) PROVE Shape'
    <3>1. kind'[t] = "remind" /\ pc'[t] \in {"next", "send"}
      BY <1>0, <2>4 DEF NextReminder
    <3> QED BY <2>0, <3>1, ShapeAlone DEF At
  <2>5. CASE EndLoop(t) \/ EndForOne(t)
    BY <1>8, <2>5 DEF EndLoop, EndForOne
  <2>6. CASE StartForOne(t) \/ WriteStatus(t) \/ CommitInvoice(t)
    <3>1. kind'[t] \in ForOne /\ pc'[t] \in {"update", "written"}
      BY <1>0, <2>6 DEF StartForOne, WriteStatus, CommitInvoice, ForOne, Asked
    <3> QED BY <2>0, <3>1, ShapeAlone DEF At
  <2> QED BY <1>9, <2>1, <2>2, <2>3, <2>4, <2>5, <2>6 DEF Work
<1>10. ASSUME NEW t \in Tasks, Fails(t) PROVE Shape'
  <2>0. Alone(t)
    BY <1>10, FailsAlone
  <2>1. CASE StartFails(t) \/ BatchAborts(t) \/ UpdateFails(t) \/ WrittenFails(t)
    BY <1>8, <2>1 DEF StartFails, BatchAborts, UpdateFails, WrittenFails
  <2>2. CASE ExpireFails(t)
    <3>1. kind'[t] = "expire" /\ pc'[t] = "next"
      BY <1>0, <2>2 DEF ExpireFails
    <3> QED BY <2>0, <3>1, ShapeAlone DEF At
  <2>3. CASE LookupFails(t) \/ SendFails(t) \/ RecordFails(t)
    <3>1. kind'[t] = "remind" /\ pc'[t] \in {"next", "record"}
      BY <1>0, <2>3 DEF LookupFails, SendFails, RecordFails
    <3> QED BY <2>0, <3>1, ShapeAlone DEF At
  <2> QED BY <1>10, <2>1, <2>2, <2>3 DEF Fails
<1> QED BY <1>2, <1>3, <1>5, <1>6, <1>7, <1>9, <1>10 DEF Next

LEMMA Shapes == Spec => []Shape
<1>1. Init => Shape
  BY DEF Init, Shape, At
<1> QED BY <1>1, ShapeStep, Types, PTL DEF Spec

-----------------------------------------------------------------------------
(* How many invoices are made                                              *)

\* generate_invoice tasks of a service that may still make an invoice.
Pending(s) ==
  {t \in Tasks : kind[t] = "invoice" /\ s \in cur[t] /\ pc[t] \in {"queued", "update"}}

\* What is made and what may still be made, against what was asked for and what
\* a task did not learn of.
Covered ==
  \A s \in Services : invoices[s] + Cardinality(Pending(s)) <= ordered[s] + unheard[s]

LEMMA Smaller ==
  ASSUME NEW S \in SUBSET Tasks, NEW T \in SUBSET S
  PROVE  Cardinality(T) <= Cardinality(S)
BY Sizes, FS_Subset

LEMMA OneMore ==
  ASSUME NEW S \in SUBSET Tasks, NEW t \in Tasks, NEW T \in SUBSET (S \cup {t})
  PROVE  Cardinality(T) <= Cardinality(S) + 1
<1>1. S \cup {t} \in SUBSET Tasks
  OBVIOUS
<1>2. Cardinality(S \cup {t}) <= Cardinality(S) + 1
  BY Sizes, FS_AddElement
<1>3. Cardinality(T) <= Cardinality(S \cup {t})
  BY <1>1, Smaller
<1>4. /\ Cardinality(T) \in Nat /\ Cardinality(S) \in Nat
      /\ Cardinality(S \cup {t}) \in Nat
  BY <1>1, Sizes
<1> QED BY <1>2, <1>3, <1>4

LEMMA OneFewer ==
  ASSUME NEW S \in SUBSET Tasks, NEW t \in S, NEW T \in SUBSET (S \ {t})
  PROVE  Cardinality(T) + 1 <= Cardinality(S)
<1>1. S \ {t} \in SUBSET Tasks
  OBVIOUS
<1>2. Cardinality(S \ {t}) = Cardinality(S) - 1
  BY Sizes, FS_RemoveElement
<1>3. Cardinality(T) <= Cardinality(S \ {t})
  BY <1>1, Smaller
<1>4. /\ Cardinality(T) \in Nat /\ Cardinality(S) \in Nat
      /\ Cardinality(S \ {t}) \in Nat
  BY <1>1, Sizes
<1> QED BY <1>2, <1>3, <1>4

LEMMA NoneNew ==
  ASSUME TypeInv, Covered, UNCHANGED <<invoices, ordered, unheard>>,
         \A s \in Services : Pending(s)' \subseteq Pending(s)
  PROVE  Covered'
<1> SUFFICES ASSUME NEW s \in Services
             PROVE  invoices[s] + Cardinality(Pending(s)') <= ordered[s] + unheard[s]
  BY DEF Covered
<1>1. Cardinality(Pending(s)') <= Cardinality(Pending(s))
  <2>1. Pending(s) \in SUBSET Tasks /\ Pending(s)' \in SUBSET Pending(s)
    BY DEF Pending
  <2> QED BY <2>1, Smaller
<1>2. Cardinality(Pending(s)') \in Nat /\ Cardinality(Pending(s)) \in Nat
  BY Sizes DEF Pending
<1>3. invoices[s] \in Nat /\ ordered[s] \in Nat /\ unheard[s] \in Nat
  BY DEF TypeInv, TablesOK, HistoryOK
<1> QED BY <1>1, <1>2, <1>3 DEF Covered

LEMMA AloneNew ==
  ASSUME TypeInv, Covered, UNCHANGED <<invoices, ordered, unheard>>, NEW t \in Tasks, Alone(t),
         kind'[t] = "invoice" /\ pc'[t] \in {"queued", "update"} =>
           kind[t] = "invoice" /\ pc[t] \in {"queued", "update"} /\ cur'[t] = cur[t]
  PROVE  Covered'
<1>1. \A s \in Services : Pending(s)' \subseteq Pending(s)
  BY DEF Pending, Alone
<1> QED BY <1>1, NoneNew

LEMMA CommitCovered ==
  ASSUME TypeInv, Covered, NEW t \in Tasks, CommitInvoice(t)
  PROVE  Covered'
<1>0. /\ Alone(t) /\ UNCHANGED <<ordered, unheard, kind, cur>> /\ kind[t] = "invoice"
      /\ pc[t] = "update" /\ pc'[t] = "written"
  BY WorkAlone DEF Work, CommitInvoice, locals, history, outcome, Goto, TypeInv, QueueOK
<1>1. PICK s \in cur[t] : invoices' = [invoices EXCEPT ![s] = @ + 1]
  BY DEF CommitInvoice
<1> SUFFICES ASSUME NEW z \in Services
             PROVE  invoices'[z] + Cardinality(Pending(z)') <= ordered[z] + unheard[z]
  BY <1>0 DEF Covered
<1>2. Pending(z) \in SUBSET Tasks /\ Pending(z)' \in SUBSET (Pending(z) \ {t})
  BY <1>0 DEF Pending, Alone
<1>3. /\ Cardinality(Pending(z)') \in Nat /\ Cardinality(Pending(z)) \in Nat
      /\ invoices[z] \in Nat /\ ordered[z] \in Nat /\ unheard[z] \in Nat
      /\ invoices[z] + Cardinality(Pending(z)) <= ordered[z] + unheard[z]
  BY Sizes DEF Pending, Covered, TypeInv, TablesOK, HistoryOK
<1>4. CASE z = s
  <2>1. t \in Pending(z)
    BY <1>0, <1>1, <1>4 DEF Pending
  <2>2. Cardinality(Pending(z)') + 1 <= Cardinality(Pending(z))
    BY <1>2, <2>1, OneFewer
  <2>3. invoices'[z] = invoices[z] + 1
    BY <1>1, <1>4 DEF TypeInv, TablesOK
  <2> QED BY <1>3, <2>2, <2>3
<1>5. CASE z # s
  <2>1. Cardinality(Pending(z)') <= Cardinality(Pending(z))
    BY <1>2, Smaller
  <2>2. invoices'[z] = invoices[z]
    BY <1>1, <1>5 DEF TypeInv, TablesOK
  <2> QED BY <1>3, <2>1, <2>2
<1> QED BY <1>4, <1>5

LEMMA AskCovered ==
  ASSUME TypeInv, Covered, NEW t \in Tasks, NEW k \in Asked, NEW s \in Services, Ask(t, k, s)
  PROVE  Covered'
<1>0. /\ Alone(t) /\ UNCHANGED <<invoices, unheard>>
      /\ kind'[t] = k /\ pc[t] = "idle" /\ pc'[t] = "queued" /\ cur'[t] = {s}
      /\ ordered' = IF k = "invoice" THEN [ordered EXCEPT ![s] = @ + 1] ELSE ordered
  BY EnqueueAlone DEF Ask, TypeInv, tables
<1>1. CASE k # "invoice"
  BY <1>0, <1>1, AloneNew
<1>2. CASE k = "invoice"
  <2> SUFFICES ASSUME NEW z \in Services
               PROVE  invoices[z] + Cardinality(Pending(z)') <= ordered'[z] + unheard[z]
    BY <1>0 DEF Covered
  <2>1. Pending(z) \in SUBSET Tasks /\ Pending(z)' \in SUBSET (Pending(z) \cup {t})
    BY <1>0 DEF Pending, Alone
  <2>2. /\ Cardinality(Pending(z)') \in Nat /\ Cardinality(Pending(z)) \in Nat
        /\ invoices[z] \in Nat /\ ordered[z] \in Nat /\ unheard[z] \in Nat
        /\ invoices[z] + Cardinality(Pending(z)) <= ordered[z] + unheard[z]
    BY Sizes DEF Pending, Covered, TypeInv, TablesOK, HistoryOK
  <2>3. CASE z = s
    <3>1. Cardinality(Pending(z)') <= Cardinality(Pending(z)) + 1
      BY <2>1, OneMore
    <3>2. ordered'[z] = ordered[z] + 1
      BY <1>0, <1>2, <2>3 DEF TypeInv, HistoryOK
    <3> QED BY <2>2, <3>1, <3>2
  <2>4. CASE z # s
    <3>1. Pending(z)' \in SUBSET Pending(z)
      BY <1>0, <2>1, <2>4 DEF Pending
    <3>2. Cardinality(Pending(z)') <= Cardinality(Pending(z))
      BY <2>1, <3>1, Smaller
    <3>3. ordered'[z] = ordered[z]
      BY <1>0, <1>2, <2>4 DEF TypeInv, HistoryOK
    <3> QED BY <2>2, <3>2, <3>3
  <2> QED BY <2>3, <2>4
<1> QED BY <1>1, <1>2

LEMMA WrittenCovered ==
  ASSUME TypeInv, Covered, NEW t \in Tasks, WrittenFails(t)
  PROVE  Covered'
<1>0. /\ Alone(t) /\ UNCHANGED <<invoices, ordered>> /\ kind'[t] = kind[t]
      /\ pc[t] = "written" /\ cur'[t] = (IF kind[t] \in ForOne THEN cur[t] ELSE {})
      /\ unheard' = [s \in Services |->
           IF t \in Unheard(s) THEN unheard[s] + 1 ELSE unheard[s]]
  BY EndAlone DEF WrittenFails, TypeInv, HistoryOK, tables
<1> SUFFICES ASSUME NEW z \in Services
             PROVE  invoices[z] + Cardinality(Pending(z)') <= ordered[z] + unheard'[z]
  BY <1>0 DEF Covered
<1>1. Pending(z) \in SUBSET Tasks /\ Pending(z)' \in SUBSET (Pending(z) \cup {t})
  BY <1>0 DEF Pending, Alone
<1>2. /\ Cardinality(Pending(z)') \in Nat /\ Cardinality(Pending(z)) \in Nat
      /\ invoices[z] \in Nat /\ ordered[z] \in Nat /\ unheard[z] \in Nat
      /\ invoices[z] + Cardinality(Pending(z)) <= ordered[z] + unheard[z]
  BY Sizes DEF Pending, Covered, TypeInv, TablesOK, HistoryOK
<1>3. CASE t \in Unheard(z)
  <2>1. Cardinality(Pending(z)') <= Cardinality(Pending(z)) + 1
    BY <1>1, OneMore
  <2>2. unheard'[z] = unheard[z] + 1
    BY <1>0, <1>3
  <2> QED BY <1>2, <2>1, <2>2
<1>4. CASE t \notin Unheard(z)
  <2>1. "invoice" \in ForOne
    BY DEF ForOne, Asked
  <2>2. t \notin Pending(z)'
    BY <1>0, <1>4, <2>1 DEF Pending, Unheard
  <2>3. Cardinality(Pending(z)') <= Cardinality(Pending(z))
    BY <1>1, <2>2, Smaller
  <2>4. unheard'[z] = unheard[z]
    BY <1>0, <1>4
  <2> QED BY <1>2, <2>3, <2>4
<1> QED BY <1>3, <1>4

LEMMA RestartCovered ==
  ASSUME TypeInv, Shape, Covered, Restart
  PROVE  Covered'
<1>0. /\ UNCHANGED <<invoices, ordered, kind>>
      /\ unheard' = [s \in Services |-> unheard[s] + Cardinality(Unheard(s))]
  BY DEF Restart, tables
<1> SUFFICES ASSUME NEW z \in Services
             PROVE  invoices[z] + Cardinality(Pending(z)') <= ordered[z] + unheard'[z]
  BY <1>0 DEF Covered
<1>1. Pending(z)' \subseteq Pending(z) \cup Unheard(z)
  <2> SUFFICES ASSUME NEW t \in Pending(z)' PROVE t \in Pending(z) \cup Unheard(z)
    OBVIOUS
  <2>1. t \in Tasks /\ kind[t] = "invoice" /\ z \in cur'[t] /\ pc'[t] \in {"queued", "update"}
    BY <1>0 DEF Pending
  <2>2. z \in cur[t]
    BY <2>1 DEF Restart
  <2>3. pc[t] # "idle"
    BY <2>1 DEF Restart, Running
  <2>4. pc[t] \in {"queued", "update", "written"}
    BY <2>1, <2>3 DEF Shape, At
  <2> QED BY <2>1, <2>2, <2>4 DEF Pending, Unheard
<1>2. /\ Pending(z) \in SUBSET Tasks /\ Unheard(z) \in SUBSET Tasks
      /\ Pending(z) \cup Unheard(z) \in SUBSET Tasks
  BY DEF Pending, Unheard
<1>3. Cardinality(Pending(z)') <= Cardinality(Pending(z) \cup Unheard(z))
  BY <1>1, <1>2, Smaller
<1>4. Cardinality(Pending(z) \cup Unheard(z))
        = Cardinality(Pending(z)) + Cardinality(Unheard(z))
            - Cardinality(Pending(z) \cap Unheard(z))
  BY <1>2, Sizes, FS_Union
<1>5. /\ Cardinality(Pending(z) \cap Unheard(z)) \in Nat
      /\ Cardinality(Pending(z)) \in Nat /\ Cardinality(Unheard(z)) \in Nat
      /\ Cardinality(Pending(z)') \in Nat
  <2>1. Pending(z) \cap Unheard(z) \in SUBSET Tasks /\ Pending(z)' \in SUBSET Tasks
    BY <1>1, <1>2
  <2> QED BY <1>2, <2>1, Sizes
<1>6. /\ invoices[z] \in Nat /\ ordered[z] \in Nat /\ unheard[z] \in Nat
      /\ invoices[z] + Cardinality(Pending(z)) <= ordered[z] + unheard[z]
      /\ unheard'[z] = unheard[z] + Cardinality(Unheard(z))
  BY <1>0 DEF Covered, TypeInv, TablesOK, HistoryOK
<1> QED BY <1>3, <1>4, <1>5, <1>6

LEMMA CoveredStep == TypeInv /\ Shape /\ Covered /\ [Next]_vars => Covered'
<1> SUFFICES ASSUME TypeInv, Shape, Covered, [Next]_vars PROVE Covered'
  OBVIOUS
<1> USE DEF tables, queue, locals, sending, outcome, history, Goto
<1>0. kind \in [Tasks -> Kinds] /\ pc \in [Tasks -> PC]
  BY DEF TypeInv, QueueOK
<1>1. ASSUME UNCHANGED <<invoices, ordered, unheard, kind, pc, cur>> PROVE Covered'
  <2>1. \A s \in Services : Pending(s)' = Pending(s)
    BY <1>1 DEF Pending
  <2> QED BY <1>1, <2>1, NoneNew
<1>2. CASE UNCHANGED vars \/ Pass \/ TickFails
  BY <1>1, <1>2 DEF vars, Pass, TickFails
<1>3. ASSUME NEW t \in Tasks, NEW k, NEW S, Enqueue(t, k, S), k # "invoice",
             UNCHANGED <<invoices, ordered, unheard>>
      PROVE Covered'
  BY <1>3, EnqueueAlone, AloneNew DEF TypeInv
<1>4. ASSUME NEW t \in Tasks, TickRemind(t) \/ TickExpire(t) PROVE Covered'
  BY <1>3, <1>4 DEF TickRemind, TickExpire
<1>5. ASSUME NEW r \in Requests, Serve(r) PROVE Covered'
  BY <1>1, <1>3, <1>5 DEF Serve, Begin, AdminReads, PaymentReads, RequestUpdates, RequestEnqueues,
     EnqueueFails, RequestEnds, Undo, HasJob, RequestFails
<1>6. ASSUME NEW t \in Tasks, Ack(t) \/ Requeue(t), UNCHANGED <<invoices, ordered, unheard>>,
             Ack(t) \/ pc[t] \in {"queued", "update", "next"}
      PROVE Covered'
  <2>1. /\ Alone(t) /\ kind'[t] = kind[t]
        /\ cur'[t] = (IF kind[t] \in ForOne THEN cur[t] ELSE {})
        /\ pc'[t] \in {"idle", "queued"} /\ (Ack(t) => pc'[t] = "idle")
    BY <1>0, <1>6, EndAlone DEF TypeInv, HistoryOK, Ack
  <2>2. pc[t] = "next" => kind[t] \notin ForOne
    BY DEF Shape, At, ForOne, Asked
  <2>3. "invoice" \in ForOne
    BY DEF ForOne, Asked
  <2> QED BY <1>6, <2>1, <2>2, <2>3, AloneNew
<1>7. ASSUME NEW t \in Tasks, Alone(t), kind'[t] \in {"expire", "remind"},
             UNCHANGED <<invoices, ordered, unheard>>
      PROVE Covered'
  BY <1>7, AloneNew
<1>8. ASSUME NEW t \in Tasks, Work(t) PROVE Covered'
  <2>0. Alone(t)
    BY <1>8, WorkAlone
  <2>1. CASE StartExpire(t) \/ SuspendExpired(t) \/ StartRemind(t) \/ TakeTime(t)
    BY <1>7, <2>0, <2>1 DEF StartExpire, SuspendExpired, StartRemind, TakeTime
  <2>2. CASE Send(t) \/ Record(t)
    BY <1>7, <2>0, <2>2 DEF Send, Record
  <2>3. ASSUME NEW s \in Services, ReadService(t, s) \/ NextReminder(t, s) PROVE Covered'
    BY <1>7, <2>0, <2>3 DEF ReadService, NextReminder
  <2>4. CASE EndLoop(t) \/ EndForOne(t)
    BY <1>6, <2>4 DEF EndLoop, EndForOne
  <2>5. CASE StartForOne(t)
    BY <2>0, <2>5, AloneNew DEF StartForOne
  <2>6. CASE WriteStatus(t)
    BY <2>0, <2>6, AloneNew DEF WriteStatus
  <2> QED BY <1>8, <2>1, <2>2, <2>3, <2>4, <2>5, <2>6, CommitCovered DEF Work
<1>9. ASSUME NEW t \in Tasks, Fails(t) PROVE Covered'
  <2>0. Alone(t)
    BY <1>9, FailsAlone
  <2>1. CASE StartFails(t) \/ BatchAborts(t) \/ UpdateFails(t)
    BY <1>6, <2>1 DEF StartFails, BatchAborts, UpdateFails
  <2>2. CASE ExpireFails(t) \/ LookupFails(t) \/ SendFails(t) \/ RecordFails(t)
    BY <1>7, <2>0, <2>2 DEF ExpireFails, LookupFails, SendFails, RecordFails
  <2> QED BY <1>9, <2>1, <2>2, WrittenCovered DEF Fails
<1> QED BY <1>2, <1>4, <1>5, <1>8, <1>9, AskCovered, RestartCovered DEF Next

(***************************************************************************)
(* How many renewal invoices a service gets: InvoicedPerTask, for any      *)
(* number of services, tasks and retries.  Every second invoice of a task  *)
(* comes from a COMMIT that the task did not learn of: the statements of   *)
(* HandleGenerateInvoice before it are rolled back.                 *)
(***************************************************************************)
THEOREM InvoicesPerTask == Spec => []InvoicedPerTask
<1>1. Init => Covered
  <2> SUFFICES ASSUME Init, NEW s \in Services
               PROVE  invoices[s] + Cardinality(Pending(s)) <= ordered[s] + unheard[s]
    BY DEF Covered
  <2>1. Pending(s) = {} /\ invoices[s] = 0 /\ ordered[s] = 0 /\ unheard[s] = 0
    BY DEF Init, Pending
  <2> QED BY <2>1, FS_EmptySet
<1>2. TypeInv /\ Covered => InvoicedPerTask
  <2> SUFFICES ASSUME TypeInv, Covered, NEW s \in Services
               PROVE  invoices[s] <= ordered[s] + unheard[s]
    BY DEF InvoicedPerTask
  <2>1. /\ Cardinality(Pending(s)) \in Nat
        /\ invoices[s] \in Nat /\ ordered[s] \in Nat /\ unheard[s] \in Nat
    BY Sizes DEF Pending, TypeInv, TablesOK, HistoryOK
  <2> QED BY <2>1 DEF Covered
<1> QED BY <1>1, <1>2, CoveredStep, Types, Shapes, PTL DEF Spec

-----------------------------------------------------------------------------
(* The service a batch has at hand                                         *)

Hand(t) ==
  kind[t] = "remind" =>
    IF pc[t] \in {"send", "record"}
    THEN \E s \in Services : cur[t] = {s} /\ DaysLeft(t, s) \in ReminderDays
    ELSE cur[t] = {}

InHand == \A t \in Tasks : Hand(t)

LEMMA HandAlone ==
  ASSUME InHand, NEW t \in Tasks, Alone(t), Hand(t)'
  PROVE  InHand'
<1> SUFFICES ASSUME NEW u \in Tasks \ {t} PROVE Hand(u)'
  BY DEF InHand
<1>1. \A s : DaysLeft(u, s)' = DaysLeft(u, s)
  BY DEF Alone, DaysLeft
<1> QED BY <1>1 DEF InHand, Hand, Alone

LEMMA HandStep == TypeInv /\ Shape /\ InHand /\ [Next]_vars => InHand'
<1> SUFFICES ASSUME TypeInv, Shape, InHand, [Next]_vars PROVE InHand'
  OBVIOUS
<1> USE DEF tables, queue, locals, Goto
<1>0. kind \in [Tasks -> Kinds] /\ pc \in [Tasks -> PC] /\ cur \in [Tasks -> SUBSET Services]
  BY DEF TypeInv, QueueOK
<1>1. ASSUME UNCHANGED <<kind, pc, cur, at>> PROVE InHand'
  <2>1. \A t, s : DaysLeft(t, s)' = DaysLeft(t, s)
    BY <1>1 DEF DaysLeft
  <2> QED BY <1>1, <2>1 DEF InHand, Hand
<1>2. CASE UNCHANGED vars \/ Pass \/ TickFails
  BY <1>1, <1>2 DEF vars, Pass, TickFails
<1>3. CASE Restart
  <2> SUFFICES ASSUME NEW t \in Tasks, kind[t] = "remind"
               PROVE  cur'[t] = {} /\ pc'[t] \notin {"send", "record"}
    BY <1>3 DEF InHand, Hand, Restart
  <2>1. "remind" \notin ForOne
    BY DEF ForOne, Asked
  <2>2. pc'[t] = IF pc[t] \notin Running THEN pc[t]
                 ELSE IF retried[t] < MaxRetry THEN "queued" ELSE "idle"
    BY <1>3 DEF Restart
  <2>3. cur'[t] = IF kind[t] \in ForOne THEN cur[t] ELSE {}
    BY <1>3 DEF Restart
  <2> QED BY <2>1, <2>2, <2>3 DEF Running
<1>4. ASSUME NEW t \in Tasks, NEW k, NEW S, Enqueue(t, k, S), k # "remind" \/ S = {}
      PROVE InHand'
  <2>1. Alone(t) /\ kind'[t] = k /\ cur'[t] = S /\ pc'[t] = "queued"
    BY <1>4, EnqueueAlone DEF TypeInv
  <2> QED BY <1>4, <2>1, HandAlone DEF Hand
<1>5. ASSUME NEW t \in Tasks, TickRemind(t) \/ TickExpire(t) PROVE InHand'
  BY <1>4, <1>5 DEF TickRemind, TickExpire
<1>6. ASSUME NEW t \in Tasks, NEW k \in Asked, NEW s \in Services, Ask(t, k, s) PROVE InHand'
  BY <1>4, <1>6 DEF Ask, Asked
<1>7. ASSUME NEW r \in Requests, Serve(r) PROVE InHand'
  BY <1>1, <1>4, <1>7 DEF Serve, Begin, AdminReads, PaymentReads, RequestUpdates, RequestEnqueues,
     EnqueueFails, RequestEnds, Undo, HasJob, RequestFails
<1>8. ASSUME NEW t \in Tasks, Ack(t) \/ Requeue(t) PROVE InHand'
  <2>1. /\ Alone(t) /\ kind'[t] = kind[t] /\ pc'[t] \in {"idle", "queued"}
        /\ cur'[t] = (IF kind[t] \in ForOne THEN cur[t] ELSE {})
    BY <1>8, EndAlone DEF TypeInv, HistoryOK
  <2>2. "remind" \notin ForOne
    BY DEF ForOne, Asked
  <2> QED BY <2>1, <2>2, HandAlone DEF Hand
<1>9. ASSUME NEW t \in Tasks, Alone(t), kind'[t] # "remind" PROVE InHand'
  BY <1>9, HandAlone DEF Hand
<1>10. ASSUME NEW t \in Tasks, Alone(t), pc'[t] \notin {"send", "record"}, cur'[t] = {}
       PROVE InHand'
  BY <1>10, HandAlone DEF Hand
<1>11. ASSUME NEW t \in Tasks, Alone(t), kind[t] = "remind",
              pc[t] = "send" /\ pc'[t] = "record", UNCHANGED <<cur, at>>
       PROVE InHand'
  <2>1. \A s : DaysLeft(t, s)' = DaysLeft(t, s)
    BY <1>11 DEF DaysLeft
  <2>2. \E s \in Services : cur[t] = {s} /\ DaysLeft(t, s) \in ReminderDays
    BY <1>11 DEF InHand, Hand
  <2> QED BY <1>11, <2>1, <2>2, HandAlone DEF Hand
<1>12. ASSUME NEW t \in Tasks, NEW s \in Services, NextReminder(t, s) PROVE InHand'
  <2>0. Alone(t) /\ kind[t] = "remind" /\ pc[t] = "next" /\ UNCHANGED at
    BY <1>12, WorkAlone DEF Work, NextReminder
  <2>1. CASE isReminderDay(DaysLeft(t, s)) /\ ~reminderAlreadySentToday(s, DaysLeft(t, s))
    <3>1. cur'[t] = {s} /\ pc'[t] = "send"
      BY <1>0, <1>12, <2>1 DEF NextReminder
    <3>2. DaysLeft(t, s)' = DaysLeft(t, s) /\ DaysLeft(t, s) \in ReminderDays
      BY <2>0, <2>1 DEF DaysLeft, isReminderDay
    <3> QED BY <2>0, <3>1, <3>2, HandAlone DEF Hand
  <2>2. CASE ~(isReminderDay(DaysLeft(t, s)) /\ ~reminderAlreadySentToday(s, DaysLeft(t, s)))
    <3>1. UNCHANGED cur /\ pc'[t] = "next"
      BY <1>0, <1>12, <2>2 DEF NextReminder
    <3>2. cur[t] = {}
      BY <2>0 DEF InHand, Hand
    <3> QED BY <1>10, <2>0, <3>1, <3>2
  <2> QED BY <2>1, <2>2
<1>13. ASSUME NEW t \in Tasks, Work(t) PROVE InHand'
  <2>0. Alone(t)
    BY <1>13, WorkAlone
  <2>1. CASE StartExpire(t) \/ SuspendExpired(t)
    BY <1>9, <2>0, <2>1 DEF StartExpire, SuspendExpired
  <2>2. CASE StartRemind(t) \/ TakeTime(t)
    <3>1. kind[t] = "remind" /\ pc[t] \in {"queued", "listed"} /\ UNCHANGED cur
          /\ pc'[t] \in {"listed", "next"}
      BY <1>0, <2>2 DEF StartRemind, TakeTime
    <3>2. cur[t] = {}
      BY <3>1 DEF InHand, Hand
    <3> QED BY <1>10, <2>0, <3>1, <3>2
  <2>3. CASE Send(t)
    <3>1. kind[t] = "remind" /\ pc[t] = "send" /\ pc'[t] = "record" /\ UNCHANGED <<cur, at>>
      BY <1>0, <2>3 DEF Send
    <3> QED BY <1>11, <2>0, <3>1
  <2>4. CASE Record(t)
    <3>1. pc'[t] = "next" /\ cur'[t] = {}
      BY <1>0, <2>4 DEF Record
    <3> QED BY <1>10, <2>0, <3>1
  <2>5. ASSUME NEW s \in Services, ReadService(t, s) PROVE InHand'
    BY <1>9, <2>0, <2>5 DEF ReadService
  <2>6. CASE EndLoop(t) \/ EndForOne(t)
    BY <1>8, <2>6 DEF EndLoop, EndForOne
  <2>7. CASE StartForOne(t) \/ WriteStatus(t) \/ CommitInvoice(t)
    BY <1>9, <2>0, <2>7 DEF StartForOne, WriteStatus, CommitInvoice, ForOne, Asked
  <2> QED BY <1>12, <1>13, <2>1, <2>2, <2>3, <2>4, <2>5, <2>6, <2>7 DEF Work
<1>14. ASSUME NEW t \in Tasks, Fails(t) PROVE InHand'
  <2>0. Alone(t)
    BY <1>14, FailsAlone
  <2>1. CASE StartFails(t) \/ BatchAborts(t) \/ UpdateFails(t) \/ WrittenFails(t)
    BY <1>8, <2>1 DEF StartFails, BatchAborts, UpdateFails, WrittenFails
  <2>2. CASE ExpireFails(t)
    BY <1>9, <2>0, <2>2 DEF ExpireFails
  <2>3. CASE LookupFails(t)
    <3>1. kind[t] = "remind" /\ pc[t] = "next" /\ pc'[t] = "next" /\ UNCHANGED cur
      BY <1>0, <2>3 DEF LookupFails
    <3>2. cur[t] = {}
      BY <3>1 DEF InHand, Hand
    <3> QED BY <1>10, <2>0, <3>1, <3>2
  <2>4. CASE SendFails(t)
    <3>1. kind[t] = "remind" /\ pc[t] = "send" /\ pc'[t] = "record" /\ UNCHANGED <<cur, at>>
      BY <1>0, <2>4 DEF SendFails
    <3> QED BY <1>11, <2>0, <3>1
  <2>5. CASE RecordFails(t)
    <3>1. pc'[t] = "next" /\ cur'[t] = {}
      BY <1>0, <2>5 DEF RecordFails
    <3> QED BY <1>10, <2>0, <3>1
  <2> QED BY <1>14, <2>1, <2>2, <2>3, <2>4, <2>5 DEF Fails
<1> QED BY <1>2, <1>3, <1>5, <1>6, <1>7, <1>13, <1>14 DEF Next

LEMMA Hands == Spec => []InHand
<1>1. Init => InHand
  BY DEF Init, InHand, Hand
<1> QED BY <1>1, HandStep, Types, Shapes, PTL DEF Spec

-----------------------------------------------------------------------------
(* How often a customer is reminded                                        *)

\* Division by Day.
LEMMA Days ==
  /\ Day \in Nat \ {0} /\ Horizon \in Nat
  /\ \A m, n \in Nat : m <= n => m \div Day <= n \div Day
  /\ \A n \in 0 .. Horizon : n \div Day \in Dates
  /\ Dates \subseteq Nat
<1>1. Day \in Nat \ {0} /\ Horizon \in Nat
  BY Constants
<1>2. ASSUME NEW m \in Nat, NEW n \in Nat, m <= n PROVE m \div Day <= n \div Day
  <2>1. /\ m \div Day \in Nat /\ (m \div Day) * Day <= m
        /\ n \div Day \in Nat /\ n < (n \div Day) * Day + Day
    BY <1>1
  <2>2. ASSUME n \div Day < m \div Day PROVE FALSE
    <3>1. (n \div Day) * Day + Day <= (m \div Day) * Day
      BY <1>1, <2>1, <2>2
    <3>2. (n \div Day) * Day \in Nat /\ (m \div Day) * Day \in Nat
      BY <1>1, <2>1
    <3> QED BY <1>1, <1>2, <2>1, <3>1, <3>2
  <2> QED BY <2>1, <2>2
<1>3. ASSUME NEW n \in 0 .. Horizon PROVE n \div Day \in Dates
  <2>1. n \div Day \in Nat /\ Horizon \div Day \in Nat /\ n \div Day <= Horizon \div Day
    BY <1>1, <1>2
  <2> QED BY <2>1 DEF Dates
<1>4. Dates \subseteq Nat
  BY <1>1 DEF Dates
<1> QED BY <1>1, <1>2, <1>3, <1>4

LEMMA KeyParts ==
  \A k \in Keys : /\ k[1] \in Services /\ k[2] \in Dates /\ k[3] \in ReminderDays
                  /\ k = <<k[1], k[2], k[3]>>
                  /\ \A date \in Dates : <<k[1], date, k[3]>> \in Keys
BY DEF Keys

LEMMA KeyNow ==
  ASSUME TypeInv, NEW s \in Services, NEW d \in ReminderDays
  PROVE  <<s, Today, d>> \in Keys
BY Days DEF TypeInv, ClockOK, Today, Keys

Reminding(t) == kind[t] = "remind" /\ pc[t] \notin {"idle", "queued"}

\* A notification went out that has no row yet.
Holding(t) == kind[t] = "remind" /\ pc[t] = "record" /\ ok[t]

Holds(t, k) == Holding(t) /\ cur[t] = {k[1]} /\ DaysLeft(t, k[1]) = k[3]

Sending(t) == kind[t] = "remind" /\ (pc[t] = "send" \/ Holding(t))

OneBatch == \A t, u \in Tasks : Reminding(t) /\ Reminding(u) => t = u

\* Between the lookup and the row there is none.
Unsent ==
  \A t \in Tasks : Sending(t) => \A s \in cur[t] : rows[<<s, Today, DaysLeft(t, s)>>] = 0

OnceEach ==
  \A k \in Keys :
    /\ rows[k] <= 1
    /\ k[2] > Today => rows[k] = 0 /\ notified[k] = 0
    /\ k[1] \notin lost => notified[k] <= 1
    /\ k[1] \notin lost /\ k[2] = Today =>
         notified[k] <= rows[k] \/ \E t \in Tasks : Holds(t, k)

Once == overlap \/ (OneBatch /\ Unsent /\ OnceEach)

\* A step that sends and records nothing, and gives up no notification
\* without a row unless it is lost.
Hushed ==
  /\ UNCHANGED <<rows, notified, now, overlap>> /\ lost \subseteq lost'
  /\ \A u \in Tasks : Reminding(u)' => Reminding(u)
  /\ \A u \in Tasks : Sending(u)' => Sending(u) /\ cur'[u] = cur[u] /\ at'[u] = at[u]
  /\ \A u \in Tasks : Holding(u) =>
       \/ Holding(u)' /\ cur'[u] = cur[u] /\ at'[u] = at[u]
       \/ cur[u] \subseteq lost'

LEMMA HushedOnce ==
  ASSUME TypeInv, Once, Hushed
  PROVE  Once'
<1>0. UNCHANGED <<rows, notified, now, overlap, Today>> /\ lost \subseteq lost'
  BY DEF Hushed, Today
<1>1. CASE overlap
  BY <1>0, <1>1 DEF Once
<1>2. CASE OneBatch /\ Unsent /\ OnceEach
  <2>0. \A u \in Tasks : \A s : at'[u] = at[u] => DaysLeft(u, s)' = DaysLeft(u, s)
    BY DEF DaysLeft
  <2>1. OneBatch'
    BY <1>2 DEF OneBatch, Hushed
  <2>2. Unsent'
    <3> SUFFICES ASSUME NEW t \in Tasks, Sending(t)', NEW s \in cur'[t]
                 PROVE  rows[<<s, Today, DaysLeft(t, s)'>>] = 0
      BY <1>0 DEF Unsent
    <3>1. Sending(t) /\ cur'[t] = cur[t] /\ at'[t] = at[t]
      BY DEF Hushed
    <3> QED BY <1>2, <2>0, <3>1 DEF Unsent
  <2>3. OnceEach'
    <3> SUFFICES ASSUME NEW k \in Keys
                 PROVE  /\ rows[k] <= 1
                        /\ k[2] > Today => rows[k] = 0 /\ notified[k] = 0
                        /\ k[1] \notin lost' => notified[k] <= 1
                        /\ k[1] \notin lost' /\ k[2] = Today =>
                             notified[k] <= rows[k] \/ \E t \in Tasks : Holds(t, k)'
      BY <1>0 DEF OnceEach
    <3>1. ASSUME NEW t \in Tasks, Holds(t, k), k[1] \notin lost' PROVE Holds(t, k)'
      <4>1. Holding(t) /\ cur[t] = {k[1]}
        BY <3>1 DEF Holds
      <4>2. Holding(t)' /\ cur'[t] = cur[t] /\ at'[t] = at[t]
        BY <3>1, <4>1 DEF Hushed
      <4> QED BY <2>0, <3>1, <4>1, <4>2 DEF Holds
    <3> QED BY <1>0, <1>2, <3>1 DEF OnceEach
  <2> QED BY <2>1, <2>2, <2>3 DEF Once
<1> QED BY <1>1, <1>2 DEF Once

\* ... as one task takes it.
LEMMA HushedAlone ==
  ASSUME TypeInv, Once, NEW t \in Tasks, Alone(t),
         UNCHANGED <<rows, notified, now, overlap>>, lost \subseteq lost',
         Reminding(t)' => Reminding(t),
         kind'[t] = "remind" => pc'[t] \notin {"send", "record"},
         Holding(t) => cur[t] \subseteq lost'
  PROVE  Once'
<1>1. \A u \in Tasks \ {t} : /\ Reminding(u)' = Reminding(u) /\ Sending(u)' = Sending(u)
                            /\ Holding(u)' = Holding(u)
                            /\ cur'[u] = cur[u] /\ at'[u] = at[u]
  BY DEF Alone, Reminding, Sending, Holding
<1>2. ~Sending(t)'
  BY DEF Sending, Holding
<1>3. Hushed
  BY <1>1, <1>2 DEF Hushed
<1> QED BY <1>3, HushedOnce

\* The only batch, with its service: what it means to send or to record.
LEMMA OnlyBatch ==
  ASSUME TypeInv, Shape, InHand, OneBatch, NEW t \in Tasks, kind[t] = "remind",
         pc[t] \in {"next", "send", "record"}
  PROVE  /\ Reminding(t)
         /\ \A u \in Tasks : Reminding(u) \/ Sending(u) \/ Holding(u) => u = t
         /\ pc[t] # "next" =>
              \E s \in Services : /\ cur[t] = {s} /\ DaysLeft(t, s) \in ReminderDays
                                /\ <<s, Today, DaysLeft(t, s)>> \in Keys
<1>1. Reminding(t)
  BY DEF Reminding
<1>2. \A u \in Tasks : Sending(u) \/ Holding(u) => Reminding(u)
  BY DEF Reminding, Sending, Holding
<1>3. \A u \in Tasks : Reminding(u) => u = t
  BY <1>1 DEF OneBatch
<1>4. ASSUME pc[t] # "next"
      PROVE  \E s \in Services : /\ cur[t] = {s} /\ DaysLeft(t, s) \in ReminderDays
                               /\ <<s, Today, DaysLeft(t, s)>> \in Keys
  <2>1. PICK s \in Services : cur[t] = {s} /\ DaysLeft(t, s) \in ReminderDays
    BY <1>4 DEF InHand, Hand
  <2> QED BY <2>1, KeyNow
<1> QED BY <1>1, <1>2, <1>3, <1>4

\* A step of the only batch keeps it the only one.
LEMMA StillOne ==
  ASSUME OneBatch, NEW t \in Tasks, Alone(t), Reminding(t)' => Reminding(t)
  PROVE  OneBatch'
<1>1. \A u \in Tasks : Reminding(u)' => Reminding(u)
  BY DEF Alone, Reminding
<1> QED BY <1>1 DEF OneBatch

LEMMA LookupOnce ==
  ASSUME TypeInv, Shape, InHand, Once, NEW t \in Tasks, NEW s \in Services, NextReminder(t, s)
  PROVE  Once'
<1>0. /\ Alone(t) /\ UNCHANGED <<rows, notified, now, overlap, lost, at, kind, ok>>
      /\ kind[t] = "remind" /\ pc[t] = "next"
  BY WorkAlone DEF Work, NextReminder, tables, history, sending, Goto
<1>1. CASE ~(isReminderDay(DaysLeft(t, s)) /\ ~reminderAlreadySentToday(s, DaysLeft(t, s)))
  <2>1. pc'[t] = "next"
    BY <1>1 DEF NextReminder, Goto, TypeInv, QueueOK
  <2> QED BY <1>0, <2>1, HushedAlone DEF Reminding, Holding
<1>2. CASE overlap
  BY <1>0, <1>2 DEF Once
<1>3. CASE /\ OneBatch /\ Unsent /\ OnceEach
           /\ isReminderDay(DaysLeft(t, s)) /\ ~reminderAlreadySentToday(s, DaysLeft(t, s))
  <2>1. cur'[t] = {s} /\ pc'[t] = "send"
    BY <1>3 DEF NextReminder, Goto, TypeInv, QueueOK
  <2>2. rows[<<s, Today, DaysLeft(t, s)>>] = 0
    <3>1. <<s, Today, DaysLeft(t, s)>> \in Keys
      BY <1>3, KeyNow DEF isReminderDay
    <3>2. rows[<<s, Today, DaysLeft(t, s)>>] \in Nat
      BY <3>1 DEF TypeInv, TablesOK
    <3> QED BY <1>3, <3>2 DEF reminderAlreadySentToday
  <2>3. \A u \in Tasks \ {t} : ~Reminding(u) /\ ~Sending(u) /\ ~Holding(u)
    BY <1>0, <1>3, OnlyBatch
  <2>4. \A u \in Tasks \ {t} : ~Sending(u)'
    BY <2>3, <1>0 DEF Alone, Sending, Holding
  <2>5. Today' = Today /\ \A z : DaysLeft(t, z)' = DaysLeft(t, z)
    BY <1>0 DEF Today, DaysLeft
  <2>6. OneBatch'
    BY <1>0, <1>3, StillOne DEF Reminding
  <2>7. Unsent'
    BY <1>0, <2>1, <2>2, <2>4, <2>5 DEF Unsent
  <2>8. \A u \in Tasks : ~Holding(u)
    BY <1>0, <2>3 DEF Holding
  <2>9. OnceEach'
    BY <1>0, <1>3, <2>5, <2>8 DEF OnceEach, Holds
  <2> QED BY <2>6, <2>7, <2>9 DEF Once
<1> QED BY <1>1, <1>2, <1>3 DEF Once

\* The notification, with or without its answer.
LEMMA PostOnce ==
  ASSUME TypeInv, Shape, InHand, Once, NEW t \in Tasks, Alone(t), kind[t] = "remind",
         pc[t] = "send", pc'[t] = "record",
         UNCHANGED <<rows, now, overlap, kind, cur, at>>, lost \subseteq lost',
         \/ Notified(t) /\ (ok'[t] \/ cur[t] \subseteq lost')
         \/ UNCHANGED notified
  PROVE  Once'
<1>1. CASE overlap
  BY <1>1 DEF Once
<1>2. CASE OneBatch /\ Unsent /\ OnceEach
  <2>1. PICK s \in Services : /\ cur[t] = {s} /\ DaysLeft(t, s) \in ReminderDays
                             /\ <<s, Today, DaysLeft(t, s)>> \in Keys
    BY <1>2, OnlyBatch
  <2> DEFINE key == <<s, Today, DaysLeft(t, s)>>
  <2>2. \A u \in Tasks \ {t} : ~Reminding(u) /\ ~Sending(u) /\ ~Holding(u)
    BY <1>2, OnlyBatch
  <2>3. \A u \in Tasks \ {t} : ~Sending(u)'
    BY <2>2 DEF Alone, Sending, Holding
  <2>4. Today' = Today /\ \A z : DaysLeft(t, z)' = DaysLeft(t, z)
    BY DEF Today, DaysLeft
  <2>5. OneBatch'
    BY <1>2, StillOne DEF Reminding
  <2>6. rows[key] = 0
    BY <1>2, <2>1 DEF Unsent, Sending
  <2>7. Unsent'
    BY <2>1, <2>3, <2>4, <2>6 DEF Unsent
  <2>8. \A k \in Keys : notified'[k] # notified[k] =>
          k = key /\ notified'[k] = notified[k] + 1 /\ (ok'[t] \/ s \in lost')
    <3>1. CASE UNCHANGED notified
      BY <3>1
    <3>2. CASE Notified(t) /\ (ok'[t] \/ cur[t] \subseteq lost')
      <4>1. notified' = [notified EXCEPT ![key] = @ + 1]
        BY <2>1, <3>2 DEF Notified
      <4> QED BY <2>1, <3>2, <4>1 DEF TypeInv, HistoryOK
    <3> QED BY <3>1, <3>2
  <2>9. \A u \in Tasks : ~Holding(u)
    BY <2>2 DEF Holding
  <2>10. OnceEach'
    <3> SUFFICES ASSUME NEW k \in Keys
                 PROVE  /\ rows[k] <= 1
                        /\ k[2] > Today => rows[k] = 0 /\ notified'[k] = 0
                        /\ k[1] \notin lost' => notified'[k] <= 1
                        /\ k[1] \notin lost' /\ k[2] = Today =>
                             notified'[k] <= rows[k] \/ \E u \in Tasks : Holds(u, k)'
      BY <2>4 DEF OnceEach
    <3>1. CASE notified'[k] = notified[k]
      BY <1>2, <2>9, <3>1 DEF OnceEach, Holds
    <3>2. CASE notified'[k] # notified[k]
      <4>1. /\ k = key /\ notified'[k] = notified[k] + 1 /\ (ok'[t] \/ s \in lost')
            /\ k[1] = s /\ k[2] = Today /\ k[3] = DaysLeft(t, s)
        BY <2>8, <3>2
      <4>2. notified[k] \in Nat /\ Today \in Nat
        BY Days DEF TypeInv, HistoryOK, ClockOK, Today
      <4>3. s \notin lost' => notified[k] = 0
        <5>1. s \notin lost' => notified[k] <= rows[k]
          BY <1>2, <2>9, <4>1 DEF OnceEach, Holds
        <5> QED BY <2>6, <4>1, <4>2, <5>1
      <4>4. s \notin lost' => Holds(t, k)'
        BY <2>1, <2>4, <4>1 DEF Holds, Holding
      <4> QED BY <1>2, <4>1, <4>2, <4>3, <4>4 DEF OnceEach
    <3> QED BY <3>1, <3>2
  <2> QED BY <2>5, <2>7, <2>10 DEF Once
<1> QED BY <1>1, <1>2 DEF Once

\* The row of a notification.
LEMMA RowOnce ==
  ASSUME TypeInv, Shape, InHand, Once, NEW t \in Tasks, Alone(t), kind[t] = "remind",
         pc[t] = "record", ok[t], pc'[t] = "next", Recorded(t),
         UNCHANGED <<notified, now, overlap, lost, kind, at>>
  PROVE  Once'
<1>1. CASE overlap
  BY <1>1 DEF Once
<1>2. CASE OneBatch /\ Unsent /\ OnceEach
  <2>1. PICK s \in Services : /\ cur[t] = {s} /\ DaysLeft(t, s) \in ReminderDays
                             /\ <<s, Today, DaysLeft(t, s)>> \in Keys
    BY <1>2, OnlyBatch
  <2> DEFINE key == <<s, Today, DaysLeft(t, s)>>
  <2>2. \A u \in Tasks \ {t} : ~Reminding(u) /\ ~Sending(u) /\ ~Holding(u)
    BY <1>2, OnlyBatch
  <2>3. \A u \in Tasks : ~Sending(u)'
    BY <2>2 DEF Alone, Sending, Holding
  <2>4. Today' = Today
    BY DEF Today
  <2>5. OneBatch'
    BY <1>2, StillOne DEF Reminding
  <2>6. rows[key] = 0
    BY <1>2, <2>1 DEF Unsent, Sending, Holding
  <2>7. rows' = [rows EXCEPT ![key] = @ + 1]
    BY <2>1 DEF Recorded
  <2>8. rows'[key] = 1 /\ \A k \in Keys : k # key => rows'[k] = rows[k]
    BY <2>1, <2>6, <2>7 DEF TypeInv, TablesOK
  <2>9. OnceEach'
    <3> SUFFICES ASSUME NEW k \in Keys
                 PROVE  /\ rows'[k] <= 1
                        /\ k[2] > Today => rows'[k] = 0 /\ notified[k] = 0
                        /\ k[1] \notin lost => notified[k] <= 1
                        /\ k[1] \notin lost /\ k[2] = Today => notified[k] <= rows'[k]
      BY <2>4 DEF OnceEach
    <3>0. Today \in Nat
      BY Days DEF TypeInv, ClockOK, Today
    <3>1. CASE k = key
      <4>1. k[2] = Today /\ ~(Today > Today)
        BY <3>0, <3>1
      <4> QED BY <1>2, <2>8, <3>1, <4>1 DEF OnceEach
    <3>2. CASE k # key
      <4>1. ASSUME NEW u \in Tasks, Holds(u, k), k[2] = Today PROVE FALSE
        <5>1. u = t
          BY <2>2, <4>1 DEF Holds
        <5>2. k[1] = s /\ k[3] = DaysLeft(t, s)
          BY <2>1, <4>1, <5>1 DEF Holds
        <5> QED BY <3>2, <4>1, <5>2, KeyParts
      <4> QED BY <1>2, <2>8, <3>2, <4>1 DEF OnceEach
    <3> QED BY <3>1, <3>2
  <2> QED BY <2>3, <2>5, <2>9 DEF Once, Unsent
<1> QED BY <1>1, <1>2 DEF Once

LEMMA PassOnce ==
  ASSUME TypeInv, InHand, Once, Pass
  PROVE  Once'
<1>0. /\ now' = now + 1 /\ now < Horizon
      /\ UNCHANGED <<rows, notified, overlap, lost, kind, pc, cur, at, ok>>
  BY DEF Pass, tables, queue, locals
<1>1. CASE overlap
  BY <1>0, <1>1 DEF Once
<1>2. CASE OneBatch /\ Unsent /\ OnceEach
  <2>1. Today \in Dates /\ Today' \in Dates /\ Today <= Today'
    <3>1. now \in 0 .. Horizon /\ now' \in 0 .. Horizon /\ now <= now'
      BY <1>0, Constants DEF TypeInv, ClockOK
    <3>2. now \in Nat /\ now' \in Nat
      BY <3>1, Days
    <3>3. now \div Day \in Dates /\ now' \div Day \in Dates
      BY <3>1, Days
    <3>4. now \div Day <= now' \div Day
      BY <3>1, <3>2, Days
    <3> QED BY <3>3, <3>4 DEF Today
  <2>2. Today \in Nat /\ Today' \in Nat
    BY <2>1, Days
  <2>3. /\ \A u \in Tasks : \A s : DaysLeft(u, s)' = DaysLeft(u, s)
        /\ \A u \in Tasks : /\ Reminding(u)' = Reminding(u) /\ Sending(u)' = Sending(u)
                           /\ Holding(u)' = Holding(u)
    BY <1>0 DEF DaysLeft, Reminding, Sending, Holding
  <2>4. OneBatch'
    BY <1>2, <2>3 DEF OneBatch
  <2>5. Unsent'
    <3> SUFFICES ASSUME NEW t \in Tasks, Sending(t), NEW s \in cur[t]
                 PROVE  rows[<<s, Today', DaysLeft(t, s)>>] = 0
      BY <1>0, <2>3 DEF Unsent
    <3>1. CASE Today' = Today
      BY <1>2, <3>1 DEF Unsent
    <3>2. CASE Today' # Today
      <4>1. s \in Services /\ DaysLeft(t, s) \in ReminderDays
        BY DEF InHand, Hand, Sending, Holding
      <4>2. <<s, Today', DaysLeft(t, s)>> \in Keys
        BY <2>1, <4>1 DEF Keys
      <4>3. Today' > Today
        BY <2>1, <2>2, <3>2
      <4> QED BY <1>2, <4>2, <4>3 DEF OnceEach
    <3> QED BY <3>1, <3>2
  <2>6. OnceEach'
    <3> SUFFICES ASSUME NEW k \in Keys
                 PROVE  /\ rows[k] <= 1
                        /\ k[2] > Today' => rows[k] = 0 /\ notified[k] = 0
                        /\ k[1] \notin lost => notified[k] <= 1
                        /\ k[1] \notin lost /\ k[2] = Today' =>
                             notified[k] <= rows[k] \/ \E t \in Tasks : Holds(t, k)
      BY <1>0, <2>3 DEF OnceEach, Holds
    <3>1. k[2] \in Nat
      BY KeyParts, Days
    <3>2. k[2] > Today' => k[2] > Today
      BY <2>1, <2>2, <3>1
    <3>3. k[2] = Today' => k[2] = Today \/ k[2] > Today
      BY <2>1, <2>2, <3>1
    <3>4. k[2] > Today => notified[k] <= rows[k]
      BY <1>2 DEF OnceEach
    <3> QED BY <1>2, <3>2, <3>3, <3>4 DEF OnceEach
  <2> QED BY <2>4, <2>5, <2>6 DEF Once
<1> QED BY <1>1, <1>2 DEF Once

LEMMA StartOnce ==
  ASSUME TypeInv, Once, NEW t \in Tasks, StartRemind(t)
  PROVE  Once'
<1>0. /\ Alone(t) /\ UNCHANGED <<rows, notified, now, lost, kind, cur, at>>
      /\ kind[t] = "remind" /\ pc[t] = "queued" /\ pc'[t] = "listed"
      /\ overlap' = (overlap \/ \E u \in Tasks : kind[u] = "remind" /\ pc[u] \in Running)
  BY WorkAlone DEF Work, StartRemind, tables, Goto, TypeInv, QueueOK
<1>1. CASE overlap'
  BY <1>1 DEF Once
<1>2. CASE ~overlap'
  <2>1. OneBatch /\ Unsent /\ OnceEach
    BY <1>0, <1>2 DEF Once
  <2>2. \A u \in Tasks : ~Reminding(u)
    BY <1>0, <1>2 DEF Reminding, TypeInv, QueueOK, PC
  <2>3. \A u \in Tasks \ {t} : ~Reminding(u)'
    BY <1>0, <2>2 DEF Reminding, Alone
  <2>4. \A u \in Tasks : ~Sending(u) /\ ~Holding(u) /\ ~Sending(u)' /\ ~Holding(u)'
    <3>1. \A u \in Tasks : ~Sending(u) /\ ~Holding(u)
      BY <2>2 DEF Reminding, Sending, Holding
    <3>2. \A u \in Tasks \ {t} : ~Sending(u)' /\ ~Holding(u)'
      BY <2>3 DEF Reminding, Sending, Holding
    <3>3. ~Sending(t)' /\ ~Holding(t)'
      BY <1>0 DEF Sending, Holding
    <3> QED BY <3>1, <3>2, <3>3
  <2>5. Today' = Today
    BY <1>0 DEF Today
  <2>6. OnceEach'
    BY <1>0, <2>1, <2>4, <2>5 DEF OnceEach, Holds
  <2> QED BY <2>3, <2>4, <2>6 DEF Once, OneBatch, Unsent
<1> QED BY <1>1, <1>2

LEMMA RestartOnce ==
  ASSUME TypeInv, Once, Restart
  PROVE  Once'
<1>1. /\ UNCHANGED <<rows, notified, now, overlap, kind>> /\ lost \subseteq lost'
  BY DEF Restart, tables
<1>2. \A u \in Tasks : pc'[u] \in {"idle", "queued"}
  <2> SUFFICES ASSUME NEW u \in Tasks PROVE pc'[u] \in {"idle", "queued"}
    OBVIOUS
  <2>1. pc'[u] = IF pc[u] \notin Running THEN pc[u]
                 ELSE IF retried[u] < MaxRetry THEN "queued" ELSE "idle"
    BY DEF Restart
  <2> QED BY <2>1 DEF TypeInv, QueueOK, PC
<1>3. \A u \in Tasks : Holding(u) => cur[u] \subseteq lost'
  <2> SUFFICES ASSUME NEW u \in Tasks, Holding(u), NEW s \in cur[u] PROVE s \in lost'
    OBVIOUS
  <2>1. u \in {x \in Tasks : pc[x] = "record" /\ ok[x]}
    BY DEF Holding
  <2>2. lost' = lost \cup UNION {cur[x] : x \in {y \in Tasks : pc[y] = "record" /\ ok[y]}}
    BY DEF Restart
  <2> QED BY <2>1, <2>2
<1>4. \A u \in Tasks : ~Reminding(u)' /\ ~Sending(u)'
  BY <1>2 DEF Reminding, Sending, Holding
<1>5. Hushed
  BY <1>1, <1>3, <1>4 DEF Hushed
<1> QED BY <1>5, HushedOnce

LEMMA OnceStep == TypeInv /\ Shape /\ InHand /\ Once /\ [Next]_vars => Once'
<1> SUFFICES ASSUME TypeInv, Shape, InHand, Once, [Next]_vars PROVE Once'
  OBVIOUS
<1> USE DEF tables, queue, locals, sending, history, Goto
<1>0. /\ kind \in [Tasks -> Kinds] /\ pc \in [Tasks -> PC] /\ cur \in [Tasks -> SUBSET Services]
      /\ ok \in [Tasks -> BOOLEAN]
  BY DEF TypeInv, QueueOK
<1>1. ASSUME UNCHANGED <<rows, notified, now, overlap, lost, kind, pc, cur, at, ok>> PROVE Once'
  <2>1. \A u \in Tasks : /\ Reminding(u)' = Reminding(u) /\ Sending(u)' = Sending(u)
                       /\ Holding(u)' = Holding(u)
    BY <1>1 DEF Reminding, Sending, Holding
  <2>2. Hushed
    BY <1>1, <2>1 DEF Hushed
  <2> QED BY <2>2, HushedOnce
<1>2. CASE UNCHANGED vars \/ TickFails
  BY <1>1, <1>2 DEF vars, TickFails
<1>3. ASSUME NEW t \in Tasks, NEW k, NEW S, Enqueue(t, k, S),
             UNCHANGED <<rows, notified, now, overlap, lost>>
      PROVE Once'
  <2>1. Alone(t) /\ pc[t] = "idle" /\ pc'[t] = "queued"
    BY <1>3, EnqueueAlone DEF TypeInv
  <2> QED BY <1>3, <2>1, HushedAlone DEF Reminding, Holding
<1>4. ASSUME NEW t \in Tasks, TickRemind(t) \/ TickExpire(t) PROVE Once'
  BY <1>3, <1>4 DEF TickRemind, TickExpire
<1>5. ASSUME NEW t \in Tasks, NEW k \in Asked, NEW s \in Services, Ask(t, k, s) PROVE Once'
  BY <1>3, <1>5 DEF Ask
<1>6. ASSUME NEW r \in Requests, Serve(r) PROVE Once'
  BY <1>1, <1>3, <1>6 DEF Serve, Begin, AdminReads, PaymentReads, RequestUpdates, RequestEnqueues,
     EnqueueFails, RequestEnds, Undo, HasJob, RequestFails
<1>7. ASSUME NEW t \in Tasks, Ack(t) \/ Requeue(t), ~Holding(t),
             UNCHANGED <<rows, notified, now, overlap, lost>>
      PROVE Once'
  <2>1. Alone(t) /\ pc'[t] \in {"idle", "queued"}
    BY <1>7, EndAlone DEF TypeInv, HistoryOK
  <2> QED BY <1>7, <2>1, HushedAlone DEF Reminding
<1>8. ASSUME NEW t \in Tasks, Alone(t), UNCHANGED kind,
             kind[t] # "remind" \/ (pc[t] \in {"listed", "next"} /\ pc'[t] = "next"),
             UNCHANGED <<rows, notified, now, overlap, lost>>
      PROVE Once'
  BY <1>8, HushedAlone DEF Reminding, Holding
<1>9. ASSUME NEW t \in Tasks, Work(t) PROVE Once'
  <2>0. Alone(t)
    BY <1>9, WorkAlone
  <2>1. CASE StartExpire(t) \/ SuspendExpired(t)
    BY <1>8, <2>0, <2>1 DEF StartExpire, SuspendExpired
  <2>2. CASE TakeTime(t)
    BY <1>0, <1>8, <2>0, <2>2 DEF TakeTime
  <2>3. CASE Send(t)
    <3>1. /\ kind[t] = "remind" /\ pc[t] = "send" /\ pc'[t] = "record" /\ Notified(t)
          /\ UNCHANGED <<rows, now, overlap, kind, cur, at, lost>> /\ ok'[t]
      BY <1>0, <2>3 DEF Send
    <3> QED BY <2>0, <3>1, PostOnce
  <2>4. CASE Record(t)
    <3>1. /\ kind[t] = "remind" /\ pc[t] = "record" /\ pc'[t] = "next" /\ Recorded(t)
          /\ UNCHANGED <<notified, now, overlap, lost, kind, at>>
      BY <1>0, <2>4 DEF Record
    <3>2. CASE ok[t]
      BY <2>0, <3>1, <3>2, RowOnce
    <3>3. CASE ~ok[t]
      <4>1. UNCHANGED rows
        BY <3>1, <3>3 DEF Recorded
      <4> QED BY <2>0, <3>1, <3>3, <4>1, HushedAlone DEF Reminding, Holding
    <3> QED BY <3>2, <3>3
  <2>5. ASSUME NEW s \in Services, ReadService(t, s) PROVE Once'
    BY <1>8, <2>0, <2>5 DEF ReadService
  <2>6. CASE EndLoop(t) \/ EndForOne(t)
    BY <1>7, <2>6 DEF EndLoop, EndForOne, Holding
  <2>7. CASE StartForOne(t) \/ WriteStatus(t) \/ CommitInvoice(t)
    BY <1>8, <2>0, <2>7 DEF StartForOne, WriteStatus, CommitInvoice, ForOne, Asked
  <2> QED BY <1>9, <2>1, <2>2, <2>3, <2>4, <2>5, <2>6, <2>7, StartOnce, LookupOnce DEF Work
<1>10. ASSUME NEW t \in Tasks, Fails(t) PROVE Once'
  <2>0. Alone(t)
    BY <1>10, FailsAlone
  <2>1. CASE StartFails(t) \/ BatchAborts(t) \/ UpdateFails(t) \/ WrittenFails(t)
    BY <1>7, <2>1 DEF StartFails, BatchAborts, UpdateFails, WrittenFails, Holding
  <2>2. CASE ExpireFails(t)
    BY <1>8, <2>0, <2>2 DEF ExpireFails
  <2>3. CASE LookupFails(t)
    BY <1>0, <1>8, <2>0, <2>3 DEF LookupFails
  <2>4. CASE SendFails(t)
    <3>1. /\ kind[t] = "remind" /\ pc[t] = "send" /\ pc'[t] = "record"
          /\ UNCHANGED <<rows, now, overlap, kind, cur, at>> /\ lost \subseteq lost'
          /\ UNCHANGED notified \/ (Notified(t) /\ cur[t] \subseteq lost')
      BY <1>0, <2>4 DEF SendFails
    <3> QED BY <2>0, <3>1, PostOnce
  <2>5. CASE RecordFails(t)
    <3>1. /\ kind[t] = "remind" /\ pc[t] = "record" /\ pc'[t] = "next"
          /\ UNCHANGED <<notified, now, overlap, kind, at>>
          /\ \/ lost' = (IF ok[t] THEN lost \cup cur[t] ELSE lost) /\ UNCHANGED rows
             \/ Recorded(t) /\ UNCHANGED lost
      BY <1>0, <2>5 DEF RecordFails
    <3>2. CASE Recorded(t) /\ UNCHANGED lost /\ ok[t]
      BY <2>0, <3>1, <3>2, RowOnce
    <3>3. CASE Recorded(t) /\ UNCHANGED lost /\ ~ok[t]
      <4>1. UNCHANGED rows
        BY <3>3 DEF Recorded
      <4> QED BY <2>0, <3>1, <3>3, <4>1, HushedAlone DEF Reminding, Holding
    <3>4. CASE lost' = (IF ok[t] THEN lost \cup cur[t] ELSE lost) /\ UNCHANGED rows
      <4>1. lost \subseteq lost' /\ (Holding(t) => cur[t] \subseteq lost')
        BY <3>4 DEF Holding
      <4> QED BY <2>0, <3>1, <3>4, <4>1, HushedAlone DEF Reminding
    <3> QED BY <3>1, <3>2, <3>3, <3>4
  <2> QED BY <1>10, <2>1, <2>2, <2>3, <2>4, <2>5 DEF Fails
<1> QED BY <1>2, <1>4, <1>5, <1>6, <1>9, <1>10, PassOnce, RestartOnce DEF Next

LEMMA InitOnce == Init => Once
<1> SUFFICES ASSUME Init PROVE Once
  OBVIOUS
<1>1. \A t \in Tasks : ~Reminding(t) /\ ~Sending(t) /\ ~Holding(t)
  BY DEF Init, Reminding, Sending, Holding
<1>2. \A k \in Keys : rows[k] = 0 /\ notified[k] = 0
  BY DEF Init
<1> QED BY <1>1, <1>2 DEF Once, OneBatch, Unsent, OnceEach

(***************************************************************************)
(* How often a customer hears of the days that are left: RemindedOnce, for *)
(* any services, expiries and retries, across midnight, failures and       *)
(* restarts.  The lookup of the day's row and the row itself are not one   *)
(* step; what is between them is the notification.                         *)
(***************************************************************************)
THEOREM RemindersOnce == Spec => []RemindedOnce
<1>1. TypeInv /\ Once => RemindedOnce
  BY DEF Once, OnceEach, RemindedOnce
<1>2. Spec => []Once
  BY InitOnce, OnceStep, Types, Shapes, Hands, PTL DEF Spec
<1> QED BY <1>1, <1>2, Types, PTL

-----------------------------------------------------------------------------
(* No count of days is missed                                              *)

\* What d days left means.
LEMMA LeftMeans ==
  ASSUME NEW e \in Nat, NEW T \in Nat, NEW d \in ReminderDays
  PROVE  daysUntil(e, T) = d <=> T < e /\ T + (d - 1) * Day < e /\ e <= T + d * Day
<1>1. Day \in Nat \ {0} /\ d \in {1, 3, 7}
  BY Days DEF ReminderDays
<1>2. ASSUME T < e
      PROVE  (e - T + Day - 1) \div Day = d <=> T + (d - 1) * Day < e /\ e <= T + d * Day
  <2> DEFINE n == e - T + Day - 1
  <2>1. n \in Nat
    BY <1>1, <1>2
  <2>2. ASSUME n \div Day = d PROVE T + (d - 1) * Day < e /\ e <= T + d * Day
    <3>1. d * Day <= n /\ n < d * Day + Day
      BY <1>1, <2>1, <2>2
    <3> QED BY <1>1, <3>1
  <2>3. ASSUME T + (d - 1) * Day < e, e <= T + d * Day PROVE n \div Day = d
    <3>1. d * Day <= n /\ n < d * Day + Day
      BY <1>1, <2>3
    <3>2. d \in Nat
      BY <1>1
    <3> HIDE DEF n
    <3> QED BY <1>1, <2>1, <3>1, <3>2
  <2> QED BY <2>2, <2>3
<1>3. CASE e <= T
  <2>1. daysUntil(e, T) = 0 /\ d # 0
    BY <1>1, <1>3 DEF daysUntil
  <2> QED BY <1>3, <2>1
<1>4. CASE T < e
  <2>1. daysUntil(e, T) = (e - T + Day - 1) \div Day
    BY <1>4 DEF daysUntil
  <2> QED BY <1>2, <1>4, <2>1
<1> QED BY <1>3, <1>4

\* ... and fewer, and more.
LEMMA AtMost ==
  ASSUME NEW e \in Nat, NEW T \in Nat, NEW d \in ReminderDays
  PROVE  /\ daysUntil(e, T) \in Nat
         /\ e <= T + (d - 1) * Day => daysUntil(e, T) <= d - 1
<1>1. Day \in Nat \ {0} /\ d \in {1, 3, 7}
  BY Days DEF ReminderDays
<1>2. CASE e <= T
  <2>1. daysUntil(e, T) = 0
    BY <1>2 DEF daysUntil
  <2> QED BY <1>1, <2>1
<1>3. CASE T < e
  <2> DEFINE n == e - T + Day - 1
  <2>1. n \in Nat /\ daysUntil(e, T) = n \div Day
    BY <1>1, <1>3 DEF daysUntil
  <2>2. n \div Day \in Nat /\ (n \div Day) * Day <= n
    BY <1>1, <2>1
  <2>3. ASSUME e <= T + (d - 1) * Day, n \div Day >= d PROVE FALSE
    <3>1. n < d * Day
      BY <1>1, <1>3, <2>3
    <3>2. d * Day <= (n \div Day) * Day
      <4> HIDE DEF n
      <4> QED BY <1>1, <2>2, <2>3
    <3> HIDE DEF n
    <3> QED BY <1>1, <2>1, <2>2, <3>1, <3>2
  <2> HIDE DEF n
  <2> QED BY <1>1, <2>1, <2>2, <2>3
<1> QED BY <1>2, <1>3

LEMMA AtLeast ==
  ASSUME NEW e \in Nat, NEW T \in Nat, NEW d \in ReminderDays, T + (d - 1) * Day < e
  PROVE  daysUntil(e, T) >= d
<1>1. Day \in Nat \ {0} /\ d \in {1, 3, 7}
  BY Days DEF ReminderDays
<1> DEFINE n == e - T + Day - 1
<1>2. T < e
  BY <1>1
<1>3. n \in Nat /\ daysUntil(e, T) = n \div Day
  BY <1>1, <1>2 DEF daysUntil
<1>4. d * Day <= n
  BY <1>1, <1>2
<1> HIDE DEF n
<1>5. n < (n \div Day) * Day + Day /\ n \div Day \in Nat
  BY <1>1, <1>3
<1>6. ASSUME n \div Day < d PROVE FALSE
  <2>1. (n \div Day) * Day + Day <= d * Day
    BY <1>1, <1>5, <1>6
  <2> QED BY <1>1, <1>3, <1>4, <1>5, <2>1
<1> QED BY <1>1, <1>3, <1>5, <1>6

\* What has happened is not forgotten.
LEMMA Grows ==
  ASSUME TypeInv, [Next]_vars
  PROVE  /\ hit \subseteq hit' /\ left \subseteq left' /\ late \subseteq late' /\ UNCHANGED start
         /\ \A s \in Services, d \in ReminderDays : Reminded(s, d) => Reminded(s, d)'
         /\ \/ UNCHANGED nextRemind
            \/ \E t \in Tasks : TickRemind(t)
            \/ hit' = Services
<1> USE DEF tables, sending, outcome, history, bounds, Fault
<1>0. /\ rows \in [Keys -> Nat] /\ hit \subseteq Services
      /\ \A s \in Services, d \in ReminderDays, date \in Dates : <<s, date, d>> \in Keys
  BY DEF TypeInv, TablesOK, HistoryOK, Keys
<1>1. ASSUME UNCHANGED rows
      PROVE  \A s \in Services, d \in ReminderDays : Reminded(s, d) => Reminded(s, d)'
  BY <1>1 DEF Reminded
<1>2. ASSUME NEW t \in Tasks, Recorded(t)
      PROVE  \A s \in Services, d \in ReminderDays : Reminded(s, d) => Reminded(s, d)'
  <2>1. PICK z \in cur[t] :
          rows' = IF ok[t] THEN [rows EXCEPT ![<<z, Today, DaysLeft(t, z)>>] = @ + 1] ELSE rows
    BY <1>2 DEF Recorded
  <2>2. \A k \in Keys : rows[k] > 0 => rows'[k] > 0
    BY <1>0, <2>1
  <2> QED BY <1>0, <2>2 DEF Reminded
<1>3. CASE UNCHANGED vars \/ Pass
  BY <1>1, <1>3 DEF vars, Pass
<1>4. CASE TickFails \/ Restart
  BY <1>0, <1>1, <1>4 DEF TickFails, Restart
<1>5. ASSUME NEW t \in Tasks, TickRemind(t) \/ TickExpire(t)
      PROVE  /\ UNCHANGED <<rows, hit, left, late, start>>
             /\ TickRemind(t) \/ UNCHANGED nextRemind
  BY <1>5 DEF TickRemind, TickExpire
<1>6. ASSUME NEW t \in Tasks, NEW k \in Asked, NEW s \in Services, Ask(t, k, s)
      PROVE  UNCHANGED <<rows, hit, left, late, start, nextRemind>>
  BY <1>6 DEF Ask
<1>7. ASSUME NEW r \in Requests, Serve(r)
      PROVE  UNCHANGED <<rows, hit, late, start, nextRemind>> /\ left \subseteq left'
  BY <1>7 DEF Serve, Begin, AdminReads, PaymentReads, RequestUpdates, RequestEnqueues,
     EnqueueFails, RequestEnds, Undo, HasJob, RequestFails, SetStatus
<1>8. ASSUME NEW t \in Tasks, Work(t)
      PROVE  /\ UNCHANGED <<hit, late, start, nextRemind>> /\ left \subseteq left'
             /\ UNCHANGED rows \/ Recorded(t)
  <2>1. CASE StartExpire(t) \/ SuspendExpired(t) \/ StartRemind(t) \/ TakeTime(t) \/ Send(t)
    BY <2>1 DEF StartExpire, SuspendExpired, StartRemind, TakeTime, Send
  <2>2. CASE Record(t) \/ EndLoop(t) \/ StartForOne(t) \/ CommitInvoice(t) \/ EndForOne(t)
    BY <2>2 DEF Record, EndLoop, StartForOne, CommitInvoice, EndForOne
  <2>3. CASE WriteStatus(t)
    BY <2>3 DEF WriteStatus
  <2>4. ASSUME NEW s \in Services, ReadService(t, s) \/ NextReminder(t, s)
        PROVE UNCHANGED <<hit, late, start, nextRemind, left, rows>>
    BY <2>4 DEF ReadService, NextReminder
  <2> QED BY <1>8, <2>1, <2>2, <2>3, <2>4 DEF Work
<1>9. ASSUME NEW t \in Tasks, Fails(t)
      PROVE  /\ UNCHANGED <<late, start, nextRemind, left>> /\ hit \subseteq hit'
             /\ UNCHANGED rows \/ Recorded(t)
  <2>1. CASE StartFails(t) \/ BatchAborts(t) \/ UpdateFails(t) \/ WrittenFails(t)
    BY <1>0, <2>1 DEF StartFails, BatchAborts, UpdateFails, WrittenFails
  <2>2. CASE ExpireFails(t) \/ LookupFails(t)
    BY <2>2 DEF ExpireFails, LookupFails
  <2>3. CASE SendFails(t)
    BY <2>3 DEF SendFails
  <2>4. CASE RecordFails(t)
    BY <2>4 DEF RecordFails
  <2> QED BY <1>9, <2>1, <2>2, <2>3, <2>4 DEF Fails
<1> QED BY <1>1, <1>2, <1>3, <1>4, <1>5, <1>6, <1>7, <1>8, <1>9 DEF Next

\* A service that has not left is active; one of whose days none went by while
\* a batch was waiting finds it at the count it was due at; a notification that
\* failed is a failure that concerned its service.
Active == \A s \in Services \ left : service[s] = "active"

OnTime ==
  \A s \in Services \ late :
    now >= nextRemind => daysUntil(Expires[s], now) = daysUntil(Expires[s], nextRemind)

Missed(t) == kind[t] = "remind" /\ pc[t] = "record" /\ ~ok[t] => cur[t] \subseteq hit

Undelivered == \A t \in Tasks : Missed(t)

LEMMA ActiveStep == TypeInv /\ Active /\ [Next]_vars => Active'
<1> SUFFICES ASSUME TypeInv, Active, [Next]_vars PROVE Active'
  OBVIOUS
<1>0. left \subseteq left' /\ service \in [Services -> ServiceStatus]
  BY Grows DEF TypeInv, TablesOK
<1>1. ASSUME UNCHANGED service PROVE Active'
  BY <1>0, <1>1 DEF Active
<1>2. ASSUME NEW s, NEW st, service' = [service EXCEPT ![s] = st], s \in left' \/ st = "active"
      PROVE  Active'
  BY <1>0, <1>2 DEF Active
<1>3. ASSUME NEW t \in Tasks, SuspendExpired(t) PROVE Active'
  <2>1. PICK s \in cur[t] : service' = [service EXCEPT ![s] = "suspended"] /\ left' = left \cup {s}
    BY <1>3 DEF SuspendExpired
  <2> QED BY <1>2, <2>1
<1>4. ASSUME NEW t \in Tasks, WriteStatus(t) PROVE Active'
  <2>1. PICK s \in cur[t] :
          /\ service' = [service EXCEPT ![s] = Target(kind[t])]
          /\ left' = IF kind[t] = "provision" THEN left ELSE left \cup {s}
    BY <1>4 DEF WriteStatus
  <2>2. kind[t] = "provision" => Target(kind[t]) = "active"
    BY DEF Target
  <2> QED BY <1>2, <2>1, <2>2
<1>5. ASSUME NEW r \in Requests, NEW st, SetStatus(r, st) PROVE Active'
  <2>1. PICK s \in request[r].of : service' = [service EXCEPT ![s] = st] /\ left' = left \cup {s}
    BY <1>5 DEF SetStatus
  <2> QED BY <1>2, <2>1
<1> QED BY <1>1, <1>3, <1>4, <1>5, StatusSteps

LEMMA OnTimeStep == TypeInv /\ OnTime /\ [Next]_vars => OnTime'
<1> SUFFICES ASSUME TypeInv, OnTime, [Next]_vars PROVE OnTime'
  OBVIOUS
<1> USE DEF tables, sending, outcome, history, bounds, Fault
<1>0. /\ now \in Nat /\ nextRemind \in Nat /\ Day \in Nat \ {0} /\ late \subseteq late'
  BY Grows, Days DEF TypeInv, ClockOK
<1>1. ASSUME UNCHANGED <<now, nextRemind>> PROVE OnTime'
  BY <1>0, <1>1 DEF OnTime
<1>2. ASSUME now' = now, nextRemind' = now + Day PROVE OnTime'
  <2>1. ~(now' >= nextRemind')
    BY <1>0, <1>2
  <2> QED BY <2>1 DEF OnTime
<1>3. CASE Pass
  <2>1. /\ now' = now + 1 /\ UNCHANGED nextRemind
        /\ late' = IF BatchWaits
                   THEN late \cup {s \in Services :
                          daysUntil(Expires[s], now + 1) # daysUntil(Expires[s], now)}
                   ELSE late
    BY <1>3 DEF Pass
  <2> SUFFICES ASSUME NEW s \in Services \ late', now + 1 >= nextRemind
               PROVE  daysUntil(Expires[s], now + 1) = daysUntil(Expires[s], nextRemind)
    BY <2>1 DEF OnTime
  <2>2. CASE now >= nextRemind
    <3>1. BatchWaits
      BY <2>2 DEF BatchWaits
    <3>2. daysUntil(Expires[s], now + 1) = daysUntil(Expires[s], now)
      BY <2>1, <3>1
    <3>3. daysUntil(Expires[s], now) = daysUntil(Expires[s], nextRemind)
      BY <1>0, <2>2 DEF OnTime
    <3> QED BY <3>2, <3>3
  <2>3. CASE ~(now >= nextRemind)
    <3>1. now + 1 = nextRemind
      BY <1>0, <2>3
    <3> QED BY <3>1
  <2> QED BY <2>2, <2>3
<1>4. CASE UNCHANGED vars
  BY <1>1, <1>4 DEF vars
<1>5. CASE TickFails \/ Restart
  BY <1>2, <1>5 DEF TickFails, Restart
<1>6. ASSUME NEW t \in Tasks, TickRemind(t) \/ TickExpire(t) PROVE OnTime'
  BY <1>1, <1>2, <1>6 DEF TickRemind, TickExpire
<1>7. ASSUME NEW t \in Tasks, NEW k \in Asked, NEW s \in Services, Ask(t, k, s) PROVE OnTime'
  BY <1>1, <1>7 DEF Ask
<1>8. ASSUME NEW r \in Requests, Serve(r) PROVE OnTime'
  BY <1>1, <1>8 DEF Serve, Begin, AdminReads, PaymentReads, RequestUpdates, RequestEnqueues,
     EnqueueFails, RequestEnds, Undo, HasJob, RequestFails
<1>9. ASSUME NEW t \in Tasks, Work(t) PROVE UNCHANGED <<now, nextRemind>>
  BY <1>9 DEF Work, StartExpire, SuspendExpired, StartRemind, TakeTime, Send, Record, ReadService,
     NextReminder, EndLoop, StartForOne, WriteStatus, CommitInvoice, EndForOne
<1>10. ASSUME NEW t \in Tasks, Fails(t) PROVE UNCHANGED <<now, nextRemind>>
  BY <1>10 DEF Fails, StartFails, ExpireFails, LookupFails, BatchAborts, SendFails, RecordFails,
     UpdateFails, WrittenFails
<1> QED BY <1>1, <1>3, <1>4, <1>5, <1>6, <1>7, <1>8, <1>9, <1>10 DEF Next

LEMMA UndeliveredStep == TypeInv /\ Shape /\ Undelivered /\ [Next]_vars => Undelivered'
<1> SUFFICES ASSUME TypeInv, Shape, Undelivered, [Next]_vars PROVE Undelivered'
  OBVIOUS
<1> USE DEF tables, queue, locals, Goto
<1>0. /\ kind \in [Tasks -> Kinds] /\ pc \in [Tasks -> PC] /\ cur \in [Tasks -> SUBSET Services]
      /\ ok \in [Tasks -> BOOLEAN] /\ hit \subseteq hit'
  BY Grows DEF TypeInv, QueueOK
<1>1. ASSUME UNCHANGED <<kind, pc, cur, ok>> PROVE Undelivered'
  BY <1>0, <1>1 DEF Undelivered, Missed
<1>2. ASSUME NEW t \in Tasks, Alone(t), Missed(t)' PROVE Undelivered'
  BY <1>0, <1>2 DEF Undelivered, Missed, Alone
<1>3. CASE UNCHANGED vars \/ Pass \/ TickFails
  BY <1>1, <1>3 DEF vars, Pass, TickFails
<1>4. CASE Restart
  <2>1. hit' = Services /\ \A t \in Tasks : cur'[t] = IF kind[t] \in ForOne THEN cur[t] ELSE {}
    BY <1>4 DEF Restart
  <2>2. \A t \in Tasks : cur'[t] \subseteq hit'
    BY <1>0, <2>1
  <2> QED BY <2>2 DEF Undelivered, Missed
<1>5. ASSUME NEW t \in Tasks, NEW k, NEW S, Enqueue(t, k, S) PROVE Undelivered'
  <2>1. Alone(t) /\ pc'[t] = "queued"
    BY <1>5, EnqueueAlone DEF TypeInv
  <2> QED BY <1>2, <2>1 DEF Missed
<1>6. ASSUME NEW t \in Tasks, TickRemind(t) \/ TickExpire(t) PROVE Undelivered'
  BY <1>5, <1>6 DEF TickRemind, TickExpire
<1>7. ASSUME NEW t \in Tasks, NEW k \in Asked, NEW s \in Services, Ask(t, k, s) PROVE Undelivered'
  BY <1>5, <1>7 DEF Ask
<1>8. ASSUME NEW r \in Requests, Serve(r) PROVE Undelivered'
  BY <1>1, <1>5, <1>8 DEF Serve, Begin, AdminReads, PaymentReads, RequestUpdates, RequestEnqueues,
     EnqueueFails, RequestEnds, Undo, HasJob, RequestFails
<1>9. ASSUME NEW t \in Tasks, Ack(t) \/ Requeue(t) PROVE Undelivered'
  <2>1. Alone(t) /\ pc'[t] \in {"idle", "queued"}
    BY <1>9, EndAlone DEF TypeInv, HistoryOK
  <2> QED BY <1>2, <2>1 DEF Missed
<1>10. ASSUME NEW t \in Tasks, Alone(t), pc'[t] # "record" PROVE Undelivered'
  BY <1>2, <1>10 DEF Missed
<1>11. ASSUME NEW t \in Tasks, Work(t) PROVE Undelivered'
  <2>0. Alone(t)
    BY <1>11, WorkAlone
  <2>1. CASE EndLoop(t) \/ EndForOne(t)
    BY <1>9, <2>1 DEF EndLoop, EndForOne
  <2>2. CASE Send(t)
    BY <1>0, <1>2, <2>0, <2>2 DEF Send, Missed
  <2>3. ASSUME \/ StartExpire(t) \/ SuspendExpired(t) \/ StartRemind(t) \/ TakeTime(t)
               \/ Record(t) \/ StartForOne(t) \/ WriteStatus(t) \/ CommitInvoice(t)
        PROVE pc'[t] # "record"
    BY <1>0, <2>3 DEF StartExpire, SuspendExpired, StartRemind, TakeTime, Record, StartForOne,
       WriteStatus, CommitInvoice
  <2>4. ASSUME NEW s \in Services, ReadService(t, s) \/ NextReminder(t, s) PROVE pc'[t] # "record"
    BY <1>0, <2>4 DEF ReadService, NextReminder
  <2> QED BY <1>10, <1>11, <2>0, <2>1, <2>2, <2>3, <2>4 DEF Work
<1>12. ASSUME NEW t \in Tasks, Fails(t) PROVE Undelivered'
  <2>0. Alone(t)
    BY <1>12, FailsAlone
  <2>1. CASE StartFails(t) \/ BatchAborts(t) \/ UpdateFails(t) \/ WrittenFails(t)
    BY <1>9, <2>1 DEF StartFails, BatchAborts, UpdateFails, WrittenFails
  <2>2. CASE SendFails(t)
    <3>1. UNCHANGED cur /\ cur[t] \subseteq hit'
      BY <2>2 DEF SendFails
    <3> QED BY <1>2, <2>0, <3>1 DEF Missed
  <2>3. CASE ExpireFails(t) \/ LookupFails(t) \/ RecordFails(t)
    <3>1. pc'[t] # "record"
      BY <1>0, <2>3 DEF ExpireFails, LookupFails, RecordFails
    <3> QED BY <1>10, <2>0, <3>1
  <2> QED BY <1>12, <2>1, <2>2, <2>3 DEF Fails
<1> QED BY <1>3, <1>4, <1>6, <1>7, <1>8, <1>11, <1>12 DEF Next

\* Every batch with this count has been enqueued.
Due(s, d) ==
  Expires[s] >= start + (d + 1) * Day /\ nextRemind + (d - 1) * Day >= Expires[s]

\* A batch has this count before it.
Awaits(t, s, d) ==
  /\ kind[t] = "remind"
  /\ \/ pc[t] = "queued" /\ retried[t] = 0 /\ daysUntil(Expires[s], now) = d
     \/ /\ pc[t] = "listed" /\ retried[t] = 0 /\ s \in todo[t]
        /\ daysUntil(Expires[s], now) = d
     \/ /\ pc[t] \in {"next", "send", "record"} /\ s \in todo[t] \cup cur[t]
        /\ DaysLeft(t, s) = d

Spared == Services \ (hit \cup left \cup late)

Counted ==
  \A s \in Spared, d \in ReminderDays :
    Due(s, d) => Reminded(s, d) \/ \E t \in Tasks : Awaits(t, s, d)

LEMMA KeepsCount ==
  ASSUME TypeInv, Counted, [Next]_vars, UNCHANGED nextRemind,
         \A s \in Spared', d \in ReminderDays, t \in Tasks :
           Awaits(t, s, d) => Reminded(s, d)' \/ Awaits(t, s, d)'
  PROVE  Counted'
<1> SUFFICES ASSUME NEW s \in Spared', NEW d \in ReminderDays, Due(s, d)'
             PROVE  Reminded(s, d)' \/ \E t \in Tasks : Awaits(t, s, d)'
  BY DEF Counted
<1>1. s \in Spared /\ s \in Services /\ (Reminded(s, d) => Reminded(s, d)')
  BY Grows DEF Spared
<1>2. Due(s, d)
  BY Grows DEF Due
<1> QED BY <1>1, <1>2 DEF Counted

LEMMA AloneCount ==
  ASSUME TypeInv, Counted, [Next]_vars, UNCHANGED <<nextRemind, now>>, NEW t \in Tasks, Alone(t),
         \A s \in Spared', d \in ReminderDays :
           Awaits(t, s, d) => Reminded(s, d)' \/ Awaits(t, s, d)'
  PROVE  Counted'
<1>1. \A u \in Tasks \ {t} : \A s, d : Awaits(u, s, d) => Awaits(u, s, d)'
  BY DEF Alone, Awaits, DaysLeft
<1> QED BY <1>1, KeepsCount

LEMMA PassCount ==
  ASSUME TypeInv, Counted, Pass
  PROVE  Counted'
<1>0. /\ now' = now + 1 /\ UNCHANGED <<nextRemind, kind, pc, retried, todo, cur, at>>
      /\ late' = IF BatchWaits
                 THEN late \cup {s \in Services :
                        daysUntil(Expires[s], now + 1) # daysUntil(Expires[s], now)}
                 ELSE late
  BY DEF Pass, queue, locals
<1>1. ASSUME NEW s \in Spared', NEW d \in ReminderDays, NEW t \in Tasks, Awaits(t, s, d)
      PROVE  Awaits(t, s, d)'
  <2>0. s \in Services /\ s \notin late'
    BY DEF Spared
  <2>1. CASE pc[t] \in {"queued", "listed"}
    <3>1. BatchWaits
      BY <1>1, <2>1 DEF Awaits, BatchWaits
    <3>2. daysUntil(Expires[s], now + 1) = daysUntil(Expires[s], now)
      BY <1>0, <2>0, <3>1
    <3> QED BY <1>0, <1>1, <2>1, <3>2 DEF Awaits
  <2>2. CASE pc[t] \notin {"queued", "listed"}
    BY <1>0, <1>1, <2>2 DEF Awaits, DaysLeft
  <2> QED BY <2>1, <2>2
<1> QED BY <1>0, <1>1, KeepsCount DEF Next

\* The batch that comes as the last with this count.
LEMMA TickCount ==
  ASSUME TypeInv, Counted, OnTime, NEW t \in Tasks, TickRemind(t)
  PROVE  Counted'
<1>0. /\ now >= nextRemind /\ nextRemind' = now + Day /\ UNCHANGED <<now, hit, left, late, start, rows>>
      /\ Enqueue(t, "remind", {})
  BY DEF TickRemind, history, sending, outcome, bounds, tables
<1>1. /\ Alone(t) /\ pc[t] = "idle" /\ pc'[t] = "queued" /\ kind'[t] = "remind" /\ retried'[t] = 0
  BY <1>0, EnqueueAlone DEF TypeInv
<1> SUFFICES ASSUME NEW s \in Spared, NEW d \in ReminderDays, Due(s, d)'
             PROVE  Reminded(s, d) \/ \E u \in Tasks : Awaits(u, s, d)'
  <2>1. Spared' = Spared /\ \A s, d : Reminded(s, d)' = Reminded(s, d)
    BY <1>0 DEF Spared, Reminded
  <2> QED BY <2>1 DEF Counted
<1>2. CASE Due(s, d)
  <2>1. \A u \in Tasks : Awaits(u, s, d) => u # t
    BY <1>1 DEF Awaits
  <2>2. \A u \in Tasks \ {t} : Awaits(u, s, d) => Awaits(u, s, d)'
    BY <1>0, <1>1 DEF Alone, Awaits, DaysLeft
  <2> QED BY <1>2, <2>1, <2>2 DEF Counted
<1>3. CASE ~Due(s, d)
  <2>0. /\ Expires[s] \in Nat /\ now \in Nat /\ nextRemind \in Nat /\ Day \in Nat \ {0}
        /\ d \in {1, 3, 7}
    BY Constants DEF Spared, TypeInv, ClockOK, ReminderDays
  <2>1. nextRemind + (d - 1) * Day < Expires[s] /\ Expires[s] <= now + Day + (d - 1) * Day
    BY <1>0, <1>3, <2>0 DEF Due
  <2>2. daysUntil(Expires[s], now) = daysUntil(Expires[s], nextRemind)
    BY <1>0 DEF OnTime, Spared
  <2>3. daysUntil(Expires[s], now) = d
    <3>1. now + d * Day = now + Day + (d - 1) * Day
      BY <2>0
    <3>2. CASE now + (d - 1) * Day < Expires[s]
      <4>1. now < Expires[s] /\ Expires[s] <= now + d * Day
        BY <2>0, <2>1, <3>1, <3>2
      <4> QED BY <2>0, <3>2, <4>1, LeftMeans
    <3>3. CASE ~(now + (d - 1) * Day < Expires[s])
      <4>0. Expires[s] <= now + (d - 1) * Day
        BY <2>0, <3>3
      <4>1. daysUntil(Expires[s], now) <= d - 1
        BY <2>0, <4>0, AtMost
      <4>2. daysUntil(Expires[s], nextRemind) >= d
        BY <2>0, <2>1, AtLeast
      <4>3. daysUntil(Expires[s], now) \in Nat
        BY <2>0, AtMost
      <4> QED BY <2>0, <2>2, <4>1, <4>2, <4>3
    <3> QED BY <3>2, <3>3
  <2>4. Awaits(t, s, d)'
    BY <1>0, <1>1, <2>3 DEF Awaits
  <2> QED BY <2>4
<1> QED BY <1>2, <1>3

LEMMA StartCount ==
  ASSUME TypeInv, Counted, Active, [Next]_vars, NEW t \in Tasks, StartRemind(t)
  PROVE  Counted'
<1>0. /\ Alone(t) /\ UNCHANGED <<nextRemind, now, hit, left, late, kind, retried>>
      /\ kind[t] = "remind" /\ pc[t] = "queued" /\ pc'[t] = "listed"
      /\ todo'[t] = {s \in Services : /\ service[s] = "active" /\ ~Expired(s)
                                    /\ Expires[s] <= now + 8 * Day}
  BY WorkAlone DEF Work, StartRemind, outcome, Goto, TypeInv, QueueOK
<1>1. ASSUME NEW s \in Spared', NEW d \in ReminderDays, Awaits(t, s, d) PROVE Awaits(t, s, d)'
  <2>1. retried[t] = 0 /\ daysUntil(Expires[s], now) = d
    BY <1>0, <1>1 DEF Awaits
  <2>2. s \in Services /\ service[s] = "active"
    BY <1>0 DEF Spared, Active
  <2>3. /\ Expires[s] \in Nat /\ now \in Nat /\ Day \in Nat \ {0} /\ d \in {1, 3, 7}
    BY <2>2, Constants DEF TypeInv, ClockOK, ReminderDays
  <2>4. now < Expires[s] /\ Expires[s] <= now + d * Day
    BY <2>1, <2>3, LeftMeans
  <2>5. ~Expired(s)
    BY <2>3, <2>4 DEF Expired
  <2>6. Expires[s] <= now + 8 * Day
    <3>1. d * Day <= 8 * Day
      BY <2>3
    <3> QED BY <2>3, <2>4, <3>1
  <2>7. s \in todo'[t]
    BY <1>0, <2>2, <2>5, <2>6
  <2> QED BY <1>0, <2>1, <2>7 DEF Awaits
<1> QED BY <1>0, <1>1, AloneCount

LEMMA TimeCount ==
  ASSUME TypeInv, Counted, [Next]_vars, NEW t \in Tasks, TakeTime(t)
  PROVE  Counted'
<1>0. /\ Alone(t) /\ UNCHANGED <<nextRemind, now, kind, todo, cur>> /\ kind[t] = "remind"
      /\ pc[t] = "listed" /\ pc'[t] = "next" /\ at'[t] = now
  BY WorkAlone DEF Work, TakeTime, Goto, TypeInv, QueueOK
<1>1. \A s, d : Awaits(t, s, d) => Awaits(t, s, d)'
  BY <1>0 DEF Awaits, DaysLeft
<1> QED BY <1>0, <1>1, AloneCount

LEMMA LookupCount ==
  ASSUME TypeInv, InHand, Counted, [Next]_vars, NEW t \in Tasks, NEW z \in Services,
         NextReminder(t, z)
  PROVE  Counted'
<1>0. /\ Alone(t) /\ UNCHANGED <<nextRemind, now, kind, at, rows>>
      /\ kind[t] = "remind" /\ pc[t] = "next" /\ todo'[t] = todo[t] \ {z}
      /\ pc'[t] \in {"next", "send"}
  BY WorkAlone DEF Work, NextReminder, tables, Goto, TypeInv, QueueOK
<1>1. ASSUME NEW s \in Spared', NEW d \in ReminderDays, Awaits(t, s, d)
      PROVE  Reminded(s, d)' \/ Awaits(t, s, d)'
  <2>1. cur[t] = {} /\ s \in todo[t] /\ DaysLeft(t, s) = d /\ DaysLeft(t, s)' = d
    BY <1>0, <1>1 DEF InHand, Hand, Awaits, DaysLeft
  <2>2. CASE s # z
    BY <1>0, <2>1, <2>2 DEF Awaits
  <2>3. CASE s = z /\ reminderAlreadySentToday(s, d)
    <3>1. Today \in Dates
      BY Days DEF TypeInv, ClockOK, Today
    <3> QED BY <1>0, <2>3, <3>1 DEF reminderAlreadySentToday, Reminded
  <2>4. CASE s = z /\ ~reminderAlreadySentToday(s, d)
    <3>1. isReminderDay(d)
      BY DEF isReminderDay
    <3>2. cur'[t] = {s} /\ pc'[t] = "send"
      BY <2>1, <2>4, <3>1 DEF NextReminder, Goto, TypeInv, QueueOK
    <3> QED BY <1>0, <2>1, <3>2 DEF Awaits
  <2> QED BY <2>2, <2>3, <2>4
<1> QED BY <1>0, <1>1, AloneCount

\* The rest of a batch: the service at hand is recorded or hit, the others are left.
LEMMA BatchCount ==
  ASSUME TypeInv, InHand, Undelivered, Counted, [Next]_vars, NEW t \in Tasks, Alone(t),
         Send(t) \/ Record(t) \/ LookupFails(t) \/ SendFails(t) \/ RecordFails(t)
  PROVE  Counted'
<1>0. UNCHANGED <<nextRemind, now, kind, at>> /\ kind[t] = "remind"
  BY DEF Send, Record, LookupFails, SendFails, RecordFails, locals
<1>1. /\ pc \in [Tasks -> PC] /\ todo \in [Tasks -> SUBSET Services]
      /\ cur \in [Tasks -> SUBSET Services]
  BY DEF TypeInv, QueueOK
<1>2. ASSUME NEW s \in Spared', NEW d \in ReminderDays, Awaits(t, s, d)
      PROVE  Reminded(s, d)' \/ Awaits(t, s, d)'
  <2>0. s \in Services /\ s \notin hit'
    BY DEF Spared
  <2>1. CASE Send(t) \/ SendFails(t)
    <3>1. pc[t] = "send" /\ pc'[t] = "record" /\ UNCHANGED <<todo, cur>>
      BY <1>1, <2>1 DEF Send, SendFails, Goto, locals
    <3> QED BY <1>0, <1>2, <3>1 DEF Awaits, DaysLeft
  <2>2. CASE LookupFails(t)
    <3>1. PICK z \in todo[t] : todo' = [todo EXCEPT ![t] = @ \ {z}] /\ hit' = hit \cup {z}
      BY <2>2 DEF LookupFails
    <3>2. pc[t] = "next" /\ pc'[t] = "next" /\ UNCHANGED cur
      BY <1>1, <2>2 DEF LookupFails, Goto
    <3>3. s # z /\ todo'[t] = todo[t] \ {z}
      BY <1>1, <2>0, <3>1
    <3> QED BY <1>0, <1>2, <3>2, <3>3 DEF Awaits, DaysLeft
  <2>3. ASSUME Record(t) \/ RecordFails(t), s \notin cur[t] PROVE Awaits(t, s, d)'
    <3>1. pc[t] = "record" /\ pc'[t] = "next" /\ UNCHANGED todo
      BY <1>1, <2>3 DEF Record, RecordFails, Goto
    <3> QED BY <1>0, <1>2, <2>3, <3>1 DEF Awaits, DaysLeft
  <2>4. CASE RecordFails(t) /\ s \in cur[t]
    BY <2>0, <2>4 DEF RecordFails
  <2>5. CASE Record(t) /\ s \in cur[t]
    <3>1. pc[t] = "record" /\ Recorded(t) /\ UNCHANGED hit
      BY <2>5 DEF Record, Goto, history, sending
    <3>2. ok[t]
      BY <1>0, <2>0, <2>5, <3>1 DEF Undelivered, Missed
    <3>3. cur[t] = {s} /\ DaysLeft(t, s) = d
      BY <1>0, <1>2, <2>5, <3>1 DEF InHand, Hand, Awaits
    <3>4. <<s, Today, d>> \in Keys /\ Today \in Dates
      BY <2>0, KeyNow, Days DEF TypeInv, ClockOK, Today
    <3>5. rows' = [rows EXCEPT ![<<s, Today, d>>] = @ + 1]
      BY <3>1, <3>2, <3>3 DEF Recorded
    <3>6. rows'[<<s, Today, d>>] > 0
      BY <3>4, <3>5 DEF TypeInv, TablesOK
    <3> QED BY <3>4, <3>6 DEF Reminded
  <2> QED BY <2>1, <2>2, <2>3, <2>4, <2>5
<1> QED BY <1>0, <1>2, AloneCount

\* A task that ends is no batch, or has nothing left but what was hit.
LEMMA EndCount ==
  ASSUME TypeInv, Counted, [Next]_vars, UNCHANGED <<nextRemind, now>>, NEW t \in Tasks,
         Ack(t) \/ Requeue(t), pc[t] # "idle",
         kind[t] = "remind" =>
           \/ hit' = Services
           \/ pc[t] = "next" /\ cur[t] = {} /\ todo[t] \subseteq hit'
  PROVE  Counted'
<1>1. Alone(t)
  BY EndAlone DEF TypeInv, HistoryOK
<1>2. \A s \in Spared' : \A d : ~Awaits(t, s, d)
  BY DEF Awaits, Spared
<1> QED BY <1>1, <1>2, AloneCount

LEMMA CountStep ==
  TypeInv /\ Shape /\ InHand /\ Active /\ OnTime /\ Undelivered /\ Counted /\ [Next]_vars
    => Counted'
<1> SUFFICES ASSUME TypeInv, Shape, InHand, Active, OnTime, Undelivered, Counted, [Next]_vars
             PROVE  Counted'
  OBVIOUS
<1> USE DEF tables, queue, locals, Goto
<1>1. ASSUME UNCHANGED <<nextRemind, now, kind, pc, retried, todo, cur, at>> PROVE Counted'
  <2>1. \A t, s, d : Awaits(t, s, d)' = Awaits(t, s, d)
    BY <1>1 DEF Awaits, DaysLeft
  <2> QED BY <1>1, <2>1, KeepsCount
<1>2. CASE UNCHANGED vars
  BY <1>1, <1>2 DEF vars
<1>3. CASE TickFails \/ Restart
  <2>1. Spared' = {}
    BY <1>3 DEF TickFails, Restart, Spared
  <2> QED BY <2>1 DEF Counted
<1>4. ASSUME NEW t \in Tasks, NEW k, NEW S, Enqueue(t, k, S), UNCHANGED <<nextRemind, now>>
      PROVE Counted'
  <2>1. Alone(t) /\ pc[t] = "idle"
    BY <1>4, EnqueueAlone DEF TypeInv
  <2>2. \A s, d : ~Awaits(t, s, d)
    BY <2>1 DEF Awaits
  <2> QED BY <1>4, <2>1, <2>2, AloneCount
<1>5. ASSUME NEW t \in Tasks, TickExpire(t) PROVE Counted'
  BY <1>4, <1>5 DEF TickExpire
<1>6. ASSUME NEW t \in Tasks, NEW k \in Asked, NEW s \in Services, Ask(t, k, s) PROVE Counted'
  BY <1>4, <1>6 DEF Ask
<1>7. ASSUME NEW r \in Requests, Serve(r) PROVE Counted'
  BY <1>1, <1>4, <1>7 DEF Serve, Begin, AdminReads, PaymentReads, RequestUpdates, RequestEnqueues,
     EnqueueFails, RequestEnds, Undo, HasJob, RequestFails
<1>8. ASSUME NEW t \in Tasks, Alone(t), kind[t] # "remind", UNCHANGED <<nextRemind, now>>
      PROVE Counted'
  <2>1. \A s, d : ~Awaits(t, s, d)
    BY <1>8 DEF Awaits
  <2> QED BY <1>8, <2>1, AloneCount
<1>9. ASSUME NEW t \in Tasks, Work(t) PROVE Counted'
  <2>0. Alone(t)
    BY <1>9, WorkAlone
  <2>1. CASE StartExpire(t) \/ SuspendExpired(t)
    BY <1>8, <2>0, <2>1 DEF StartExpire, SuspendExpired
  <2>2. ASSUME NEW s \in Services, ReadService(t, s) PROVE Counted'
    BY <1>8, <2>0, <2>2 DEF ReadService
  <2>3. CASE EndLoop(t)
    <3>1. kind[t] = "remind" => cur[t] = {}
      BY <2>3 DEF EndLoop, InHand, Hand
    <3> QED BY <2>3, <3>1, EndCount DEF EndLoop
  <2>4. CASE EndForOne(t)
    <3>1. kind[t] # "remind"
      BY <2>4 DEF EndForOne, Shape, At, ForOne, Asked
    <3> QED BY <2>4, <3>1, EndCount DEF EndForOne
  <2>5. CASE StartForOne(t) \/ WriteStatus(t) \/ CommitInvoice(t)
    BY <1>8, <2>0, <2>5 DEF StartForOne, WriteStatus, CommitInvoice, ForOne, Asked
  <2> QED BY <1>9, <2>0, <2>1, <2>2, <2>3, <2>4, <2>5, StartCount, TimeCount, LookupCount,
       BatchCount DEF Work
<1>10. ASSUME NEW t \in Tasks, Fails(t) PROVE Counted'
  <2>0. Alone(t)
    BY <1>10, FailsAlone
  <2>1. CASE StartFails(t)
    BY <2>1, EndCount DEF StartFails
  <2>2. CASE BatchAborts(t)
    <3>1. cur[t] = {}
      BY <2>2 DEF BatchAborts, InHand, Hand
    <3> QED BY <2>2, <3>1, EndCount DEF BatchAborts
  <2>3. CASE UpdateFails(t) \/ WrittenFails(t)
    <3>1. kind[t] # "remind"
      BY <2>3 DEF UpdateFails, WrittenFails, Shape, At, ForOne, Asked
    <3> QED BY <2>3, <3>1, EndCount DEF UpdateFails, WrittenFails
  <2>4. CASE ExpireFails(t)
    BY <1>8, <2>0, <2>4 DEF ExpireFails
  <2> QED BY <1>10, <2>0, <2>1, <2>2, <2>3, <2>4, BatchCount DEF Fails
<1> QED BY <1>2, <1>3, <1>5, <1>6, <1>7, <1>9, <1>10, PassCount, TickCount DEF Next

LEMMA InitCounts == Init => Active /\ OnTime /\ Undelivered /\ Counted
<1> SUFFICES ASSUME Init PROVE Active /\ OnTime /\ Undelivered /\ Counted
  OBVIOUS
<1>0. /\ now \in Nat /\ now = start /\ nextRemind = start + Day /\ Day \in Nat \ {0}
      /\ Expires \in [Services -> Nat]
  BY Constants DEF Init
<1>1. Active /\ Undelivered
  BY DEF Init, Active, Undelivered, Missed
<1>2. OnTime
  <2>1. ~(now >= nextRemind)
    BY <1>0
  <2> QED BY <2>1 DEF OnTime
<1>3. Counted
  <2> SUFFICES ASSUME NEW s \in Services, NEW d \in ReminderDays PROVE ~Due(s, d)
    BY DEF Counted, Spared
  <2>1. Expires[s] \in Nat /\ d \in {1, 3, 7}
    BY <1>0 DEF ReminderDays
  <2>2. (start + Day) + (d - 1) * Day < start + (d + 1) * Day
    BY <1>0, <2>1
  <2> QED BY <1>0, <2>1, <2>2 DEF Due
<1> QED BY <1>1, <1>2, <1>3

LEMMA CountsReminded == TypeInv /\ OnTime /\ Counted => EveryCountReminded
<1> SUFFICES ASSUME TypeInv, OnTime, Counted, NEW s \in Spared, NEW d \in ReminderDays,
                    Expires[s] >= start + (d + 1) * Day, now + (d - 1) * Day >= Expires[s]
             PROVE  \/ Reminded(s, d)
                    \/ \E t \in Tasks : kind[t] = "remind" /\ s \in todo[t] \cup cur[t]
  BY DEF EveryCountReminded, Spared
<1>0. /\ s \in Services /\ Expires[s] \in Nat /\ now \in Nat /\ nextRemind \in Nat
      /\ Day \in Nat \ {0} /\ d \in {1, 3, 7}
  BY Constants DEF Spared, TypeInv, ClockOK, ReminderDays
<1>1. nextRemind + (d - 1) * Day >= Expires[s]
  <2>1. CASE now < nextRemind
    BY <1>0, <2>1
  <2>2. CASE now >= nextRemind
    <3>1. daysUntil(Expires[s], now) = daysUntil(Expires[s], nextRemind)
      BY <2>2 DEF OnTime, Spared
    <3>2. Expires[s] <= now + (d - 1) * Day
      BY <1>0
    <3>3. daysUntil(Expires[s], now) \in Nat /\ daysUntil(Expires[s], now) <= d - 1
      BY <1>0, <3>2, AtMost
    <3>4. nextRemind + (d - 1) * Day < Expires[s] => daysUntil(Expires[s], nextRemind) >= d
      BY <1>0, AtLeast
    <3> QED BY <1>0, <3>1, <3>3, <3>4
  <2> QED BY <1>0, <2>1, <2>2
<1>2. Reminded(s, d) \/ \E t \in Tasks : Awaits(t, s, d)
  BY <1>1 DEF Counted, Due
<1>3. daysUntil(Expires[s], now) # d
  <2>1. Expires[s] <= now + (d - 1) * Day
    BY <1>0
  <2>2. daysUntil(Expires[s], now) \in Nat /\ daysUntil(Expires[s], now) <= d - 1
    BY <1>0, <2>1, AtMost
  <2> QED BY <1>0, <2>2
<1> QED BY <1>2, <1>3 DEF Awaits

(***************************************************************************)
(* No count of days is missed: EveryCountReminded, for any expiries, any   *)
(* time of day and any delay of a batch.  A batch that comes late still    *)
(* finds the count it was due at unless one of the service's days ended    *)
(* meanwhile, and the batch after it is enqueued 24 hours after it, so of  *)
(* the batches before a service's last d - 1 days the last has count d.    *)
(***************************************************************************)
THEOREM NoCountMissed == Spec => []EveryCountReminded
<1>1. Spec => [](Active /\ OnTime /\ Undelivered /\ Counted)
  BY InitCounts, ActiveStep, OnTimeStep, UndeliveredStep, CountStep, Types, Shapes, Hands,
     PTL DEF Spec
<1> QED BY <1>1, CountsReminded, Types, PTL

=============================================================================

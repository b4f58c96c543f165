-------------------------------- MODULE Cart --------------------------------
(***************************************************************************)
(* A customer's draft orders: the cart (internal/order), its checkout      *)
(* (internal/payment/service.go), the payment that may already be arriving *)
(* (webhook.go) and an administrator who sets an order's status, as        *)
(* concurrent transactions over orders, order_items and the services rows  *)
(* that refer to these, under READ COMMITTED.                              *)
(*                                                                         *)
(* Prices stay out: a total is the quantities it is the sum of, so that    *)
(* two totals differ whenever the items they were computed from do.        *)
(***************************************************************************)
EXTENDS Naturals, FiniteSets

CONSTANTS
  Orders,       \* ids of orders rows
  Items,        \* ids of order_items rows
  Plans,        \* a plan with a billing cycle
  CartRequests, \* goroutines of AddCartItem, RemoveCartItem, UpdateCartItem
  Checkouts,    \* goroutines of CreateCheckoutSession
  Sessions,     \* Stripe checkout sessions, each paid at most once
  Admins,       \* goroutines of AdminUpdateOrderStatus
  Nil,          \* no order, item, plan or lock owner
  MaxQuantity,  \* bound: quantity of one request
  MaxRequests,  \* bound: requests in all
  MaxFaults     \* bound: statements and calls that fail

Txs == CartRequests \cup Checkouts \cup Sessions

ASSUME CartAssumption ==
  /\ Nil \notin Orders \cup Items \cup Plans \cup Txs
  /\ CartRequests \cap Checkouts = {}
  /\ Sessions \cap (CartRequests \cup Checkouts) = {}
  /\ MaxQuantity \in Nat /\ MaxRequests \in Nat /\ MaxFaults \in Nat

VARIABLES
  status,       \* orders.status, "none" without a row
  created,      \* orders.created_at
  total,        \* orders.total_amount: the quantities it is the sum of
  itemOrder,    \* order_items.order_id, Nil for an id that was never inserted
  plan,         \* order_items.plan_id and billing_cycle
  quantity,     \* order_items.quantity, 0 without a row
  serviced,     \* items that a committed services row refers to
  orderLock,    \* transaction that has updated the orders row
  itemLock,     \* transaction that has updated or deleted the order_items row
  req,          \* a cart request's goroutine and its locals
  checkout,     \* a checkout's
  sessionOrder, \* the order a Stripe session charges for, Nil if not created
  pay,          \* where the webhook's transaction for a session is
  toServe,      \* the items it has read,
  rest,         \*   those it has yet to come to, the one at hand, and those
  serving,      \*   whose services row it has inserted or updated
  wrote,
  admin,        \* an administrator's request: the order and its next status
  byHand,       \* history: statuses an administrator has set,
  stale,        \*   requests whose sum another's commit has overtaken,
  raced,        \*   orders whose total is such a sum
  clock, requests, faults  \* time.Now(); bounded counters

orderRows == <<status, created, total>>
itemRows  == <<itemOrder, plan, quantity>>
locks     == <<orderLock, itemLock>>
work      == <<toServe, rest, serving, wrote>>
payments  == <<sessionOrder, pay, work>>
history   == <<byHand, stale, raced>>
vars == <<orderRows, itemRows, serviced, locks, req, checkout, payments, admin,
          history, clock, requests, faults>>

\* isValidStatusTransition: where an administrator may take an order.
validTransitions ==
  [draft |-> {"pending_payment", "cancelled"},
   pending_payment |-> {"paid", "cancelled"},
   paid |-> {"provisioning", "refunded", "cancelled"},
   provisioning |-> {"active", "cancelled"},
   active |-> {}, cancelled |-> {}, refunded |-> {}]
Statuses == DOMAIN validTransitions

Nothing == [i \in Items |-> 0]
Quantities == 1 .. MaxQuantity

\* What SUM(quantity * unit_price) over the order's items adds up.
Contents(o) == [i \in Items |-> IF itemOrder[i] = o THEN quantity[i] ELSE 0]
ItemsIn(o) == {i \in Items : itemOrder[i] = o /\ quantity[i] > 0}
Drafts == {o \in Orders : status[o] = "draft"}

NoRequest == [op |-> "none", pc |-> "idle", order |-> Nil, isNew |-> FALSE, at |-> 0,
              item |-> Nil, plan |-> Nil, by |-> 0, row |-> 0, sum |-> Nothing]
CartRequest ==
  {q \in [op : {"add", "remove", "update"}, order : Orders, isNew : BOOLEAN, at : Nat,
          pc : {"find", "write", "sum", "total", "commit"}, item : Items \cup {Nil},
          plan : Plans \cup {Nil}, by : Nat, row : Nat, sum : [Items -> Nat]] :
     q.item = Nil <=> q.pc = "find"}

NoCheckout == [pc |-> "idle", order |-> Nil, session |-> Nil]
Checkout ==
  {k \in [pc : {"lines", "session", "update", "commit", "answer"}, order : Orders,
          session : Sessions \cup {Nil}] :
     k.session = Nil <=> k.pc \in {"lines", "session"}}

NoChange == [order |-> Nil, to |-> "none"]

Init ==
  /\ status = [o \in Orders |-> "none"]
  /\ created = [o \in Orders |-> 0]
  /\ total = [o \in Orders |-> Nothing]
  /\ itemOrder = [i \in Items |-> Nil]
  /\ plan = [i \in Items |-> Nil]
  /\ quantity = Nothing
  /\ serviced = {}
  /\ orderLock = [o \in Orders |-> Nil]
  /\ itemLock = [i \in Items |-> Nil]
  /\ req = [r \in CartRequests |-> NoRequest]
  /\ checkout = [k \in Checkouts |-> NoCheckout]
  /\ sessionOrder = [s \in Sessions |-> Nil]
  /\ pay = [s \in Sessions |-> "none"]
  /\ toServe = [s \in Sessions |-> {}] /\ rest = toServe /\ wrote = toServe
  /\ serving = [s \in Sessions |-> Nil]
  /\ admin = [a \in Admins |-> NoChange]
  /\ byHand = [o \in Orders |-> {}] /\ stale = {} /\ raced = {}
  /\ clock = 1 /\ requests = 0 /\ faults = 0

\* uuid.New() returns an id that no row and no open transaction has.
FreshOrders ==
  {o \in Orders : status[o] = "none" /\ \A r \in CartRequests : req[r].order # o}
FreshItems ==
  {i \in Items : itemOrder[i] = Nil /\ \A r \in CartRequests : req[r].item # i}

\* Bounds: the ids last for everyone who may come to need one.
SpareItems ==
  Cardinality(FreshItems) - Cardinality({r \in CartRequests : req[r].pc = "find"})
SpareSessions ==
  Cardinality({s \in Sessions : sessionOrder[s] = Nil})
    - Cardinality({k \in Checkouts : checkout[k].pc \in {"lines", "session"}})

Request == requests < MaxRequests /\ requests' = requests + 1
Tick == clock' = clock + 1
Fault == faults < MaxFaults /\ faults' = faults + 1

\* The transaction ends and gives its locks up.
Unlocked(t) ==
  /\ orderLock' = [o \in Orders |-> IF orderLock[o] = t THEN Nil ELSE orderLock[o]]
  /\ itemLock' = [i \in Items |-> IF itemLock[i] = t THEN Nil ELSE itemLock[i]]

\* Step of a cart request that only moves its program counter and locals.
Local(r, next) ==
  /\ req' = [req EXCEPT ![r] = next]
  /\ UNCHANGED <<orderRows, itemRows, serviced, checkout, payments, admin, history,
                 clock, requests, faults>>

-----------------------------------------------------------------------------
(* AddCartItem, RemoveCartItem, UpdateCartItem: one transaction each.      *)

LatestDrafts == {o \in Drafts : \A d \in Drafts : created[d] <= created[o]}

\* Mutant: the draft's updated_at is set as soon as it is found.
BeginAddTouching(r, p, q) ==
  /\ req[r] = NoRequest /\ Request /\ Tick /\ SpareItems > 0
  /\ \E o \in Orders, isNew \in BOOLEAN :
       /\ IF isNew THEN Drafts = {} /\ o \in FreshOrders ELSE o \in LatestDrafts
       /\ orderLock[o] = Nil
       /\ orderLock' = [orderLock EXCEPT ![o] = r]
       /\ req' = [req EXCEPT ![r] = [NoRequest EXCEPT
            !.op = "add", !.pc = "find", !.order = o, !.isNew = isNew, !.at = clock,
            !.plan = p, !.by = q]]
  /\ UNCHANGED <<orderRows, itemRows, serviced, itemLock, checkout, payments, admin,
                 history, faults>>

\* getOrCreateDraftOrder: the customer's latest draft or, invisible to others
\* until the commit, a new one.
BeginAdd(r, p, q) ==
  /\ req[r] = NoRequest /\ Request /\ Tick /\ SpareItems > 0
  /\ \E o \in Orders, isNew \in BOOLEAN :
       /\ IF isNew THEN Drafts = {} /\ o \in FreshOrders ELSE o \in LatestDrafts
       /\ req' = [req EXCEPT ![r] = [NoRequest EXCEPT
            !.op = "add", !.pc = "find", !.order = o, !.isNew = isNew, !.at = clock,
            !.plan = p, !.by = q]]
  /\ UNCHANGED <<orderRows, itemRows, serviced, locks, checkout, payments, admin,
                 history, faults>>

\* Looks for the order's item of this plan; INSERTs one if there is none.
FindItem(r) ==
  LET here == {i \in ItemsIn(req[r].order) : plan[i] = req[r].plan} IN
  /\ req[r].pc = "find"
  /\ \/ \E i \in here :
          Local(r, [req[r] EXCEPT !.pc = "write", !.item = i])
     \/ here = {} /\ \E i \in FreshItems :
          Local(r, [req[r] EXCEPT !.pc = "sum", !.item = i, !.row = req[r].by])
  /\ UNCHANGED locks

\* RemoveCartItem and UpdateCartItem check that the item is in a draft order.
BeginChange(r, op, i, q) ==
  /\ req[r] = NoRequest /\ Request
  /\ quantity[i] > 0 /\ itemOrder[i] \in Drafts
  /\ req' = [req EXCEPT ![r] = [NoRequest EXCEPT
       !.op = op, !.pc = "write", !.order = itemOrder[i], !.item = i,
       !.plan = plan[i], !.by = q]]
  /\ UNCHANGED <<orderRows, itemRows, serviced, locks, checkout, payments, admin,
                 history, clock, faults>>

\* Payments that have inserted a services row for the item: the foreign key
\* shares a lock of the item's row that a DELETE waits for.
KeyShares(i) == {s \in Sessions : i \in wrote[s] \ serviced}

NewQuantity(r) ==
  CASE req[r].op = "add" -> quantity[req[r].item] + req[r].by
    [] req[r].op = "update" -> req[r].by
    [] req[r].op = "remove" -> 0

\* Mutant: the new quantity is computed in Go from one read before.
WriteReadItem(r) ==
  LET i == req[r].item IN
  /\ req[r].pc = "write"
  /\ req[r].op = "remove" => KeyShares(i) = {} /\ i \notin serviced
  /\ Local(r, [req[r] EXCEPT !.pc = "sum", !.row = NewQuantity(r)])
  /\ UNCHANGED locks

\* UPDATE or DELETE of the item, which nobody notices to match no row.
WriteItem(r) ==
  LET i == req[r].item IN
  /\ req[r].pc = "write"
  /\ itemLock[i] = Nil
  /\ req[r].op = "remove" => KeyShares(i) = {} /\ i \notin serviced
  /\ IF quantity[i] = 0
     THEN Local(r, [req[r] EXCEPT !.pc = "sum", !.row = 0]) /\ UNCHANGED itemLock
     ELSE /\ Local(r, [req[r] EXCEPT !.pc = "sum", !.row = NewQuantity(r)])
          /\ itemLock' = [itemLock EXCEPT ![i] = r]
  /\ UNCHANGED orderLock

\* Mutant: the SELECT on the pool, blind to the transaction's own write.
SumCommitted(r) ==
  /\ req[r].pc = "sum"
  /\ Local(r, [req[r] EXCEPT !.pc = "total", !.sum = Contents(req[r].order)])
  /\ UNCHANGED locks

\* The sum as the transaction sees it: in the snapshot its UPDATE of the
\* orders row takes before it waits for that row, or in a SELECT of its own.
SumItems(r) ==
  /\ req[r].pc = "sum"
  /\ Local(r, [req[r] EXCEPT !.pc = "total",
       !.sum = [Contents(req[r].order) EXCEPT ![req[r].item] = req[r].row]])
  /\ UNCHANGED locks

\* Mutant: the total is left to a transaction of its own.
SkipTotal(r) ==
  /\ req[r].pc = "total"
  /\ Local(r, [req[r] EXCEPT !.pc = "commit"])
  /\ UNCHANGED locks

WriteTotal(r) ==
  LET o == req[r].order IN
  /\ req[r].pc = "total"
  /\ orderLock[o] \in {Nil, r}
  /\ orderLock' = [orderLock EXCEPT ![o] = r]
  /\ Local(r, [req[r] EXCEPT !.pc = "commit"])
  /\ UNCHANGED itemLock

\* Requests that have summed the order's items but not written the total.
Summed(o) ==
  {r \in CartRequests : req[r].order = o /\ req[r].pc \in {"total", "commit"}}

CommitCart(r) ==
  LET o == req[r].order
      i == req[r].item IN
  /\ req[r].pc = "commit"
  /\ itemOrder' = [itemOrder EXCEPT ![i] = o]
  /\ plan' = [plan EXCEPT ![i] = req[r].plan]
  /\ quantity' = [quantity EXCEPT ![i] = req[r].row]
  /\ total' = [total EXCEPT ![o] = req[r].sum]
  /\ status' = [status EXCEPT ![o] = IF req[r].isNew THEN "draft" ELSE @]
  /\ created' = [created EXCEPT ![o] = IF req[r].isNew THEN req[r].at ELSE @]
  /\ req' = [req EXCEPT ![r] = NoRequest]
  /\ stale' = (stale \cup Summed(o)) \ {r}
  /\ raced' = IF r \in stale THEN raced \cup {o} ELSE raced \ {o}
  /\ Unlocked(r)
  /\ UNCHANGED <<serviced, checkout, payments, admin, byHand, clock, requests, faults>>

\* Mutant: no deferred Rollback.
NoRollback(r) ==
  /\ req' = [req EXCEPT ![r] = NoRequest]
  /\ stale' = stale \ {r}
  /\ UNCHANGED <<orderRows, itemRows, serviced, locks, checkout, payments, admin,
                 byHand, raced, clock, requests>>

\* Any error: the deferred Rollback.
Rollback(r) ==
  /\ req' = [req EXCEPT ![r] = NoRequest]
  /\ stale' = stale \ {r}
  /\ Unlocked(r)
  /\ UNCHANGED <<orderRows, itemRows, serviced, checkout, payments, admin, byHand,
                 raced, clock, requests>>

CartFails(r) == req[r] # NoRequest /\ Fault /\ Rollback(r)

\* services.order_item_id REFERENCES order_items ON DELETE RESTRICT.
DeleteRestricted(r) ==
  /\ req[r].pc = "write" /\ req[r].op = "remove"
  /\ req[r].item \in serviced
  /\ Rollback(r) /\ UNCHANGED faults

\* CreateOrder: a second way to a draft, in one transaction over rows that
\* nobody else can see.
CreateOrder(o, new, plans, quantities) ==
  /\ Request /\ Tick
  /\ o \in FreshOrders /\ new \subseteq FreshItems /\ Cardinality(new) <= SpareItems
  /\ status' = [status EXCEPT ![o] = "draft"]
  /\ created' = [created EXCEPT ![o] = clock]
  /\ itemOrder' = [i \in Items |-> IF i \in new THEN o ELSE itemOrder[i]]
  /\ plan' = [i \in Items |-> IF i \in new THEN plans[i] ELSE plan[i]]
  /\ quantity' = [i \in Items |-> IF i \in new THEN quantities[i] ELSE quantity[i]]
  /\ total' = [total EXCEPT ![o] =
       [i \in Items |-> IF i \in new THEN quantities[i] ELSE 0]]
  /\ UNCHANGED <<serviced, locks, req, checkout, payments, admin, history, faults>>

-----------------------------------------------------------------------------
(* CreateCheckoutSession.                                                  *)

BeginCheckout(k, o) ==
  /\ checkout[k] = NoCheckout /\ Request /\ SpareSessions > 0
  /\ status[o] = "draft"
  /\ checkout' = [checkout EXCEPT ![k] =
       [pc |-> "lines", order |-> o, session |-> Nil]]
  /\ UNCHANGED <<orderRows, itemRows, serviced, locks, req, payments, admin, history,
                 clock, faults>>

\* An order without items is refused.
ReadLines(k) ==
  /\ checkout[k].pc = "lines"
  /\ checkout' = [checkout EXCEPT ![k] =
       IF ItemsIn(@.order) = {} THEN NoCheckout ELSE [@ EXCEPT !.pc = "session"]]
  /\ UNCHANGED <<orderRows, itemRows, serviced, locks, req, payments, admin, history,
                 clock, requests, faults>>

\* session.New: Stripe has the session, whatever becomes of the transaction.
CreateSession(k, s) ==
  /\ checkout[k].pc = "session" /\ sessionOrder[s] = Nil
  /\ sessionOrder' = [sessionOrder EXCEPT ![s] = checkout[k].order]
  /\ checkout' = [checkout EXCEPT ![k].pc = "update", ![k].session = s]
  /\ UNCHANGED <<orderRows, itemRows, serviced, locks, req, pay, work, admin, history,
                 clock, requests, faults>>

UpdateOrder(k) ==
  LET o == checkout[k].order IN
  /\ checkout[k].pc = "update"
  /\ orderLock[o] = Nil
  /\ orderLock' = [orderLock EXCEPT ![o] = k]
  /\ checkout' = [checkout EXCEPT ![k].pc = "commit"]
  /\ UNCHANGED <<orderRows, itemRows, serviced, itemLock, req, payments, admin,
                 history, clock, requests, faults>>

\* COMMIT takes effect.
PendingPayment(k) ==
  /\ checkout[k].pc = "commit"
  /\ status' = [status EXCEPT ![checkout[k].order] = "pending_payment"]
  /\ Unlocked(k)
  /\ UNCHANGED <<created, total, itemRows, serviced, req, sessionOrder, work, admin,
                 history, clock, requests>>

CommitCheckout(k) ==
  /\ PendingPayment(k)
  /\ checkout' = [checkout EXCEPT ![k].pc = "answer"]
  /\ UNCHANGED <<pay, faults>>

\* The connection breaks before the driver hears of it: a 500.
CommitUnknown(k) ==
  /\ PendingPayment(k) /\ Fault
  /\ checkout' = [checkout EXCEPT ![k] = NoCheckout]
  /\ pay' = [pay EXCEPT ![checkout[k].session] = "lost"]

AnswerWith(k, p) ==
  /\ checkout[k].pc = "answer"
  /\ pay' = [pay EXCEPT ![checkout[k].session] = p]
  /\ checkout' = [checkout EXCEPT ![k] = NoCheckout]
  /\ UNCHANGED <<orderRows, itemRows, serviced, locks, req, sessionOrder, work, admin,
                 history, clock, requests>>

\* The response gives the customer the session's URL: it can be paid now.
Answer(k) == AnswerWith(k, "open") /\ UNCHANGED faults

\* The process dies or the response is lost: nobody has the URL.
AnswerIsLost(k) == AnswerWith(k, "lost") /\ Fault

CheckoutFails(k) ==
  /\ checkout[k] # NoCheckout /\ checkout[k].pc # "answer" /\ Fault
  /\ checkout' = [checkout EXCEPT ![k] = NoCheckout]
  /\ Unlocked(k)
  /\ UNCHANGED <<orderRows, itemRows, serviced, req, payments, admin, history, clock,
                 requests>>

-----------------------------------------------------------------------------
(* AdminUpdateOrderStatus: a SELECT, and an UPDATE that commits by itself   *)
(* and is not conditional on what was read.                                *)

AdminReads(a, o, to) ==
  /\ admin[a] = NoChange /\ Request
  /\ status[o] \in Statuses /\ to \in validTransitions[status[o]]
  /\ admin' = [admin EXCEPT ![a] = [order |-> o, to |-> to]]
  /\ UNCHANGED <<orderRows, itemRows, serviced, locks, req, checkout, payments,
                 history, clock, faults>>

\* It waits for a transaction that has updated the row, and holds nothing then.
AdminUpdates(a) ==
  LET o == admin[a].order IN
  /\ admin[a] # NoChange
  /\ orderLock[o] = Nil
  /\ status' = [status EXCEPT ![o] = admin[a].to]
  /\ byHand' = [byHand EXCEPT ![o] = @ \cup {admin[a].to}]
  /\ admin' = [admin EXCEPT ![a] = NoChange]
  /\ UNCHANGED <<created, total, itemRows, serviced, locks, req, checkout, payments,
                 stale, raced, clock, requests, faults>>

AdminFails(a) ==
  /\ admin[a] # NoChange /\ Fault
  /\ admin' = [admin EXCEPT ![a] = NoChange]
  /\ UNCHANGED <<orderRows, itemRows, serviced, locks, req, checkout, payments,
                 history, clock, requests>>

-----------------------------------------------------------------------------
(* The webhook's transaction, as far as it touches orders, order_items and *)
(* the rows of services.                                                   *)

Paying(s, from, to) == pay[s] = from /\ pay' = [pay EXCEPT ![s] = to]

\* The customer has paid: UPDATE orders SET status = 'paid', unless it has
\* read that already.
PayOrder(s) ==
  LET o == sessionOrder[s] IN
  /\ Paying(s, "open", "items")
  /\ \/ orderLock[o] = Nil /\ orderLock' = [orderLock EXCEPT ![o] = s]
     \/ status[o] = "paid" /\ UNCHANGED orderLock
  /\ UNCHANGED <<orderRows, itemRows, serviced, itemLock, req, checkout, sessionOrder,
                 work, admin, history, clock, requests, faults>>

\* After an item: the next one, or what follows the last.
Following(R) == IF R = {} THEN "commit" ELSE "services"

\* Steps of prepareProvisioningJobs touch nothing but the payment's own state.
OnlyPayment ==
  UNCHANGED <<orderRows, itemRows, serviced, locks, req, checkout, sessionOrder, admin,
              history, clock, requests, faults>>

\* prepareProvisioningJobs reads the order's items, in any order as those of
\* one request have one created_at ...
PayItems(s) ==
  LET read == ItemsIn(sessionOrder[s]) IN
  /\ Paying(s, "items", Following(read))
  /\ toServe' = [toServe EXCEPT ![s] = read]
  /\ rest' = [rest EXCEPT ![s] = read]
  /\ UNCHANGED <<serving, wrote>> /\ OnlyPayment

\* ... and ensureServiceRecord looks for the services row of each.
FindNoService(s, i) ==
  /\ i \notin serviced
  /\ Paying(s, "services", "insert")
  /\ rest' = [rest EXCEPT ![s] = @ \ {i}]
  /\ serving' = [serving EXCEPT ![s] = i]
  /\ UNCHANGED <<toServe, wrote>> /\ OnlyPayment

\* One that is neither active nor being provisioned is to be.
FindStoppedService(s, i) ==
  /\ i \in serviced
  /\ Paying(s, "services", "update")
  /\ rest' = [rest EXCEPT ![s] = @ \ {i}]
  /\ serving' = [serving EXCEPT ![s] = i]
  /\ UNCHANGED <<toServe, wrote>> /\ OnlyPayment

FindService(s, i) ==
  /\ i \in serviced
  /\ Paying(s, "services", Following(rest[s] \ {i}))
  /\ rest' = [rest EXCEPT ![s] = @ \ {i}]
  /\ UNCHANGED <<toServe, serving, wrote>> /\ OnlyPayment

\* The request that has deleted the item but not yet committed.
Deleters(i) == {r \in CartRequests : itemLock[i] = r /\ req[r].op = "remove"}

\* Other payments with an uncommitted services row of the item.
Writers(s, i) == {t \in Sessions \ {s} : i \in wrote[t]}

\* What an INSERT of a services row waits for: order_item_id is unique, and its
\* foreign key locks the item's row.
InsertWaits(s) == Writers(s, serving[s]) \cup Deleters(serving[s])

WriteService(s, from) ==
  /\ Paying(s, from, Following(rest[s]))
  /\ wrote' = [wrote EXCEPT ![s] = @ \cup {serving[s]}]
  /\ serving' = [serving EXCEPT ![s] = Nil]
  /\ UNCHANGED <<toServe, rest>> /\ OnlyPayment

InsertService(s) ==
  /\ WriteService(s, "insert")
  /\ InsertWaits(s) = {}
  /\ serving[s] \notin serviced /\ quantity[serving[s]] > 0

UpdateService(s) ==
  /\ WriteService(s, "update")
  /\ Writers(s, serving[s]) = {}

\* The transaction is over: nothing is read, at hand or written any more.
EndPayment(s) ==
  /\ toServe' = [toServe EXCEPT ![s] = {}]
  /\ rest' = [rest EXCEPT ![s] = {}]
  /\ serving' = [serving EXCEPT ![s] = Nil]
  /\ wrote' = [wrote EXCEPT ![s] = {}]
  /\ Unlocked(s)

PayRollback(s) ==
  /\ pay' = [pay EXCEPT ![s] = "done"]
  /\ EndPayment(s)
  /\ UNCHANGED <<orderRows, itemRows, serviced, req, checkout, sessionOrder, admin,
                 history, clock, requests>>

\* The INSERT fails: the item has a service by now, or is gone.
InsertRefused(s) ==
  /\ pay[s] = "insert" /\ InsertWaits(s) = {}
  /\ serving[s] \in serviced \/ quantity[serving[s]] = 0
  /\ PayRollback(s) /\ UNCHANGED faults

\* Services it has inserted get a job, and the order is 'provisioning'; those
\* that were there may get another (module Fulfilment).
PayCommit(s) ==
  LET o == sessionOrder[s] IN
  /\ Paying(s, "commit", "done")
  /\ \E newJobs \in BOOLEAN :
       /\ wrote[s] \ serviced # {} => newJobs
       /\ toServe[s] = {} => ~newJobs
       /\ newJobs => orderLock[o] \in {Nil, s}
       /\ status' = [status EXCEPT ![o] = IF newJobs THEN "provisioning"
                                         ELSE IF orderLock[o] = s THEN "paid" ELSE @]
  /\ serviced' = serviced \cup wrote[s]
  /\ EndPayment(s)
  /\ UNCHANGED <<created, total, itemRows, req, checkout, sessionOrder, admin, history,
                 clock, requests, faults>>

Paid(s) == pay[s] \in {"items", "services", "insert", "update", "commit"}

PayFails(s) == Paid(s) /\ Fault /\ PayRollback(s)

-----------------------------------------------------------------------------
(* Postgres' deadlock detector.                                            *)

Blockers(t) ==
  CASE t \in CartRequests /\ req[t].pc = "write" ->
         {itemLock[req[t].item]} \cup
         (IF req[t].op = "remove" THEN KeyShares(req[t].item) ELSE {})
    [] t \in CartRequests /\ req[t].pc = "total" -> {orderLock[req[t].order]} \ {t}
    [] t \in Checkouts /\ checkout[t].pc = "update" -> {orderLock[checkout[t].order]}
    [] t \in Sessions /\ pay[t] = "insert" -> InsertWaits(t)
    [] t \in Sessions /\ pay[t] = "update" -> Writers(t, serving[t])
    [] t \in Sessions /\ pay[t] = "commit" -> {orderLock[sessionOrder[t]]} \ {t}
    [] OTHER -> {}

\* Transactions none of which can go on before another of them does.
Knot(S) == S # {} /\ \A t \in S : Blockers(t) \cap S # {}
Deadlocked(t) == \E S \in SUBSET Txs :
                   /\ t \in S /\ Knot(S)
                   /\ \A u \in S : \E v \in S : u \in Blockers(v)

CartIsVictim(r) == Deadlocked(r) /\ Rollback(r) /\ UNCHANGED faults
PayIsVictim(s) == Deadlocked(s) /\ PayRollback(s) /\ UNCHANGED faults

-----------------------------------------------------------------------------
Continue(r) ==
  \/ FindItem(r) \/ WriteItem(r) \/ SumItems(r) \/ WriteTotal(r) \/ CommitCart(r)
  \/ DeleteRestricted(r) \/ CartIsVictim(r)

CartStep(r) ==
  \/ \E p \in Plans, q \in Quantities : BeginAdd(r, p, q)
  \/ \E i \in Items, q \in Quantities : BeginChange(r, "update", i, q)
  \/ \E i \in Items : BeginChange(r, "remove", i, 0)
  \/ Continue(r) \/ CartFails(r)

ContinueCheckout(k) ==
  \/ ReadLines(k) \/ (\E s \in Sessions : CreateSession(k, s))
  \/ UpdateOrder(k) \/ CommitCheckout(k) \/ Answer(k)

CheckoutStep(k) ==
  \/ \E o \in Orders : BeginCheckout(k, o)
  \/ ContinueCheckout(k) \/ CheckoutFails(k) \/ CommitUnknown(k) \/ AnswerIsLost(k)

ContinuePayment(s) ==
  \/ PayItems(s)
  \/ \E i \in rest[s] :
       FindNoService(s, i) \/ FindStoppedService(s, i) \/ FindService(s, i)
  \/ InsertService(s) \/ UpdateService(s) \/ InsertRefused(s)
  \/ PayCommit(s) \/ PayIsVictim(s)

PaymentStep(s) == PayOrder(s) \/ ContinuePayment(s) \/ PayFails(s)

AdminStep(a) ==
  \/ \E o \in Orders, to \in Statuses : AdminReads(a, o, to)
  \/ AdminUpdates(a) \/ AdminFails(a)

Next ==
  \/ \E r \in CartRequests : CartStep(r)
  \/ \E o \in Orders, new \in SUBSET Items \ {{}} :
       \E plans \in [new -> Plans], quantities \in [new -> Quantities] :
         CreateOrder(o, new, plans, quantities)
  \/ \E k \in Checkouts : CheckoutStep(k)
  \/ \E s \in Sessions : PaymentStep(s)
  \/ \E a \in Admins : AdminStep(a)

Spec == Init /\ [][Next]_vars

\* Goroutines are scheduled; nobody has to begin a request or to pay.
Fairness ==
  /\ \A r \in CartRequests : WF_vars(Continue(r))
  /\ \A k \in Checkouts : WF_vars(ContinueCheckout(k))
  /\ \A s \in Sessions : WF_vars(ContinuePayment(s))
  /\ \A a \in Admins : WF_vars(AdminUpdates(a))

FairSpec == Spec /\ Fairness

-----------------------------------------------------------------------------
(* Properties                                                              *)

\* Every variable holds a value of its table's or process's type.
TypeOK ==
  /\ status \in [Orders -> {"none"} \cup Statuses]
  /\ created \in [Orders -> Nat]
  /\ total \in [Orders -> [Items -> Nat]]
  /\ itemOrder \in [Items -> Orders \cup {Nil}]
  /\ plan \in [Items -> Plans \cup {Nil}]
  /\ quantity \in [Items -> Nat]
  /\ serviced \subseteq Items
  /\ orderLock \in [Orders -> Txs \cup {Nil}]
  /\ itemLock \in [Items -> CartRequests \cup {Nil}]
  /\ req \in [CartRequests -> {NoRequest} \cup CartRequest]
  /\ checkout \in [Checkouts -> {NoCheckout} \cup Checkout]
  /\ sessionOrder \in [Sessions -> Orders \cup {Nil}]
  /\ pay \in [Sessions -> {"none", "lost", "open", "items", "services", "insert",
                          "update", "commit", "done"}]
  /\ toServe \in [Sessions -> SUBSET Items] /\ rest \in [Sessions -> SUBSET Items]
  /\ wrote \in [Sessions -> SUBSET Items] /\ serving \in [Sessions -> Items \cup {Nil}]
  /\ \A s \in Sessions : pay[s] \in {"insert", "update"} => serving[s] # Nil
  /\ admin \in [Admins -> {NoChange} \cup [order : Orders, to : Statuses]]
  /\ byHand \in [Orders -> SUBSET Statuses]
  /\ stale \subseteq CartRequests /\ raced \subseteq Orders
  /\ clock \in Nat /\ requests \in Nat /\ faults \in Nat

(***************************************************************************)
(* "Recalculate the order's total" (order/handler.go:343, :417): what is   *)
(* committed as an order's total is the sum of the items committed,        *)
(* whatever checkouts, payments and other requests do.  One thing breaks   *)
(* it, until the next commit: a request that had summed the items when     *)
(* another's commit changed them, and wrote its sum over the other's.      *)
(***************************************************************************)
TotalIsSum ==
  \A o \in Orders : status[o] # "none" /\ o \notin raced => total[o] = Contents(o)

(***************************************************************************)
(* Two additions to one item add up (AddCartItem's quantity = quantity +   *)
(* $2): a commit of one that changes the item adds exactly its quantity,   *)
(* whatever has happened since the item was looked up.                     *)
(***************************************************************************)
AddsUp ==
  [][\A r \in CartRequests :
       LET i == req[r].item IN
       req[r].op = "add" /\ req[r].pc = "commit" /\ req'[r] = NoRequest
         /\ quantity' # quantity => quantity'[i] = quantity[i] + req[r].by
    ]_<<req, quantity>>

(***************************************************************************)
(* Cart requests and checkouts lock in one order, items before the order,  *)
(* and cannot deadlock among themselves, and the order's lock keeps its    *)
(* payments apart.  A deadlock takes a payment that meets the removal of   *)
(* one of its items, or two payments of one order of which one has read    *)
(* 'paid' and locked nothing.                                              *)
(***************************************************************************)
DeadlockNeedsPayment ==
  \A S \in SUBSET Txs : Knot(S) =>
    \E s \in S \cap Sessions :
      \/ \E r \in S \cap CartRequests : req[r].op = "remove"
      \/ \E t \in (S \cap Sessions) \ {s} :
           sessionOrder[t] = sessionOrder[s] /\ orderLock[sessionOrder[s]] # s

\* An order that awaits payment has a session whose URL the customer was given,
\* is about to be given, or would have been had the answer not been lost
\* (CreateCheckoutSession commits after session.New); unless an administrator
\* has set the status.
PendingHasSession ==
  \A o \in Orders : status[o] = "pending_payment" =>
    \/ "pending_payment" \in byHand[o]
    \/ \E s \in Sessions : sessionOrder[s] = o /\ pay[s] # "none"
    \/ \E k \in Checkouts : checkout[k].pc = "answer" /\ checkout[k].order = o

(***************************************************************************)
(* The items a payment has read are still there when it inserts their      *)
(* services rows, whose foreign key would fail otherwise: a removal has to *)
(* update the order, which the payment has locked or an earlier one had.   *)
(* Only an order that an administrator has set 'paid' may be in no         *)
(* payment's hands.                                                        *)
(***************************************************************************)
ReadItemsStay ==
  \A s \in Sessions :
    pay[s] # "none" /\ "paid" \notin byHand[sessionOrder[s]] =>
      \A i \in toServe[s] : quantity[i] > 0

(***************************************************************************)
(* Every request and every payment ends and releases its locks, through    *)
(* waits and deadlocks.  As their number is bounded here, each ends if and *)
(* only if there is always a later state in which none is under way and    *)
(* nothing is locked.                                                      *)
(***************************************************************************)
AtRest ==
  /\ \A r \in CartRequests : req[r] = NoRequest
  /\ \A k \in Checkouts : checkout[k] = NoCheckout
  /\ \A s \in Sessions : ~Paid(s)
  /\ \A a \in Admins : admin[a] = NoChange
  /\ \A o \in Orders : orderLock[o] = Nil
  /\ \A i \in Items : itemLock[i] = Nil

RequestsEnd == []<>AtRest

-----------------------------------------------------------------------------
(* The inductive invariant: what the statements and locks of the three     *)
(* kinds of transactions rely on.                                          *)

Live(r) == req[r].pc # "idle"
Written(r) == req[r].pc \in {"sum", "total", "commit"}
Inserts(r) == req[r].item # Nil /\ itemOrder[req[r].item] = Nil

\* The orders row is locked by the last statement before a commit or by the
\* first of a payment, an item's row from the request's write on.
LocksHeld ==
  /\ \A o \in Orders : orderLock[o] # Nil =>
       \/ orderLock[o] \in CartRequests /\ req[orderLock[o]].pc = "commit"
       \/ orderLock[o] \in Checkouts /\ checkout[orderLock[o]].pc = "commit"
       \/ /\ orderLock[o] \in Sessions /\ sessionOrder[orderLock[o]] = o
          /\ Paid(orderLock[o])
  /\ \A r \in CartRequests : req[r].pc = "commit" => orderLock[req[r].order] = r
  /\ \A i \in Items : itemLock[i] # Nil => Written(itemLock[i])

\* A deleted item has no services row and none is being inserted.
DeletesAreFree ==
  \A i \in Items : Deleters(i) # {} => i \notin serviced /\ KeyShares(i) = {}

\* Rows refer to rows.
RowsRefer ==
  \A i \in Items : IF itemOrder[i] = Nil THEN quantity[i] = 0
                   ELSE status[itemOrder[i]] # "none"

\* What a request relies on about its order and its item.
RequestInv(r) ==
  LET i == req[r].item IN
  /\ req[r].isNew <=> status[req[r].order] = "none"
  /\ req[r].op = "remove" \/ req[r].by > 0
  /\ req[r].op = "add" \/ (i # Nil /\ ~Inserts(r))
  /\ i # Nil => itemOrder[i] \in {Nil, req[r].order}
  /\ Inserts(r) => Written(r) /\ req[r].row = req[r].by
  /\ ~Inserts(r) /\ Written(r) =>
       IF quantity[i] = 0 THEN req[r].row = 0
       ELSE itemLock[i] = r /\ req[r].row = NewQuantity(r)

\* Ids are fresh.
NoSharedIds ==
  \A r, t \in CartRequests : r # t /\ Live(r) /\ Live(t) =>
    /\ req[r].isNew => req[t].order # req[r].order
    /\ Inserts(r) => req[t].item # req[r].item

\* What a checkout, a payment and an administrator rely on about the order.
CheckoutsRefer ==
  \A k \in Checkouts : checkout[k].pc # "idle" =>
    /\ status[checkout[k].order] # "none"
    /\ checkout[k].session # Nil =>
         /\ sessionOrder[checkout[k].session] = checkout[k].order
         /\ pay[checkout[k].session] = "none"
         /\ \A c \in Checkouts \ {k} : checkout[c].session # checkout[k].session
    /\ checkout[k].pc = "answer" => status[checkout[k].order] # "draft"

PaymentsRefer ==
  \A s \in Sessions : pay[s] # "none" =>
    sessionOrder[s] \in Orders /\ status[sessionOrder[s]] \notin {"none", "draft"}

AdminsRefer ==
  \A a \in Admins : admin[a] # NoChange =>
    status[admin[a].order] # "none" /\ admin[a].to # "draft"

\* What a payment has read, has yet to come to, has at hand and has written.
ItemsServed ==
  \A s \in Sessions :
    /\ ~Paid(s) \/ pay[s] = "items" => toServe[s] = {}
    /\ \A i \in toServe[s] : itemOrder[i] = sessionOrder[s]
    /\ rest[s] \subseteq toServe[s] /\ wrote[s] \subseteq toServe[s]
    /\ serving[s] # Nil => pay[s] \in {"insert", "update"} /\ serving[s] \in toServe[s]
    /\ pay[s] = "update" => serving[s] \in serviced
    /\ pay[s] = "commit" => toServe[s] \subseteq serviced \cup wrote[s]
    /\ toServe[s] \subseteq serviced \cup wrote[s] \cup rest[s] \cup {serving[s]}

\* No removal in progress takes a row from the order that the payments did not
\* see or that a services row does not keep.
Harmless(o) ==
  \A r \in CartRequests : req[r].op = "remove" /\ req[r].order = o =>
    quantity[req[r].item] = 0 \/ req[r].item \in serviced

ReadsStay ==
  /\ \A o \in Orders : status[o] = "paid" => Harmless(o) \/ "paid" \in byHand[o]
  /\ \A s \in Sessions : Paid(s) =>
       \/ orderLock[sessionOrder[s]] = s \/ Harmless(sessionOrder[s])
       \/ "paid" \in byHand[sessionOrder[s]]
  /\ \A s \in Sessions :
       Paid(s) /\ pay[s] # "items" /\ "paid" \notin byHand[sessionOrder[s]] =>
         /\ \A i \in toServe[s] : quantity[i] > 0
         /\ \A r \in CartRequests :
              req[r].op = "remove" /\ req[r].order = sessionOrder[s]
                /\ req[r].item \notin toServe[s] => quantity[req[r].item] = 0

\* A sum that no commit has overtaken is that of the items as they will be.
SumsFit ==
  \A r \in CartRequests \ stale : req[r].pc \in {"total", "commit"} =>
    req[r].sum = [Contents(req[r].order) EXCEPT ![req[r].item] = req[r].row]

RowsInv ==
  /\ TypeOK /\ LocksHeld /\ DeletesAreFree /\ RowsRefer
  /\ \A r \in CartRequests : Live(r) => RequestInv(r)
  /\ NoSharedIds /\ CheckoutsRefer /\ PaymentsRefer /\ AdminsRefer /\ ItemsServed
  /\ ReadsStay /\ PendingHasSession

CartInv == RowsInv /\ SumsFit
=============================================================================

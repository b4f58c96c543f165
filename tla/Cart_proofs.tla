----------------------------- MODULE Cart_proofs -----------------------------
(***************************************************************************)
(* Proofs about Cart for any number of orders, items, plans, requests,     *)
(* checkouts and sessions, and for any bounds.                             *)
(***************************************************************************)
EXTENDS Cart, TLAPS

-----------------------------------------------------------------------------
(* Type correctness                                                        *)

LEMMA StatusNames ==
  /\ {"draft", "pending_payment", "paid", "provisioning"} \subseteq Statuses
  /\ \A from \in Statuses : validTransitions[from] \subseteq Statuses \ {"draft"}
  /\ "none" \notin Statuses
BY DEF Statuses, validTransitions

LEMMA UnlockedTyped ==
  ASSUME TypeOK, NEW t, Unlocked(t)
  PROVE  /\ orderLock' \in [Orders -> Txs \cup {Nil}]
         /\ itemLock' \in [Items -> CartRequests \cup {Nil}]
BY DEF TypeOK, Unlocked

\* A request that is somewhere in its handler has the fields of one.
LEMMA RequestIsCart ==
  ASSUME TypeOK, NEW r \in CartRequests, req[r].pc # "idle"
  PROVE  req[r] \in CartRequest
BY DEF TypeOK, NoRequest

LEMMA LocalTyped ==
  ASSUME TypeOK, NEW r \in CartRequests, NEW next \in CartRequest, Local(r, next),
         orderLock' \in [Orders -> Txs \cup {Nil}],
         itemLock' \in [Items -> CartRequests \cup {Nil}]
  PROVE  TypeOK'
BY DEF TypeOK, Local, orderRows, itemRows, payments, work, history

LEMMA BeginTyped ==
  ASSUME TypeOK, NEW r \in CartRequests,
         \/ \E p \in Plans, q \in Quantities : BeginAdd(r, p, q)
         \/ \E i \in Items, q \in Quantities : BeginChange(r, "update", i, q)
         \/ \E i \in Items : BeginChange(r, "remove", i, 0)
  PROVE  TypeOK'
<1> USE CartAssumption
<1>1. Nothing \in [Items -> Nat] BY DEF Nothing
<1>2. \A q \in Quantities : q \in Nat BY DEF Quantities
<1>3. ASSUME NEW p \in Plans, NEW q \in Quantities, BeginAdd(r, p, q) PROVE TypeOK'
  <2>1. PICK o \in Orders, isNew \in BOOLEAN :
          req' = [req EXCEPT ![r] = [NoRequest EXCEPT
            !.op = "add", !.pc = "find", !.order = o, !.isNew = isNew, !.at = clock,
            !.plan = p, !.by = q]]
    BY <1>3 DEF BeginAdd
  <2>2. [NoRequest EXCEPT !.op = "add", !.pc = "find", !.order = o, !.isNew = isNew,
                          !.at = clock, !.plan = p, !.by = q] \in CartRequest
    BY <1>1, <1>2 DEF NoRequest, CartRequest, TypeOK
  <2>3. req' \in [CartRequests -> {NoRequest} \cup CartRequest]
    BY <2>1, <2>2 DEF TypeOK
  <2>4. /\ requests' = requests + 1 /\ clock' = clock + 1
        /\ UNCHANGED <<orderRows, itemRows, serviced, locks, checkout, payments, admin, history,
                       faults>>
    BY <1>3 DEF BeginAdd, Request, Tick
  <2> QED
    BY <2>3, <2>4 DEF TypeOK, orderRows, itemRows, locks, payments, work, history
<1>4. ASSUME NEW op \in {"update", "remove"}, NEW i \in Items, NEW q \in Nat,
             BeginChange(r, op, i, q)
      PROVE  TypeOK'
  <2>1. itemOrder[i] \in Orders BY <1>4 DEF BeginChange, Drafts
  <2>2. plan[i] \in Plans \cup {Nil} BY DEF TypeOK
  <2>3. [NoRequest EXCEPT !.op = op, !.pc = "write", !.order = itemOrder[i], !.item = i,
                          !.plan = plan[i], !.by = q] \in CartRequest
    BY <1>1, <2>1, <2>2 DEF NoRequest, CartRequest
  <2>4. req' \in [CartRequests -> {NoRequest} \cup CartRequest]
    BY <1>4, <2>3 DEF TypeOK, BeginChange
  <2>5. /\ requests' = requests + 1
        /\ UNCHANGED <<orderRows, itemRows, serviced, locks, checkout, payments, admin, history,
                       clock, faults>>
    BY <1>4 DEF BeginChange, Request
  <2> QED
    BY <2>4, <2>5 DEF TypeOK, orderRows, itemRows, locks, payments, work, history
<1> QED BY <1>2, <1>3, <1>4

LEMMA RollbackTyped ==
  ASSUME TypeOK, NEW r \in CartRequests, Rollback(r), faults' \in Nat
  PROVE  TypeOK'
BY UnlockedTyped DEF TypeOK, Rollback, orderRows, itemRows, payments, work

LEMMA ContinueTyped ==
  ASSUME TypeOK, NEW r \in CartRequests, Continue(r)
  PROVE  TypeOK'
<1> DEFINE o == req[r].order
           i == req[r].item
<1>1. CASE FindItem(r)
  <2>1. req[r] \in CartRequest BY <1>1, RequestIsCart DEF FindItem
  <2>2. PICK j \in Items, pc \in {"write", "sum"}, row \in {req[r].row, req[r].by} :
          Local(r, [req[r] EXCEPT !.pc = pc, !.item = j, !.row = row])
    <3>1. CASE \E j \in Items : Local(r, [req[r] EXCEPT !.pc = "write", !.item = j])
      <4>1. PICK j \in Items : Local(r, [req[r] EXCEPT !.pc = "write", !.item = j])
        BY <3>1
      <4>2. [req[r] EXCEPT !.pc = "write", !.item = j]
              = [req[r] EXCEPT !.pc = "write", !.item = j, !.row = req[r].row]
        BY <2>1 DEF CartRequest
      <4> QED BY <4>1, <4>2
    <3>2. CASE \E j \in Items :
                 Local(r, [req[r] EXCEPT !.pc = "sum", !.item = j, !.row = req[r].by])
      BY <3>2
    <3> QED BY <1>1, <3>1, <3>2 DEF FindItem, ItemsIn, FreshItems
  <2>3. [req[r] EXCEPT !.pc = pc, !.item = j, !.row = row] \in CartRequest
    BY <2>1, CartAssumption DEF CartRequest
  <2>4. locks' = locks BY <1>1 DEF FindItem
  <2> QED BY <2>2, <2>3, <2>4, LocalTyped DEF locks, TypeOK
<1>2. CASE WriteItem(r)
  <2>1. req[r] \in CartRequest BY <1>2, RequestIsCart DEF WriteItem
  <2>2. i \in Items /\ req[r].by \in Nat
    BY <1>2, <2>1 DEF CartRequest, WriteItem
  <2>3. NewQuantity(r) \in Nat
    <3>1. req[r].op \in {"add", "remove", "update"} BY <2>1 DEF CartRequest
    <3>2. quantity[i] \in Nat BY <2>2 DEF TypeOK
    <3> QED BY <2>2, <3>1, <3>2 DEF NewQuantity
  <2>4. PICK row \in Nat : Local(r, [req[r] EXCEPT !.pc = "sum", !.row = row])
    BY <1>2, <2>3 DEF WriteItem
  <2>5. [req[r] EXCEPT !.pc = "sum", !.row = row] \in CartRequest
    BY <1>2, <2>1, CartAssumption DEF CartRequest, WriteItem
  <2>6. itemLock' \in [Items -> CartRequests \cup {Nil}] /\ orderLock' = orderLock
    BY <1>2 DEF WriteItem, TypeOK
  <2> QED BY <2>4, <2>5, <2>6, LocalTyped DEF TypeOK
<1>3. CASE SumItems(r)
  <2>1. req[r] \in CartRequest /\ req[r].pc = "sum"
    BY <1>3, RequestIsCart DEF SumItems
  <2>2. Contents(o) \in [Items -> Nat] BY DEF Contents, TypeOK
  <2>3. [Contents(o) EXCEPT ![i] = req[r].row] \in [Items -> Nat]
    BY <2>1, <2>2 DEF CartRequest
  <2>4. [req[r] EXCEPT !.pc = "total",
                       !.sum = [Contents(o) EXCEPT ![i] = req[r].row]] \in CartRequest
    BY <2>1, <2>3 DEF CartRequest
  <2> QED BY <1>3, <2>4, LocalTyped DEF SumItems, locks, TypeOK
<1>4. CASE WriteTotal(r)
  <2>1. req[r] \in CartRequest /\ req[r].pc = "total"
    BY <1>4, RequestIsCart DEF WriteTotal
  <2>2. [req[r] EXCEPT !.pc = "commit"] \in CartRequest
    BY <2>1 DEF CartRequest
  <2>3. orderLock' \in [Orders -> Txs \cup {Nil}]
    BY <1>4 DEF WriteTotal, TypeOK, Txs
  <2>4. itemLock' = itemLock BY <1>4 DEF WriteTotal
  <2> QED BY <1>4, <2>2, <2>3, <2>4, LocalTyped DEF WriteTotal, TypeOK
<1>5. CASE CommitCart(r)
  <2>1. req[r] \in CartRequest /\ req[r].pc = "commit"
    BY <1>5, RequestIsCart DEF CommitCart
  <2>2. /\ o \in Orders /\ i \in Items /\ req[r].plan \in Plans \cup {Nil}
        /\ req[r].row \in Nat /\ req[r].at \in Nat /\ req[r].sum \in [Items -> Nat]
    BY <2>1 DEF CartRequest
  <2>3. itemOrder' \in [Items -> Orders \cup {Nil}] /\ plan' \in [Items -> Plans \cup {Nil}]
        /\ quantity' \in [Items -> Nat] /\ total' \in [Orders -> [Items -> Nat]]
    BY <1>5, <2>2 DEF CommitCart, TypeOK
  <2>4. /\ status' \in [Orders -> {"none"} \cup Statuses]
        /\ created' \in [Orders -> Nat]
    BY <1>5, <2>2, StatusNames DEF CommitCart, TypeOK
  <2>5. req' \in [CartRequests -> {NoRequest} \cup CartRequest]
    BY <1>5 DEF CommitCart, TypeOK
  <2>6. /\ Unlocked(r)
        /\ UNCHANGED <<serviced, checkout, payments, admin, byHand, clock, requests, faults>>
    BY <1>5 DEF CommitCart
  <2>7. stale' \subseteq CartRequests /\ raced' \subseteq Orders
    BY <1>5, <2>2 DEF CommitCart, Summed, TypeOK
  <2> QED BY <2>3, <2>4, <2>5, <2>6, <2>7, UnlockedTyped DEF TypeOK, payments, work
<1>6. CASE DeleteRestricted(r)
  BY <1>6, RollbackTyped DEF DeleteRestricted, TypeOK
<1>7. CASE CartIsVictim(r)
  BY <1>7, RollbackTyped DEF CartIsVictim, TypeOK
<1> QED BY <1>1, <1>2, <1>3, <1>4, <1>5, <1>6, <1>7 DEF Continue

LEMMA CreateOrderTyped ==
  ASSUME TypeOK, NEW o \in Orders, NEW new \in SUBSET Items,
         NEW plans \in [new -> Plans], NEW quantities \in [new -> Quantities],
         CreateOrder(o, new, plans, quantities)
  PROVE  TypeOK'
<1>1. \A j \in new : plans[j] \in Plans /\ quantities[j] \in Nat
  BY DEF Quantities
<1>2. /\ status' \in [Orders -> {"none"} \cup Statuses]
      /\ created' \in [Orders -> Nat]
  BY StatusNames DEF CreateOrder, TypeOK
<1>3. itemOrder' \in [Items -> Orders \cup {Nil}] /\ plan' \in [Items -> Plans \cup {Nil}]
      /\ quantity' \in [Items -> Nat]
  BY <1>1 DEF CreateOrder, TypeOK
<1>4. [j \in Items |-> IF j \in new THEN quantities[j] ELSE 0] \in [Items -> Nat]
  BY <1>1
<1>5. total' \in [Orders -> [Items -> Nat]]
  BY <1>4 DEF CreateOrder, TypeOK
<1>6. /\ requests' = requests + 1 /\ clock' = clock + 1
      /\ UNCHANGED <<serviced, locks, req, checkout, payments, admin, history,
                       faults>>
  BY DEF CreateOrder, Request, Tick
<1> QED BY <1>2, <1>3, <1>5, <1>6 DEF TypeOK, locks, payments, work, history

\* A checkout that is somewhere in its handler has the fields of one.
LEMMA CheckoutIsCheckout ==
  ASSUME TypeOK, NEW k \in Checkouts, checkout[k].pc # "idle"
  PROVE  checkout[k] \in Checkout
BY DEF TypeOK, NoCheckout

LEMMA CheckoutTyped ==
  ASSUME TypeOK, NEW k \in Checkouts, CheckoutStep(k)
  PROVE  TypeOK'
<1> USE CartAssumption
<1>1. ASSUME NEW o \in Orders, BeginCheckout(k, o) PROVE TypeOK'
  <2>1. [pc |-> "lines", order |-> o, session |-> Nil] \in Checkout BY DEF Checkout
  <2>2. checkout' \in [Checkouts -> {NoCheckout} \cup Checkout]
    BY <1>1, <2>1 DEF BeginCheckout, TypeOK
  <2>3. /\ requests' = requests + 1
        /\ UNCHANGED <<orderRows, itemRows, serviced, locks, req, payments, admin, history,
                       clock, faults>>
    BY <1>1 DEF BeginCheckout, Request
  <2> QED BY <2>2, <2>3 DEF TypeOK, orderRows, itemRows, locks, payments, work, history
<1>2. CASE ReadLines(k)
  <2>1. checkout[k] \in Checkout /\ checkout[k].pc = "lines"
    BY <1>2, CheckoutIsCheckout DEF ReadLines
  <2>2. [checkout[k] EXCEPT !.pc = "session"] \in Checkout BY <2>1 DEF Checkout, Txs
  <2>3. checkout' \in [Checkouts -> {NoCheckout} \cup Checkout]
    BY <1>2, <2>2 DEF ReadLines, TypeOK
  <2> QED BY <1>2, <2>3 DEF ReadLines, TypeOK, orderRows, itemRows, locks, payments, work, history
<1>3. ASSUME NEW s \in Sessions, CreateSession(k, s) PROVE TypeOK'
  <2>1. checkout[k] \in Checkout /\ checkout[k].pc = "session"
    BY <1>3, CheckoutIsCheckout DEF CreateSession
  <2>2. [checkout[k] EXCEPT !.pc = "update", !.session = s] \in Checkout
    BY <2>1 DEF Checkout, Txs
  <2>3. checkout' = [checkout EXCEPT ![k] =
                       [checkout[k] EXCEPT !.pc = "update", !.session = s]]
    BY <1>3 DEF CreateSession
  <2>4. checkout' \in [Checkouts -> {NoCheckout} \cup Checkout]
    BY <2>2, <2>3 DEF TypeOK
  <2>5. sessionOrder' \in [Sessions -> Orders \cup {Nil}]
    BY <1>3, <2>1 DEF CreateSession, Checkout, TypeOK
  <2> QED
    BY <1>3, <2>4, <2>5 DEF CreateSession, TypeOK, orderRows, itemRows, locks, work, history
<1>4. CASE UpdateOrder(k)
  <2>1. checkout[k] \in Checkout /\ checkout[k].pc = "update"
    BY <1>4, CheckoutIsCheckout DEF UpdateOrder
  <2>2. [checkout[k] EXCEPT !.pc = "commit"] \in Checkout BY <2>1 DEF Checkout
  <2>3. checkout' \in [Checkouts -> {NoCheckout} \cup Checkout]
    BY <1>4, <2>2 DEF UpdateOrder, TypeOK
  <2>4. orderLock' \in [Orders -> Txs \cup {Nil}]
    BY <1>4 DEF UpdateOrder, TypeOK, Txs
  <2> QED BY <1>4, <2>3, <2>4 DEF UpdateOrder, TypeOK, orderRows, itemRows, payments, work, history
<1>5. CASE CommitCheckout(k) \/ CommitUnknown(k)
  <2>1. checkout[k] \in Checkout /\ checkout[k].pc = "commit" /\ PendingPayment(k)
    BY <1>5, CheckoutIsCheckout DEF CommitCheckout, CommitUnknown, PendingPayment
  <2>2. checkout[k].order \in Orders /\ checkout[k].session \in Sessions
    BY <2>1 DEF Checkout
  <2>3. [checkout[k] EXCEPT !.pc = "answer"] \in Checkout BY <2>1, <2>2 DEF Checkout
  <2>4. status' \in [Orders -> {"none"} \cup Statuses]
    BY <2>1, <2>2, StatusNames DEF PendingPayment, TypeOK
  <2>5. checkout' \in [Checkouts -> {NoCheckout} \cup Checkout]
    BY <1>5, <2>3 DEF CommitCheckout, CommitUnknown, TypeOK
  <2>6. pay' = pay \/ pay' = [pay EXCEPT ![checkout[k].session] = "lost"]
    BY <1>5 DEF CommitCheckout, CommitUnknown
  <2>7. faults' \in Nat
    BY <1>5 DEF CommitCheckout, CommitUnknown, Fault, TypeOK
  <2>8. /\ Unlocked(k)
        /\ UNCHANGED <<created, total, itemRows, serviced, req, sessionOrder, work,
                       admin, history, clock, requests>>
    BY <2>1 DEF PendingPayment
  <2> QED
    BY <2>2, <2>4, <2>5, <2>6, <2>7, <2>8, UnlockedTyped DEF TypeOK, itemRows, work, history
<1>6. CASE CheckoutFails(k)
  BY <1>6, UnlockedTyped
     DEF CheckoutFails, Fault, TypeOK, orderRows, itemRows, payments, work, history
<1>7. CASE Answer(k) \/ AnswerIsLost(k)
  <2>1. PICK p \in {"open", "lost"} : AnswerWith(k, p)
    BY <1>7 DEF Answer, AnswerIsLost
  <2>2. checkout[k] \in Checkout /\ checkout[k].pc = "answer"
    BY <2>1, CheckoutIsCheckout DEF AnswerWith
  <2>3. checkout[k].session \in Sessions BY <2>2 DEF Checkout
  <2>4. faults' \in Nat BY <1>7 DEF Answer, AnswerIsLost, Fault, TypeOK
  <2> QED
    BY <2>1, <2>3, <2>4 DEF AnswerWith, TypeOK, orderRows, itemRows, locks, work, history
<1> QED
  BY <1>1, <1>2, <1>3, <1>4, <1>5, <1>6, <1>7 DEF CheckoutStep, ContinueCheckout

LEMMA PayRollbackTyped ==
  ASSUME TypeOK, NEW s \in Sessions, PayRollback(s), faults' \in Nat
  PROVE  TypeOK'
BY UnlockedTyped DEF TypeOK, PayRollback, EndPayment, orderRows, itemRows, history

\* Steps over the items and their services rows.
LEMMA ServeTyped ==
  ASSUME TypeOK, NEW s \in Sessions,
         \/ PayItems(s)
         \/ \E i \in rest[s] :
              FindNoService(s, i) \/ FindStoppedService(s, i) \/ FindService(s, i)
         \/ InsertService(s) \/ UpdateService(s)
  PROVE  TypeOK'
<1> USE CartAssumption
<1>1. OnlyPayment
  BY DEF PayItems, FindNoService, FindStoppedService, FindService, InsertService,
     UpdateService, WriteService
<1> DEFINE Goal ==
      /\ pay' \in [Sessions -> {"none", "lost", "open", "items", "services", "insert",
                                "update", "commit", "done"}]
      /\ toServe' \in [Sessions -> SUBSET Items] /\ rest' \in [Sessions -> SUBSET Items]
      /\ wrote' \in [Sessions -> SUBSET Items]
      /\ serving' \in [Sessions -> Items \cup {Nil}]
      /\ \A t \in Sessions : pay'[t] \in {"insert", "update"} => serving'[t] # Nil
<1> SUFFICES Goal
  BY <1>1 DEF OnlyPayment, TypeOK, orderRows, itemRows, locks, history
<1>2. CASE PayItems(s)
  <2>1. PICK p \in {"services", "commit"} : pay' = [pay EXCEPT ![s] = p]
    BY <1>2 DEF PayItems, Paying, Following
  <2>2. /\ UNCHANGED <<serving, wrote>> /\ ItemsIn(sessionOrder[s]) \subseteq Items
        /\ toServe' = [toServe EXCEPT ![s] = ItemsIn(sessionOrder[s])]
        /\ rest' = [rest EXCEPT ![s] = ItemsIn(sessionOrder[s])]
    BY <1>2 DEF PayItems, ItemsIn
  <2> QED BY <2>1, <2>2 DEF TypeOK
<1>3. ASSUME NEW i \in rest[s], FindNoService(s, i) \/ FindStoppedService(s, i)
      PROVE  Goal
  <2>1. PICK p \in {"insert", "update"} : pay' = [pay EXCEPT ![s] = p]
    BY <1>3 DEF FindNoService, FindStoppedService, Paying
  <2>2. /\ UNCHANGED <<toServe, wrote>> /\ i \in Items
        /\ rest' = [rest EXCEPT ![s] = @ \ {i}] /\ serving' = [serving EXCEPT ![s] = i]
    BY <1>3 DEF FindNoService, FindStoppedService, TypeOK
  <2> QED BY <2>1, <2>2 DEF TypeOK
<1>4. ASSUME NEW i \in rest[s], FindService(s, i) PROVE Goal
  <2>1. PICK p \in {"services", "commit"} : pay' = [pay EXCEPT ![s] = p]
    BY <1>4 DEF FindService, Paying, Following
  <2>2. UNCHANGED <<toServe, wrote, serving>> /\ rest' = [rest EXCEPT ![s] = @ \ {i}]
    BY <1>4 DEF FindService
  <2> QED BY <2>1, <2>2 DEF TypeOK
<1>5. CASE InsertService(s) \/ UpdateService(s)
  <2>1. PICK p \in {"services", "commit"} : pay' = [pay EXCEPT ![s] = p]
    BY <1>5 DEF InsertService, UpdateService, WriteService, Paying, Following
  <2>2. /\ UNCHANGED <<toServe, rest>> /\ serving[s] \in Items
        /\ wrote' = [wrote EXCEPT ![s] = @ \cup {serving[s]}]
        /\ serving' = [serving EXCEPT ![s] = Nil]
    BY <1>5 DEF InsertService, UpdateService, WriteService, Paying, TypeOK
  <2> QED BY <2>1, <2>2 DEF TypeOK
<1> QED BY <1>2, <1>3, <1>4, <1>5

LEMMA PaymentTyped ==
  ASSUME TypeOK, NEW s \in Sessions, PaymentStep(s)
  PROVE  TypeOK'
<1> USE CartAssumption
<1>1. CASE PayOrder(s)
  <2>1. orderLock' \in [Orders -> Txs \cup {Nil}]
    BY SMTT(30), <1>1 DEF PayOrder, TypeOK, Txs
  <2> QED
    BY <1>1, <2>1 DEF PayOrder, Paying, TypeOK, orderRows, itemRows, work, history
<1>2. CASE PayCommit(s)
  <2>1. status' \in [Orders -> {"none"} \cup Statuses]
    <3>1. PICK st : status' = [status EXCEPT ![sessionOrder[s]] = st]
                    /\ st \in {"provisioning", "paid", status[sessionOrder[s]]}
      BY <1>2 DEF PayCommit
    <3> QED BY <3>1, StatusNames DEF TypeOK
  <2>2. /\ pay' = [pay EXCEPT ![s] = "done"]
        /\ serviced' \subseteq Items
    BY <1>2 DEF PayCommit, Paying, TypeOK
  <2>3. /\ EndPayment(s)
        /\ UNCHANGED <<created, total, itemRows, req, checkout, sessionOrder, admin,
                       history, clock, requests, faults>>
    BY <1>2 DEF PayCommit
  <2> QED
    BY <2>1, <2>2, <2>3, UnlockedTyped DEF EndPayment, TypeOK, itemRows, history
<1>3. CASE PayIsVictim(s)
  BY <1>3, PayRollbackTyped DEF PayIsVictim, TypeOK
<1>4. CASE PayFails(s)
  BY <1>4, PayRollbackTyped DEF PayFails, Fault, TypeOK
<1>5. CASE InsertRefused(s)
  BY <1>5, PayRollbackTyped DEF InsertRefused, TypeOK
<1> QED
  BY <1>1, <1>2, <1>3, <1>4, <1>5, ServeTyped DEF PaymentStep, ContinuePayment

LEMMA AdminTyped ==
  ASSUME TypeOK, NEW a \in Admins, AdminStep(a)
  PROVE  TypeOK'
<1>1. ASSUME NEW o \in Orders, NEW to \in Statuses, AdminReads(a, o, to) PROVE TypeOK'
  <2>1. [order |-> o, to |-> to] \in [order : Orders, to : Statuses]
    OBVIOUS
  <2>2. admin' \in [Admins -> {NoChange} \cup [order : Orders, to : Statuses]]
    BY <1>1, <2>1 DEF AdminReads, TypeOK
  <2> QED
    BY <1>1, <2>2 DEF AdminReads, Request, TypeOK, orderRows, itemRows, locks, payments,
       work, history
<1>2. CASE AdminUpdates(a)
  <2>1. admin[a].order \in Orders /\ admin[a].to \in Statuses
    BY <1>2 DEF AdminUpdates, TypeOK
  <2>2. /\ status' \in [Orders -> {"none"} \cup Statuses]
        /\ byHand' \in [Orders -> SUBSET Statuses]
        /\ admin' \in [Admins -> {NoChange} \cup [order : Orders, to : Statuses]]
    BY <1>2, <2>1 DEF AdminUpdates, TypeOK
  <2> QED BY <1>2, <2>2 DEF AdminUpdates, TypeOK, itemRows, locks, payments, work
<1>3. CASE AdminFails(a)
  BY <1>3 DEF AdminFails, Fault, TypeOK, orderRows, itemRows, locks, payments, work, history
<1> QED BY <1>1, <1>2, <1>3 DEF AdminStep

LEMMA InitTyped == Init => TypeOK
BY CartAssumption DEF Init, TypeOK, Nothing, NoRequest, NoCheckout, NoChange, Txs

LEMMA NextTyped == TypeOK /\ [Next]_vars => TypeOK'
<1> SUFFICES ASSUME TypeOK, [Next]_vars PROVE TypeOK'
  OBVIOUS
<1>1. ASSUME NEW r \in CartRequests, CartStep(r) PROVE TypeOK'
  <2>1. CASE CartFails(r)
    BY <2>1, RollbackTyped DEF CartFails, Fault, TypeOK
  <2> QED BY <1>1, <2>1, BeginTyped, ContinueTyped DEF CartStep
<1>2. ASSUME NEW o \in Orders, NEW new \in SUBSET Items \ {{}},
             NEW plans \in [new -> Plans], NEW quantities \in [new -> Quantities],
             CreateOrder(o, new, plans, quantities)
      PROVE  TypeOK'
  BY <1>2, CreateOrderTyped
<1>3. ASSUME NEW k \in Checkouts, CheckoutStep(k) PROVE TypeOK'
  BY <1>3, CheckoutTyped
<1>4. ASSUME NEW s \in Sessions, PaymentStep(s) PROVE TypeOK'
  BY <1>4, PaymentTyped
<1>5. ASSUME NEW a \in Admins, AdminStep(a) PROVE TypeOK'
  BY <1>5, AdminTyped
<1>6. CASE UNCHANGED vars
  BY <1>6 DEF vars, TypeOK, orderRows, itemRows, locks, payments, work, history
<1> QED BY <1>1, <1>2, <1>3, <1>4, <1>5, <1>6 DEF Next

\* Every variable holds a value of its table's or process's type, whatever the
\* interleaving of carts, checkouts, payments and administrators.
THEOREM TypeCorrect == Spec => []TypeOK
BY InitTyped, NextTyped, PTL DEF Spec

-----------------------------------------------------------------------------
(* The inductive invariant                                                 *)

LEMMA RequestFields ==
  ASSUME TypeOK, NEW r \in CartRequests
  PROVE  /\ ~Live(r) => req[r] = NoRequest
         /\ Live(r) =>
              /\ req[r] \in CartRequest
              /\ req[r].order \in Orders /\ req[r].item \in Items \cup {Nil}
              /\ req[r].item = Nil <=> req[r].pc = "find"
              /\ req[r].op \in {"add", "remove", "update"}
              /\ req[r].by \in Nat /\ req[r].row \in Nat
         /\ req[r].op = "remove" => Live(r)
BY DEF TypeOK, Live, NoRequest, CartRequest

LEMMA CheckoutFields ==
  ASSUME TypeOK, NEW k \in Checkouts
  PROVE  checkout[k].pc # "idle" =>
           /\ checkout[k] \in Checkout
           /\ checkout[k].order \in Orders /\ checkout[k].session \in Sessions \cup {Nil}
           /\ checkout[k].session = Nil <=> checkout[k].pc \in {"lines", "session"}
BY DEF TypeOK, NoCheckout, Checkout

LEMMA AdminFields ==
  ASSUME TypeOK, NEW a \in Admins, admin[a] # NoChange
  PROVE  admin[a].order \in Orders /\ admin[a].to \in Statuses
BY DEF TypeOK

\* The payments' part of the invariant does not depend on the locals of a cart
\* request that stays the same removal or is none.
LEMMA ReadsStayHere ==
  ASSUME ReadsStay, UNCHANGED <<status, quantity, serviced, payments, byHand>>,
         \A r \in CartRequests : req'[r].op = "remove" =>
           /\ req[r].op = "remove" /\ req[r].order = req'[r].order
           /\ req[r].item = req'[r].item,
         \A s \in Sessions : Paid(s) /\ orderLock[sessionOrder[s]] = s =>
           orderLock'[sessionOrder[s]] = s
  PROVE  ReadsStay'
BY DEF ReadsStay, Harmless, Paid, payments, work

\* A request whose order and item have not changed.
LEMMA RequestStays ==
  ASSUME NEW t \in CartRequests, RequestInv(t), req'[t] = req[t],
         status'[req[t].order] = "none" <=> status[req[t].order] = "none",
         req[t].item # Nil =>
           /\ itemOrder'[req[t].item] = itemOrder[req[t].item]
           /\ quantity'[req[t].item] = quantity[req[t].item]
           /\ itemLock[req[t].item] = t => itemLock'[req[t].item] = t,
         req[t].item = Nil => ~Written(t)
  PROVE  RequestInv(t)'
<1>1. Written(t)' = Written(t) BY DEF Written
<1>2. Inserts(t)' = Inserts(t) BY DEF Inserts
<1>3. req[t].item # Nil => NewQuantity(t)' = NewQuantity(t) BY DEF NewQuantity
<1> QED BY <1>1, <1>2, <1>3 DEF RequestInv

LEMMA LockOwners ==
  ASSUME TypeOK
  PROVE  /\ \A o \in Orders : orderLock[o] \in Txs \cup {Nil}
         /\ \A i \in Items : itemLock[i] \in CartRequests \cup {Nil}
         /\ \A t \in CartRequests : req[t].item = Nil => ~Written(t)
BY DEF TypeOK, Written, CartRequest, NoRequest

\* Steps of a request between its first statement and its commit.
LEMMA LocalInv ==
  ASSUME RowsInv, NEW r \in CartRequests, NEW next, Local(r, next), Live(r),
         next \in CartRequest, next.op = req[r].op, next.order = req[r].order,
         next.isNew = req[r].isNew, next.by = req[r].by,
         next.item = req[r].item \/ req[r].op = "add",
         \A s \in Sessions : Paid(s) /\ orderLock[sessionOrder[s]] = s =>
           orderLock'[sessionOrder[s]] = s
  PROVE  RowsRefer' /\ CheckoutsRefer' /\ PaymentsRefer' /\ AdminsRefer' /\ ItemsServed'
           /\ ReadsStay' /\ PendingHasSession'
<1> USE DEF RowsInv, work, history
<1>1. UNCHANGED <<orderRows, itemRows, serviced, checkout, payments, admin, byHand>>
  BY DEF Local
<1>2. \A t \in CartRequests : req'[t].op = "remove" =>
           /\ req[t].op = "remove" /\ req[t].order = req'[t].order
           /\ req[t].item = req'[t].item
  BY DEF Local, TypeOK
<1>3. ReadsStay'
  BY <1>1, <1>2, ReadsStayHere DEF orderRows, itemRows
<1> QED
  BY <1>1, <1>3 DEF RowsRefer, CheckoutsRefer, PaymentsRefer, AdminsRefer, ItemsServed,
     Paid, PendingHasSession, orderRows, itemRows, payments

LEMMA FindItemInv ==
  ASSUME RowsInv, TypeOK', NEW r \in CartRequests, FindItem(r)
  PROVE  RowsInv'
<1> USE CartAssumption DEF RowsInv, work, history
<1>1. Live(r) /\ req[r] \in CartRequest /\ req[r].item = Nil /\ req[r].order \in Orders
  BY RequestFields DEF FindItem, Live
<1>2. req[r].op = "add" /\ req[r].by > 0
  BY <1>1 DEF RequestInv
<1>3. PICK j \in Items, next \in CartRequest :
        /\ Local(r, next) /\ next.item = j
        /\ next.op = "add" /\ next.order = req[r].order /\ next.isNew = req[r].isNew
        /\ next.by = req[r].by
        /\ \/ next.pc = "write" /\ j \in ItemsIn(req[r].order)
           \/ next.pc = "sum" /\ j \in FreshItems /\ next.row = req[r].by
  <2>1. CASE \E j \in ItemsIn(req[r].order) :
               Local(r, [req[r] EXCEPT !.pc = "write", !.item = j])
    <3>1. PICK j \in ItemsIn(req[r].order) :
                 Local(r, [req[r] EXCEPT !.pc = "write", !.item = j])
      BY <2>1
    <3>2. j \in Items /\ j # Nil BY <3>1 DEF ItemsIn
    <3> DEFINE next == [req[r] EXCEPT !.pc = "write", !.item = j]
    <3>3. /\ next \in CartRequest /\ next.item = j
          /\ next.op = "add" /\ next.order = req[r].order /\ next.isNew = req[r].isNew
          /\ next.by = req[r].by /\ next.pc = "write"
      BY <1>1, <1>2, <3>2 DEF CartRequest
    <3> HIDE DEF next
    <3> QED BY <3>1, <3>2, <3>3 DEF next
  <2>2. CASE \E j \in FreshItems :
               Local(r, [req[r] EXCEPT !.pc = "sum", !.item = j, !.row = req[r].by])
    <3>1. PICK j \in FreshItems :
                 Local(r, [req[r] EXCEPT !.pc = "sum", !.item = j, !.row = req[r].by])
      BY <2>2
    <3>2. j \in Items /\ j # Nil BY <3>1 DEF FreshItems
    <3> DEFINE next == [req[r] EXCEPT !.pc = "sum", !.item = j, !.row = req[r].by]
    <3>3. /\ next \in CartRequest /\ next.item = j
          /\ next.op = "add" /\ next.order = req[r].order /\ next.isNew = req[r].isNew
          /\ next.by = req[r].by /\ next.pc = "sum" /\ next.row = req[r].by
      BY <1>1, <1>2, <3>2 DEF CartRequest
    <3> HIDE DEF next
    <3> QED BY <3>1, <3>2, <3>3 DEF next
  <2> QED BY <2>1, <2>2 DEF FindItem
<1>4. /\ req' = [req EXCEPT ![r] = next]
      /\ UNCHANGED <<status, itemOrder, quantity, itemLock, orderLock, serviced, checkout,
                     sessionOrder, pay,
                  work, admin, byHand>>
  BY <1>3 DEF Local, FindItem, orderRows, itemRows, payments, locks
<1>5. req'[r] = next /\ \A t \in CartRequests : t # r => req'[t] = req[t]
  BY <1>4 DEF TypeOK
<1>6. LocksHeld'
  <2>1. req[r].pc = "find" /\ next.pc # "commit" BY <1>3 DEF FindItem
  <2> QED BY <1>4, <1>5, <2>1, LockOwners DEF LocksHeld, Written, Paid
<1>7. DeletesAreFree'
  BY <1>3, <1>4, <1>5, <1>2 DEF DeletesAreFree, Deleters, KeyShares
<1>8. \A t \in CartRequests : Live(t)' => RequestInv(t)'
  <2> TAKE t \in CartRequests
  <2>1. CASE t # r
    BY <1>4, <1>5, <2>1, RequestStays, LockOwners DEF Live
  <2>2. CASE t = r
    BY <1>1, <1>2, <1>3, <1>4, <1>5, <2>2
       DEF RequestInv, Inserts, Written, ItemsIn, FreshItems, RowsRefer, TypeOK
  <2> QED BY <2>1, <2>2
<1>9. NoSharedIds'
  <2>1. \A t \in CartRequests : t # r /\ Live(t) => (Inserts(r)' => req[t].item # next.item)
    <3>1. CASE next.pc = "write"
      BY <1>1, <1>3, <1>4, <1>5, <3>1 DEF Inserts, ItemsIn
    <3>2. CASE j \in FreshItems
      BY <1>3, <3>2 DEF FreshItems
    <3> QED BY <1>3, <3>1, <3>2
  <2>2. \A t \in CartRequests : t # r /\ Live(t) => (Inserts(t) => req[t].item # next.item)
    <3>1. CASE j \in ItemsIn(req[r].order)
      BY <1>1, <1>3, <3>1 DEF Inserts, ItemsIn
    <3>2. CASE j \in FreshItems
      BY <1>3, <3>2 DEF FreshItems
    <3> QED BY <1>3, <3>1, <3>2
  <2> QED BY <1>1, <1>3, <1>4, <1>5, <2>1, <2>2 DEF NoSharedIds, Live, Inserts
<1> QED
  BY <1>1, <1>2, <1>3, <1>4, <1>6, <1>7, <1>8, <1>9, LocalInv

LEMMA WriteItemInv ==
  ASSUME RowsInv, TypeOK', NEW r \in CartRequests, WriteItem(r)
  PROVE  RowsInv'
<1> USE CartAssumption DEF RowsInv, work, history
<1> DEFINE i == req[r].item
<1>1. /\ Live(r) /\ req[r] \in CartRequest /\ req[r].order \in Orders /\ i \in Items
      /\ req[r].pc = "write" /\ ~Inserts(r)
  BY RequestFields DEF WriteItem, Live, RequestInv, Written
<1>2. PICK next \in CartRequest :
        /\ Local(r, next) /\ next.pc = "sum" /\ next.item = i /\ next.op = req[r].op
        /\ next.order = req[r].order /\ next.isNew = req[r].isNew /\ next.by = req[r].by
        /\ IF quantity[i] = 0
           THEN next.row = 0 /\ itemLock' = itemLock
           ELSE next.row = NewQuantity(r) /\ itemLock' = [itemLock EXCEPT ![i] = r]
  <2>1. NewQuantity(r) \in Nat
    BY <1>1 DEF NewQuantity, CartRequest, TypeOK
  <2>2. PICK row \in Nat :
          /\ Local(r, [req[r] EXCEPT !.pc = "sum", !.row = row])
          /\ IF quantity[i] = 0
             THEN row = 0 /\ itemLock' = itemLock
             ELSE row = NewQuantity(r) /\ itemLock' = [itemLock EXCEPT ![i] = r]
    BY <2>1 DEF WriteItem
  <2> DEFINE next == [req[r] EXCEPT !.pc = "sum", !.row = row]
  <2>3. /\ next \in CartRequest /\ next.pc = "sum" /\ next.item = i
        /\ next.op = req[r].op /\ next.order = req[r].order /\ next.by = req[r].by
        /\ next.isNew = req[r].isNew /\ next.row = row
    BY <1>1 DEF CartRequest
  <2> HIDE DEF next
  <2> QED BY <2>2, <2>3 DEF next
<1>3. /\ req' = [req EXCEPT ![r] = next]
      /\ itemLock[i] = Nil
      /\ req[r].op = "remove" => KeyShares(i) = {} /\ i \notin serviced
      /\ UNCHANGED <<status, itemOrder, quantity, orderLock, serviced, checkout,
                     sessionOrder, pay,
                  work, admin, byHand>>
  BY <1>2 DEF Local, WriteItem, orderRows, itemRows, payments
<1>4. req'[r] = next /\ \A t \in CartRequests : t # r => req'[t] = req[t]
  BY <1>3 DEF TypeOK
<1>5. LocksHeld'
  <2>1. \A j \in Items : itemLock'[j] # Nil => itemLock'[j] = r \/ itemLock'[j] = itemLock[j]
    BY <1>1, <1>2 DEF TypeOK
  <2> QED BY <1>1, <1>2, <1>3, <1>4, <2>1, LockOwners DEF LocksHeld, Written, Paid
<1>6. DeletesAreFree'
  <2> SUFFICES ASSUME NEW j \in Items, NEW t \in Deleters(j)'
               PROVE  j \notin serviced /\ KeyShares(j) = {}
    BY <1>3 DEF DeletesAreFree, KeyShares
  <2>1. CASE t = r /\ j = i
    BY <1>2, <1>3, <1>4, <2>1 DEF Deleters
  <2>2. CASE t # r \/ j # i
    <3>1. t \in Deleters(j)
      BY <1>1, <1>2, <1>3, <1>4, <2>2 DEF Deleters, TypeOK
    <3> QED BY <3>1 DEF DeletesAreFree
  <2> QED BY <2>1, <2>2
<1>7. \A t \in CartRequests : Live(t)' => RequestInv(t)'
  <2> TAKE t \in CartRequests
  <2>1. CASE t # r
    <3>1. req[t].item \in Items /\ itemLock[req[t].item] = t => itemLock'[req[t].item] = t
      <4>1. CASE req[t].item = i
        BY <1>3, <2>1, <4>1 DEF Txs
      <4>2. CASE req[t].item # i
        BY <1>2, <4>2 DEF TypeOK
      <4> QED BY <4>1, <4>2
    <3>2. Live(t)' => req[t].item \in Items \cup {Nil}
      BY <1>4, <2>1, RequestFields DEF Live
    <3> QED BY <1>3, <1>4, <2>1, <3>1, <3>2, RequestStays, LockOwners DEF Live
  <2>2. CASE t = r
    <3>1. NewQuantity(r)' = NewQuantity(r)
      BY <1>2, <1>3, <1>4 DEF NewQuantity
    <3> QED
      BY <1>1, <1>2, <1>3, <1>4, <2>2, <3>1
         DEF RequestInv, Inserts, Written, TypeOK
  <2> QED BY <2>1, <2>2
<1>8. NoSharedIds'
  BY <1>1, <1>2, <1>3, <1>4 DEF NoSharedIds, Live, Inserts
<1> QED
  BY <1>1, <1>2, <1>3, <1>5, <1>6, <1>7, <1>8, LocalInv

\* Steps of a request that has written its item.
LEMMA WrittenInv ==
  ASSUME RowsInv, TypeOK', NEW r \in CartRequests, NEW next, Local(r, next), Written(r),
         next \in CartRequest, next.op = req[r].op, next.order = req[r].order,
         next.isNew = req[r].isNew, next.by = req[r].by, next.item = req[r].item,
         next.row = req[r].row, itemLock' = itemLock,
         \/ next.pc = "total" /\ orderLock' = orderLock /\ req[r].pc # "commit"
         \/ /\ next.pc = "commit" /\ orderLock[req[r].order] \in {Nil, r}
            /\ orderLock' = [orderLock EXCEPT ![req[r].order] = r]
  PROVE  RowsInv'
<1> USE CartAssumption DEF RowsInv, work, history
<1> DEFINE o == req[r].order
<1>1. Live(r) /\ o \in Orders /\ req[r].item \in Items
  BY RequestFields DEF Written, Live
<1>2. /\ req' = [req EXCEPT ![r] = next]
      /\ UNCHANGED <<status, itemOrder, quantity, serviced, checkout, sessionOrder, pay,
                  work, admin, byHand>>
  BY DEF Local, orderRows, itemRows, payments
<1>3. req'[r] = next /\ \A t \in CartRequests : t # r => req'[t] = req[t]
  BY <1>2 DEF TypeOK
<1>4. LocksHeld'
  <2>1. \A p \in Orders : orderLock'[p] = orderLock[p] \/ (p = o /\ orderLock'[p] = r)
    BY <1>1 DEF TypeOK
  <2>2. \A t \in CartRequests : t # r /\ req[t].pc = "commit" =>
          orderLock'[req[t].order] = t
    <3> TAKE t \in CartRequests
    <3> HAVE t # r /\ req[t].pc = "commit"
    <3>1. orderLock[req[t].order] = t /\ req[t].order \in Orders
      BY RequestFields DEF LocksHeld, Live
    <3> QED BY <2>1, <3>1 DEF Txs
  <2>3. next.pc = "commit" => orderLock'[o] = r BY <1>1 DEF TypeOK
  <2> QED BY <1>2, <1>3, <2>1, <2>2, <2>3, LockOwners DEF LocksHeld, Written, Paid
<1>5. DeletesAreFree'
  BY <1>2, <1>3 DEF DeletesAreFree, Deleters, KeyShares
<1>6. \A t \in CartRequests : Live(t)' => RequestInv(t)'
  <2> TAKE t \in CartRequests
  <2>1. CASE t # r
    BY <1>2, <1>3, <2>1, RequestStays, LockOwners DEF Live
  <2>2. CASE t = r
    <3>1. NewQuantity(r)' = NewQuantity(r) BY <1>2, <1>3 DEF NewQuantity
    <3> QED BY <1>1, <1>2, <1>3, <2>2, <3>1 DEF RequestInv, Inserts, Written
  <2> QED BY <2>1, <2>2
<1>7. NoSharedIds'
  BY <1>1, <1>2, <1>3 DEF NoSharedIds, Live, Inserts
<1>8. \A s \in Sessions : Paid(s) /\ orderLock[sessionOrder[s]] = s =>
        orderLock'[sessionOrder[s]] = s
  <2> TAKE s \in Sessions
  <2> HAVE Paid(s) /\ orderLock[sessionOrder[s]] = s
  <2>1. sessionOrder[s] \in Orders BY DEF PaymentsRefer, Paid
  <2> QED BY <1>1, <2>1 DEF TypeOK, Txs
<1> QED
  BY <1>1, <1>4, <1>5, <1>6, <1>7, <1>8, LocalInv

LEMMA SumItemsInv ==
  ASSUME RowsInv, TypeOK', NEW r \in CartRequests, SumItems(r)
  PROVE  RowsInv'
<1> USE CartAssumption DEF RowsInv, work, history
<1>1. Live(r) /\ req[r] \in CartRequest /\ req[r].pc = "sum"
  BY RequestFields DEF SumItems, Live
<1> DEFINE next == [req[r] EXCEPT !.pc = "total",
                       !.sum = [Contents(req[r].order) EXCEPT ![req[r].item] = req[r].row]]
<1>2. /\ Local(r, next) /\ next.pc = "total" /\ next.item = req[r].item
      /\ next.op = req[r].op /\ next.order = req[r].order /\ next.isNew = req[r].isNew
      /\ next.by = req[r].by /\ next.row = req[r].row
  BY <1>1 DEF SumItems, CartRequest
<1> HIDE DEF next
<1>3. /\ req' = [req EXCEPT ![r] = next]
      /\ UNCHANGED <<status, itemOrder, quantity, locks, serviced, checkout,
                     sessionOrder, pay,
                  work, admin, byHand>>
  BY <1>2 DEF Local, SumItems, orderRows, itemRows, payments
<1>4. req'[r] = next /\ \A t \in CartRequests : t # r => req'[t] = req[t]
  BY <1>3 DEF TypeOK
<1>5. next \in CartRequest
  BY <1>1, <1>2, <1>4, RequestFields DEF TypeOK, NoRequest
<1> QED BY <1>1, <1>2, <1>3, <1>4, <1>5, WrittenInv DEF Written, locks

LEMMA WriteTotalInv ==
  ASSUME RowsInv, TypeOK', NEW r \in CartRequests, WriteTotal(r)
  PROVE  RowsInv'
<1> USE DEF RowsInv, work, history
<1>1. req[r] \in CartRequest /\ req[r].pc = "total"
  BY RequestFields DEF WriteTotal, Live
<1> DEFINE next == [req[r] EXCEPT !.pc = "commit"]
<1>2. /\ Local(r, next) /\ next.pc = "commit" /\ next.item = req[r].item
      /\ next.op = req[r].op /\ next.order = req[r].order /\ next.isNew = req[r].isNew
      /\ next.by = req[r].by /\ next.row = req[r].row /\ next \in CartRequest
  BY <1>1 DEF WriteTotal, CartRequest
<1> HIDE DEF next
<1> QED BY <1>1, <1>2, WrittenInv DEF WriteTotal, Written

LEMMA RollbackInv ==
  ASSUME RowsInv, TypeOK', NEW r \in CartRequests, Rollback(r)
  PROVE  RowsInv'
<1> USE CartAssumption DEF RowsInv, work, history
<1>1. /\ req' = [req EXCEPT ![r] = NoRequest]
      /\ UNCHANGED <<status, itemOrder, quantity, serviced, checkout, sessionOrder, pay,
                  work, admin, byHand>>
  BY DEF Rollback, orderRows, itemRows, payments
<1>2. req'[r] = NoRequest /\ \A t \in CartRequests : t # r => req'[t] = req[t]
  BY <1>1 DEF TypeOK
<1>3. /\ \A o \in Orders : orderLock'[o] = IF orderLock[o] = r THEN Nil ELSE orderLock[o]
      /\ \A i \in Items : itemLock'[i] = IF itemLock[i] = r THEN Nil ELSE itemLock[i]
  BY DEF Rollback, Unlocked
<1>4. NoRequest.pc = "idle" /\ NoRequest.op = "none"
  BY DEF NoRequest
<1>5. LocksHeld'
  <2>1. \A t \in CartRequests : t # r /\ req[t].pc = "commit" => req[t].order \in Orders
    BY RequestFields DEF Live
  <2> QED BY <1>1, <1>2, <1>3, <1>4, <2>1, LockOwners DEF LocksHeld, Written, Paid
<1>6. DeletesAreFree'
  <2>1. \A i \in Items : Deleters(i)' \subseteq Deleters(i)
    BY <1>2, <1>3, <1>4, CartAssumption DEF Deleters, Txs
  <2> QED BY <1>1, <2>1 DEF DeletesAreFree, KeyShares
<1>7. \A t \in CartRequests : Live(t)' => RequestInv(t)'
  <2> TAKE t \in CartRequests
  <2> HAVE Live(t)'
  <2>1. t # r /\ req'[t] = req[t] /\ Live(t) BY <1>2, <1>4 DEF Live
  <2>2. req[t].item \in Items \cup {Nil} BY <2>1, RequestFields
  <2> QED BY <1>1, <1>3, <2>1, <2>2, RequestStays, LockOwners
<1>8. NoSharedIds'
  BY <1>1, <1>2, <1>4 DEF NoSharedIds, Live, Inserts
<1>9. ReadsStay'
  <2>1. \A s \in Sessions : Paid(s) /\ orderLock[sessionOrder[s]] = s =>
          orderLock'[sessionOrder[s]] = s
    BY <1>3 DEF PaymentsRefer, Paid, Txs
  <2>2. \A t \in CartRequests : req'[t].op = "remove" =>
           /\ req[t].op = "remove" /\ req[t].order = req'[t].order
           /\ req[t].item = req'[t].item
    BY <1>2, <1>4
  <2> QED BY <1>1, <2>1, <2>2, ReadsStayHere DEF payments
<1>10. RowsRefer' /\ CheckoutsRefer' /\ PaymentsRefer' /\ AdminsRefer'
       /\ ItemsServed' /\ PendingHasSession'
  BY <1>1 DEF RowsRefer, CheckoutsRefer, PaymentsRefer, AdminsRefer, ItemsServed, Paid,
     PendingHasSession
<1> QED BY <1>5, <1>6, <1>7, <1>8, <1>9, <1>10

LEMMA BeginAddInv ==
  ASSUME RowsInv, TypeOK', NEW r \in CartRequests, NEW p \in Plans, NEW q \in Quantities,
         BeginAdd(r, p, q)
  PROVE  RowsInv'
<1> USE CartAssumption DEF RowsInv, work, history
<1>0. PICK o \in Orders, isNew \in BOOLEAN :
        /\ IF isNew THEN o \in FreshOrders ELSE status[o] = "draft"
        /\ req' = [req EXCEPT ![r] = [NoRequest EXCEPT
             !.op = "add", !.pc = "find", !.order = o, !.isNew = isNew, !.at = clock,
             !.plan = p, !.by = q]]
  BY DEF BeginAdd, LatestDrafts, Drafts
<1> DEFINE next == [NoRequest EXCEPT
             !.op = "add", !.pc = "find", !.order = o, !.isNew = isNew, !.at = clock,
             !.plan = p, !.by = q]
<1>1. /\ IF isNew THEN o \in FreshOrders ELSE status[o] = "draft"
      /\ req' = [req EXCEPT ![r] = next]
      /\ next.op = "add" /\ next.pc = "find" /\ next.order = o /\ next.isNew = isNew
      /\ next.by = q /\ next.item = Nil
  BY <1>0 DEF NoRequest
<1> HIDE DEF next
<1>2. UNCHANGED <<status, itemOrder, quantity, serviced, orderLock, itemLock, checkout,
                  sessionOrder, pay,
                  work, admin, byHand>>
  BY DEF BeginAdd, orderRows, itemRows, locks, payments
<1>3. req'[r] = next /\ \A t \in CartRequests : t # r => req'[t] = req[t]
  BY <1>1 DEF TypeOK
<1>4. req[r].pc = "idle" /\ req[r].op = "none" BY DEF BeginAdd, NoRequest
<1>5. LocksHeld'
  BY <1>1, <1>2, <1>3, <1>4, LockOwners DEF LocksHeld, Written, Paid
<1>6. DeletesAreFree'
  <2>1. \A i \in Items : Deleters(i)' \subseteq Deleters(i)
    BY <1>1, <1>2, <1>3 DEF Deleters
  <2> QED BY <1>2, <2>1 DEF DeletesAreFree, KeyShares
<1>7. \A t \in CartRequests : Live(t)' => RequestInv(t)'
  <2> TAKE t \in CartRequests
  <2>1. CASE t # r
    BY <1>2, <1>3, <2>1, RequestStays, LockOwners DEF Live
  <2>2. CASE t = r
    BY <1>1, <1>2, <1>3, <2>2 DEF RequestInv, Inserts, Written, FreshOrders, Quantities
  <2> QED BY <2>1, <2>2
<1>8. NoSharedIds'
  <2>1. \A t \in CartRequests : t # r /\ Live(t) =>
          (isNew \/ req[t].isNew => req[t].order # o)
    BY <1>1 DEF FreshOrders, RequestInv
  <2> QED BY <1>1, <1>2, <1>3, <2>1 DEF NoSharedIds, Live, Inserts
<1>9. ReadsStay'
  BY <1>1, <1>2, <1>3, ReadsStayHere DEF payments
<1>10. RowsRefer' /\ CheckoutsRefer' /\ PaymentsRefer' /\ AdminsRefer'
       /\ ItemsServed' /\ PendingHasSession'
  BY <1>2 DEF RowsRefer, CheckoutsRefer, PaymentsRefer, AdminsRefer, ItemsServed, Paid,
     PendingHasSession
<1> QED BY <1>5, <1>6, <1>7, <1>8, <1>9, <1>10

LEMMA BeginChangeInv ==
  ASSUME RowsInv, TypeOK', NEW r \in CartRequests, NEW op \in {"remove", "update"},
         NEW i \in Items, NEW q \in Nat, op = "remove" \/ q > 0, BeginChange(r, op, i, q)
  PROVE  RowsInv'
<1> USE CartAssumption DEF RowsInv, work, history
<1>1. itemOrder[i] \in Orders /\ status[itemOrder[i]] = "draft"
  BY DEF BeginChange, Drafts
<1> DEFINE next == [NoRequest EXCEPT !.op = op, !.pc = "write", !.order = itemOrder[i],
                                    !.item = i, !.plan = plan[i], !.by = q]
<1>2. /\ req' = [req EXCEPT ![r] = next]
      /\ next.op = op /\ next.pc = "write" /\ next.order = itemOrder[i]
      /\ next.isNew = FALSE /\ next.by = q /\ next.item = i
  BY DEF BeginChange, NoRequest
<1> HIDE DEF next
<1>3. UNCHANGED <<status, itemOrder, quantity, serviced, orderLock, itemLock, checkout,
                  sessionOrder, pay,
                  work, admin, byHand>>
  BY DEF BeginChange, orderRows, itemRows, locks, payments
<1>4. req'[r] = next /\ \A t \in CartRequests : t # r => req'[t] = req[t]
  BY <1>2 DEF TypeOK
<1>5. req[r].pc = "idle" BY DEF BeginChange, NoRequest
<1>6. LocksHeld'
  BY <1>2, <1>3, <1>4, <1>5, LockOwners DEF LocksHeld, Written, Paid
<1>7. DeletesAreFree'
  <2>1. \A j \in Items : r \notin Deleters(j)'
    BY <1>3, <1>5 DEF Deleters, LocksHeld, Written, Txs
  <2>2. \A j \in Items : Deleters(j)' \subseteq Deleters(j)
    BY <1>3, <1>4, <2>1 DEF Deleters
  <2> QED BY <1>3, <2>2 DEF DeletesAreFree, KeyShares
<1>8. \A t \in CartRequests : Live(t)' => RequestInv(t)'
  <2> TAKE t \in CartRequests
  <2>1. CASE t # r
    BY <1>3, <1>4, <2>1, RequestStays, LockOwners DEF Live
  <2>2. CASE t = r
    BY <1>1, <1>2, <1>3, <1>4, <2>2 DEF RequestInv, Inserts, Written
  <2> QED BY <2>1, <2>2
<1>9. NoSharedIds'
  <2>1. \A t \in CartRequests : t # r /\ Live(t) =>
          /\ req[t].isNew => req[t].order # itemOrder[i]
          /\ Inserts(t) => req[t].item # i
    BY <1>1 DEF RequestInv, Inserts
  <2> QED BY <1>1, <1>2, <1>3, <1>4, <2>1 DEF NoSharedIds, Live, Inserts
<1>10. ReadsStay'
  <2>1. \A o \in Orders : o # itemOrder[i] /\ Harmless(o) => Harmless(o)'
    BY <1>2, <1>3, <1>4 DEF Harmless
  <2>2. \A s \in Sessions : pay[s] # "none" =>
          sessionOrder[s] \in Orders /\ sessionOrder[s] # itemOrder[i]
    BY <1>1 DEF PaymentsRefer
  <2> QED BY <1>1, <1>2, <1>3, <1>4, <2>1, <2>2 DEF ReadsStay, Paid
<1>11. RowsRefer' /\ CheckoutsRefer' /\ PaymentsRefer' /\ AdminsRefer'
       /\ ItemsServed' /\ PendingHasSession'
  BY <1>3 DEF RowsRefer, CheckoutsRefer, PaymentsRefer, AdminsRefer, ItemsServed, Paid,
     PendingHasSession
<1> QED BY <1>6, <1>7, <1>8, <1>9, <1>10, <1>11

LEMMA CreateOrderInv ==
  ASSUME RowsInv, TypeOK', NEW o \in Orders, NEW new \in SUBSET Items, NEW plans,
         NEW quantities, CreateOrder(o, new, plans, quantities)
  PROVE  RowsInv'
<1> USE CartAssumption DEF RowsInv, work, history
<1>1. /\ status[o] = "none" /\ \A t \in CartRequests : req[t].order # o
      /\ \A i \in new : itemOrder[i] = Nil /\ \A t \in CartRequests : req[t].item # i
  BY DEF CreateOrder, FreshOrders, FreshItems
<1>2. /\ status' = [status EXCEPT ![o] = "draft"]
      /\ UNCHANGED <<serviced, orderLock, itemLock, req, checkout, sessionOrder, pay,
                  work, admin, byHand>>
  BY DEF CreateOrder, locks, payments
<1>3. \A i \in Items : IF i \in new THEN itemOrder'[i] = o
                       ELSE itemOrder'[i] = itemOrder[i] /\ quantity'[i] = quantity[i]
  BY DEF CreateOrder
<1>4. \A p \in Orders : status'[p] = IF p = o THEN "draft" ELSE status[p]
  BY <1>2 DEF TypeOK
<1>5. LocksHeld' /\ DeletesAreFree'
  BY <1>2 DEF LocksHeld, Written, Paid, DeletesAreFree, Deleters, KeyShares
<1>6. \A t \in CartRequests : Live(t)' => RequestInv(t)'
  <2> TAKE t \in CartRequests
  <2> HAVE Live(t)'
  <2>1. /\ Live(t) /\ req[t].item \in Items \cup {Nil} /\ req[t].order \in Orders
        /\ req[t].order # o /\ req[t].item \notin new
    BY <1>1, <1>2, RequestFields DEF Live
  <2> QED BY <1>2, <1>3, <1>4, <2>1, RequestStays, LockOwners
<1>7. NoSharedIds'
  <2>1. \A t \in CartRequests : Live(t) /\ Inserts(t)' => Inserts(t)
    BY <1>1, <1>2, <1>3, RequestFields DEF Inserts
  <2> QED BY <1>2, <2>1 DEF NoSharedIds, Live
<1>8. RowsRefer'
  <2>1. \A i \in Items : itemOrder[i] \in Orders \cup {Nil} BY DEF TypeOK
  <2> QED BY <1>1, <1>3, <1>4, <2>1 DEF RowsRefer
<1>9. CheckoutsRefer' /\ PaymentsRefer' /\ AdminsRefer' /\ PendingHasSession'
  BY <1>1, <1>2, <1>4, CheckoutFields, AdminFields
     DEF CheckoutsRefer, PaymentsRefer, AdminsRefer, PendingHasSession
<1>10. ReadsStay'
  <2>1. \A t \in CartRequests : req[t].op = "remove" =>
          quantity'[req[t].item] = quantity[req[t].item]
    BY <1>1, <1>3, RequestFields DEF RequestInv, Live
  <2>2. \A p \in Orders : Harmless(p) => Harmless(p)'
    BY <1>2, <2>1 DEF Harmless
  <2>3. \A s \in Sessions : pay[s] # "none" => sessionOrder[s] \in Orders
    BY DEF PaymentsRefer
  <2>4. \A i \in Items : itemOrder[i] \in Orders =>
          itemOrder'[i] = itemOrder[i] /\ quantity'[i] = quantity[i]
    BY <1>1, <1>3
  <2>5. \A s \in Sessions : toServe[s] \subseteq Items BY DEF TypeOK
  <2>6. \A p \in Orders : status'[p] = "paid" => Harmless(p)' \/ "paid" \in byHand[p]
    BY <1>4, <2>2 DEF ReadsStay
  <2>7. \A s \in Sessions : Paid(s) =>
          \/ orderLock[sessionOrder[s]] = s \/ Harmless(sessionOrder[s])'
          \/ "paid" \in byHand[sessionOrder[s]]
    BY <1>2, <2>2, <2>3 DEF ReadsStay, Paid
  <2>8. \A s \in Sessions : pay[s] # "none" =>
          \A i \in toServe[s] : quantity'[i] = quantity[i]
    BY <2>3, <2>4, <2>5 DEF ItemsServed
  <2>9. \A s \in Sessions : Paid(s) => pay[s] # "none" BY DEF Paid
  <2> QED BY <1>2, <2>1, <2>6, <2>7, <2>8, <2>9 DEF ReadsStay, Paid
<1>11. ItemsServed'
  <2>1. \A s \in Sessions : \A i \in toServe[s] :
          /\ i \in Items /\ sessionOrder[s] \in Orders
          /\ itemOrder[i] = sessionOrder[s]
    BY DEF ItemsServed, PaymentsRefer, Paid, TypeOK
  <2>2. \A s \in Sessions : \A i \in toServe[s] : itemOrder'[i] = itemOrder[i]
    BY <1>1, <1>3, <2>1
  <2> QED BY <1>2, <2>2 DEF ItemsServed, Paid
<1> QED BY <1>5, <1>6, <1>7, <1>8, <1>9, <1>10, <1>11

LEMMA CommitRowsInv ==
  ASSUME RowsInv, TypeOK', NEW r \in CartRequests, CommitCart(r)
  PROVE  RowsInv'
<1> USE CartAssumption DEF RowsInv, work, history
<1> DEFINE o == req[r].order
           i == req[r].item
           row == req[r].row
<1>1. /\ Live(r) /\ Written(r) /\ o \in Orders /\ i \in Items /\ row \in Nat
      /\ RequestInv(r) /\ orderLock[o] = r
  BY RequestFields DEF CommitCart, Live, Written, LocksHeld
<1>2. /\ req' = [req EXCEPT ![r] = NoRequest]
      /\ itemOrder' = [itemOrder EXCEPT ![i] = o]
      /\ quantity' = [quantity EXCEPT ![i] = row]
      /\ status' = [status EXCEPT ![o] = IF req[r].isNew THEN "draft" ELSE @]
      /\ UNCHANGED <<serviced, checkout, sessionOrder, pay,
                  work, admin, byHand>>
  BY DEF CommitCart, payments
<1>3. req'[r] = NoRequest /\ \A t \in CartRequests : t # r => req'[t] = req[t]
  BY <1>2 DEF TypeOK
<1>4. /\ \A p \in Orders : orderLock'[p] = IF orderLock[p] = r THEN Nil ELSE orderLock[p]
      /\ \A j \in Items : itemLock'[j] = IF itemLock[j] = r THEN Nil ELSE itemLock[j]
  BY DEF CommitCart, Unlocked
<1>5. NoRequest.pc = "idle" /\ NoRequest.op = "none"
  BY DEF NoRequest
<1>6. /\ itemOrder'[i] = o /\ quantity'[i] = row
      /\ \A j \in Items : j # i => itemOrder'[j] = itemOrder[j] /\ quantity'[j] = quantity[j]
  BY <1>1, <1>2 DEF TypeOK
<1>7. \A p \in Orders : status'[p] = IF p = o /\ req[r].isNew THEN "draft" ELSE status[p]
  BY <1>1, <1>2 DEF TypeOK
<1>8. req[r].isNew <=> status[o] = "none"
  BY <1>1 DEF RequestInv
\* An INSERT, a write that matched no row, and one that did.
<1>9. \/ Inserts(r) /\ itemOrder[i] = Nil /\ quantity[i] = 0 /\ req[r].op = "add" /\ row > 0
      \/ itemOrder[i] = o /\ quantity[i] = 0 /\ row = 0
      \/ /\ itemOrder[i] = o /\ quantity[i] > 0 /\ itemLock[i] = r
         /\ row = NewQuantity(r)
  <2>1. quantity[i] \in Nat BY <1>1 DEF TypeOK
  <2>2. i # Nil BY <1>1
  <2> QED BY <1>1, <2>1, <2>2 DEF RequestInv, Inserts, RowsRefer
\* The others do not have the item, found it gone or have yet to write it.
<1>10. \A t \in CartRequests : t # r /\ Live(t) /\ req[t].item = i =>
         itemOrder[i] = o /\ ~Inserts(t)
           /\ (quantity'[i] = quantity[i] \/ (quantity[i] > 0 /\ ~Written(t)))
  <2> TAKE t \in CartRequests
  <2> HAVE t # r /\ Live(t) /\ req[t].item = i
  <2>1. ~Inserts(r) /\ ~Inserts(t) BY <1>1 DEF NoSharedIds, Inserts
  <2>2. quantity[i] > 0 /\ itemLock[i] = r => ~Written(t)
    BY <2>1 DEF RequestInv
  <2> QED BY <1>6, <1>9, <2>1, <2>2
<1>11. LocksHeld'
  <2>1. \A t \in CartRequests : t # r /\ req[t].pc = "commit" => req[t].order \in Orders
    BY RequestFields DEF Live
  <2> QED BY <1>2, <1>3, <1>4, <1>5, <2>1, LockOwners DEF LocksHeld, Written, Paid
<1>12. DeletesAreFree'
  <2>1. \A j \in Items : Deleters(j)' \subseteq Deleters(j)
    BY <1>3, <1>4, <1>5 DEF Deleters, Txs
  <2> QED BY <1>2, <2>1 DEF DeletesAreFree, KeyShares
<1>13. RowsRefer'
  <2>1. \A j \in Items : itemOrder[j] \in Orders \cup {Nil} BY DEF TypeOK
  <2> QED BY <1>1, <1>6, <1>7, <1>8, <2>1 DEF RowsRefer
<1>14. \A t \in CartRequests : Live(t)' => RequestInv(t)'
  <2> TAKE t \in CartRequests
  <2> HAVE Live(t)'
  <2>1. /\ t # r /\ req'[t] = req[t] /\ Live(t) /\ RequestInv(t)
        /\ req[t].item \in Items \cup {Nil} /\ req[t].order \in Orders
    BY <1>3, <1>5, RequestFields DEF Live
  <2>2. status'[req[t].order] = "none" <=> status[req[t].order] = "none"
    BY <1>1, <1>7, <1>8, <2>1 DEF NoSharedIds
  <2>3. CASE req[t].item # i \/ quantity'[i] = quantity[i]
    BY <1>4, <1>6, <1>10, <2>1, <2>2, <2>3, RequestStays, LockOwners
  <2>4. CASE req[t].item = i /\ quantity[i] > 0 /\ ~Written(t)
    BY <1>1, <1>6, <1>10, <2>1, <2>2, <2>4 DEF RequestInv, Inserts, Written
  <2> QED BY <1>10, <2>1, <2>3, <2>4
<1>15. NoSharedIds'
  <2>1. \A t \in CartRequests : t # r /\ Live(t) /\ Inserts(t)' => Inserts(t)
    BY <1>1, <1>3, <1>6, RequestFields DEF Inserts
  <2> QED BY <1>3, <1>5, <2>1 DEF NoSharedIds, Live
<1>16. CheckoutsRefer' /\ PaymentsRefer' /\ AdminsRefer' /\ PendingHasSession'
  BY <1>2, <1>7, <1>8, CheckoutFields, AdminFields
     DEF CheckoutsRefer, PaymentsRefer, AdminsRefer, PendingHasSession
<1>17. ReadsStay'
  <2>1. \A t \in CartRequests : t # r /\ req[t].op = "remove" /\ quantity[req[t].item] = 0 =>
          quantity'[req[t].item] = 0
    BY <1>6, <1>10, RequestFields DEF RequestInv, Live
  <2>2. \A p \in Orders : Harmless(p) => Harmless(p)'
    BY <1>2, <1>3, <1>5, <2>1 DEF Harmless
  <2>3. \A s \in Sessions : pay[s] # "none" => sessionOrder[s] \in Orders
    BY DEF PaymentsRefer
  <2>4. \A p \in Orders : status'[p] = "paid" => Harmless(p)' \/ "paid" \in byHand[p]
    BY <1>7, <2>2 DEF ReadsStay
  <2>5. \A s \in Sessions : Paid(s) =>
          \/ orderLock'[sessionOrder[s]] = s \/ Harmless(sessionOrder[s])'
          \/ "paid" \in byHand[sessionOrder[s]]
    BY <1>2, <1>4, <2>2, <2>3 DEF ReadsStay, Paid, Txs
  <2>6. ASSUME NEW s \in Sessions, Paid(s), pay[s] # "items",
               "paid" \notin byHand[sessionOrder[s]], NEW j \in toServe[s]
        PROVE  quantity'[j] > 0
    <3>1. /\ quantity[j] > 0 /\ itemOrder[j] = sessionOrder[s] /\ j \in Items
          /\ sessionOrder[s] \in Orders /\ pay[s] # "none"
      BY <2>3, <2>6 DEF ReadsStay, ItemsServed, TypeOK, Paid
    <3>2. CASE j # i
      BY <1>6, <3>1, <3>2
    <3>3. CASE j = i
      <4>1. itemOrder[i] = o /\ itemLock[i] = r /\ row = NewQuantity(r)
        BY <1>9, <3>1, <3>3
      <4>2. orderLock[sessionOrder[s]] # s
        BY <1>1, <3>1, <3>3, <4>1
      <4>3. Harmless(o) BY <2>6, <3>1, <3>3, <4>1, <4>2 DEF ReadsStay
      <4>4. req[r].op # "remove"
        BY <1>1, <3>1, <3>3, <4>1, <4>3 DEF Harmless, DeletesAreFree, Deleters
      <4>5. row > 0
        BY <1>1, <3>1, <3>3, <4>1, <4>4, RequestFields
           DEF NewQuantity, RequestInv, TypeOK
      <4> QED BY <1>6, <3>1, <3>3, <4>1, <4>5
    <3> QED BY <3>2, <3>3
  <2>7. \A s \in Sessions :
          Paid(s) /\ pay[s] # "items" /\ "paid" \notin byHand[sessionOrder[s]] =>
          \A t \in CartRequests :
            req'[t].op = "remove" /\ req'[t].order = sessionOrder[s]
              /\ req'[t].item \notin toServe[s] => quantity'[req'[t].item] = 0
    BY <1>3, <1>5, <2>1 DEF ReadsStay
  <2>8. \A s \in Sessions : Paid(s)' = Paid(s) BY <1>2 DEF Paid
  <2> QED BY <1>2, <2>4, <2>5, <2>6, <2>7, <2>8 DEF ReadsStay
<1>18. ItemsServed'
  <2>1. \A s \in Sessions : \A j \in toServe[s] :
          /\ j \in Items /\ sessionOrder[s] \in Orders
          /\ itemOrder[j] = sessionOrder[s]
    BY DEF ItemsServed, PaymentsRefer, Paid, TypeOK
  <2>2. \A s \in Sessions : \A j \in toServe[s] : itemOrder'[j] = itemOrder[j]
    BY <1>6, <1>9, <2>1
  <2> QED BY <1>2, <2>2 DEF ItemsServed, Paid
<1> QED BY <1>11, <1>12, <1>13, <1>14, <1>15, <1>16, <1>17, <1>18

\* Steps that leave carts and items alone, and create no order.
LEMMA CartStays ==
  ASSUME RowsInv, UNCHANGED <<itemOrder, quantity, itemLock, req>>,
         \A o \in Orders : status'[o] = "none" <=> status[o] = "none"
  PROVE  /\ RowsRefer' /\ NoSharedIds'
         /\ \A r \in CartRequests : Live(r)' => RequestInv(r)'
         /\ \A o \in Orders : serviced \subseteq serviced' /\ Harmless(o) => Harmless(o)'
         /\ \A i \in Items : Deleters(i)' = Deleters(i)
<1> USE DEF RowsInv, work, history
<1>1. RowsRefer'
  <2>1. \A i \in Items : itemOrder[i] \in Orders \cup {Nil} BY DEF TypeOK
  <2> QED BY <2>1 DEF RowsRefer
<1>2. NoSharedIds' BY DEF NoSharedIds, Live, Inserts
<1>3. \A r \in CartRequests : Live(r)' => RequestInv(r)'
  BY RequestStays, LockOwners, RequestFields DEF Live
<1>4. \A o \in Orders : serviced \subseteq serviced' /\ Harmless(o) => Harmless(o)'
  BY DEF Harmless
<1>5. \A i \in Items : Deleters(i)' = Deleters(i)
  BY DEF Deleters
<1> QED BY <1>1, <1>2, <1>3, <1>4, <1>5

\* The end of a transaction that is not a cart request's.
LEMMA OthersUnlocked ==
  ASSUME TypeOK, NEW t \in Checkouts \cup Sessions, Unlocked(t)
  PROVE  /\ \A o \in Orders : orderLock'[o] = IF orderLock[o] = t THEN Nil ELSE orderLock[o]
         /\ itemLock' = itemLock
<1>1. \A i \in Items : itemLock[i] # t
  BY CartAssumption DEF TypeOK, Txs
<1> QED BY <1>1 DEF TypeOK, Unlocked

\* Before its UPDATE a checkout only reads and has a session created.
LEMMA CheckoutReadsInv ==
  ASSUME RowsInv, TypeOK', NEW k \in Checkouts,
         \/ \E o \in Orders : BeginCheckout(k, o)
         \/ ReadLines(k)
         \/ \E s \in Sessions : CreateSession(k, s)
  PROVE  RowsInv'
<1> USE CartAssumption DEF RowsInv, work, history
<1>1. UNCHANGED <<status, itemOrder, quantity, serviced, orderLock, itemLock, req, pay,
                  work, admin, byHand>>
  BY DEF BeginCheckout, ReadLines, CreateSession, orderRows, itemRows, locks, payments
<1>2. \A c \in Checkouts : c # k => checkout'[c] = checkout[c]
  BY DEF BeginCheckout, ReadLines, CreateSession, TypeOK
<1>3. \A s \in Sessions : sessionOrder[s] # Nil => sessionOrder'[s] = sessionOrder[s]
  BY DEF BeginCheckout, ReadLines, CreateSession, TypeOK, payments, work
<1>4. /\ checkout[k].pc \in {"idle", "lines", "session"}
      /\ checkout'[k].pc \in {"idle", "lines", "session", "update"}
  <2>1. CASE \E o \in Orders : BeginCheckout(k, o)
    BY <2>1 DEF BeginCheckout, NoCheckout, TypeOK
  <2>2. CASE ReadLines(k)
    BY <2>2, CheckoutFields DEF ReadLines, NoCheckout, TypeOK, Checkout
  <2>3. CASE \E s \in Sessions : CreateSession(k, s)
    <3>1. PICK s \in Sessions : CreateSession(k, s) BY <2>3
    <3>2. checkout[k] \in Checkout /\ checkout[k].pc = "session"
      BY <3>1, CheckoutFields DEF CreateSession
    <3>3. checkout' = [checkout EXCEPT ![k] =
                         [checkout[k] EXCEPT !.pc = "update", !.session = s]]
      BY <3>1 DEF CreateSession
    <3> QED BY <3>2, <3>3 DEF TypeOK, Checkout
  <2> QED BY <2>1, <2>2, <2>3
<1>5. CheckoutsRefer'
  <2>1. ASSUME NEW o \in Orders, BeginCheckout(k, o) PROVE CheckoutsRefer'
    <3>1. /\ checkout'[k] = [pc |-> "lines", order |-> o, session |-> Nil]
          /\ sessionOrder' = sessionOrder /\ status[o] = "draft"
      BY <2>1 DEF BeginCheckout, TypeOK, payments
    <3> QED BY <1>1, <1>2, <3>1 DEF CheckoutsRefer
  <2>2. CASE ReadLines(k)
    <3>1. /\ sessionOrder' = sessionOrder /\ checkout[k] \in Checkout
          /\ checkout[k].pc = "lines"
      BY <2>2, CheckoutFields DEF ReadLines, payments
    <3>2. /\ checkout'[k].session = Nil
          /\ checkout'[k].pc = "idle" \/ checkout'[k].order = checkout[k].order
      BY <2>2, <3>1 DEF ReadLines, TypeOK, Checkout, NoCheckout
    <3> QED BY <1>1, <1>2, <1>4, <3>1, <3>2 DEF CheckoutsRefer
  <2>3. ASSUME NEW s \in Sessions, CreateSession(k, s) PROVE CheckoutsRefer'
    <3>1. /\ checkout[k] \in Checkout /\ checkout[k].pc = "session" /\ sessionOrder[s] = Nil
          /\ sessionOrder' = [sessionOrder EXCEPT ![s] = checkout[k].order]
          /\ checkout' = [checkout EXCEPT ![k].pc = "update", ![k].session = s]
      BY <2>3, CheckoutFields DEF CreateSession
    <3>2. /\ checkout'[k].order = checkout[k].order /\ checkout'[k].session = s
          /\ sessionOrder'[s] = checkout[k].order
      BY <3>1 DEF Checkout, TypeOK
    <3>3. pay[s] = "none" BY <3>1 DEF PaymentsRefer
    <3>4. \A c \in Checkouts : checkout[c].session # s
      <4> TAKE c \in Checkouts
      <4>1. CASE checkout[c].pc = "idle"
        <5>1. checkout[c] \notin Checkout BY <4>1 DEF Checkout
        <5>2. checkout[c].session = Nil BY <5>1 DEF TypeOK, NoCheckout
        <5> QED BY <5>2 DEF Txs
      <4>2. CASE checkout[c].pc # "idle"
        BY <3>1, <4>2, CheckoutFields DEF CheckoutsRefer, Txs
      <4> QED BY <4>1, <4>2
    <3>5. \A c \in Checkouts : checkout[c].session # Nil =>
            sessionOrder'[checkout[c].session] = sessionOrder[checkout[c].session]
      <4> TAKE c \in Checkouts
      <4>1. checkout[c].session # s BY <3>4
      <4>2. checkout[c].session \in Sessions \cup {Nil} BY DEF TypeOK, Checkout, NoCheckout
      <4> QED BY <3>1, <4>1, <4>2 DEF TypeOK
    <3>6. status[checkout[k].order] # "none" BY <3>1 DEF CheckoutsRefer
    <3> SUFFICES ASSUME NEW c \in Checkouts, checkout'[c].pc # "idle"
                 PROVE  /\ status[checkout'[c].order] # "none"
                        /\ checkout'[c].session # Nil =>
                             /\ sessionOrder'[checkout'[c].session] = checkout'[c].order
                             /\ pay[checkout'[c].session] = "none"
                             /\ \A d \in Checkouts \ {c} :
                                  checkout'[d].session # checkout'[c].session
                        /\ checkout'[c].pc = "answer" =>
                             status[checkout'[c].order] # "draft"
      BY <1>1 DEF CheckoutsRefer
    <3>7. CASE c = k
      BY <1>2, <1>4, <3>2, <3>3, <3>4, <3>6, <3>7
    <3>8. CASE c # k
      BY <1>2, <3>2, <3>4, <3>5, <3>8 DEF CheckoutsRefer
    <3> QED BY <3>7, <3>8
  <2> QED BY <2>1, <2>2, <2>3
<1>6. LocksHeld'
  BY <1>1, <1>2, <1>3, <1>4, LockOwners DEF LocksHeld, Written, Paid
<1>7. PaymentsRefer' /\ AdminsRefer' /\ PendingHasSession'
  BY <1>1, <1>2, <1>3, <1>4 DEF PaymentsRefer, AdminsRefer, PendingHasSession
<1>8. DeletesAreFree' BY <1>1 DEF DeletesAreFree, Deleters, KeyShares
<1>9. ReadsStay' /\ ItemsServed'
  <2>1. \A s \in Sessions : pay[s] # "none" => sessionOrder'[s] = sessionOrder[s]
    BY <1>3 DEF PaymentsRefer
  <2>2. \A s \in Sessions : Paid(s) => pay[s] # "none" BY DEF Paid
  <2>3. ItemsServed' BY <1>1, <2>1, <2>2 DEF ItemsServed, Paid
  <2> QED BY <1>1, <2>1, <2>2, <2>3, CartStays DEF ReadsStay, Harmless, Paid
<1> QED BY <1>1, <1>5, <1>6, <1>7, <1>8, <1>9, CartStays

LEMMA UpdateOrderInv ==
  ASSUME RowsInv, TypeOK', NEW k \in Checkouts, UpdateOrder(k)
  PROVE  RowsInv'
<1> USE CartAssumption DEF RowsInv, work, history
<1> DEFINE o == checkout[k].order
<1>1. checkout[k] \in Checkout /\ checkout[k].pc = "update" /\ o \in Orders
  BY CheckoutFields DEF UpdateOrder
<1>2. /\ UNCHANGED <<status, itemOrder, quantity, serviced, itemLock, req, sessionOrder,
                     pay,
                  work, admin, byHand>>
      /\ checkout' = [checkout EXCEPT ![k].pc = "commit"]
      /\ orderLock[o] = Nil /\ orderLock' = [orderLock EXCEPT ![o] = k]
  BY DEF UpdateOrder, orderRows, itemRows, payments
<1>3. /\ checkout'[k].pc = "commit" /\ checkout'[k].order = o
      /\ checkout'[k].session = checkout[k].session
      /\ \A c \in Checkouts : c # k => checkout'[c] = checkout[c]
  BY <1>1, <1>2 DEF TypeOK, Checkout
<1>4. \A p \in Orders : orderLock'[p] = IF p = o THEN k ELSE orderLock[p]
  BY <1>2 DEF TypeOK
<1>5. LocksHeld'
  <2>1. \A r \in CartRequests : req[r].pc = "commit" => orderLock'[req[r].order] = r
    <3> TAKE r \in CartRequests
    <3> HAVE req[r].pc = "commit"
    <3>1. orderLock[req[r].order] = r /\ req[r].order \in Orders
      BY RequestFields DEF LocksHeld, Live
    <3> QED BY <1>2, <1>4, <3>1 DEF Txs
  <2> QED BY <1>2, <1>3, <1>4, <2>1, LockOwners DEF LocksHeld, Written, Paid
<1>6. CheckoutsRefer'
  BY <1>1, <1>2, <1>3 DEF CheckoutsRefer
<1>7. PaymentsRefer' /\ AdminsRefer' /\ ItemsServed' /\ PendingHasSession'
  BY <1>1, <1>2, <1>3 DEF PaymentsRefer, AdminsRefer, ItemsServed, Paid, PendingHasSession
<1>8. DeletesAreFree' BY <1>2 DEF DeletesAreFree, Deleters, KeyShares
<1>9. ReadsStay'
  <2>1. \A s \in Sessions : Paid(s) /\ orderLock[sessionOrder[s]] = s =>
          orderLock'[sessionOrder[s]] = s
    BY <1>2, <1>4 DEF PaymentsRefer, Paid, Txs
  <2> QED BY <1>2, <2>1, ReadsStayHere DEF payments
<1> QED BY <1>2, <1>5, <1>6, <1>7, <1>8, <1>9, CartStays

\* Whether the driver hears of the commit or not.
LEMMA CommitCheckoutInv ==
  ASSUME RowsInv, TypeOK', NEW k \in Checkouts, CommitCheckout(k) \/ CommitUnknown(k)
  PROVE  RowsInv'
<1> USE CartAssumption DEF RowsInv, work, history
<1> DEFINE o == checkout[k].order
           s == checkout[k].session
<1>1. /\ checkout[k] \in Checkout /\ checkout[k].pc = "commit"
      /\ o \in Orders /\ s \in Sessions
      /\ sessionOrder[s] = o /\ status[o] # "none" /\ pay[s] = "none"
      /\ PendingPayment(k)
  BY CheckoutFields DEF CommitCheckout, CommitUnknown, PendingPayment, CheckoutsRefer
<1>2. UNCHANGED <<itemOrder, quantity, serviced, req, sessionOrder, work, admin, byHand>>
  BY <1>1 DEF PendingPayment, itemRows
<1>3. \A c \in Checkouts : c # k => checkout'[c] = checkout[c]
  BY DEF CommitCheckout, CommitUnknown, TypeOK
<1>4. \A p \in Orders : status'[p] = IF p = o THEN "pending_payment" ELSE status[p]
  BY <1>1 DEF PendingPayment, TypeOK
<1>5. /\ \A u \in Sessions : u # s => pay'[u] = pay[u]
      /\ \/ /\ checkout'[k].pc = "answer" /\ checkout'[k].order = o
            /\ checkout'[k].session = s /\ pay'[s] = "none"
         \/ checkout'[k].pc = "idle" /\ checkout'[k].session = Nil /\ pay'[s] = "lost"
  <2>1. CASE CommitCheckout(k)
    BY <1>1, <2>1 DEF CommitCheckout, Checkout, TypeOK
  <2>2. CASE CommitUnknown(k)
    BY <1>1, <2>2 DEF CommitUnknown, NoCheckout, TypeOK
  <2> QED BY <2>1, <2>2
<1>6. /\ \A p \in Orders : orderLock'[p] = IF orderLock[p] = k THEN Nil ELSE orderLock[p]
      /\ itemLock' = itemLock
  BY <1>1, OthersUnlocked DEF PendingPayment
<1>7. \A u \in Sessions : Paid(u)' = Paid(u)
  BY <1>1, <1>5 DEF Paid
<1>8. LocksHeld'
  <2>1. \A r \in CartRequests : req[r].pc = "commit" => req[r].order \in Orders
    BY RequestFields DEF Live
  <2> QED BY <1>1, <1>2, <1>3, <1>6, <1>7, <2>1, LockOwners DEF LocksHeld, Written, Txs
<1>9. CheckoutsRefer'
  <2> SUFFICES ASSUME NEW c \in Checkouts, checkout'[c].pc # "idle"
               PROVE  /\ status'[checkout'[c].order] # "none"
                      /\ checkout'[c].session # Nil =>
                           /\ sessionOrder[checkout'[c].session] = checkout'[c].order
                           /\ pay'[checkout'[c].session] = "none"
                           /\ \A d \in Checkouts \ {c} :
                                checkout'[d].session # checkout'[c].session
                      /\ checkout'[c].pc = "answer" => status'[checkout'[c].order] # "draft"
    BY <1>2 DEF CheckoutsRefer
  <2>1. CASE c = k
    BY <1>1, <1>3, <1>4, <1>5, <2>1 DEF CheckoutsRefer
  <2>2. CASE c # k
    <3>1. checkout'[c] = checkout[c] /\ checkout[c].session # s
      BY <1>1, <1>3, <2>2 DEF CheckoutsRefer, Txs
    <3>2. checkout[c].order \in Orders /\ checkout[c].session \in Sessions \cup {Nil}
      BY <3>1, CheckoutFields
    <3> QED BY <1>1, <1>3, <1>4, <1>5, <2>2, <3>1, <3>2 DEF CheckoutsRefer
  <2> QED BY <2>1, <2>2
<1>10. PaymentsRefer' /\ AdminsRefer' /\ PendingHasSession'
  <2>1. PaymentsRefer' /\ PendingHasSession'
    BY <1>1, <1>2, <1>3, <1>4, <1>5 DEF PaymentsRefer, PendingHasSession
  <2>2. AdminsRefer' BY <1>1, <1>2, <1>4, AdminFields DEF AdminsRefer
  <2> QED BY <2>1, <2>2
<1>11. \A p \in Orders : status'[p] = "none" <=> status[p] = "none"
  BY <1>1, <1>4
<1>12. DeletesAreFree'
  BY <1>2, <1>6, <1>11, CartStays DEF DeletesAreFree, KeyShares
<1>13. ReadsStay' /\ ItemsServed'
  <2>1. \A p \in Orders : Harmless(p)' = Harmless(p)
    BY <1>2 DEF Harmless
  <2>2. \A u \in Sessions : Paid(u) /\ orderLock[sessionOrder[u]] = u =>
          orderLock'[sessionOrder[u]] = u
    BY <1>6 DEF PaymentsRefer, Paid, Txs
  <2>3. \A u \in Sessions : Paid(u) => sessionOrder[u] \in Orders /\ pay'[u] = pay[u]
    BY <1>1, <1>5 DEF PaymentsRefer, Paid
  <2>4. ReadsStay' BY <1>2, <1>4, <1>7, <2>1, <2>2, <2>3 DEF ReadsStay
  <2>5. ItemsServed'
    <3>1. serving[s] = Nil BY <1>1 DEF ItemsServed
    <3> QED BY <1>1, <1>2, <1>5, <1>7, <3>1 DEF ItemsServed
  <2> QED BY <2>4, <2>5
<1> QED BY <1>2, <1>6, <1>8, <1>9, <1>10, <1>11, <1>12, <1>13, CartStays

\* The answer to the browser, received or lost.
LEMMA AnswerInv ==
  ASSUME RowsInv, TypeOK', NEW k \in Checkouts, NEW p \in {"open", "lost"},
         AnswerWith(k, p)
  PROVE  RowsInv'
<1> USE CartAssumption DEF RowsInv, work, history
<1> DEFINE s == checkout[k].session
<1>1. /\ checkout[k].pc = "answer" /\ s \in Sessions /\ checkout[k].order \in Orders
      /\ sessionOrder[s] = checkout[k].order /\ pay[s] = "none"
      /\ status[checkout[k].order] \notin {"none", "draft"}
  BY CheckoutFields DEF AnswerWith, CheckoutsRefer
<1>2. UNCHANGED <<status, itemOrder, quantity, serviced, orderLock, itemLock, req,
                  sessionOrder, work, admin, byHand>>
  BY DEF AnswerWith, orderRows, itemRows, locks
<1>3. /\ checkout'[k] = NoCheckout
      /\ \A c \in Checkouts : c # k => checkout'[c] = checkout[c]
      /\ \A u \in Sessions : pay'[u] = IF u = s THEN p ELSE pay[u]
  BY <1>1 DEF AnswerWith, TypeOK
<1>4. \A u \in Sessions : Paid(u)' = Paid(u) /\ (Paid(u) => pay'[u] = pay[u])
  BY <1>1, <1>3 DEF Paid
<1>5. LocksHeld'
  <2>1. NoCheckout.pc = "idle" BY DEF NoCheckout
  <2> QED BY <1>1, <1>2, <1>3, <1>4, <2>1, LockOwners DEF LocksHeld, Written
<1>6. CheckoutsRefer'
  <2> SUFFICES ASSUME NEW c \in Checkouts, checkout'[c].pc # "idle"
               PROVE  /\ status[checkout'[c].order] # "none"
                      /\ checkout'[c].session # Nil =>
                           /\ sessionOrder[checkout'[c].session] = checkout'[c].order
                           /\ pay'[checkout'[c].session] = "none"
                           /\ \A d \in Checkouts \ {c} :
                                checkout'[d].session # checkout'[c].session
                      /\ checkout'[c].pc = "answer" => status[checkout'[c].order] # "draft"
    BY <1>2 DEF CheckoutsRefer
  <2>1. c # k /\ checkout'[c] = checkout[c] /\ checkout[c].session # s
    BY <1>1, <1>3 DEF CheckoutsRefer, NoCheckout, Txs
  <2>2. checkout[c].session \in Sessions \cup {Nil} BY <2>1, CheckoutFields
  <2> QED BY <1>3, <2>1, <2>2 DEF CheckoutsRefer, NoCheckout
<1>7. PaymentsRefer' /\ AdminsRefer' /\ PendingHasSession'
  BY <1>1, <1>2, <1>3 DEF PaymentsRefer, AdminsRefer, PendingHasSession
<1>8. DeletesAreFree' BY <1>2 DEF DeletesAreFree, Deleters, KeyShares
<1>9. ReadsStay' BY <1>2, <1>4 DEF ReadsStay, Harmless
<1>10. ItemsServed'
  <2>1. serving[s] = Nil BY <1>1 DEF ItemsServed
  <2> QED BY <1>1, <1>2, <1>3, <1>4, <2>1 DEF ItemsServed
<1> QED BY <1>2, <1>5, <1>6, <1>7, <1>8, <1>9, <1>10, CartStays

LEMMA CheckoutFailsInv ==
  ASSUME RowsInv, TypeOK', NEW k \in Checkouts, CheckoutFails(k)
  PROVE  RowsInv'
<1> USE CartAssumption DEF RowsInv, work, history
<1>1. /\ UNCHANGED <<status, itemOrder, quantity, serviced, req, sessionOrder, pay,
                  work, admin, byHand>>
      /\ checkout'[k] = NoCheckout
      /\ \A c \in Checkouts : c # k => checkout'[c] = checkout[c]
  BY DEF CheckoutFails, orderRows, itemRows, payments, TypeOK
<1>2. /\ \A p \in Orders : orderLock'[p] = IF orderLock[p] = k THEN Nil ELSE orderLock[p]
      /\ itemLock' = itemLock
  BY OthersUnlocked DEF CheckoutFails
<1>3. LocksHeld'
  <2>1. \A r \in CartRequests : req[r].pc = "commit" => req[r].order \in Orders
    BY RequestFields DEF Live
  <2> QED BY <1>1, <1>2, <2>1, LockOwners DEF LocksHeld, Written, Paid, Txs
<1>4. CheckoutsRefer'
  BY <1>1, CheckoutFields DEF CheckoutsRefer, NoCheckout
<1>5. PaymentsRefer' /\ AdminsRefer' /\ ItemsServed' /\ PendingHasSession'
  <2>1. checkout[k].pc # "answer" BY DEF CheckoutFails
  <2> QED
    BY <1>1, <2>1 DEF PaymentsRefer, AdminsRefer, ItemsServed, Paid, PendingHasSession
<1>6. DeletesAreFree' BY <1>1, <1>2 DEF DeletesAreFree, Deleters, KeyShares
<1>7. ReadsStay'
  <2>1. \A s \in Sessions : Paid(s) /\ orderLock[sessionOrder[s]] = s =>
          orderLock'[sessionOrder[s]] = s
    BY <1>2 DEF PaymentsRefer, Paid, Txs
  <2> QED BY <1>1, <2>1, ReadsStayHere DEF payments
<1> QED BY <1>1, <1>2, <1>3, <1>4, <1>5, <1>6, <1>7, CartStays

LEMMA CheckoutInv ==
  ASSUME RowsInv, TypeOK', NEW k \in Checkouts, CheckoutStep(k)
  PROVE  RowsInv'
BY CheckoutReadsInv, UpdateOrderInv, CommitCheckoutInv, AnswerInv, CheckoutFailsInv
   DEF CheckoutStep, ContinueCheckout, Answer, AnswerIsLost

\* The end of a payment's transaction.
LEMMA PayEndInv ==
  ASSUME RowsInv, TypeOK', NEW s \in Sessions, Paid(s),
         EndPayment(s),
         UNCHANGED <<itemOrder, quantity, req, checkout, sessionOrder, admin, byHand>>,
         \A u \in Sessions : pay'[u] = IF u = s THEN "done" ELSE pay[u],
         \A p \in Orders :
           \/ status'[p] = status[p]
           \/ status'[p] \in {"paid", "provisioning"} /\ p = sessionOrder[s],
         \A p \in Orders : status'[p] = "paid" =>
           status[p] = "paid" \/ Harmless(p)' \/ "paid" \in byHand[p],
         serviced \subseteq serviced',
         \A i \in Items : i \in serviced' => i \in serviced \/ Deleters(i) = {}
  PROVE  RowsInv'
<1> USE CartAssumption DEF RowsInv, work, history
<1>1. /\ \A p \in Orders : orderLock'[p] = IF orderLock[p] = s THEN Nil ELSE orderLock[p]
      /\ itemLock' = itemLock
  BY OthersUnlocked DEF EndPayment
<1>2. \A u \in Sessions : Paid(u)' <=> Paid(u) /\ u # s
  BY DEF Paid
<1>3. \A u \in Sessions : pay'[u] = "none" <=> pay[u] = "none"
  BY DEF Paid
<1>4. \A p \in Orders : status'[p] = "none" <=> status[p] = "none"
  BY DEF PaymentsRefer, Paid
<1>5. LocksHeld'
  <2>1. \A r \in CartRequests : req[r].pc = "commit" => req[r].order \in Orders
    BY RequestFields DEF Live
  <2> QED BY <1>1, <1>2, <2>1, LockOwners DEF LocksHeld, Written, Txs
<1>6. DeletesAreFree'
  <2>1. \A i \in Items : KeyShares(i)' \subseteq KeyShares(i)
    BY DEF KeyShares, EndPayment, TypeOK
  <2>2. \A i \in Items : Deleters(i)' = Deleters(i) BY <1>1, <1>4, CartStays
  <2> QED BY <2>1, <2>2 DEF DeletesAreFree
<1>7. CheckoutsRefer'
  <2>1. \A c \in Checkouts : checkout[c].session \in Sessions \cup {Nil}
    BY DEF TypeOK, Checkout, NoCheckout
  <2> QED BY <1>3, <1>4, <2>1, CheckoutFields DEF CheckoutsRefer
<1>8. PaymentsRefer' /\ AdminsRefer' /\ PendingHasSession'
  BY <1>3, <1>4, AdminFields DEF PaymentsRefer, AdminsRefer, PendingHasSession
<1>10. /\ toServe'[s] = {} /\ rest'[s] = {} /\ wrote'[s] = {} /\ serving'[s] = Nil
       /\ \A u \in Sessions : u # s =>
            /\ toServe'[u] = toServe[u] /\ rest'[u] = rest[u] /\ wrote'[u] = wrote[u]
            /\ serving'[u] = serving[u]
  BY DEF EndPayment, TypeOK
<1>11. ItemsServed'
  BY <1>2, <1>10 DEF ItemsServed
<1>9. ReadsStay'
  <2>1. \A p \in Orders : Harmless(p) => Harmless(p)'
    BY <1>1, <1>4, CartStays
  <2>2. \A u \in Sessions : Paid(u) => sessionOrder[u] \in Orders
    BY DEF PaymentsRefer, Paid
  <2>3. \A p \in Orders : status'[p] = "paid" => Harmless(p)' \/ "paid" \in byHand[p]
    BY <2>1 DEF ReadsStay
  <2>4. ASSUME NEW u \in Sessions, Paid(u)'
        PROVE  \/ orderLock'[sessionOrder[u]] = u \/ Harmless(sessionOrder[u])'
               \/ "paid" \in byHand[sessionOrder[u]]
    BY <1>1, <1>2, <2>1, <2>2, <2>4 DEF ReadsStay
  <2> QED BY <1>2, <1>10, <2>3, <2>4 DEF ReadsStay
<1> QED BY <1>1, <1>4, <1>5, <1>6, <1>7, <1>8, <1>9, <1>11, CartStays

LEMMA PayRollbackInv ==
  ASSUME RowsInv, TypeOK', NEW s \in Sessions, Paid(s), PayRollback(s)
  PROVE  RowsInv'
<1>1. UNCHANGED <<status, itemOrder, quantity, serviced, req, checkout, sessionOrder,
                  admin, byHand>>
  BY DEF PayRollback, orderRows, itemRows, history
<1>2. \A u \in Sessions : pay'[u] = IF u = s THEN "done" ELSE pay[u]
  BY DEF PayRollback, RowsInv, TypeOK
<1>3. EndPayment(s) BY DEF PayRollback
<1> QED BY <1>1, <1>2, <1>3, PayEndInv

LEMMA PayCommitInv ==
  ASSUME RowsInv, TypeOK', NEW s \in Sessions, PayCommit(s)
  PROVE  RowsInv'
<1> USE CartAssumption DEF RowsInv, work, history
<1> DEFINE o == sessionOrder[s]
<1>1. /\ pay[s] = "commit" /\ Paid(s) /\ o \in Orders /\ EndPayment(s)
      /\ UNCHANGED <<itemOrder, quantity, req, checkout, sessionOrder, admin, byHand>>
      /\ serviced' = serviced \cup wrote[s] /\ toServe[s] \subseteq serviced'
  BY DEF PayCommit, Paying, Paid, PaymentsRefer, ItemsServed, itemRows
<1>2. \A u \in Sessions : pay'[u] = IF u = s THEN "done" ELSE pay[u]
  BY DEF PayCommit, Paying, TypeOK
<1>3. PICK newJobs \in BOOLEAN :
           status' = [status EXCEPT ![o] = IF newJobs THEN "provisioning"
                                          ELSE IF orderLock[o] = s THEN "paid" ELSE @]
  BY DEF PayCommit
<1>4. \A p \in Orders :
        status'[p] = IF p # o THEN status[p] ELSE IF newJobs THEN "provisioning"
                     ELSE IF orderLock[o] = s THEN "paid" ELSE status[p]
  BY <1>3 DEF TypeOK
<1>5. "paid" \notin byHand[o] => Harmless(o)'
  <2> SUFFICES ASSUME "paid" \notin byHand[o], NEW r \in CartRequests,
                      req[r].op = "remove", req[r].order = o
               PROVE  quantity[req[r].item] = 0 \/ req[r].item \in serviced'
    BY <1>1 DEF Harmless
  <2> QED BY <1>1 DEF ReadsStay
<1>6. \A i \in Items : i \in serviced' => i \in serviced \/ Deleters(i) = {}
  BY <1>1 DEF DeletesAreFree, KeyShares
<1> QED BY <1>1, <1>2, <1>4, <1>5, <1>6, PayEndInv

\* Steps over the items and their services rows: nothing else changes.
LEMMA ServeInv ==
  ASSUME RowsInv, TypeOK', NEW s \in Sessions, OnlyPayment, Paid(s), Paid(s)', ItemsServed',
         \A u \in Sessions : u # s =>
           pay'[u] = pay[u] /\ toServe'[u] = toServe[u] /\ wrote'[u] = wrote[u],
         pay[s] = "items" \/ toServe'[s] = toServe[s],
         pay'[s] # "items",
         pay[s] = "items" => toServe'[s] = ItemsIn(sessionOrder[s]),
         \A i \in wrote'[s] : i \in wrote[s] \/ i \in serviced \/ Deleters(i) = {}
  PROVE  RowsInv'
<1> USE CartAssumption DEF RowsInv, work, history
<1> DEFINE o == sessionOrder[s]
<1>1. UNCHANGED <<status, itemOrder, quantity, serviced, orderLock, itemLock, req,
                  checkout, sessionOrder, admin, byHand>>
  BY DEF OnlyPayment, orderRows, itemRows, locks
<1>2. \A u \in Sessions : Paid(u)' = Paid(u) BY DEF Paid
<1>3. LocksHeld' BY <1>1, <1>2 DEF LocksHeld, Written
<1>4. pay[s] # "none" /\ pay'[s] # "none" BY DEF Paid
<1>5. CheckoutsRefer'
  BY <1>1, <1>4, CheckoutFields DEF CheckoutsRefer, TypeOK
<1>6. PaymentsRefer' /\ AdminsRefer' /\ PendingHasSession'
  BY <1>1, <1>4 DEF PaymentsRefer, AdminsRefer, PendingHasSession
<1>7. DeletesAreFree'
  <2>1. \A i \in Items : KeyShares(i)' \subseteq
          KeyShares(i) \cup (IF Deleters(i) = {} THEN {s} ELSE {})
    BY <1>1 DEF KeyShares
  <2> QED BY <1>1, <2>1, CartStays DEF DeletesAreFree
<1>8. ReadsStay'
  <2>1. \A p \in Orders : Harmless(p)' = Harmless(p) BY <1>1 DEF Harmless
  <2>2. ASSUME "paid" \notin byHand[o]
        PROVE  /\ \A i \in toServe'[s] : quantity[i] > 0
               /\ \A r \in CartRequests :
                    req[r].op = "remove" /\ req[r].order = o
                      /\ req[r].item \notin toServe'[s] => quantity[req[r].item] = 0
    <3>1. CASE pay[s] = "items"
      <4>1. \A r \in CartRequests : req[r].op = "remove" /\ req[r].order = o =>
              req[r].item \in Items /\ itemOrder[req[r].item] = o
        BY RequestFields DEF RequestInv, Inserts
      <4>2. \A i \in Items : quantity[i] \in Nat BY DEF TypeOK
      <4> QED BY <3>1, <4>1, <4>2 DEF ItemsIn
    <3>2. CASE pay[s] # "items"
      BY <2>2, <3>2 DEF ReadsStay
    <3> QED BY <3>1, <3>2
  <2>3. \A u \in Sessions : Paid(u) => sessionOrder[u] \in Orders
    BY DEF PaymentsRefer, Paid
  <2> QED BY <1>1, <1>2, <2>1, <2>2, <2>3 DEF ReadsStay
<1> QED BY <1>1, <1>3, <1>5, <1>6, <1>7, <1>8, CartStays

\* prepareProvisioningJobs, up to its answer.
LEMMA PrepareInv ==
  ASSUME RowsInv, TypeOK', NEW s \in Sessions,
         \/ PayItems(s)
         \/ \E i \in rest[s] :
              FindNoService(s, i) \/ FindStoppedService(s, i) \/ FindService(s, i)
         \/ InsertService(s) \/ UpdateService(s)
  PROVE  RowsInv'
<1> USE CartAssumption DEF RowsInv
<1>1. OnlyPayment
  BY DEF PayItems, FindNoService, FindStoppedService, FindService, InsertService,
     UpdateService, WriteService
<1>2. UNCHANGED <<serviced, itemOrder, sessionOrder>>
  BY <1>1 DEF OnlyPayment, itemRows
<1>3. toServe[s] \subseteq serviced \cup wrote[s] \cup rest[s] \cup {serving[s]}
  BY DEF ItemsServed
<1>4. CASE PayItems(s)
  <2>1. /\ pay[s] = "items" /\ pay'[s] \in {"services", "commit"}
        /\ pay'[s] = "commit" => toServe'[s] = {}
        /\ toServe'[s] = ItemsIn(sessionOrder[s]) /\ rest'[s] = toServe'[s]
        /\ UNCHANGED <<serving, wrote>>
        /\ \A u \in Sessions : u # s =>
             pay'[u] = pay[u] /\ toServe'[u] = toServe[u] /\ rest'[u] = rest[u]
    BY <1>4 DEF PayItems, Paying, Following, TypeOK
  <2>2. wrote[s] = {} /\ serving[s] = Nil BY <2>1 DEF ItemsServed
  <2>3. Paid(s) /\ \A u \in Sessions : Paid(u)' = Paid(u) BY <2>1 DEF Paid
  <2>4. ItemsServed' BY <1>2, <2>1, <2>2, <2>3 DEF ItemsServed, ItemsIn
  <2> QED BY <1>1, <2>1, <2>3, <2>4, ServeInv
<1>5. ASSUME NEW i \in rest[s],
             FindNoService(s, i) \/ FindStoppedService(s, i) \/ FindService(s, i)
      PROVE  RowsInv'
  <2>1. /\ pay[s] = "services" /\ pay'[s] \in {"services", "insert", "update", "commit"}
        /\ \A u \in Sessions : u # s => pay'[u] = pay[u] /\ serving'[u] = serving[u]
        /\ UNCHANGED <<toServe, wrote>>
        /\ \A u \in Sessions : rest'[u] = IF u = s THEN rest[s] \ {i} ELSE rest[u]
    BY <1>5 DEF FindNoService, FindStoppedService, FindService, Paying, Following, TypeOK
  <2>2. serving[s] = Nil /\ i \in toServe[s] /\ i \in Items
    BY <2>1 DEF ItemsServed, TypeOK
  <2>3. /\ pay'[s] \in {"services", "commit"} => i \in serviced /\ serving'[s] = Nil
        /\ pay'[s] \in {"insert", "update"} => serving'[s] = i
        /\ pay'[s] = "update" => i \in serviced
        /\ pay'[s] = "commit" => rest'[s] = {}
    BY <1>5, <2>1, <2>2
       DEF FindNoService, FindStoppedService, FindService, Paying, Following, TypeOK
  <2>4. Paid(s) /\ \A u \in Sessions : Paid(u)' = Paid(u) BY <2>1 DEF Paid
  <2>5. ASSUME NEW u \in Sessions, u # s
        PROVE  /\ ~Paid(u)' \/ pay'[u] = "items" => toServe'[u] = {}
               /\ \A j \in toServe'[u] : itemOrder'[j] = sessionOrder'[u]
               /\ rest'[u] \subseteq toServe'[u] /\ wrote'[u] \subseteq toServe'[u]
               /\ serving'[u] # Nil =>
                    pay'[u] \in {"insert", "update"} /\ serving'[u] \in toServe'[u]
               /\ pay'[u] = "update" => serving'[u] \in serviced'
               /\ pay'[u] = "commit" => toServe'[u] \subseteq serviced' \cup wrote'[u]
               /\ toServe'[u] \subseteq
                    serviced' \cup wrote'[u] \cup rest'[u] \cup {serving'[u]}
    BY <1>2, <2>1, <2>4, <2>5 DEF ItemsServed
  <2>6. /\ ~(~Paid(s)' \/ pay'[s] = "items")
        /\ \A j \in toServe'[s] : itemOrder'[j] = sessionOrder'[s]
        /\ rest'[s] \subseteq toServe'[s] /\ wrote'[s] \subseteq toServe'[s]
    BY <1>2, <2>1, <2>4 DEF ItemsServed
  <2>7. /\ serving'[s] # Nil =>
             pay'[s] \in {"insert", "update"} /\ serving'[s] \in toServe'[s]
        /\ pay'[s] = "update" => serving'[s] \in serviced'
    BY <1>2, <2>1, <2>2, <2>3
  <2>8. ASSUME NEW j \in toServe'[s]
        PROVE  /\ j \in serviced' \cup wrote'[s] \cup rest'[s] \cup {serving'[s]}
               /\ pay'[s] = "commit" => j \in serviced' \cup wrote'[s]
    <3>1. j \in toServe[s] /\ j # Nil BY <2>1, <2>8 DEF TypeOK
    <3>2. j = i \/ j \in serviced \/ j \in wrote[s] \/ j \in rest'[s]
      BY <1>3, <2>1, <2>2, <3>1
    <3>3. i \in serviced \/ (serving'[s] = i /\ pay'[s] # "commit") BY <2>1, <2>3
    <3>4. pay'[s] = "commit" => j \notin rest'[s] BY <2>3
    <3> QED BY <1>2, <2>1, <3>2, <3>3, <3>4
  <2>10. ItemsServed'
    BY <2>5, <2>6, <2>7, <2>8 DEF ItemsServed
  <2> QED BY <1>1, <2>1, <2>4, <2>10, ServeInv
<1>6. CASE InsertService(s) \/ UpdateService(s)
  <2> DEFINE i == serving[s]
  <2>1. /\ pay[s] \in {"insert", "update"} /\ pay'[s] \in {"services", "commit"}
        /\ \A u \in Sessions : u # s =>
             pay'[u] = pay[u] /\ serving'[u] = serving[u] /\ wrote'[u] = wrote[u]
        /\ UNCHANGED <<toServe, rest>>
        /\ wrote'[s] = wrote[s] \cup {i} /\ serving'[s] = Nil
        /\ pay'[s] = "commit" => rest[s] = {}
    BY <1>6 DEF InsertService, UpdateService, WriteService, Paying, Following, TypeOK
  <2>2. i \in toServe[s] /\ (i \in serviced \/ Deleters(i) = {})
    BY <1>6, <2>1
       DEF InsertService, UpdateService, WriteService, Paying, InsertWaits, ItemsServed, TypeOK
  <2>3. Paid(s) /\ \A u \in Sessions : Paid(u)' = Paid(u) BY <2>1 DEF Paid
  <2>4. ItemsServed' BY <1>2, <1>3, <2>1, <2>2, <2>3 DEF ItemsServed
  <2> QED BY <1>1, <2>1, <2>2, <2>3, <2>4, ServeInv
<1> QED BY <1>4, <1>5, <1>6

LEMMA PayOrderInv ==
  ASSUME RowsInv, TypeOK', NEW s \in Sessions, PayOrder(s)
  PROVE  RowsInv'
<1> USE CartAssumption DEF RowsInv, work, history
<1> DEFINE o == sessionOrder[s]
<1>1. UNCHANGED <<status, itemOrder, quantity, serviced, itemLock, req, checkout,
                  sessionOrder, work, admin, byHand>>
  BY DEF PayOrder, orderRows, itemRows
<1>2. /\ pay[s] = "open" /\ pay'[s] = "items"
      /\ \A u \in Sessions : u # s => pay'[u] = pay[u]
  BY DEF PayOrder, Paying, TypeOK
<1>3. o \in Orders BY <1>2 DEF PaymentsRefer
<1>4. \/ \A p \in Orders : IF p = o THEN orderLock[p] = Nil /\ orderLock'[p] = s
                            ELSE orderLock'[p] = orderLock[p]
      \/ status[o] = "paid" /\ orderLock' = orderLock
  BY <1>3 DEF PayOrder, TypeOK
<1>5. \A u \in Sessions : Paid(u)' <=> Paid(u) \/ u = s BY <1>2 DEF Paid
<1>6. LocksHeld'
  <2>1. \A r \in CartRequests : req[r].pc = "commit" =>
          req[r].order \in Orders /\ orderLock[req[r].order] = r
    BY RequestFields DEF Live, LocksHeld
  <2>2. \A r \in CartRequests : req[r].pc = "commit" => orderLock'[req[r].order] = r
    BY <1>4, <2>1 DEF Txs
  <2>3. \A p \in Orders :
          orderLock'[p] = orderLock[p] \/ (p = o /\ orderLock'[p] = s)
    BY <1>4
  <2> QED BY <1>1, <1>5, <2>2, <2>3, LockOwners DEF LocksHeld, Written
<1>7. CheckoutsRefer'
  BY <1>1, <1>2, CheckoutFields DEF CheckoutsRefer, TypeOK
<1>8. PaymentsRefer' /\ AdminsRefer' /\ PendingHasSession'
  BY <1>1, <1>2 DEF PaymentsRefer, AdminsRefer, PendingHasSession
<1>9. DeletesAreFree' BY <1>1 DEF DeletesAreFree, Deleters, KeyShares
<1>10. ItemsServed'
  <2>1. ~Paid(s) BY <1>2 DEF Paid
  <2>2. toServe[s] = {} /\ serving[s] = Nil BY <1>2, <2>1 DEF ItemsServed
  <2> QED BY <1>1, <1>2, <1>5, <2>2 DEF ItemsServed
<1>11. ReadsStay'
  <2>1. \A p \in Orders : Harmless(p)' = Harmless(p) BY <1>1 DEF Harmless
  <2>2. \A u \in Sessions : Paid(u) => u # s /\ sessionOrder[u] \in Orders
    BY <1>2 DEF PaymentsRefer, Paid
  <2>3. \A u \in Sessions : Paid(u) /\ orderLock[sessionOrder[u]] = u =>
          orderLock'[sessionOrder[u]] = u
    BY <1>4, <2>2 DEF Txs
  <2>4. orderLock'[o] = s \/ Harmless(o) \/ "paid" \in byHand[o]
    BY <1>3, <1>4 DEF ReadsStay
  <2> QED BY <1>1, <1>2, <1>3, <1>5, <2>1, <2>2, <2>3, <2>4 DEF ReadsStay
<1> QED BY <1>1, <1>6, <1>7, <1>8, <1>9, <1>10, <1>11, CartStays

LEMMA PaymentInv ==
  ASSUME RowsInv, TypeOK', NEW s \in Sessions, PaymentStep(s)
  PROVE  RowsInv'
<1>1. CASE PayIsVictim(s)
  <2>1. Deadlocked(s) BY <1>1 DEF PayIsVictim
  <2>2. \E t \in Txs : t \in Blockers(s)
    BY <2>1 DEF Deadlocked, Knot
  <2>3. s \notin CartRequests /\ s \notin Checkouts BY CartAssumption
  <2>4. Paid(s) BY <2>2, <2>3 DEF Blockers, Paid
  <2> QED BY <1>1, <2>4, PayRollbackInv DEF PayIsVictim
<1>2. CASE PayFails(s) \/ InsertRefused(s)
  BY <1>2, PayRollbackInv DEF PayFails, InsertRefused, Paid
<1> QED
  BY <1>1, <1>2, PayOrderInv, PrepareInv, PayCommitInv DEF PaymentStep, ContinuePayment

\* An administrator may leave any status but 'draft', in which alone removals
\* begin and checkouts.
LEMMA AdminInv ==
  ASSUME RowsInv, TypeOK', NEW a \in Admins, AdminStep(a)
  PROVE  RowsInv'
<1> USE CartAssumption DEF RowsInv, work, history
<1>1. UNCHANGED <<itemOrder, quantity, serviced, orderLock, itemLock, req, checkout,
                  sessionOrder, pay, work>>
  BY DEF AdminStep, AdminReads, AdminUpdates, AdminFails, orderRows, itemRows, locks,
     payments
<1>2. LocksHeld' /\ DeletesAreFree' /\ ItemsServed'
  BY <1>1 DEF LocksHeld, Written, Paid, DeletesAreFree, Deleters, KeyShares, ItemsServed
<1>3. CASE UNCHANGED <<status, byHand>>
  <2>1. AdminsRefer'
    <3>1. ASSUME NEW o \in Orders, NEW to \in Statuses, AdminReads(a, o, to)
          PROVE  AdminsRefer'
      <4>1. status[o] # "none" /\ to # "draft"
        BY <3>1, StatusNames DEF AdminReads
      <4>2. \A b \in Admins : admin'[b] = IF b = a THEN [order |-> o, to |-> to]
                                          ELSE admin[b]
        BY <3>1 DEF AdminReads, TypeOK
      <4> QED BY <1>3, <4>1, <4>2 DEF AdminsRefer
    <3>2. ASSUME AdminUpdates(a) \/ AdminFails(a) PROVE AdminsRefer'
      <4>1. \A b \in Admins : admin'[b] \in {NoChange, admin[b]}
        BY <3>2 DEF AdminUpdates, AdminFails, TypeOK
      <4> QED BY <1>3, <4>1 DEF AdminsRefer
    <3> QED BY <3>1, <3>2 DEF AdminStep
  <2>2. CheckoutsRefer' /\ PaymentsRefer' /\ PendingHasSession' /\ ReadsStay'
    BY <1>1, <1>3 DEF CheckoutsRefer, PaymentsRefer, PendingHasSession, ReadsStay,
       Harmless, Paid
  <2> QED BY <1>1, <1>2, <1>3, <2>1, <2>2, CartStays
<1>4. CASE AdminUpdates(a)
  <2> DEFINE o == admin[a].order
             to == admin[a].to
  <2>1. /\ o \in Orders /\ to \in Statuses /\ to # "none" /\ to # "draft"
        /\ status[o] # "none"
    BY <1>4, AdminFields, StatusNames DEF AdminUpdates, AdminsRefer
  <2>2. /\ \A p \in Orders : status'[p] = IF p = o THEN to ELSE status[p]
        /\ \A p \in Orders : byHand'[p] = IF p = o THEN byHand[p] \cup {to} ELSE byHand[p]
        /\ \A b \in Admins : admin'[b] \in {NoChange, admin[b]}
    BY <1>4, <2>1 DEF AdminUpdates, TypeOK
  <2>3. \A p \in Orders : status'[p] = "none" <=> status[p] = "none" BY <2>1, <2>2
  <2>4. AdminsRefer' /\ CheckoutsRefer'
    BY <1>1, <2>1, <2>2, CheckoutFields, AdminFields DEF AdminsRefer, CheckoutsRefer
  <2>5. PaymentsRefer' /\ PendingHasSession'
    <3>1. ASSUME NEW p \in Orders, status'[p] = "pending_payment"
          PROVE  status[p] = "pending_payment" \/ "pending_payment" \in byHand'[p]
      <4>1. CASE p = o
        <5>1. status'[p] = to /\ byHand'[p] = byHand[p] \cup {to} BY <2>2, <4>1
        <5>2. to \in byHand'[p] BY <5>1
        <5> QED BY <3>1, <5>1, <5>2
      <4>2. CASE p # o BY <2>2, <3>1, <4>2
      <4> QED BY <4>1, <4>2
    <3>2. \A p \in Orders : byHand[p] \subseteq byHand'[p] BY <2>2
    <3>3. PendingHasSession' BY <1>1, <3>1, <3>2 DEF PendingHasSession
    <3>4. PaymentsRefer' BY <1>1, <2>1, <2>2 DEF PaymentsRefer
    <3> QED BY <3>3, <3>4
  <2>6. ReadsStay'
    <3>1. \A p \in Orders : Harmless(p)' = Harmless(p) BY <1>1 DEF Harmless
    <3>2. \A u \in Sessions : Paid(u)' = Paid(u) /\ (Paid(u) => sessionOrder[u] \in Orders)
      BY <1>1 DEF Paid, PaymentsRefer
    <3>3. ASSUME NEW p \in Orders, status'[p] = "paid"
          PROVE  status[p] = "paid" \/ "paid" \in byHand'[p]
      <4>1. CASE p = o
        <5>1. status'[p] = to /\ byHand'[p] = byHand[p] \cup {to} BY <2>2, <4>1
        <5>2. to \in byHand'[p] BY <5>1
        <5> QED BY <3>3, <5>1, <5>2
      <4>2. CASE p # o BY <2>2, <3>3, <4>2
      <4> QED BY <4>1, <4>2
    <3>4. \A p \in Orders : byHand[p] \subseteq byHand'[p] BY <2>2
    <3> QED BY <1>1, <3>1, <3>2, <3>3, <3>4 DEF ReadsStay
  <2> QED BY <1>1, <1>2, <2>3, <2>4, <2>5, <2>6, CartStays
<1> QED BY <1>3, <1>4 DEF AdminStep, AdminReads, AdminFails, orderRows

LEMMA InitInv == Init => RowsInv
<1> SUFFICES ASSUME Init PROVE RowsInv
  OBVIOUS
<1>1. TypeOK BY InitTyped
<1>2. \A r \in CartRequests : ~Live(r) /\ ~Written(r) /\ req[r].op = "none"
                              /\ req[r].pc = "idle"
  BY DEF Init, Live, Written, NoRequest
<1> QED
  BY <1>1, <1>2 DEF Init, RowsInv, LocksHeld, DeletesAreFree, Deleters, RowsRefer, Nothing,
     NoSharedIds, CheckoutsRefer, NoCheckout, PaymentsRefer, AdminsRefer, ItemsServed,
     ReadsStay, Harmless, Paid, PendingHasSession

LEMMA NextInv == RowsInv /\ [Next]_vars => RowsInv'
<1> SUFFICES ASSUME RowsInv, [Next]_vars PROVE RowsInv'
  OBVIOUS
<1>1. TypeOK' BY NextTyped DEF RowsInv
<1>2. ASSUME NEW r \in CartRequests, CartStep(r) PROVE RowsInv'
  <2>1. \A q \in Quantities : q \in Nat /\ q > 0 BY DEF Quantities
  <2>2. ASSUME NEW op \in {"remove", "update"}, NEW i \in Items, NEW q \in Nat,
               op = "remove" \/ q > 0, BeginChange(r, op, i, q)
        PROVE  RowsInv'
    BY <1>1, <2>2, BeginChangeInv
  <2>3. CASE Continue(r)
    BY <1>1, <2>3, FindItemInv, WriteItemInv, SumItemsInv, WriteTotalInv, CommitRowsInv,
       RollbackInv DEF Continue, DeleteRestricted, CartIsVictim
  <2> QED BY <1>1, <1>2, <2>1, <2>2, <2>3, BeginAddInv, RollbackInv DEF CartStep, CartFails
<1>3. ASSUME NEW o \in Orders, NEW new \in SUBSET Items \ {{}},
             NEW plans \in [new -> Plans], NEW quantities \in [new -> Quantities],
             CreateOrder(o, new, plans, quantities)
      PROVE  RowsInv'
  BY <1>1, <1>3, CreateOrderInv
<1>4. ASSUME NEW k \in Checkouts, CheckoutStep(k) PROVE RowsInv'
  BY <1>1, <1>4, CheckoutInv
<1>5. ASSUME NEW s \in Sessions, PaymentStep(s) PROVE RowsInv'
  BY <1>1, <1>5, PaymentInv
<1>6. ASSUME NEW a \in Admins, AdminStep(a) PROVE RowsInv'
  BY <1>1, <1>6, AdminInv
<1>7. CASE UNCHANGED vars
  <2>1. UNCHANGED <<status, itemOrder, quantity, serviced, orderLock, itemLock, req,
                    checkout, sessionOrder, pay,
                  work, admin, byHand>>
    BY <1>7 DEF vars, orderRows, itemRows, locks, payments, history
  <2> QED
    BY <1>1, <2>1, CartStays DEF RowsInv, LocksHeld, Written, Paid, DeletesAreFree,
       KeyShares, CheckoutsRefer, PaymentsRefer, AdminsRefer, ItemsServed, ReadsStay,
       Harmless, PendingHasSession, work
<1> QED BY <1>2, <1>3, <1>4, <1>5, <1>6, <1>7 DEF Next

LEMMA RowsCorrect == Spec => []RowsInv
BY InitInv, NextInv, PTL DEF Spec

-----------------------------------------------------------------------------
(* The sums and the totals                                                 *)

\* Steps that change no item and no total.
LEMMA TotalsStay ==
  ASSUME RowsInv, TotalIsSum, UNCHANGED <<itemOrder, quantity, total, raced>>,
         \A o \in Orders : status'[o] = "none" <=> status[o] = "none"
  PROVE  /\ TotalIsSum'
         /\ \A o \in Orders : Contents(o)' = Contents(o)
         /\ SumsFit /\ UNCHANGED <<req, stale>> => SumsFit'
<1>1. \A o \in Orders : Contents(o)' = Contents(o)
  BY DEF Contents
<1>2. TotalIsSum' BY <1>1 DEF TotalIsSum
<1>3. SumsFit /\ UNCHANGED <<req, stale>> => SumsFit'
  BY <1>1, RequestFields DEF SumsFit, RowsInv, Live
<1> QED BY <1>1, <1>2, <1>3

\* A commit overtakes every sum of the order but its own, and marks the total
\* if its own has been overtaken.
LEMMA CommitTotal ==
  ASSUME RowsInv, SumsFit, TotalIsSum, NEW r \in CartRequests, CommitCart(r)
  PROVE  SumsFit' /\ TotalIsSum'
<1> USE CartAssumption DEF RowsInv, work, history
<1>1. PICK o \in Orders, i \in Items, row \in Nat :
        /\ o = req[r].order /\ i = req[r].item /\ row = req[r].row
        /\ itemOrder[i] \in {Nil, o}
        /\ r \notin stale => req[r].sum = [Contents(o) EXCEPT ![i] = row]
  <2>1. req[r].pc = "commit" /\ Live(r) BY DEF CommitCart, Live
  <2> QED BY <2>1, RequestFields DEF SumsFit, RequestInv
<1>2. /\ itemOrder' = [itemOrder EXCEPT ![i] = o]
      /\ quantity' = [quantity EXCEPT ![i] = row]
      /\ total' = [total EXCEPT ![o] = req[r].sum]
      /\ status' = [status EXCEPT ![o] = IF req[r].isNew THEN "draft" ELSE @]
      /\ req' = [req EXCEPT ![r] = NoRequest]
      /\ stale' = (stale \cup Summed(o)) \ {r}
      /\ raced' = IF r \in stale THEN raced \cup {o} ELSE raced \ {o}
  BY <1>1 DEF CommitCart
<1>3. /\ itemOrder'[i] = o /\ quantity'[i] = row
      /\ \A j \in Items : j # i => itemOrder'[j] = itemOrder[j] /\ quantity'[j] = quantity[j]
  BY <1>1, <1>2 DEF TypeOK
<1>4. r \notin stale => Contents(o)' = req[r].sum
  BY <1>1, <1>3 DEF Contents
<1>5. ASSUME NEW p \in Orders, p # o PROVE Contents(p)' = Contents(p)
  BY <1>1, <1>3, <1>5 DEF Contents
<1>6. \A p \in Orders : IF p = o THEN total'[p] = req[r].sum
                        ELSE total'[p] = total[p] /\ status'[p] = status[p]
  BY <1>1, <1>2 DEF TypeOK
<1>7. TotalIsSum'
  <2> SUFFICES ASSUME NEW p \in Orders, status'[p] # "none", p \notin raced'
               PROVE  total'[p] = Contents(p)'
    BY DEF TotalIsSum
  <2>1. CASE p = o BY <1>2, <1>4, <1>6, <2>1
  <2>2. CASE p # o
    <3>1. p \notin raced BY <1>2, <2>2
    <3> QED BY <1>5, <1>6, <2>2, <3>1 DEF TotalIsSum
  <2> QED BY <2>1, <2>2
<1>8. SumsFit'
  <2> SUFFICES ASSUME NEW t \in CartRequests, t \notin stale',
                      req'[t].pc \in {"total", "commit"}
               PROVE  req'[t].sum =
                        [Contents(req[t].order)' EXCEPT ![req'[t].item] = req'[t].row]
    BY DEF SumsFit
  <2>1. t # r BY <1>2 DEF NoRequest, TypeOK
  <2>2. req'[t] = req[t] /\ t \notin stale BY <1>2, <2>1
  <2>3. req[t].order \in Orders /\ req[t].order # o
    BY <1>2, <2>1, <2>2, RequestFields DEF Summed, Live
  <2> QED BY <1>5, <2>2, <2>3 DEF SumsFit
<1> QED BY <1>7, <1>8

LEMMA CreateTotal ==
  ASSUME RowsInv, SumsFit, TotalIsSum, NEW o \in Orders, NEW new \in SUBSET Items,
         NEW plans, NEW quantities, CreateOrder(o, new, plans, quantities)
  PROVE  SumsFit' /\ TotalIsSum'
<1> USE CartAssumption DEF RowsInv, work, history
<1>1. /\ status[o] = "none" /\ \A t \in CartRequests : req[t].order # o
      /\ \A i \in new : itemOrder[i] = Nil
      /\ UNCHANGED <<req, stale, raced>>
  BY DEF CreateOrder, FreshOrders, FreshItems
<1>2. \A i \in Items : IF i \in new THEN itemOrder'[i] = o /\ quantity'[i] = quantities[i]
                       ELSE itemOrder'[i] = itemOrder[i] /\ quantity'[i] = quantity[i]
  BY DEF CreateOrder
<1>3. \A p \in Orders : IF p # o THEN total'[p] = total[p] /\ status'[p] = status[p]
                        ELSE total'[p] = [i \in Items |-> IF i \in new THEN quantities[i]
                                                          ELSE 0]
  BY DEF CreateOrder, TypeOK
<1>4. Contents(o)' = [i \in Items |-> IF i \in new THEN quantities[i] ELSE 0]
  <2>1. \A i \in Items : itemOrder[i] # o BY <1>1 DEF RowsRefer
  <2> QED BY <1>2, <2>1 DEF Contents
<1>5. ASSUME NEW p \in Orders, p # o PROVE Contents(p)' = Contents(p)
  BY <1>1, <1>2, <1>5 DEF Contents
<1>6. TotalIsSum' BY <1>1, <1>3, <1>4, <1>5 DEF TotalIsSum
<1>7. SumsFit' BY <1>1, <1>5, RequestFields DEF SumsFit, Live
<1> QED BY <1>6, <1>7

LEMMA NextSum ==
  ASSUME RowsInv, SumsFit, TotalIsSum, [Next]_vars
  PROVE  SumsFit' /\ TotalIsSum'
<1> USE DEF RowsInv, work, history
<1>1. ASSUME NEW r \in CartRequests, CartStep(r) PROVE SumsFit' /\ TotalIsSum'
  <2>1. CASE CommitCart(r)
    BY <2>1, CommitTotal
  <2>2. CASE ~CommitCart(r)
    <3>1. /\ UNCHANGED <<itemOrder, quantity, total, status, raced>>
          /\ stale' = stale \/ (stale' = stale \ {r} /\ req' = [req EXCEPT ![r] = NoRequest])
          /\ \A t \in CartRequests \ {r} : req'[t] = req[t]
      BY <1>1, <2>2 DEF TypeOK, CartStep, Continue, BeginAdd, BeginChange, FindItem, WriteItem,
         SumItems, WriteTotal, Local, DeleteRestricted, CartIsVictim, CartFails, Rollback,
         itemRows, orderRows
    <3>2. TotalIsSum' /\ \A o \in Orders : Contents(o)' = Contents(o)
      BY <3>1, TotalsStay
    <3>3. req'[r].pc \in {"total", "commit"} /\ r \notin stale' =>
            /\ req[r].order \in Orders /\ req'[r].order = req[r].order
            /\ req'[r].sum = [Contents(req[r].order) EXCEPT ![req'[r].item] = req'[r].row]
      <4>1. CASE SumItems(r)
        <5>1. req[r] \in CartRequest BY <4>1, RequestFields DEF SumItems, Live
        <5>2. req'[r] = [req[r] EXCEPT !.pc = "total", !.sum =
                           [Contents(req[r].order) EXCEPT ![req[r].item] = req[r].row]]
          BY <4>1 DEF SumItems, Local, TypeOK
        <5> QED BY <5>1, <5>2 DEF CartRequest
      <4>2. CASE WriteTotal(r)
        <5>1. req[r] \in CartRequest /\ req[r].pc = "total"
          BY <4>2, RequestFields DEF WriteTotal, Live
        <5>2. req'[r] = [req[r] EXCEPT !.pc = "commit"]
          BY <4>2 DEF WriteTotal, Local, TypeOK
        <5>3. stale' = stale BY <4>2 DEF WriteTotal, Local
        <5> QED BY <5>1, <5>2, <5>3 DEF CartRequest, SumsFit
      <4>3. CASE FindItem(r) \/ WriteItem(r)
        <5>1. req[r] \in CartRequest
          BY <4>3, RequestFields DEF FindItem, WriteItem, Live
        <5>2. req'[r].pc \in {"write", "sum"}
          <6>1. CASE FindItem(r)
            <7>1. PICK j :
                    \/ req' = [req EXCEPT ![r] = [req[r] EXCEPT !.pc = "write", !.item = j]]
                    \/ req' = [req EXCEPT ![r] =
                         [req[r] EXCEPT !.pc = "sum", !.item = j, !.row = req[r].by]]
              BY <6>1 DEF FindItem, Local
            <7>2. /\ [req[r] EXCEPT !.pc = "write", !.item = j].pc = "write"
                  /\ [req[r] EXCEPT !.pc = "sum", !.item = j, !.row = req[r].by].pc = "sum"
              BY <5>1 DEF CartRequest
            <7> QED BY <7>1, <7>2 DEF TypeOK
          <6>2. CASE WriteItem(r)
            <7>1. PICK row :
                    req' = [req EXCEPT ![r] = [req[r] EXCEPT !.pc = "sum", !.row = row]]
              BY <6>2 DEF WriteItem, Local
            <7> QED BY <5>1, <7>1 DEF CartRequest, TypeOK
          <6> QED BY <4>3, <6>1, <6>2
        <5> QED BY <5>2
      <4>4. CASE Rollback(r)
        BY <4>4 DEF Rollback, NoRequest, TypeOK
      <4>5. CASE \/ \E p \in Plans, q \in Quantities : BeginAdd(r, p, q)
                 \/ \E i \in Items, q \in Quantities : BeginChange(r, "update", i, q)
                 \/ \E i \in Items : BeginChange(r, "remove", i, 0)
        <5>1. req'[r].pc \in {"find", "write"}
          <6>1. ASSUME NEW p \in Plans, NEW q \in Quantities, BeginAdd(r, p, q)
                PROVE  req'[r].pc = "find"
            <7>1. PICK o \in Orders, isNew \in BOOLEAN :
                    req' = [req EXCEPT ![r] = [NoRequest EXCEPT
                      !.op = "add", !.pc = "find", !.order = o, !.isNew = isNew,
                      !.at = clock, !.plan = p, !.by = q]]
              BY <6>1 DEF BeginAdd
            <7> QED BY <7>1 DEF NoRequest, TypeOK
          <6>2. ASSUME NEW op, NEW i \in Items, NEW q, BeginChange(r, op, i, q)
                PROVE  req'[r].pc = "write"
            BY <6>2 DEF BeginChange, NoRequest, TypeOK
          <6> QED BY <4>5, <6>1, <6>2
        <5> QED BY <5>1
      <4> QED
        BY <1>1, <2>2, <4>1, <4>2, <4>3, <4>4, <4>5
           DEF CartStep, Continue, DeleteRestricted, CartIsVictim, CartFails
    <3>4. ASSUME NEW t \in CartRequests, t # r, t \notin stale',
                 req'[t].pc \in {"total", "commit"}
          PROVE  req'[t].sum =
                   [Contents(req[t].order)' EXCEPT ![req'[t].item] = req'[t].row]
      <4>1. t \notin stale /\ req'[t] = req[t] BY <3>1, <3>4
      <4>2. req[t].order \in Orders BY <3>4, <4>1, RequestFields DEF Live
      <4> QED BY <3>2, <3>4, <4>1, <4>2 DEF SumsFit
    <3>5. ASSUME r \notin stale', req'[r].pc \in {"total", "commit"}
          PROVE  req'[r].sum =
                   [Contents(req[r].order)' EXCEPT ![req'[r].item] = req'[r].row]
      BY <3>2, <3>3, <3>5
    <3> QED BY <3>2, <3>4, <3>5 DEF SumsFit
  <2> QED BY <2>1, <2>2
<1>2. ASSUME NEW o \in Orders, NEW new \in SUBSET Items \ {{}},
             NEW plans \in [new -> Plans], NEW quantities \in [new -> Quantities],
             CreateOrder(o, new, plans, quantities)
      PROVE  SumsFit' /\ TotalIsSum'
  BY <1>2, CreateTotal
<1>3. ASSUME NEW k \in Checkouts, CheckoutStep(k) PROVE SumsFit' /\ TotalIsSum'
  <2>1. UNCHANGED <<itemOrder, quantity, total, req, stale, raced>>
    BY <1>3 DEF CheckoutStep, ContinueCheckout, BeginCheckout, ReadLines, CreateSession,
       UpdateOrder, CommitCheckout, CommitUnknown, PendingPayment, Answer, AnswerIsLost,
       AnswerWith, CheckoutFails, orderRows, itemRows
  <2>2. \A o \in Orders : status'[o] = "none" <=> status[o] = "none"
    <3>1. CASE PendingPayment(k)
      <4>1. status[checkout[k].order] # "none" /\ checkout[k].order \in Orders
        BY <3>1, CheckoutFields DEF PendingPayment, CheckoutsRefer
      <4> QED BY <3>1, <4>1 DEF PendingPayment, TypeOK
    <3>2. CASE ~PendingPayment(k)
      BY <1>3, <3>2 DEF CheckoutStep, ContinueCheckout, BeginCheckout, ReadLines,
         CreateSession, UpdateOrder, CommitCheckout, CommitUnknown, Answer, AnswerIsLost,
         AnswerWith, CheckoutFails, orderRows
    <3> QED BY <3>1, <3>2
  <2> QED BY <2>1, <2>2, TotalsStay
<1>4. ASSUME NEW s \in Sessions, PaymentStep(s) PROVE SumsFit' /\ TotalIsSum'
  <2>1. UNCHANGED <<itemOrder, quantity, total, req, stale, raced>>
    BY <1>4 DEF PaymentStep, ContinuePayment, PayOrder, PayItems, FindNoService,
       FindStoppedService, FindService, InsertService, UpdateService, WriteService,
       OnlyPayment, InsertRefused, PayCommit, PayIsVictim, PayFails, PayRollback,
       orderRows, itemRows
  <2>2. \A o \in Orders : status'[o] = "none" <=> status[o] = "none"
    <3>1. CASE PayCommit(s)
      BY <3>1 DEF PayCommit, Paying, PaymentsRefer, TypeOK
    <3>2. CASE ~PayCommit(s)
      BY <1>4, <3>2 DEF PaymentStep, ContinuePayment, PayOrder, PayItems, FindNoService,
         FindStoppedService, FindService, InsertService, UpdateService, WriteService,
         OnlyPayment, InsertRefused, PayIsVictim, PayFails, PayRollback, orderRows
    <3> QED BY <3>1, <3>2
  <2> QED BY <2>1, <2>2, TotalsStay
<1>5. ASSUME NEW a \in Admins, AdminStep(a) PROVE SumsFit' /\ TotalIsSum'
  <2>1. UNCHANGED <<itemOrder, quantity, total, req, stale, raced>>
    BY <1>5 DEF AdminStep, AdminReads, AdminUpdates, AdminFails, orderRows, itemRows
  <2>2. \A o \in Orders : status'[o] = "none" <=> status[o] = "none"
    <3>1. CASE AdminUpdates(a)
      <4>1. /\ admin[a].order \in Orders /\ admin[a].to \in Statuses
            /\ status[admin[a].order] # "none"
        BY <3>1, AdminFields DEF AdminUpdates, AdminsRefer
      <4> QED BY <3>1, <4>1, StatusNames DEF AdminUpdates, TypeOK
    <3>2. CASE ~AdminUpdates(a)
      BY <1>5, <3>2 DEF AdminStep, AdminReads, AdminFails, orderRows
    <3> QED BY <3>1, <3>2
  <2> QED BY <2>1, <2>2, TotalsStay
<1>6. CASE UNCHANGED vars
  BY <1>6, TotalsStay DEF vars, orderRows, itemRows
<1> QED BY <1>1, <1>2, <1>3, <1>4, <1>5, <1>6 DEF Next

LEMMA TotalsFit == Spec => [](SumsFit /\ TotalIsSum)
<1>1. Init => SumsFit /\ TotalIsSum
  BY DEF Init, SumsFit, TotalIsSum, NoRequest
<1>2. RowsInv /\ SumsFit /\ TotalIsSum /\ [Next]_vars => SumsFit' /\ TotalIsSum'
  BY NextSum
<1> QED BY RowsCorrect, <1>1, <1>2, PTL DEF Spec

\* The total that is committed is the sum of the items that are, except where
\* a request wrote a sum that another's commit had overtaken: whatever any
\* number of requests, checkouts, payments and administrators do.
THEOREM TotalsAreSums == Spec => []TotalIsSum
BY TotalsFit, PTL

\* What every statement of a cart, a checkout or a payment relies on of the
\* rows and locks it finds, and of the sum it has taken, holds in every
\* interleaving.
THEOREM CartCorrect == Spec => []CartInv
<1>1. RowsInv /\ SumsFit => CartInv BY DEF CartInv
<1> QED BY RowsCorrect, TotalsFit, <1>1, PTL

-----------------------------------------------------------------------------
(* The properties                                                          *)

\* The three kinds of transactions are told apart by Blockers.
LEMMA WhoBlocks ==
  ASSUME RowsInv, NEW t \in Txs, NEW b \in Txs, b \in Blockers(t)
  PROVE  \/ \* a cart request that waits for an item
            /\ t \in CartRequests /\ req[t].pc = "write"
            /\ \/ b \in CartRequests /\ Written(b)
               \/ b \in Sessions /\ req[t].op = "remove"
         \/ \* one that waits for its order, or a checkout
            /\ t \in CartRequests \cup Checkouts
            /\ t \in CartRequests => req[t].pc = "total"
            /\ t \in Checkouts => checkout[t].pc = "update"
            /\ \/ b \in CartRequests /\ req[b].pc = "commit"
               \/ b \in Checkouts /\ checkout[b].pc = "commit"
               \/ b \in Sessions /\ Paid(b)
         \/ \* a payment that waits for an item's services row or its removal
            /\ t \in Sessions /\ pay[t] \in {"insert", "update"}
            /\ \/ b \in Sessions /\ b # t /\ serving[t] \in wrote[b]
               \/ b \in CartRequests /\ req[b].op = "remove"
         \/ \* one that waits for its order
            /\ t \in Sessions /\ pay[t] = "commit" /\ b # t
            /\ \/ b \in CartRequests /\ req[b].pc = "commit"
               \/ b \in Checkouts /\ checkout[b].pc = "commit"
               \/ b \in Sessions /\ orderLock[sessionOrder[t]] = b
<1> USE CartAssumption DEF RowsInv, work, history
<1>1. \A o \in Orders : orderLock[o] = b =>
        \/ b \in CartRequests /\ req[b].pc = "commit"
        \/ b \in Checkouts /\ checkout[b].pc = "commit"
        \/ b \in Sessions /\ Paid(b)
  BY DEF LocksHeld, Txs
<1>2. \A i \in Items : itemLock[i] = b => b \in CartRequests /\ Written(b)
  BY LockOwners DEF LocksHeld, Txs
<1>3. CASE t \in CartRequests /\ req[t].pc = "write"
  <2>1. Blockers(t) = {itemLock[req[t].item]} \cup
                        (IF req[t].op = "remove" THEN KeyShares(req[t].item) ELSE {})
    BY <1>3 DEF Blockers
  <2>2. req[t].item \in Items BY <1>3, RequestFields DEF Live
  <2> QED BY <1>2, <1>3, <2>1, <2>2 DEF KeyShares
<1>4. CASE t \in CartRequests /\ req[t].pc = "total"
  <2>1. Blockers(t) = {orderLock[req[t].order]} \ {t} BY <1>4 DEF Blockers
  <2>2. req[t].order \in Orders BY <1>4, RequestFields DEF Live
  <2> QED BY <1>1, <1>4, <2>1, <2>2
<1>5. CASE t \in Checkouts /\ checkout[t].pc = "update"
  <2>1. Blockers(t) = {orderLock[checkout[t].order]} BY <1>5 DEF Blockers
  <2>2. checkout[t].order \in Orders BY <1>5, CheckoutFields
  <2> QED BY <1>1, <1>5, <2>1, <2>2
<1>6. CASE t \in Sessions /\ pay[t] \in {"insert", "update"}
  <2>1. t \notin CartRequests /\ t \notin Checkouts BY <1>6
  <2>2. Blockers(t) \subseteq Writers(t, serving[t]) \cup Deleters(serving[t])
    BY <1>6, <2>1 DEF Blockers, InsertWaits
  <2> QED BY <1>6, <2>2 DEF Writers, Deleters
<1>7. CASE t \in Sessions /\ pay[t] = "commit"
  <2>1. Blockers(t) = {orderLock[sessionOrder[t]]} \ {t} BY <1>7 DEF Blockers
  <2>2. sessionOrder[t] \in Orders BY <1>7 DEF PaymentsRefer
  <2> QED BY <1>1, <1>7, <2>1, <2>2
<1> QED BY <1>3, <1>4, <1>5, <1>6, <1>7 DEF Blockers

LEMMA NoOtherKnot == RowsInv => DeadlockNeedsPayment
<1> SUFFICES ASSUME RowsInv, NEW S \in SUBSET Txs, Knot(S)
             PROVE  \E s \in S \cap Sessions :
                      \/ \E r \in S \cap CartRequests : req[r].op = "remove"
                      \/ \E t \in (S \cap Sessions) \ {s} :
                           /\ sessionOrder[t] = sessionOrder[s]
                           /\ orderLock[sessionOrder[s]] # s
  BY DEF DeadlockNeedsPayment
<1> USE CartAssumption
<1>1. \A t \in S : t \in Txs /\ \E b \in S : b \in Txs /\ b \in Blockers(t)
  BY DEF Knot
<1>2. S # {} BY DEF Knot
\* Who has updated the order and is about to commit waits for nobody.
<1>3. \A t \in S : /\ t \in CartRequests => req[t].pc \in {"write", "total"}
                   /\ t \in Checkouts => checkout[t].pc = "update"
  <2> TAKE t \in S
  <2>1. PICK b \in S : b \in Txs /\ b \in Blockers(t) BY <1>1
  <2> QED BY <1>1, <2>1, WhoBlocks
<1>4. S \cap Sessions # {}
  <2> SUFFICES ASSUME S \cap Sessions = {} PROVE FALSE
    OBVIOUS
  <2>1. \A t \in S : ~(t \in CartRequests /\ req[t].pc = "total") /\ t \notin Checkouts
    <3> TAKE t \in S
    <3>1. PICK b \in S : b \in Txs /\ b \in Blockers(t) BY <1>1
    <3> QED BY <1>1, <1>3, <3>1, WhoBlocks
  <2>2. PICK t \in S : TRUE BY <1>2
  <2>3. PICK b \in S : b \in Txs /\ b \in Blockers(t) BY <1>1
  <2> QED BY <1>1, <1>3, <2>1, <2>3, WhoBlocks DEF Written
<1>5. CASE \E r \in S \cap CartRequests : req[r].op = "remove"
  BY <1>4, <1>5
\* Without a removal a payment of the knot waits for another of the same order,
\* and at most one of the two holds the order's lock.
<1>6. CASE \A r \in S \cap CartRequests : req[r].op # "remove"
  <2>1. PICK s \in S \cap Sessions : TRUE BY <1>4
  <2>2. PICK b \in S : b \in Txs /\ b \in Blockers(s) BY <1>1
  <2>3. CASE b \in Sessions /\ b # s /\ serving[s] \in wrote[b]
                /\ pay[s] \in {"insert", "update"}
    <3>1. serving[s] # Nil BY <2>3 DEF RowsInv, TypeOK
    <3>2. serving[s] \in toServe[s] /\ serving[s] \in toServe[b]
      BY <2>3, <3>1 DEF RowsInv, ItemsServed
    <3>3. sessionOrder[s] = sessionOrder[b]
      BY <2>3, <3>2 DEF RowsInv, ItemsServed
    <3> QED BY <2>2, <2>3, <3>3
  <2>4. CASE b \in Sessions /\ b # s /\ orderLock[sessionOrder[s]] = b
               /\ pay[s] = "commit"
    <3>1. sessionOrder[b] = sessionOrder[s]
      BY <2>4 DEF RowsInv, LocksHeld, PaymentsRefer, Txs
    <3> QED BY <2>2, <2>4, <3>1
  <2> QED BY <1>1, <1>3, <1>6, <2>1, <2>2, <2>3, <2>4, WhoBlocks
<1> QED BY <1>5, <1>6

\* Cart requests, checkouts and payments deadlock only where a payment meets the
\* removal of an item it has read, or another payment of its order while one of
\* the two has not locked it: for any number of them.
THEOREM DeadlocksNeedPayments == Spec => []DeadlockNeedsPayment
BY RowsCorrect, NoOtherKnot, PTL

LEMMA StayedItems == RowsInv => ReadItemsStay
BY DEF RowsInv, ReadsStay, ReadItemsStay, ItemsServed

\* No removal commits between a payment's look at the order's items and its
\* commit, however many payments, checkouts and cart requests there are, unless
\* an administrator has set the order 'paid'.
THEOREM ItemsStayRead == Spec => []ReadItemsStay
BY RowsCorrect, StayedItems, PTL

\* Every order that awaits payment has a session whose URL was given out, or is
\* to be, or was lost on its way, unless an administrator has set the status.
THEOREM SessionsBeforePending == Spec => []PendingHasSession
<1>1. RowsInv => PendingHasSession BY DEF RowsInv
<1> QED BY RowsCorrect, <1>1, PTL

\* The only step that ends a request and changes a quantity is its commit.
LEMMA StepAddsUp ==
  ASSUME RowsInv, Next, NEW r \in CartRequests, req[r].op = "add",
         req[r].pc = "commit", req'[r] = NoRequest, quantity' # quantity
  PROVE  quantity'[req[r].item] = quantity[req[r].item] + req[r].by
<1> USE DEF RowsInv, work, history
<1> DEFINE i == req[r].item
<1>1. Live(r) /\ Written(r) /\ req'[r] # req[r]
  BY DEF Live, Written, NoRequest
<1>2. i \in Items /\ RequestInv(r) /\ req[r].by \in Nat /\ req[r].row \in Nat
  BY <1>1, RequestFields
<1>3. CommitCart(r)
  <2>1. ASSUME NEW t \in CartRequests, CartStep(t) PROVE CommitCart(r)
    <3>1. CommitCart(t)
      BY <2>1 DEF CartStep, Continue, BeginAdd, BeginChange, FindItem, WriteItem, SumItems,
         WriteTotal, Local, DeleteRestricted, CartIsVictim, CartFails, Rollback, itemRows
    <3>2. t = r
      <4>1. req' = [req EXCEPT ![t] = NoRequest] BY <3>1 DEF CommitCart
      <4> QED BY <1>1, <4>1 DEF TypeOK
    <3> QED BY <3>1, <3>2
  <2>2. ASSUME NEW o \in Orders, NEW new \in SUBSET Items \ {{}},
               NEW plans \in [new -> Plans], NEW quantities \in [new -> Quantities],
               CreateOrder(o, new, plans, quantities)
        PROVE  FALSE
    BY <1>1, <2>2 DEF CreateOrder
  <2>3. ASSUME NEW k \in Checkouts, CheckoutStep(k) PROVE FALSE
    BY <1>1, <2>3 DEF CheckoutStep, ContinueCheckout, BeginCheckout, ReadLines,
       CreateSession, UpdateOrder, CommitCheckout, CommitUnknown, PendingPayment, Answer,
       AnswerIsLost, AnswerWith, CheckoutFails
  <2>4. ASSUME NEW s \in Sessions, PaymentStep(s) PROVE FALSE
    BY <1>1, <2>4 DEF PaymentStep, ContinuePayment, PayOrder, PayItems, FindNoService,
       FindStoppedService, FindService, InsertService, UpdateService, WriteService,
       OnlyPayment, InsertRefused, PayCommit, PayIsVictim, PayFails, PayRollback
  <2>5. ASSUME NEW a \in Admins, AdminStep(a) PROVE FALSE
    BY <1>1, <2>5 DEF AdminStep, AdminReads, AdminUpdates, AdminFails
  <2> QED BY <2>1, <2>2, <2>3, <2>4, <2>5 DEF Next
<1>4. quantity' = [quantity EXCEPT ![i] = req[r].row]
  BY <1>3 DEF CommitCart
<1>5. quantity \in [Items -> Nat] BY DEF TypeOK
<1>6. CASE Inserts(r)
  <2>1. quantity[i] = 0 BY <1>2, <1>6 DEF Inserts, RowsRefer
  <2>2. req[r].row = req[r].by BY <1>2, <1>6 DEF RequestInv
  <2> QED BY <1>2, <1>4, <1>5, <2>1, <2>2
<1>7. CASE ~Inserts(r)
  <2>1. IF quantity[i] = 0 THEN req[r].row = 0 ELSE req[r].row = NewQuantity(r)
    BY <1>1, <1>2, <1>7 DEF RequestInv
  <2>2. quantity[i] # 0
    BY <1>2, <1>4, <1>5, <2>1
  <2> QED BY <1>2, <1>4, <1>5, <2>1, <2>2 DEF NewQuantity
<1> QED BY <1>6, <1>7

\* Additions to one item add up for any number of concurrent requests: the
\* quantity an addition was computed from is the one its commit replaces.
THEOREM AdditionsAddUp == Spec => AddsUp
<1>1. RowsInv /\ [Next]_vars =>
        [\A r \in CartRequests :
           LET i == req[r].item IN
           req[r].op = "add" /\ req[r].pc = "commit" /\ req'[r] = NoRequest
             /\ quantity' # quantity => quantity'[i] = quantity[i] + req[r].by
        ]_<<req, quantity>>
  <2> SUFFICES ASSUME RowsInv, [Next]_vars, <<req, quantity>>' # <<req, quantity>>,
                      NEW r \in CartRequests, req[r].op = "add", req[r].pc = "commit",
                      req'[r] = NoRequest, quantity' # quantity
               PROVE  quantity'[req[r].item] = quantity[req[r].item] + req[r].by
    OBVIOUS
  <2>1. Next BY DEF vars, itemRows
  <2> QED BY <2>1, StepAddsUp
<1> QED BY RowsCorrect, <1>1, PTL DEF Spec, AddsUp
=============================================================================

------------------------------- MODULE Refunds -------------------------------
(***************************************************************************)
(* What happens to a payment afterwards: failed attempts, refunds and      *)
(* disputes, as Stripe's events report them (internal/payment/webhook.go)  *)
(* and as administrators ask for them (internal/admin/service.go).         *)
(*                                                                         *)
(* Stripe delivers events in any order; each is processed by the first     *)
(* delivery that stores its row, later ones are answered and ignored (see  *)
(* Fulfilment).  A payment's row is written by checkout.session.completed, *)
(* here one step.  UPDATEs of a row wait for the transaction that holds    *)
(* it; a transaction's writes appear with its commit.                      *)
(***************************************************************************)
EXTENDS Amount, FiniteSetsExt

CONSTANTS
  Payments,  \* payment intents, each with one checkout session
  Refs,      \* refunds at Stripe (stripe_refund_id)
  Disputes,  \* disputes at Stripe (stripe_dispute_id)
  Admins,    \* concurrent AdminCreateRefund requests
  None,      \* no payment, no transaction
  Price,     \* payment -> payments.amount, a decimal
  Asks,      \* bound: the amounts administrators ask for, 0 for all of it
  Shown,     \* bound: how Stripe shows a new refund: its status, and Charge.Refunds
  Decimals,  \* decimals on which the conversions are compared
  MaxFaults  \* bound: statements, calls and commits that fail, handlers that die

ASSUME RefundsAssumption ==
  /\ Price \in [Payments -> Decimal]
  /\ \A p \in Payments : DecimalAmountToCents(Price[p]) \in Nat
  /\ Shown \subseteq {"pending", "requires_action", "succeeded"} \X {"one", "empty", "absent"}
  /\ Asks \subseteq Int /\ Decimals \subseteq Decimal /\ MaxFaults \in Nat
  /\ None \notin Payments /\ None \notin Admins \cup Refs

VARIABLES
  paid,    \* Stripe: intents that have been paid,
  refund,  \*   its refund objects,
  listed,  \*   what a refund's charge.refunded shows of Charge.Refunds,
  disputed, \*  the payment a dispute is about,
  event,   \*   and what has become of its events
  payment, \* payments.status
  rec,     \* refunds rows
  dispute, \* disputes rows
  lock,    \* transaction that has updated the payments row
  adm,     \* administrator requests in progress
  early,   \* history: refunds whose event found no payment,
  byAdmin, \*   refunds made by an administrator's request here,
  late,    \*   payments a failed attempt was reported for after their row existed
  faults

stripe  == <<paid, refund, listed, disputed>>
tables  == <<payment, rec, dispute>>
history == <<early, byAdmin, late>>
vars    == <<stripe, event, tables, lock, adm, history, faults>>

PaymentStatus == {"pending", "processing", "succeeded", "failed", "refunded"}
RefundStatus == {"pending", "succeeded", "failed"}
StripeStatus == RefundStatus \cup {"requires_action", "canceled"}

\* Stripe's events, by what they are about.
Events == ({"completed", "failed"} \X Payments) \cup ({"refunded"} \X Refs)
            \cup ({"disputed"} \X Disputes)
Unfinished == {"sent", "update", "commit"}
EventState == Unfinished \cup {"none", "processed", "failed"}

NoRefund == [payment |-> None, cents |-> 0, status |-> "none"]
NoRow == [payment |-> None, amount |-> CentsToDecimal(0), status |-> "none"]
Idle == [pc |-> "idle", payment |-> None, cents |-> 0, ref |-> None]
AdminPC == {"idle", "stripe", "update", "commit"}

Init ==
  /\ paid = {}
  /\ refund = [r \in Refs |-> NoRefund]
  /\ listed = [r \in Refs |-> "one"]
  /\ disputed = [d \in Disputes |-> None]
  /\ event = [e \in Events |-> "none"]
  /\ payment = [p \in Payments |-> "none"]
  /\ rec = [r \in Refs |-> NoRow]
  /\ dispute = [d \in Disputes |-> None]
  /\ lock = [p \in Payments |-> None]
  /\ adm = [a \in Admins |-> Idle]
  /\ early = {} /\ byAdmin = {} /\ late = {}
  /\ faults = 0

Fault == faults < MaxFaults /\ faults' = faults + 1
NoFault == UNCHANGED faults

EventStep(e, from, to) == event[e] = from /\ event' = [event EXCEPT ![e] = to]
Released(t) == lock' = [p \in Payments |-> IF lock[p] = t THEN None ELSE lock[p]]

\* Mutant: Stripe's status as it is.
SameStatus(s) == s

MapRefundStatus(s) ==
  IF s = "succeeded" THEN "succeeded"
  ELSE IF s \in {"failed", "canceled"} THEN "failed" ELSE "pending"

-----------------------------------------------------------------------------
(* Stripe                                                                  *)

AttemptFails(p) ==
  /\ p \notin paid
  /\ EventStep(<<"failed", p>>, "none", "sent")
  /\ UNCHANGED <<stripe, tables, lock, adm, history, faults>>

Pays(p) ==
  /\ p \notin paid /\ paid' = paid \cup {p}
  /\ EventStep(<<"completed", p>>, "none", "sent")
  /\ UNCHANGED <<refund, listed, disputed, tables, lock, adm, history, faults>>

\* The cents of a charge that have been given back or are on their way.
Refunded(p) ==
  MapThenSumSet(LAMBDA r : refund[r].cents, {r \in Refs : refund[r].payment = p})

\* A refund object of c cents: no more than what is left of the charge.  What
\* becomes of a pending one is told by no event that is handled here.
MakesRefund(r, p, c) ==
  /\ refund[r] = NoRefund /\ p \in paid
  /\ 0 < c /\ Refunded(p) + c <= DecimalAmountToCents(Price[p])
  /\ \E s \in Shown :
       /\ refund' = [refund EXCEPT ![r] = [payment |-> p, cents |-> c, status |-> s[1]]]
       /\ listed' = [listed EXCEPT ![r] = s[2]]
  /\ EventStep(<<"refunded", r>>, "none", "sent")

\* A refund made in Stripe's dashboard.
DashboardRefund(r, p) ==
  /\ \E c \in Asks : MakesRefund(r, p, c)
  /\ UNCHANGED <<paid, disputed, tables, lock, adm, history, faults>>

Opens(d) ==
  /\ \E p \in paid : disputed' = [disputed EXCEPT ![d] = p]
  /\ EventStep(<<"disputed", d>>, "none", "sent")
  /\ UNCHANGED <<paid, refund, listed, tables, lock, adm, history, faults>>

-----------------------------------------------------------------------------
(* checkout.session.completed and payment_intent.payment_failed            *)

\* Inserts the payment, or updates the one it finds (Fulfilment).
Completed(p) ==
  /\ EventStep(<<"completed", p>>, "sent", "processed")
  /\ lock[p] = None
  /\ payment' = [payment EXCEPT ![p] = "succeeded"]
  /\ UNCHANGED <<stripe, rec, dispute, lock, adm, history, faults>>

\* handlePaymentIntentFailed: one UPDATE, whatever the status; often of no row.
AttemptFailed(p) ==
  /\ EventStep(<<"failed", p>>, "sent", "processed")
  /\ lock[p] = None
  /\ payment' = [payment EXCEPT ![p] = IF @ = "none" THEN @ ELSE "failed"]
  /\ late' = IF payment[p] = "none" THEN late ELSE late \cup {p}
  /\ UNCHANGED <<stripe, rec, dispute, lock, adm, early, byAdmin, faults>>

-----------------------------------------------------------------------------
(* handleChargeRefunded, a transaction                                     *)

\* Mutant: only a payment that has succeeded is looked for.
SelectSucceeded(r) ==
  LET e == <<"refunded", r>> IN
  /\ event[e] = "sent"
  /\ IF payment[refund[r].payment] # "succeeded"
     THEN EventStep(e, "sent", "processed") /\ early' = early \cup {r}
     ELSE EventStep(e, "sent", "update") /\ UNCHANGED early
  /\ UNCHANGED <<stripe, tables, lock, adm, byAdmin, late, faults>>

\* SELECT of the payment of this intent; without one the event is dropped.
SelectPayment(r) ==
  LET e == <<"refunded", r>> IN
  /\ event[e] = "sent"
  /\ IF payment[refund[r].payment] = "none"
     THEN EventStep(e, "sent", "processed") /\ early' = early \cup {r}
     ELSE EventStep(e, "sent", "update") /\ UNCHANGED early
  /\ UNCHANGED <<stripe, tables, lock, adm, byAdmin, late, faults>>

\* The refund as charge.refunded and refund.New's answer show it: as it was made.
Row(r) == [payment |-> refund[r].payment, amount |-> CentsToDecimal(refund[r].cents),
           status |-> MapRefundStatus(refund[r].status)]

\* Mutant: the refund is written on the pool, before the transaction's UPDATE.
UpsertOutsideTx(r) ==
  LET p == refund[r].payment IN
  /\ EventStep(<<"refunded", r>>, "update", "commit")
  /\ lock[p] = None /\ lock' = [lock EXCEPT ![p] = r]
  /\ rec' = IF listed[r] = "one" THEN [rec EXCEPT ![r] = Row(r)] ELSE rec
  /\ UNCHANGED <<stripe, payment, dispute, adm, history, faults>>

\* UPDATE payments SET status = 'refunded'
UpdatePayment(r) ==
  LET p == refund[r].payment IN
  /\ EventStep(<<"refunded", r>>, "update", "commit")
  /\ lock[p] = None /\ lock' = [lock EXCEPT ![p] = r]
  /\ UNCHANGED <<stripe, tables, adm, history, faults>>

\* Upsert of Refunds.Data[0], if there is one; COMMIT.
CommitRefund(r) ==
  LET p == refund[r].payment IN
  /\ listed[r] # "absent"
  /\ EventStep(<<"refunded", r>>, "commit", "processed")
  /\ payment' = [payment EXCEPT ![p] = "refunded"]
  /\ IF listed[r] = "one" THEN rec' = [rec EXCEPT ![r] = Row(r)]
     ELSE UNCHANGED rec
  /\ Released(r)
  /\ UNCHANGED <<stripe, dispute, adm, history, faults>>

\* Charge.Refunds is nil: the handler panics, the deferred Rollback runs, the
\* event stays unprocessed.
Panics(r) ==
  /\ listed[r] = "absent"
  /\ EventStep(<<"refunded", r>>, "commit", "failed")
  /\ Released(r)
  /\ UNCHANGED <<stripe, tables, adm, history, faults>>

\* A statement fails or the process dies, and the transaction is rolled back.
\* The event is marked processed with its error, or not at all: either way no
\* later delivery does its work.
HandlerFails(e) ==
  /\ event[e] \in Unfinished /\ Fault
  /\ event' = [event EXCEPT ![e] = "failed"]
  /\ IF e[1] = "refunded" THEN Released(e[2]) ELSE UNCHANGED lock
  /\ UNCHANGED <<stripe, tables, adm, history>>

-----------------------------------------------------------------------------
(* handleDisputeCreated: a SELECT, then an upsert on the pool.  Nothing in  *)
(* between can make a difference: payments are never deleted.              *)

OnDispute(d) ==
  /\ event[<<"disputed", d>>] = "sent"
  /\ EventStep(<<"disputed", d>>, "sent", "processed")
  /\ dispute' = IF payment[disputed[d]] = "none" THEN dispute
                ELSE [dispute EXCEPT ![d] = disputed[d]]
  /\ UNCHANGED <<stripe, payment, rec, lock, adm, history, faults>>

-----------------------------------------------------------------------------
(* createRefund: Stripe first, then a transaction                          *)

Admin(a, from, to) == adm[a].pc = from /\ adm' = [adm EXCEPT ![a] = to]

\* Reads the payment, in whatever status, and checks the amount.
ReadPayment(a, p, c) ==
  LET total == DecimalAmountToCents(Price[p])
      cents == IF c = 0 THEN total ELSE c
  IN  /\ adm[a] = Idle /\ payment[p] # "none"
      /\ 0 < cents /\ cents <= total
      /\ adm' = [adm EXCEPT ![a] =
           [pc |-> "stripe", payment |-> p, cents |-> cents, ref |-> None]]
      /\ UNCHANGED <<stripe, event, tables, lock, history, faults>>

\* refund.New
AskStripe(a, r) ==
  /\ adm[a].pc = "stripe"
  /\ MakesRefund(r, adm[a].payment, adm[a].cents)
  /\ Admin(a, "stripe", [adm[a] EXCEPT !.pc = "update", !.ref = r])
  /\ byAdmin' = byAdmin \cup {r}
  /\ UNCHANGED <<paid, disputed, tables, lock, early, late, faults>>

\* Its answer is lost, although the refund has been made.
AnswerLost(a, r) ==
  /\ adm[a].pc = "stripe" /\ Fault
  /\ MakesRefund(r, adm[a].payment, adm[a].cents)
  /\ Admin(a, "stripe", Idle)
  /\ byAdmin' = byAdmin \cup {r}
  /\ UNCHANGED <<paid, disputed, tables, lock, early, late>>

\* Stripe makes no refund: so much is not left, or some other error.
StripeRefuses(a) ==
  /\ Admin(a, "stripe", Idle)
  /\ \/ Refunded(adm[a].payment) + adm[a].cents > DecimalAmountToCents(Price[adm[a].payment])
        /\ NoFault
     \/ Fault
  /\ UNCHANGED <<stripe, event, tables, lock, history>>

AdminUpdate(a) ==
  LET p == adm[a].payment IN
  /\ Admin(a, "update", [adm[a] EXCEPT !.pc = "commit"])
  /\ lock[p] = None /\ lock' = [lock EXCEPT ![p] = a]
  /\ UNCHANGED <<stripe, event, tables, history, faults>>

\* Upsert of the refund; COMMIT.
AdminCommit(a) ==
  LET r == adm[a].ref IN
  /\ Admin(a, "commit", Idle)
  /\ payment' = [payment EXCEPT ![adm[a].payment] = "refunded"]
  /\ rec' = [rec EXCEPT ![r] = Row(r)]
  /\ Released(a)
  /\ UNCHANGED <<stripe, event, dispute, history, faults>>

\* Mutant: no deferred Rollback.
AdminLeaves(a) ==
  /\ adm[a].pc \in {"update", "commit"} /\ Fault
  /\ adm' = [adm EXCEPT ![a] = Idle]
  /\ UNCHANGED <<stripe, event, tables, lock, history>>

\* A statement or the COMMIT fails after the refund has been made.
AdminFails(a) ==
  /\ adm[a].pc \in {"update", "commit"} /\ Fault
  /\ adm' = [adm EXCEPT ![a] = Idle]
  /\ Released(a)
  /\ UNCHANGED <<stripe, event, tables, history>>

-----------------------------------------------------------------------------
Stripe ==
  \/ \E p \in Payments : AttemptFails(p) \/ Pays(p)
  \/ \E r \in Refs, p \in Payments : DashboardRefund(r, p)
  \/ \E d \in Disputes : Opens(d)

OnPayment(p) == Completed(p) \/ AttemptFailed(p)
OnRefund(r) == SelectPayment(r) \/ UpdatePayment(r) \/ CommitRefund(r) \/ Panics(r)
Continue(a) == AdminUpdate(a) \/ AdminCommit(a)

Next ==
  \/ Stripe
  \/ \E p \in Payments : OnPayment(p)
  \/ \E r \in Refs : OnRefund(r)
  \/ \E d \in Disputes : OnDispute(d)
  \/ \E e \in Events : HandlerFails(e)
  \/ \E a \in Admins :
       \/ \E p \in Payments, c \in Asks : ReadPayment(a, p, c)
       \/ \E r \in Refs : AskStripe(a, r) \/ AnswerLost(a, r)
       \/ StripeRefuses(a) \/ Continue(a) \/ AdminFails(a)

Spec == Init /\ [][Next]_vars

\* Stripe delivers until it is answered, the handlers' goroutines run; nobody
\* has to ask for or make a refund.
FairSpec ==
  /\ Spec
  /\ \A p \in Payments : WF_vars(Completed(p)) /\ WF_vars(AttemptFailed(p))
  /\ \A r \in Refs : SF_vars(OnRefund(r))
  /\ \A d \in Disputes : WF_vars(OnDispute(d))
  /\ \A a \in Admins : SF_vars(Continue(a))

-----------------------------------------------------------------------------
(* Properties                                                              *)

\* Every variable keeps its type.
TypeOK ==
  /\ paid \subseteq Payments
  /\ refund \in [Refs -> [payment : Payments \cup {None}, cents : Nat,
                          status : StripeStatus \cup {"none"}]]
  /\ listed \in [Refs -> {"one", "empty", "absent"}]
  /\ disputed \in [Disputes -> Payments \cup {None}]
  /\ event \in [Events -> EventState]
  /\ payment \in [Payments -> PaymentStatus \cup {"none"}]
  /\ rec \in [Refs -> [payment : Payments \cup {None}, amount : Decimal,
                       status : RefundStatus \cup {"none"}]]
  /\ dispute \in [Disputes -> Payments \cup {None}]
  /\ lock \in [Payments -> Admins \cup Refs \cup {None}]
  /\ adm \in [Admins -> [pc : AdminPC, payment : Payments \cup {None}, cents : Nat,
                         ref : Refs \cup {None}]]
  /\ early \subseteq Refs /\ byAdmin \subseteq Refs /\ late \subseteq Payments
  /\ faults \in Nat

(***************************************************************************)
(* What the tables say of refunds and disputes has happened at Stripe: a   *)
(* row's amount, through two conversions, is the refund's in cents, and a  *)
(* payment is 'refunded' only if Stripe has refunded some of it.           *)
(***************************************************************************)
RecordsAreReal ==
  /\ \A r \in Refs : rec[r] # NoRow =>
       /\ refund[r].payment = rec[r].payment
       /\ refund[r].cents = DecimalAmountToCents(rec[r].amount)
  /\ \A p \in Payments : payment[p] = "refunded" =>
       \E r \in Refs : refund[r].payment = p
  /\ \A d \in Disputes : dispute[d] # None => dispute[d] = disputed[d]

\* A refund's row and its payment's status are committed together, by either
\* side: they differ only where a failed attempt was reported late.
RefundedTogether ==
  \A r \in Refs : rec[r] # NoRow =>
    payment[rec[r].payment] = "refunded" \/ rec[r].payment \in late

(***************************************************************************)
(* A charge.refunded that was processed and showed its refund has put it   *)
(* on record, unless it overtook the payment itself; a refund that an      *)
(* administrator asked for here cannot do that.  So the webhook makes up   *)
(* for a createRefund whose transaction or whose answer from Stripe failed.*)
(***************************************************************************)
RefundsAreRecorded ==
  \A r \in Refs : event[<<"refunded", r>>] = "processed" /\ listed[r] = "one" =>
    rec[r] # NoRow \/ r \in early \ byAdmin

\* The conversion of a decimal is the nearest number of cents (amount.go:42).
\* It depends on nothing that happens: the states before a payment are enough.
CentsAreRounded ==
  paid = {} => \A d \in Decimals : DecimalAmountToCents(d) = Rounded(d)

\* Every event about a refund is done with in the end, whoever holds the
\* payment's row.
RefundEventsEnd ==
  \A r \in Refs : event[<<"refunded", r>>] = "sent" ~>
    event[<<"refunded", r>>] \notin Unfinished
=============================================================================

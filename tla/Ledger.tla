------------------------------- MODULE Ledger -------------------------------
(***************************************************************************)
(* What the fulfilment of payments promises, without webhooks, locks or    *)
(* transactions: a paid session is posted in one step, which records the   *)
(* payment, the order's only invoice and a service for each of its items.  *)
(* Only what is posted is acknowledged.                                    *)
(***************************************************************************)
EXTENDS Naturals

CONSTANTS
  Orders,   \* the orders,
  Items,    \* their items
  Sessions, \* and the checkout sessions paid for them
  OrderOf,  \* item -> order
  PaysFor   \* session -> order

VARIABLES
  posted,   \* sessions whose payment is on record
  invoices, \* how many invoices an order has
  served,   \* items that have a service
  byHand,   \* orders an administrator has declared paid
  acked     \* sessions that Stripe has been told are processed

vars == <<posted, invoices, served, byHand, acked>>

Init ==
  /\ posted = {} /\ served = {} /\ byHand = {} /\ acked = {}
  /\ invoices = [o \in Orders |-> 0]

\* The first posting of an order writes its invoice.  An order declared paid
\* by hand is the exception: two sessions of it may be invoiced separately.
Post(s) ==
  LET o == PaysFor[s] IN
  /\ posted' = posted \cup {s}
  /\ \/ /\ invoices[o] = 0 \/ o \in byHand
        /\ invoices' = [invoices EXCEPT ![o] = @ + 1]
     \/ invoices[o] > 0 /\ UNCHANGED invoices
  /\ served' = served \cup {i \in Items : OrderOf[i] = o}
  /\ UNCHANGED <<byHand, acked>>

Acknowledge(s) ==
  /\ s \in posted
  /\ acked' = acked \cup {s}
  /\ UNCHANGED <<posted, invoices, served, byHand>>

DeclarePaid(o) ==
  /\ byHand' = byHand \cup {o}
  /\ UNCHANGED <<posted, invoices, served, acked>>

Next ==
  \/ \E s \in Sessions : Post(s) \/ Acknowledge(s)
  \/ \E o \in Orders : DeclarePaid(o)

Spec == Init /\ [][Next]_vars
=============================================================================

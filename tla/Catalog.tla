------------------------------ MODULE Catalog ------------------------------
(***************************************************************************)
(* The catalog: products, their plans and the templates that products are  *)
(* made from (internal/catalog, internal/template), while customers list   *)
(* them and order plans (internal/order).                                  *)
(*                                                                         *)
(* A request is a list of the steps its statements take in PostgreSQL:     *)
(* what it writes is its own until it commits, rows stay locked and slugs  *)
(* taken until it ends, and who meets the lock or the slug of another      *)
(* waits.  A listing keeps its connection while it asks the pool for one   *)
(* more for each product.                                                  *)
(***************************************************************************)
EXTENDS Integers, Sequences, FiniteSets

CONSTANTS
  Requests,        \* HTTP requests, each made once
  Calls,           \* bound: what each of them may ask for
  StartIds,        \* products and plans at the beginning
  StartRows,       \*   and their rows
  Slugs,           \* slugs of products and plans
  Templates,       \* vps_templates.id
  StartTemplates,  \* the templates at the beginning
  TemplateRows,    \* what administrators make of templates
  MaxPresets,      \* bound: plans of a template
  MaxChanges,      \* bound: changes of templates
  Conns,           \* connections of the pool
  None             \* no value; no row

\* products.id and plans.id: those of the start, and what a request inserts.
ProductIds == {i \in StartIds : StartRows[i].kind = "product"} \cup (Requests \X {0})
PlanIds == {i \in StartIds : StartRows[i].kind = "plan"} \cup (Requests \X (1 .. MaxPresets))
Ids == ProductIds \cup PlanIds
ProductRow == [kind : {"product"}, slug : Slugs, active : BOOLEAN, product : {None}]
PlanRow == [kind : {"plan"}, slug : Slugs, active : BOOLEAN, product : ProductIds]
Row == ProductRow \cup PlanRow
\* Presets in order, by their slugs, and which of them have is_active FALSE.
Template ==
  [slug : Slugs, active : BOOLEAN, hidden : SUBSET (1 .. MaxPresets),
   presets : UNION {[1 .. n -> Slugs] : n \in 0 .. MaxPresets}]
Change(ids) == [id : ids, slug : Slugs \cup {None}, active : BOOLEAN \cup {None}]
Call ==
  [do : {"ApplyTemplate"}, id : Templates, slug : Slugs \cup {None}, active : BOOLEAN \cup {None}]
    \cup [do : {"CreateProduct"}, row : ProductRow]
    \cup [do : {"CreatePlan"}, row : PlanRow]
    \cup [do : {"UpdateProduct"}, new : Change(ProductIds)]
    \cup [do : {"UpdatePlan"}, new : Change(PlanIds)]
    \cup [do : {"DeleteProduct", "ListPlansByProductID"}, id : ProductIds]
    \cup [do : {"DeletePlan"}, id : PlanIds]
    \cup [do : {"CreateOrder"}, plans : Seq(PlanIds)]
    \cup [do : {"ListProducts"}]
    \cup [do : {"GetProductBySlug"}, slug : Slugs]

\* The rows of the start keep the tables' constraints.
ASSUME CatalogAssumption ==
  /\ Calls \in [Requests -> SUBSET Call] /\ None \notin Slugs /\ None \notin BOOLEAN
  /\ IsFiniteSet(Requests) /\ IsFiniteSet(StartIds) /\ None \notin Ids
  /\ StartIds \cap (Requests \X (0 .. MaxPresets)) = {}
  /\ StartRows \in [StartIds -> Row] /\ None \notin Row
  /\ \A i \in StartIds : StartRows[i].kind = "plan" => StartRows[i].product \in StartIds
  /\ \A i, j \in StartIds :
       i # j /\ StartRows[i].kind = StartRows[j].kind => StartRows[i].slug # StartRows[j].slug
  /\ TemplateRows \subseteq Template /\ None \notin Template
  /\ StartTemplates \in [Templates -> Template \cup {None}]
  /\ MaxPresets \in Nat \ {0} /\ MaxChanges \in Nat /\ Conns \in Nat \ {0}

VARIABLES
  rows,       \* products and plans: id -> what is committed, None if no row
  ordered,    \* order_items.plan_id
  templates,  \* vps_templates
  changes,    \* changes of templates so far
  req         \* the requests

vars == <<rows, ordered, templates, changes, req>>

NoCall == [do |-> "none"]
NoLocks == [i \in {} |-> "share"]
NoRows == [i \in {} |-> None]
Idle == [pc |-> "idle", call |-> NoCall, todo |-> <<>>, lock |-> NoLocks, work |-> NoRows,
         presets |-> <<>>, ok |-> FALSE]

Init ==
  /\ rows = [i \in Ids |-> IF i \in StartIds THEN StartRows[i] ELSE None]
  /\ ordered = {}
  /\ templates = StartTemplates
  /\ changes = 0
  /\ req = [r \in Requests |-> Idle]

\* Mutant: a value that is not given overwrites.
Overwrite(new, old) == new

Coalesce(new, old) == IF new = None THEN old ELSE new
Live(i) == rows[i] # None

\* What r sees of a row.
Visible(r, i) == IF i \in DOMAIN req[r].work THEN req[r].work[i] ELSE rows[i]
SameSlug(row, other) == row # None /\ row.kind = other.kind /\ row.slug = other.slug
OnSale(i) == Live(i) /\ rows[i].kind = "product" /\ rows[i].active
\* getTemplate
Found(t) == templates[t] # None
PlansOf(p) == {i \in Ids : Live(i) /\ rows[i].product = p}

-----------------------------------------------------------------------------
(* The statements of a request                                             *)

Insert(id, row) == [op |-> "insert", id |-> id, row |-> row]
Lock(id, mode) == [op |-> "lock", id |-> id, mode |-> mode]
Update(new) == [op |-> "update", new |-> new]
Delete(id) == [op |-> "delete", id |-> id]
Cascade(id) == [op |-> "cascade", id |-> id]
Restricted == [op |-> "restrict"]
Read(id) == [op |-> "read", id |-> id]
Products == [op |-> "products"]
Product(slug) == [op |-> "product", slug |-> slug]
Exists(id) == [op |-> "exists", id |-> id]
Plans == [op |-> "plans"]

createProduct(r, row) == <<Insert(<<r, 0>>, row)>>

\* The row and its slug, then the reference to the product.
createPlan(r, row) == <<Insert(<<r, 1>>, row), Lock(row.product, "share")>>

\* As intended: the UPDATE mixes text with product_category, which the one of
\* updateTemplate casts and PostgreSQL refuses.  A statement may always fail.
updateProduct(new) == <<Lock(new.id, "update"), Update(new)>>
updatePlan(new) == <<Lock(new.id, "update"), Update(new)>>

\* An order item that refers to a plan keeps it, and its product.
deleteProduct(id) == <<Lock(id, "key"), Delete(id), Cascade(id), Restricted>>
deletePlan(id) == <<Lock(id, "key"), Delete(id), Restricted>>

\* Mutant: the last preset is forgotten.
applyAllButOne(r, t, call) ==
  LET plan(i) == [kind |-> "plan", slug |-> t.presets[i], active |-> i \notin t.hidden,
                  product |-> <<r, 0>>]
  IN createProduct(r, [kind |-> "product", slug |-> Coalesce(call.slug, t.slug),
                       active |-> Coalesce(call.active, t.active), product |-> None])
     \o [i \in 1 .. Len(t.presets) - 1 |-> Insert(<<r, i>>, plan(i))]

\* The product, with the slug and the visibility of the template where the
\* request gives none, then a plan for each preset.
applyTemplate(r, t, call) ==
  LET plan(i) == [kind |-> "plan", slug |-> t.presets[i], active |-> i \notin t.hidden,
                  product |-> <<r, 0>>]
  IN createProduct(r, [kind |-> "product", slug |-> Coalesce(call.slug, t.slug),
                       active |-> Coalesce(call.active, t.active), product |-> None])
     \o [i \in 1 .. Len(t.presets) |-> Insert(<<r, i>>, plan(i))]

\* Every plan is read, then an item for each is inserted.
CreateOrder(plans) ==
  [n \in 1 .. Len(plans) |-> Read(plans[n])]
    \o [n \in 1 .. Len(plans) |-> Lock(plans[n], "share")]

Statements(r, call) ==
  CASE call.do = "CreateProduct" -> createProduct(r, call.row)
    [] call.do = "CreatePlan" -> createPlan(r, call.row)
    [] call.do = "UpdateProduct" -> updateProduct(call.new)
    [] call.do = "UpdatePlan" -> updatePlan(call.new)
    [] call.do = "DeleteProduct" -> deleteProduct(call.id)
    [] call.do = "DeletePlan" -> deletePlan(call.id)
    [] call.do = "CreateOrder" -> CreateOrder(call.plans)
    [] call.do = "ListProducts" -> <<Products>>
    [] call.do = "GetProductBySlug" -> <<Product(call.slug), Plans>>
    [] call.do = "ListPlansByProductID" -> <<Exists(call.id), Plans>>

-----------------------------------------------------------------------------
(* The pool and the locks                                                  *)

\* A transaction or a statement that waits keeps its connection, and so does
\* a listing whose rows are open; the other reads give theirs back at once.
Holding == {r \in Requests : req[r].pc = "run" /\ req[r].call.do \notin {"GetProductBySlug", "ListPlansByProductID"}}
Available == Cardinality(Holding) < Conns

\* The lock that the next statement of r takes: an UPDATE that changes the slug
\* needs the one that a DELETE does.
Mode(r) ==
  LET s == Head(req[r].todo) IN
  IF s.mode # "update" THEN s.mode
  ELSE IF Live(s.id) /\ req[r].call.new.slug \notin {None, rows[s.id].slug} THEN "key" ELSE "nokey"

Conflict(mode, other) ==
  \/ mode = "key" \/ other = "key"
  \/ mode = "nokey" /\ other = "nokey"

\* o keeps the next statement of r from going on.
Blocks(o, r) ==
  LET s == Head(req[r].todo)
      takes(row) == \E i \in DOMAIN req[o].work :
                      SameSlug(req[o].work[i], row) \/ SameSlug(rows[i], row)
  IN /\ o # r /\ req[r].pc = "run" /\ req[r].todo # <<>>
     /\ \/ s.op = "lock" /\ s.id \in DOMAIN req[o].lock /\ Conflict(Mode(r), req[o].lock[s.id])
        \/ s.op = "insert" /\ takes(s.row)
        \/ /\ s.op = "update" /\ s.new.slug # None
           /\ takes([rows[s.new.id] EXCEPT !.slug = s.new.slug])

Ready(r) == \A o \in Requests : ~Blocks(o, r)

\* r has come to a statement of this kind, and nobody keeps it from going on.
At(r, op) ==
  /\ req[r].pc = "run" /\ req[r].todo # <<>> /\ Head(req[r].todo).op = op
  /\ Ready(r)

\* Mutant: no deferred Rollback.
EndKeepingLocks(r) ==
  req' = [req EXCEPT ![r].pc = "end", ![r].todo = <<>>]

\* The deferred Rollback, or the end of a request that has written nothing.
End(r) ==
  req' = [req EXCEPT ![r].pc = "end", ![r].todo = <<>>, ![r].lock = NoLocks, ![r].work = NoRows]

Tables == <<rows, ordered, templates, changes>>

-----------------------------------------------------------------------------
(* Requests                                                                *)

\* applyTemplate reads the template before its transaction: NotFound.
StartApply(r, call) ==
  /\ req[r] = Idle /\ call.do = "ApplyTemplate"
  /\ req' = IF ~Found(call.id)
            THEN [req EXCEPT ![r].pc = "end", ![r].call = call]
            ELSE [req EXCEPT ![r].pc = "wait", ![r].call = call,
                             ![r].presets = templates[call.id].presets,
                             ![r].todo = applyTemplate(r, templates[call.id], call)]
  /\ UNCHANGED Tables

StartOther(r, call) ==
  /\ req[r] = Idle /\ call.do # "ApplyTemplate"
  /\ req' = [req EXCEPT ![r].pc = "wait", ![r].call = call, ![r].todo = Statements(r, call)]
  /\ UNCHANGED Tables

\* A connection of the pool.
Acquire(r) ==
  /\ req[r].pc = "wait" /\ Available
  /\ req' = [req EXCEPT ![r].pc = "run"]
  /\ UNCHANGED Tables

\* A row lock.  A reference to a row that is gone fails; an UPDATE or DELETE of
\* one answers NotFound, and a plan that is gone is none to cascade to.
TakeLock(r) ==
  LET s == Head(req[r].todo) IN
  /\ At(r, "lock")
  /\ IF Visible(r, s.id) # None
     THEN req' = [req EXCEPT ![r].todo = Tail(@),
                             ![r].lock = [i \in DOMAIN @ \cup {s.id} |->
                                            IF i = s.id THEN Mode(r) ELSE @[i]]]
     ELSE IF s.mode = "key" /\ req[r].work # NoRows
     THEN req' = [req EXCEPT ![r].todo = SubSeq(@, 3, Len(@))]
     ELSE End(r)
  /\ UNCHANGED Tables

Write(r, id, row) ==
  req' = [req EXCEPT ![r].todo = Tail(@),
                     ![r].work = [i \in DOMAIN @ \cup {id} |-> IF i = id THEN row ELSE @[i]]]

\* The unique slug.
WriteUnique(r, id, row) ==
  IF \E i \in Ids \ {id} : SameSlug(Visible(r, i), row) THEN End(r) ELSE Write(r, id, row)

InsertRow(r) ==
  LET s == Head(req[r].todo) IN
  /\ At(r, "insert")
  /\ WriteUnique(r, s.id, s.row)
  /\ UNCHANGED Tables

\* COALESCE(NULLIF($3, ''), slug), COALESCE($13, is_active)
UpdateRow(r) ==
  LET new == Head(req[r].todo).new IN
  /\ At(r, "update")
  /\ WriteUnique(r, new.id, [rows[new.id] EXCEPT !.slug = Coalesce(new.slug, @),
                                                 !.active = Coalesce(new.active, @)])
  /\ UNCHANGED Tables

DeleteRow(r) ==
  /\ At(r, "delete")
  /\ Write(r, Head(req[r].todo).id, None)
  /\ UNCHANGED Tables

\* Mutant: products without ON DELETE CASCADE and without REFERENCES.
CascadeNothing(r) ==
  /\ At(r, "cascade")
  /\ req' = [req EXCEPT ![r].todo = Tail(@)]
  /\ UNCHANGED Tables

\* ON DELETE CASCADE: the plans of the product, in some order.
CascadeRow(r) ==
  LET left == PlansOf(Head(req[r].todo).id) \ DOMAIN req[r].work IN
  /\ At(r, "cascade")
  /\ \/ \E i \in left : req' = [req EXCEPT ![r].todo = <<Lock(i, "key"), Delete(i)>> \o @]
     \/ left = {} /\ req' = [req EXCEPT ![r].todo = Tail(@)]
  /\ UNCHANGED Tables

\* ON DELETE RESTRICT of order_items.plan_id.
RestrictRows(r) ==
  /\ At(r, "restrict")
  /\ IF ordered \cap DOMAIN req[r].work # {} THEN End(r)
     ELSE req' = [req EXCEPT ![r].todo = Tail(@)]
  /\ UNCHANGED Tables

\* CreateOrder reads a plan: not found, not active.
ReadPlan(r) ==
  LET i == Head(req[r].todo).id IN
  /\ At(r, "read")
  /\ IF Live(i) /\ rows[i].active THEN req' = [req EXCEPT ![r].todo = Tail(@)] ELSE End(r)
  /\ UNCHANGED Tables

\* The outer query of listActiveProducts; its rows stay open.
ListProducts(r) ==
  /\ At(r, "products")
  /\ req' = [req EXCEPT ![r].todo = [n \in 1 .. Cardinality({i \in Ids : OnSale(i)}) |-> Plans]]
  /\ UNCHANGED Tables

\* getActiveProductBySlug, listActivePlansByProductID: ErrProductNotFound.
FindProduct(r) ==
  LET s == Head(req[r].todo) IN
     /\ req[r].pc = "run" /\ req[r].todo # <<>> /\ s.op \in {"product", "exists"} /\ Available
     /\ IF \/ s.op = "product" /\ \E i \in Ids : OnSale(i) /\ rows[i].slug = s.slug
           \/ s.op = "exists" /\ OnSale(s.id)
        THEN req' = [req EXCEPT ![r].todo = Tail(@)] ELSE End(r)
     /\ UNCHANGED Tables

\* queryActivePlansByProductID, on a connection of its own.
ListPlans(r) ==
  /\ At(r, "plans") /\ Available
  /\ req' = [req EXCEPT ![r].todo = Tail(@)]
  /\ UNCHANGED Tables

\* Commit, and the end of a statement outside a transaction.
Commit(r) ==
  LET call == req[r].call IN
  /\ req[r].pc = "run" /\ req[r].todo = <<>>
  /\ rows' = [i \in Ids |-> Visible(r, i)]
  /\ ordered' = IF call.do = "CreateOrder"
                THEN ordered \cup {call.plans[n] : n \in DOMAIN call.plans} ELSE ordered
  /\ req' = [req EXCEPT ![r].pc = "end", ![r].lock = NoLocks, ![r].work = NoRows, ![r].ok = TRUE]
  /\ UNCHANGED <<templates, changes>>

\* The connection is lost, or the client has gone away.
Cancel(r) ==
  /\ req[r].pc \in {"wait", "run"}
  /\ End(r)
  /\ UNCHANGED Tables

\* PostgreSQL fails a statement of one of those who wait for each other.
Deadlocked(r) ==
  /\ ~Ready(r)
  /\ \E S \in SUBSET Requests :
       r \in S /\ \A o \in S : \E p, q \in S : Blocks(p, o) /\ Blocks(o, q)
  /\ End(r)
  /\ UNCHANGED Tables

-----------------------------------------------------------------------------
(* Templates: one statement each                                           *)

Changed == changes < MaxChanges /\ changes' = changes + 1 /\ UNCHANGED <<rows, ordered, req>>
SlugFree(t, slug) == \A u \in Templates \ {t} : Found(u) => templates[u].slug # slug

createTemplate(t, new) ==
  ~Found(t) /\ SlugFree(t, new.slug) /\ templates' = [templates EXCEPT ![t] = new]
updateTemplate(t, new) ==
  Found(t) /\ SlugFree(t, new.slug) /\ templates' = [templates EXCEPT ![t] = new]
deleteTemplate(t) == Found(t) /\ templates' = [templates EXCEPT ![t] = None]

\* A slug that is taken is a 500, a template that is not there a 404.
CreateTemplate(t, new) == createTemplate(t, new) /\ Changed
UpdateTemplate(t, new) == updateTemplate(t, new) /\ Changed
DeleteTemplate(t) == deleteTemplate(t) /\ Changed

-----------------------------------------------------------------------------
Continue(r) ==
  \/ Acquire(r) \/ TakeLock(r) \/ InsertRow(r) \/ UpdateRow(r) \/ DeleteRow(r)
  \/ CascadeRow(r) \/ RestrictRows(r) \/ ReadPlan(r)
  \/ ListProducts(r) \/ FindProduct(r) \/ ListPlans(r)
  \/ Commit(r) \/ Deadlocked(r)

Next ==
  \/ \E r \in Requests :
       \/ \E call \in Calls[r] : StartApply(r, call) \/ StartOther(r, call)
       \/ Continue(r) \/ Cancel(r)
  \/ \E t \in Templates :
       \/ \E new \in TemplateRows : CreateTemplate(t, new) \/ UpdateTemplate(t, new)
       \/ DeleteTemplate(t)

Spec == Init /\ [][Next]_vars

\* A request that can go on does.
FairSpec == Spec /\ \A r \in Requests : WF_vars(Continue(r))

-----------------------------------------------------------------------------
(* Properties                                                              *)

\* Every variable keeps its type.
TypeOK ==
  /\ rows \in [Ids -> Row \cup {None}]
  /\ ordered \subseteq Ids
  /\ templates \in [Templates -> Template \cup {None}]
  /\ changes \in 0 .. MaxChanges
  /\ \A r \in Requests :
       /\ req[r].pc \in {"idle", "wait", "run", "end"} /\ req[r].ok \in BOOLEAN
       /\ req[r].call \in Calls[r] \cup {NoCall}
       /\ DOMAIN req[r].lock \subseteq Ids /\ DOMAIN req[r].work \subseteq Ids
       /\ \A i \in DOMAIN req[r].lock : req[r].lock[i] \in {"share", "nokey", "key"}
       /\ \A i \in DOMAIN req[r].work : req[r].work[i] \in Row \cup {None}

(***************************************************************************)
(* What is referred to is there, the plan of an order item and the product *)
(* of a plan (000005_orders.sql:19, 000004_plans.sql:4), and a slug names  *)
(* one product and one plan, whatever orders, new plans, changed slugs and *)
(* deletions of products and plans meet.                                   *)
(***************************************************************************)
RowsConsistent ==
  /\ \A i \in ordered : Live(i)
  /\ \A i \in Ids : Live(i) /\ rows[i].kind = "plan" => Live(rows[i].product)
  /\ \A i, j \in Ids : i # j /\ Live(i) /\ Live(j) => ~SameSlug(rows[i], rows[j])

(***************************************************************************)
(* A product that was made from a template and is there has a plan for     *)
(* every preset the template had, save those that were deleted one by one. *)
(***************************************************************************)
AppliedWhole ==
  \A r \in Requests :
    req[r].call.do = "ApplyTemplate" /\ Live(<<r, 0>>) =>
      \A i \in 1 .. Len(req[r].presets) :
        \/ Live(<<r, i>>)
        \/ \E o \in Requests : req[o].ok /\ req[o].call = [do |-> "DeletePlan", id |-> <<r, i>>]

(***************************************************************************)
(* Every request ends: two templates with the same presets in opposite     *)
(* orders, an order and a deletion that lock the same plans, listings that *)
(* wait for a second connection.  The last holds only because the pool has *)
(* a connection more than there are listings.                              *)
(***************************************************************************)
RequestsEnd == \A r \in Requests : req[r].pc # "idle" ~> req[r].pc = "end"
=============================================================================

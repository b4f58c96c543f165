--------------------------- MODULE Catalog_proofs ---------------------------
(***************************************************************************)
(* What the catalog's tables promise for any requests, rows and templates: *)
(* whatever transactions wait for, fail and commit, references lead to     *)
(* rows, slugs are unique, and a template is applied as a whole.           *)
(*                                                                         *)
(* The invariant says of each request in progress which of its statements  *)
(* are left, and what the others have locked and written.                  *)
(***************************************************************************)
EXTENDS Catalog, SequenceTheorems, FiniteSetTheorems, TLAPS

-----------------------------------------------------------------------------
(* Types                                                                   *)

Mods == {"share", "nokey", "key"}
Locks == UNION {[D -> Mods] : D \in SUBSET Ids}
Works == UNION {[D -> Row \cup {None}] : D \in SUBSET Ids}
Stmt ==
  [op : {"insert"}, id : Ids, row : Row]
    \cup [op : {"lock"}, id : Ids, mode : {"share", "update", "key"}]
    \cup [op : {"update"}, new : Change(ProductIds) \cup Change(PlanIds)]
    \cup [op : {"delete", "cascade", "read", "exists"}, id : Ids]
    \cup [op : {"restrict", "products", "plans"}]
    \cup [op : {"product"}, slug : Slugs]
Presets == UNION {[1 .. n -> Slugs] : n \in 0 .. MaxPresets}
Rec == [pc : {"idle", "wait", "run", "end"}, call : Call \cup {NoCall}, todo : Seq(Stmt),
        lock : Locks, work : Works, presets : Presets, ok : BOOLEAN]

TypeInv ==
  /\ rows \in [Ids -> Row \cup {None}] /\ ordered \subseteq Ids
  /\ templates \in [Templates -> Template \cup {None}] /\ changes \in 0 .. MaxChanges
  /\ req \in [Requests -> Rec] /\ \A r \in Requests : req[r].call \in Calls[r] \cup {NoCall}

LEMMA TypeInvImplies == TypeInv => TypeOK
<1> SUFFICES ASSUME TypeInv PROVE TypeOK
  OBVIOUS
<1>1. ASSUME NEW r \in Requests
      PROVE  /\ req[r].pc \in {"idle", "wait", "run", "end"} /\ req[r].ok \in BOOLEAN
             /\ req[r].lock \in Locks /\ req[r].work \in Works
  BY DEF TypeInv, Rec
<1>2. ASSUME NEW r \in Requests
      PROVE  DOMAIN req[r].lock \subseteq Ids /\ \A i \in DOMAIN req[r].lock : req[r].lock[i] \in Mods
  BY <1>1 DEF Locks
<1>3. ASSUME NEW r \in Requests
      PROVE  /\ DOMAIN req[r].work \subseteq Ids
             /\ \A i \in DOMAIN req[r].work : req[r].work[i] \in Row \cup {None}
  BY <1>1 DEF Works
<1> QED BY <1>1, <1>2, <1>3 DEF TypeInv, TypeOK, Mods

\* Rows of products and of plans.
LEMMA RowFields ==
  /\ \A row \in ProductRow : row.kind = "product" /\ row.slug \in Slugs /\ row.product = None
  /\ \A row \in PlanRow : row.kind = "plan" /\ row.slug \in Slugs /\ row.product \in ProductIds
  /\ \A row \in Row : row \in ProductRow \/ row \in PlanRow
BY DEF ProductRow, PlanRow, Row

LEMMA IdsApart ==
  /\ ProductIds \cap PlanIds = {} /\ Ids = ProductIds \cup PlanIds
  /\ \A r \in Requests : <<r, 0>> \in ProductIds /\ <<r, 0>> \notin StartIds
  /\ \A r \in Requests : \A k \in 1 .. MaxPresets : <<r, k>> \in PlanIds /\ <<r, k>> \notin StartIds
  /\ \A r \in Requests : <<r, 1>> \in PlanIds
  /\ None \notin Ids
<1>1. MaxPresets \in Nat \ {0} /\ StartIds \cap (Requests \X (0 .. MaxPresets)) = {}
  BY CatalogAssumption
<1>2. ASSUME NEW r \in Requests, NEW k \in 0 .. MaxPresets
      PROVE  <<r, k>> \in Requests \X (0 .. MaxPresets) /\ <<r, k>> \notin StartIds
  BY <1>1
<1>3. 0 \in 0 .. MaxPresets /\ 1 \in 1 .. MaxPresets /\ \A k \in 1 .. MaxPresets : k \in 0 .. MaxPresets
  BY <1>1
<1>4. ProductIds \cap PlanIds = {}
  <2> SUFFICES ASSUME NEW i \in ProductIds, i \in PlanIds PROVE FALSE
    OBVIOUS
  <2>1. CASE i \in StartIds
    <3>1. i \notin Requests \X (0 .. MaxPresets)
      BY <1>1, <2>1
    <3>2. i \notin Requests \X {0} /\ i \notin Requests \X (1 .. MaxPresets)
      BY <1>1, <3>1
    <3> QED BY <2>1, <3>2 DEF ProductIds, PlanIds
  <2>2. CASE i \notin StartIds
    <3>1. i \in Requests \X {0} /\ i \in Requests \X (1 .. MaxPresets)
      BY <2>2 DEF ProductIds, PlanIds
    <3>2. i[2] = 0 /\ i[2] \in 1 .. MaxPresets
      BY <3>1
    <3> QED BY <1>1, <3>2
  <2> QED BY <2>1, <2>2
<1> QED BY <1>2, <1>3, <1>4, CatalogAssumption DEF ProductIds, PlanIds, Ids

LEMMA PresetsFacts == <<>> \in Presets /\ \A s \in Presets : s \in Seq(Slugs) /\ Len(s) \in 0 .. MaxPresets
<1>1. MaxPresets \in Nat /\ 0 \in 0 .. MaxPresets
  BY CatalogAssumption
<1>2. <<>> \in [1 .. 0 -> Slugs]
  OBVIOUS
<1>3. <<>> \in Presets
  BY <1>1, <1>2 DEF Presets
<1>4. ASSUME NEW s \in Presets PROVE s \in Seq(Slugs) /\ Len(s) \in 0 .. MaxPresets
  <2>1. PICK n \in 0 .. MaxPresets : s \in [1 .. n -> Slugs]
    BY DEF Presets
  <2> QED BY <1>1, <2>1
<1> QED BY <1>3, <1>4

\* What a call asks for.
LEMMA CallFields ==
  ASSUME NEW c \in Call
  PROVE  /\ c.do = "ApplyTemplate" =>
              /\ c.id \in Templates /\ c.slug \in Slugs \cup {None} /\ c.active \in BOOLEAN \cup {None}
         /\ c.do = "CreateProduct" => c.row \in ProductRow
         /\ c.do = "CreatePlan" => c.row \in PlanRow
         /\ c.do = "UpdateProduct" => c.new \in Change(ProductIds)
         /\ c.do = "UpdatePlan" => c.new \in Change(PlanIds)
         /\ c.do \in {"DeleteProduct", "ListPlansByProductID"} => c.id \in ProductIds
         /\ c.do = "DeletePlan" => c.id \in PlanIds /\ c = [do |-> "DeletePlan", id |-> c.id]
         /\ c.do = "CreateOrder" => c.plans \in Seq(PlanIds)
         /\ c.do = "GetProductBySlug" => c.slug \in Slugs
         /\ c.do \in {"ApplyTemplate", "CreateProduct", "CreatePlan", "UpdateProduct", "UpdatePlan",
                      "DeleteProduct", "DeletePlan", "CreateOrder", "ListProducts",
                      "GetProductBySlug", "ListPlansByProductID"}
BY DEF Call

LEMMA ChangeFields ==
  ASSUME NEW S, NEW c \in Change(S)
  PROVE  c.id \in S /\ c.slug \in Slugs \cup {None} /\ c.active \in BOOLEAN \cup {None}
BY DEF Change

\* Short lists of statements.
LEMMA Heads ==
  ASSUME NEW x, NEW y, NEW z, NEW u
  PROVE  /\ <<x>> # <<>> /\ Head(<<x>>) = x /\ Tail(<<x>>) = <<>>
         /\ <<x, y>> # <<>> /\ Head(<<x, y>>) = x /\ Tail(<<x, y>>) = <<y>>
         /\ <<x, y, z>> # <<>> /\ Head(<<x, y, z>>) = x /\ Tail(<<x, y, z>>) = <<y, z>>
         /\ <<x, y, z, u>> # <<>> /\ Head(<<x, y, z, u>>) = x /\ Tail(<<x, y, z, u>>) = <<y, z, u>>
OBVIOUS

LEMMA Third ==
  ASSUME NEW x, NEW y, NEW z, NEW u
  PROVE  SubSeq(<<x, y, z, u>>, 3, Len(<<x, y, z, u>>)) = <<z, u>>
<1> DEFINE S == {x, y, z, u}
           b == <<z, u>>
           c == <<x, y, z, u>>
<1>1. b \in Seq(S) /\ c \in Seq(S) /\ Len(b) = 2 /\ Len(c) = 4
  OBVIOUS
<1>2. b[1] = z /\ b[2] = u /\ c[1] = x /\ c[2] = y /\ c[3] = z /\ c[4] = u
  OBVIOUS
<1> HIDE DEF b, c, S
<1>3. \A i \in 3 .. 4 : c[i] \in S
  <2>1. \A i \in 3 .. 4 : i \in 1 .. Len(c)
    BY <1>1
  <2> QED BY <1>1, <2>1, ElementOfSeq
<1>4. /\ SubSeq(c, 3, 4) \in Seq(S) /\ Len(SubSeq(c, 3, 4)) = 2
      /\ \A i \in 1 .. 2 : SubSeq(c, 3, 4)[i] = c[3 + i - 1]
  BY <1>3, SubSeqProperties
<1>5. \A i \in 1 .. 2 : SubSeq(c, 3, 4)[i] = b[i]
  BY <1>2, <1>4
<1>6. SubSeq(c, 3, Len(c)) = b
  BY <1>1, <1>4, <1>5, SeqEqual
<1> QED BY <1>6 DEF b, c

LEMMA Joined ==
  ASSUME NEW x, NEW y, NEW z, NEW u
  PROVE  <<x, y>> \o <<z, u>> = <<x, y, z, u>>
<1> DEFINE S == {x, y, z, u}
           a == <<x, y>>
           b == <<z, u>>
           c == <<x, y, z, u>>
<1>1. a \in Seq(S) /\ b \in Seq(S) /\ c \in Seq(S) /\ Len(a) = 2 /\ Len(b) = 2 /\ Len(c) = 4
  OBVIOUS
<1>2. a[1] = x /\ a[2] = y /\ b[1] = z /\ b[2] = u /\ c[1] = x /\ c[2] = y /\ c[3] = z /\ c[4] = u
  OBVIOUS
<1> HIDE DEF a, b, c, S
<1>3. a \o b = c
  <2>1. /\ a \o b \in Seq(S) /\ Len(a \o b) = Len(a) + Len(b)
        /\ \A i \in 1 .. Len(a) + Len(b) :
             (a \o b)[i] = IF i <= Len(a) THEN a[i] ELSE b[i - Len(a)]
    BY <1>1, ConcatProperties, Zenon
  <2> DEFINE d == a \o b
  <2>2. d \in Seq(S) /\ Len(d) = 4
    BY <1>1, <2>1
  <2>3. d[1] = x /\ d[2] = y /\ d[3] = z /\ d[4] = u
    <3> HIDE DEF d
    <3>1. \A i \in 1 .. 4 : d[i] = IF i <= 2 THEN a[i] ELSE b[i - 2]
      BY <1>1, <2>1 DEF d
    <3>2. d[1] = a[1] /\ d[2] = a[2]
      BY <3>1
    <3>3. d[3] = b[1] /\ d[4] = b[2]
      <4>1. 3 - 2 = 1 /\ 4 - 2 = 2
        OBVIOUS
      <4>2. d[3] = b[3 - 2] /\ d[4] = b[4 - 2]
        BY <3>1
      <4> QED BY <4>1, <4>2
    <3> QED BY <1>2, <3>2, <3>3
  <2> HIDE DEF d
  <2>4. \A i \in 1 .. 4 : d[i] = c[i]
    <3>1. \A i \in 1 .. 4 : i = 1 \/ i = 2 \/ i = 3 \/ i = 4
      OBVIOUS
    <3> QED BY <1>2, <2>3, <3>1
  <2>5. d = c
    BY <1>1, <2>2, <2>4, SeqEqual
  <2> QED BY <2>5 DEF d
<1> QED BY <1>3 DEF a, b, c

-----------------------------------------------------------------------------
(* What is left of a request, and what it has done                         *)
(*                                                                         *)
(* q is the record of request r, tbl the committed rows, ord what orders    *)
(* refer to, done the requests that have ended.                            *)

Own(r) == {r} \X (0 .. MaxPresets)
Held(q) == {i \in DOMAIN q.lock : q.lock[i] # "share"}
Kept(q) == {i \in DOMAIN q.lock : q.lock[i] = "key"}

OwnRow(r, i, row) ==
  /\ i \in Own(r)
  /\ \/ i = <<r, 0>> /\ row \in ProductRow
     \/ i # <<r, 0>> /\ row \in PlanRow /\ row.product = <<r, 0>>

\* ApplyTemplate, CreateProduct: what is not written is still to be inserted.
Adds(r, q) ==
  /\ q.lock = NoLocks
  /\ \A n \in 1 .. Len(q.todo) : q.todo[n].op = "insert" /\ OwnRow(r, q.todo[n].id, q.todo[n].row)
  /\ \A i \in DOMAIN q.work : OwnRow(r, i, q.work[i])
  /\ \A k \in 0 .. Len(q.presets) :
       <<r, k>> \in DOMAIN q.work \/ \E n \in 1 .. Len(q.todo) : q.todo[n].id = <<r, k>>

AddsPlan(r, q) ==
  LET ref == Lock(q.call.row.product, "share") IN
  \/ q.todo = <<Insert(<<r, 1>>, q.call.row), ref>> /\ q.lock = NoLocks /\ q.work = NoRows
  \/ /\ DOMAIN q.work = {<<r, 1>>} /\ q.work[<<r, 1>>] = q.call.row
     /\ \/ q.todo = <<ref>> /\ q.lock = NoLocks
        \/ q.todo = <<>> /\ q.call.row.product \in DOMAIN q.lock

\* UpdateProduct, UpdatePlan: the row stays of its kind and its product.
Changes(q, tbl) ==
  LET new == q.call.new IN
  \/ q.todo = <<Lock(new.id, "update"), Update(new)>> /\ q.lock = NoLocks /\ q.work = NoRows
  \/ /\ DOMAIN q.lock = {new.id} /\ q.lock[new.id] # "share"
     /\ \/ q.todo = <<Update(new)>> /\ q.work = NoRows
        \/ /\ q.todo = <<>> /\ DOMAIN q.work = {new.id} /\ q.work[new.id] \in Row
           /\ q.work[new.id].kind = tbl[new.id].kind
           /\ q.work[new.id].product = tbl[new.id].product

DeletesPlan(q) ==
  LET id == q.call.id IN
  \/ q.todo = <<Lock(id, "key"), Delete(id), Restricted>> /\ q.work = NoRows
  \/ q.todo = <<Delete(id), Restricted>> /\ q.work = NoRows /\ id \in DOMAIN q.lock
  \/ q.todo \in {<<Restricted>>, <<>>} /\ DOMAIN q.work = {id}

\* A plan that the deletion of its product has met.
Met(q, i, tbl, done) ==
  /\ i \in PlanIds \ DOMAIN q.work
  /\ tbl[i] # None => tbl[i].product = q.call.id
  /\ \A o \in Requests : i \in Own(o) => o \in done

DeletesProduct(q, tbl, done) ==
  LET id == q.call.id IN
  \/ q.todo = <<Lock(id, "key"), Delete(id), Cascade(id), Restricted>> /\ q.work = NoRows
  \/ /\ q.todo = <<Delete(id), Cascade(id), Restricted>> /\ q.work = NoRows
     /\ id \in DOMAIN q.lock
  \/ /\ id \in DOMAIN q.work
     /\ \/ q.todo = <<Cascade(id), Restricted>>
        \/ \E i \in PlanIds :
             /\ Met(q, i, tbl, done)
             /\ \/ q.todo = <<Lock(i, "key"), Delete(i), Cascade(id), Restricted>>
                \/ q.todo = <<Delete(i), Cascade(id), Restricted>> /\ i \in DOMAIN q.lock
        \/ /\ q.todo \in {<<Restricted>>, <<>>}
           /\ \A i \in PlanIds : tbl[i] # None /\ tbl[i].product = id => i \in DOMAIN q.work

\* DeleteProduct, DeletePlan: what is deleted is locked, and belongs to what the
\* request deletes; at the end nothing refers to it.
Deletes(q, tbl, ord, done) ==
  /\ \A i \in DOMAIN q.lock : q.lock[i] = "key"
  /\ \A i \in DOMAIN q.work :
       /\ q.work[i] = None /\ i \in DOMAIN q.lock
       /\ i = q.call.id \/ (i \in PlanIds /\ tbl[i].product = q.call.id)
  /\ q.todo = <<>> => ord \cap DOMAIN q.work = {}
  /\ q.call.do = "DeletePlan" => DeletesPlan(q)
  /\ q.call.do = "DeleteProduct" => DeletesProduct(q, tbl, done)

Orders(q) ==
  /\ q.work = NoRows
  /\ \A n \in 1 .. Len(q.todo) : \E i \in PlanIds : q.todo[n] \in {Read(i), Lock(i, "share")}
  /\ \A n \in 1 .. Len(q.call.plans) :
       \/ q.call.plans[n] \in DOMAIN q.lock
       \/ \E m \in 1 .. Len(q.todo) : q.todo[m] = Lock(q.call.plans[n], "share")

\* The listings.
Looks(q) ==
  /\ q.work = NoRows /\ q.lock = NoLocks
  /\ \A n \in 1 .. Len(q.todo) : q.todo[n].op \in {"products", "product", "exists", "plans"}

Does(r, q, tbl, ord, done) ==
  /\ q.call \in Call
  /\ q.call.do \in {"ApplyTemplate", "CreateProduct"} => Adds(r, q)
  /\ q.call.do = "CreatePlan" => AddsPlan(r, q)
  /\ q.call.do \in {"UpdateProduct", "UpdatePlan"} => Changes(q, tbl)
  /\ q.call.do \in {"DeleteProduct", "DeletePlan"} => Deletes(q, tbl, ord, done)
  /\ q.call.do = "CreateOrder" => Orders(q)
  /\ q.call.do \in {"ListProducts", "GetProductBySlug", "ListPlansByProductID"} => Looks(q)

Local(r, q, tbl, ord, done) ==
  /\ q.pc \notin {"wait", "run"} => q.todo = <<>> /\ q.lock = NoLocks /\ q.work = NoRows
  /\ q.pc = "idle" => q = Idle
  /\ q.pc # "end" => ~q.ok
  /\ q.call.do # "ApplyTemplate" => q.presets = <<>>
  /\ q.pc \in {"wait", "run"} => Does(r, q, tbl, ord, done)

\* Commits of others leave a request what it counts on: rows it holds stay as
\* they are, rows keep their product, new plans are of products and new orders of
\* plans that it does not keep from being referred to.
LEMMA LocalUnder ==
  ASSUME NEW r, NEW q, NEW tbl, NEW tbl2, NEW ord, NEW ord2, NEW done, NEW done2,
         Local(r, q, tbl, ord, done), done \subseteq done2,
         \A i \in Held(q) : tbl2[i] = tbl[i], \A i \in Kept(q) : i \notin ord2 \ ord,
         \A i \in PlanIds : tbl2[i] # None =>
           \/ tbl[i] # None /\ tbl2[i].product = tbl[i].product
           \/ /\ tbl[i] = None /\ tbl2[i].product \notin Kept(q)
              /\ \E o \in Requests : i \in Own(o) /\ o \notin done
  PROVE  Local(r, q, tbl2, ord2, done2)
<1>1. ASSUME Changes(q, tbl) PROVE Changes(q, tbl2)
  <2>1. q.todo = <<>> /\ DOMAIN q.lock = {q.call.new.id} /\ q.lock[q.call.new.id] # "share"
          => tbl2[q.call.new.id] = tbl[q.call.new.id]
    BY DEF Held
  <2> QED BY <1>1, <2>1 DEF Changes
<1>2. ASSUME Deletes(q, tbl, ord, done) PROVE Deletes(q, tbl2, ord2, done2)
  <2>1. \A i \in DOMAIN q.lock : i \in Held(q) /\ i \in Kept(q)
    BY <1>2 DEF Deletes, Held, Kept
  <2>2. \A i \in DOMAIN q.work : i \in Kept(q) /\ tbl2[i] = tbl[i] /\ i \notin ord2 \ ord
    BY <1>2, <2>1 DEF Deletes
  <2>3. ASSUME DeletesProduct(q, tbl, done) PROVE DeletesProduct(q, tbl2, done2)
    <3>1. ASSUME NEW i \in PlanIds, Met(q, i, tbl, done) PROVE Met(q, i, tbl2, done2)
      BY <3>1 DEF Met
    <3>2. ASSUME q.call.id \in DOMAIN q.work,
                 \A i \in PlanIds : tbl[i] # None /\ tbl[i].product = q.call.id => i \in DOMAIN q.work
          PROVE  \A i \in PlanIds : tbl2[i] # None /\ tbl2[i].product = q.call.id => i \in DOMAIN q.work
      BY <2>2, <3>2
    <3> QED BY <2>3, <3>1, <3>2 DEF DeletesProduct
  <2>4. q.todo = <<>> => ord2 \cap DOMAIN q.work = {}
    BY <1>2, <2>2 DEF Deletes
  <2>5. \A i \in DOMAIN q.work :
          /\ q.work[i] = None /\ i \in DOMAIN q.lock
          /\ i = q.call.id \/ (i \in PlanIds /\ tbl2[i].product = q.call.id)
    BY <1>2, <2>2 DEF Deletes
  <2> QED BY <1>2, <2>3, <2>4, <2>5 DEF Deletes
<1> QED BY <1>1, <1>2 DEF Local, Does

LEMMA LocalStays ==
  ASSUME NEW r, NEW q, NEW tbl, NEW ord, NEW done, NEW done2,
         Local(r, q, tbl, ord, done), done \subseteq done2
  PROVE  Local(r, q, tbl, ord, done2)
BY LocalUnder

-----------------------------------------------------------------------------
(* What requests are to each other                                         *)

Done == {r \in Requests : req[r].pc = "end"}
Same(x, y) == x # None /\ y # None /\ x.kind = y.kind /\ x.slug = y.slug
Sees(q, i) == IF i \in DOMAIN q.work THEN q.work[i] ELSE rows[i]

\* What r holds is there, and nobody holds it against r.
Holds(r, q) ==
  \A i \in DOMAIN q.lock :
    /\ rows[i] # None
    /\ \A o \in Requests : o # r /\ i \in DOMAIN req[o].lock => ~Conflict(q.lock[i], req[o].lock[i])

\* What r has written has a slug of its own, in what r sees and among what the
\* others have written.
Unique(r, q) ==
  \A i \in DOMAIN q.work :
    /\ \A j \in Ids : j # i => ~Same(q.work[i], Sees(q, j))
    /\ \A o \in Requests : o # r => \A j \in DOMAIN req[o].work : ~Same(q.work[i], req[o].work[j])

\* Which table an id is of, and that a request's ids are not there before it ends.
IdsKept ==
  /\ \A i \in ProductIds : rows[i] \in ProductRow \cup {None}
  /\ \A i \in PlanIds : rows[i] \in PlanRow \cup {None}
  /\ \A r \in Requests : \A i \in Own(r) : rows[i] # None =>
       /\ req[r].pc = "end"
       /\ req[r].call.do = "ApplyTemplate" /\ i # <<r, 0>> => rows[i].product = <<r, 0>>

CatalogInv ==
  /\ \A r \in Requests : Local(r, req[r], rows, ordered, Done)
  /\ \A r \in Requests : Holds(r, req[r]) /\ Unique(r, req[r])
  /\ IdsKept /\ RowsConsistent /\ AppliedWhole

\* A step of a request that commits nothing.
LEMMA Alone ==
  ASSUME TypeInv, CatalogInv, NEW r \in Requests, NEW q \in Rec,
         req' = [req EXCEPT ![r] = q], UNCHANGED Tables,
         req[r].pc # "end", q.call \in Calls[r] \cup {NoCall},
         Local(r, q, rows, ordered, Done), Holds(r, q), Unique(r, q)
  PROVE  TypeInv' /\ CatalogInv'
<1> USE DEF Tables
<1>0. /\ req \in [Requests -> Rec] /\ req'[r] = q
      /\ \A o \in Requests : o # r => req'[o] = req[o]
      /\ rows' = rows /\ ordered' = ordered
  BY DEF TypeInv
<1>1. TypeInv'
  BY <1>0 DEF TypeInv
<1>2. Done \subseteq Done'
  BY <1>0 DEF Done
<1>3. \A o \in Requests : Local(o, req'[o], rows', ordered', Done')
  <2> SUFFICES ASSUME NEW o \in Requests PROVE Local(o, req'[o], rows', ordered', Done')
    OBVIOUS
  <2>1. Local(o, req'[o], rows, ordered, Done)
    BY <1>0 DEF CatalogInv
  <2>2. Local(o, req'[o], rows, ordered, Done')
    BY <1>2, <2>1, LocalStays
  <2> QED BY <1>0, <2>2
<1>4. \A o \in Requests : Holds(o, req[o])'
  <2> SUFFICES ASSUME NEW o \in Requests, NEW i \in DOMAIN req'[o].lock
               PROVE  /\ rows[i] # None
                      /\ \A p \in Requests : p # o /\ i \in DOMAIN req'[p].lock =>
                           ~Conflict(req'[o].lock[i], req'[p].lock[i])
    BY <1>0 DEF Holds
  <2>1. \A p \in Requests : Holds(p, req[p])
    BY DEF CatalogInv
  <2>2. CASE o = r
    BY <1>0, <2>2 DEF Holds
  <2>3. CASE o # r
    <3>1. ASSUME i \in DOMAIN q.lock PROVE ~Conflict(req[o].lock[i], q.lock[i])
      BY <1>0, <2>3, <3>1 DEF Holds, Conflict
    <3> QED BY <1>0, <2>1, <2>3, <3>1 DEF Holds
  <2> QED BY <2>2, <2>3
<1>5. \A o \in Requests : Unique(o, req[o])'
  <2> SUFFICES ASSUME NEW o \in Requests, NEW i \in DOMAIN req'[o].work
               PROVE  /\ \A j \in Ids : j # i => ~Same(req'[o].work[i], Sees(req'[o], j))
                      /\ \A p \in Requests : p # o => \A j \in DOMAIN req'[p].work :
                           ~Same(req'[o].work[i], req'[p].work[j])
    BY <1>0 DEF Unique, Sees
  <2>1. \A p \in Requests : Unique(p, req[p])
    BY DEF CatalogInv
  <2>2. CASE o = r
    BY <1>0, <2>2 DEF Unique
  <2>3. CASE o # r
    <3>1. \A j \in DOMAIN q.work : ~Same(req[o].work[i], q.work[j])
      BY <1>0, <2>3 DEF Unique, Same
    <3> QED BY <1>0, <2>1, <2>3, <3>1 DEF Unique
  <2> QED BY <2>2, <2>3
<1>6. IdsKept' /\ RowsConsistent'
  BY <1>0 DEF CatalogInv, IdsKept, RowsConsistent, Live, SameSlug
<1>7. AppliedWhole'
  <2> SUFFICES ASSUME NEW p \in Requests, req'[p].call.do = "ApplyTemplate", rows[<<p, 0>>] # None,
                      NEW i \in 1 .. Len(req'[p].presets), ~(rows[<<p, i>>] # None)
               PROVE  \E o \in Requests :
                        req'[o].ok /\ req'[o].call = [do |-> "DeletePlan", id |-> <<p, i>>]
    BY <1>0 DEF AppliedWhole, Live
  <2>1. p # r
    <3>1. <<r, 0>> \in Own(r)
      BY CatalogAssumption DEF Own
    <3> QED BY <3>1 DEF CatalogInv, IdsKept
  <2>2. PICK o \in Requests : req[o].ok /\ req[o].call = [do |-> "DeletePlan", id |-> <<p, i>>]
    BY <1>0, <2>1 DEF CatalogInv, AppliedWhole, Live
  <2>3. o # r
    BY <2>2 DEF CatalogInv, Local
  <2> QED BY <1>0, <2>2, <2>3
<1> QED BY <1>0, <1>1, <1>3, <1>4, <1>5, <1>6, <1>7 DEF CatalogInv

-----------------------------------------------------------------------------
(* Steps of a request                                                      *)

With(q, pc, todo, lock, work) ==
  [pc |-> pc, call |-> q.call, todo |-> todo, lock |-> lock, work |-> work,
   presets |-> q.presets, ok |-> q.ok]

LEMMA WithType ==
  ASSUME NEW q \in Rec, NEW pc \in {"wait", "run", "end"}, NEW todo \in Seq(Stmt),
         NEW lock \in Locks, NEW work \in Works
  PROVE  With(q, pc, todo, lock, work) \in Rec
BY DEF Rec, With

LEMMA Fields ==
  ASSUME NEW q \in Rec
  PROVE  /\ q.pc \in {"idle", "wait", "run", "end"} /\ q.call \in Call \cup {NoCall}
         /\ q.todo \in Seq(Stmt) /\ q.lock \in Locks /\ q.work \in Works
         /\ q.presets \in Presets /\ q.ok \in BOOLEAN
         /\ DOMAIN q.lock \subseteq Ids /\ \A i \in DOMAIN q.lock : q.lock[i] \in Mods
         /\ DOMAIN q.work \subseteq Ids /\ \A i \in DOMAIN q.work : q.work[i] \in Row \cup {None}
<1>1. q.lock \in Locks /\ q.work \in Works
  BY DEF Rec
<1>2. DOMAIN q.lock \subseteq Ids /\ \A i \in DOMAIN q.lock : q.lock[i] \in Mods
  BY <1>1 DEF Locks
<1>3. DOMAIN q.work \subseteq Ids /\ \A i \in DOMAIN q.work : q.work[i] \in Row \cup {None}
  BY <1>1 DEF Works
<1> QED BY <1>1, <1>2, <1>3 DEF Rec

LEMMA Nothing == NoLocks \in Locks /\ NoRows \in Works /\ DOMAIN NoLocks = {} /\ DOMAIN NoRows = {} /\ <<>> \in Seq(Stmt)
<1>1. NoLocks \in [{} -> Mods] /\ NoRows \in [{} -> Row \cup {None}]
  BY DEF NoLocks, NoRows
<1>2. {} \in SUBSET Ids /\ <<>> \in Seq(Stmt)
  OBVIOUS
<1>3. NoLocks \in Locks
  BY <1>1, <1>2 DEF Locks
<1>4. NoRows \in Works
  BY <1>1, <1>2 DEF Works
<1>5. DOMAIN NoLocks = {} /\ DOMAIN NoRows = {}
  BY <1>1
<1> QED BY <1>2, <1>3, <1>4, <1>5

\* The ways in which the steps write a request.
Runs(r) == req' = [req EXCEPT ![r].pc = "run"]
Goes(r, todo) == req' = [req EXCEPT ![r].todo = todo]
Takes(r, todo, lock) == req' = [req EXCEPT ![r].todo = todo, ![r].lock = lock]
Writes(r, todo, work) == req' = [req EXCEPT ![r].todo = todo, ![r].work = work]

LEMMA NewPc ==
  ASSUME req \in [Requests -> Rec], NEW r \in Requests, Runs(r)
  PROVE  req' = [req EXCEPT ![r] = With(req[r], "run", req[r].todo, req[r].lock, req[r].work)]
<1> DEFINE x == req'[r]
<1>1. req[r] \in Rec /\ req' = [req EXCEPT ![r] = x] /\ x = [req[r] EXCEPT !.pc = "run"]
  BY DEF Runs
<1> HIDE DEF x
<1>2. x = [pc |-> x.pc, call |-> x.call, todo |-> x.todo, lock |-> x.lock, work |-> x.work,
           presets |-> x.presets, ok |-> x.ok]
  BY <1>1 DEF Rec
<1>3. /\ x.pc = "run" /\ x.call = req[r].call /\ x.todo = req[r].todo /\ x.lock = req[r].lock
      /\ x.work = req[r].work /\ x.presets = req[r].presets /\ x.ok = req[r].ok
  BY <1>1 DEF Rec
<1> QED BY <1>1, <1>2, <1>3 DEF With

LEMMA NewTodo ==
  ASSUME req \in [Requests -> Rec], NEW r \in Requests, NEW todo, Goes(r, todo)
  PROVE  req' = [req EXCEPT ![r] = With(req[r], req[r].pc, todo, req[r].lock, req[r].work)]
<1> DEFINE x == req'[r]
<1>1. req[r] \in Rec /\ req' = [req EXCEPT ![r] = x] /\ x = [req[r] EXCEPT !.todo = todo]
  BY DEF Goes
<1> HIDE DEF x
<1>2. x = [pc |-> x.pc, call |-> x.call, todo |-> x.todo, lock |-> x.lock, work |-> x.work,
           presets |-> x.presets, ok |-> x.ok]
  BY <1>1 DEF Rec
<1>3. /\ x.pc = req[r].pc /\ x.call = req[r].call /\ x.todo = todo /\ x.lock = req[r].lock
      /\ x.work = req[r].work /\ x.presets = req[r].presets /\ x.ok = req[r].ok
  BY <1>1 DEF Rec
<1> QED BY <1>1, <1>2, <1>3 DEF With

LEMMA NewLock ==
  ASSUME req \in [Requests -> Rec], NEW r \in Requests, NEW todo, NEW lock, Takes(r, todo, lock)
  PROVE  req' = [req EXCEPT ![r] = With(req[r], req[r].pc, todo, lock, req[r].work)]
<1> DEFINE x == req'[r]
<1>1. req[r] \in Rec /\ req' = [req EXCEPT ![r] = x] /\ x = [req[r] EXCEPT !.todo = todo, !.lock = lock]
  BY DEF Takes
<1> HIDE DEF x
<1>2. x = [pc |-> x.pc, call |-> x.call, todo |-> x.todo, lock |-> x.lock, work |-> x.work,
           presets |-> x.presets, ok |-> x.ok]
  BY <1>1 DEF Rec
<1>3. /\ x.pc = req[r].pc /\ x.call = req[r].call /\ x.todo = todo /\ x.lock = lock
      /\ x.work = req[r].work /\ x.presets = req[r].presets /\ x.ok = req[r].ok
  BY <1>1 DEF Rec
<1> QED BY <1>1, <1>2, <1>3 DEF With

LEMMA NewWork ==
  ASSUME req \in [Requests -> Rec], NEW r \in Requests, NEW todo, NEW work, Writes(r, todo, work)
  PROVE  req' = [req EXCEPT ![r] = With(req[r], req[r].pc, todo, req[r].lock, work)]
<1> DEFINE x == req'[r]
<1>1. req[r] \in Rec /\ req' = [req EXCEPT ![r] = x] /\ x = [req[r] EXCEPT !.todo = todo, !.work = work]
  BY DEF Writes
<1> HIDE DEF x
<1>2. x = [pc |-> x.pc, call |-> x.call, todo |-> x.todo, lock |-> x.lock, work |-> x.work,
           presets |-> x.presets, ok |-> x.ok]
  BY <1>1 DEF Rec
<1>3. /\ x.pc = req[r].pc /\ x.call = req[r].call /\ x.todo = todo /\ x.lock = req[r].lock
      /\ x.work = work /\ x.presets = req[r].presets /\ x.ok = req[r].ok
  BY <1>1 DEF Rec
<1> QED BY <1>1, <1>2, <1>3 DEF With

LEMMA NewEnd ==
  ASSUME req \in [Requests -> Rec], NEW r \in Requests, End(r)
  PROVE  req' = [req EXCEPT ![r] = With(req[r], "end", <<>>, NoLocks, NoRows)]
<1> DEFINE x == req'[r]
<1>1. req[r] \in Rec /\ req' = [req EXCEPT ![r] = x] /\ x = [req[r] EXCEPT !.pc = "end", !.todo = <<>>, !.lock = NoLocks, !.work = NoRows]
  BY DEF End
<1> HIDE DEF x
<1>2. x = [pc |-> x.pc, call |-> x.call, todo |-> x.todo, lock |-> x.lock, work |-> x.work,
           presets |-> x.presets, ok |-> x.ok]
  BY <1>1 DEF Rec
<1>3. /\ x.pc = "end" /\ x.call = req[r].call /\ x.todo = <<>> /\ x.lock = NoLocks
      /\ x.work = NoRows /\ x.presets = req[r].presets /\ x.ok = req[r].ok
  BY <1>1 DEF Rec
<1> QED BY <1>1, <1>2, <1>3 DEF With

\* A request that ends without a commit.
LEMMA EndStep ==
  ASSUME TypeInv, CatalogInv, NEW r \in Requests, req[r].pc \in {"wait", "run"}, End(r), UNCHANGED Tables
  PROVE  TypeInv' /\ CatalogInv'
<1> DEFINE q == With(req[r], "end", <<>>, NoLocks, NoRows)
<1>1. req \in [Requests -> Rec] /\ req[r] \in Rec /\ req[r].call \in Calls[r] \cup {NoCall}
  BY DEF TypeInv
<1>2. q \in Rec
  BY <1>1, WithType, Nothing
<1>3. req' = [req EXCEPT ![r] = q]
  BY <1>1, NewEnd
<1>4. q.pc = "end" /\ q.call = req[r].call /\ q.todo = <<>> /\ q.lock = NoLocks /\ q.work = NoRows
      /\ q.presets = req[r].presets
  BY DEF With
<1>5. Local(r, req[r], rows, ordered, Done)
  BY DEF CatalogInv
<1> HIDE DEF q
<1>6. Local(r, q, rows, ordered, Done)
  BY <1>4, <1>5 DEF Local
<1>7. Holds(r, q) /\ Unique(r, q)
  BY <1>4, Nothing DEF Holds, Unique
<1> QED BY <1>1, <1>2, <1>3, <1>4, <1>6, <1>7, Alone

\* A request that goes on: what is left changes, what it holds and has written does not.
LEMMA GoStep ==
  ASSUME TypeInv, CatalogInv, NEW r \in Requests, req[r].pc \in {"wait", "run"}, UNCHANGED Tables,
         NEW pc \in {"wait", "run"}, NEW todo \in Seq(Stmt),
         req' = [req EXCEPT ![r] = With(req[r], pc, todo, req[r].lock, req[r].work)],
         Local(r, With(req[r], pc, todo, req[r].lock, req[r].work), rows, ordered, Done)
  PROVE  TypeInv' /\ CatalogInv'
<1> DEFINE q == With(req[r], pc, todo, req[r].lock, req[r].work)
<1>1. req[r] \in Rec /\ req[r].call \in Calls[r] \cup {NoCall} /\ req[r].lock \in Locks /\ req[r].work \in Works
  BY Fields DEF TypeInv
<1>2. q \in Rec
  BY <1>1, WithType
<1>4. q.call = req[r].call /\ q.lock = req[r].lock /\ q.work = req[r].work
  BY DEF With
<1>5. req' = [req EXCEPT ![r] = q] /\ Local(r, q, rows, ordered, Done)
  OBVIOUS
<1> HIDE DEF q
<1>7. Holds(r, q) /\ Unique(r, q)
  <2>1. Holds(r, req[r]) /\ Unique(r, req[r])
    BY DEF CatalogInv
  <2> QED BY <2>1, <1>4 DEF Holds, Unique, Sees
<1> QED BY <1>1, <1>2, <1>4, <1>5, <1>7, Alone

\* A request that takes a lock.
LEMMA LockStep ==
  ASSUME TypeInv, CatalogInv, NEW r \in Requests, req[r].pc \in {"wait", "run"}, UNCHANGED Tables,
         NEW id \in Ids, NEW mode \in Mods, NEW todo \in Seq(Stmt), NEW lock,
         lock = [i \in DOMAIN req[r].lock \cup {id} |-> IF i = id THEN mode ELSE req[r].lock[i]],
         rows[id] # None,
         \A o \in Requests : o # r /\ id \in DOMAIN req[o].lock => ~Conflict(mode, req[o].lock[id]),
         req' = [req EXCEPT ![r] = With(req[r], "run", todo, lock, req[r].work)],
         Local(r, With(req[r], "run", todo, lock, req[r].work), rows, ordered, Done)
  PROVE  TypeInv' /\ CatalogInv'
<1> DEFINE q == With(req[r], "run", todo, lock, req[r].work)
<1>1. req[r] \in Rec /\ req[r].call \in Calls[r] \cup {NoCall} /\ req[r].lock \in Locks /\ req[r].work \in Works
      /\ DOMAIN req[r].lock \subseteq Ids /\ \A i \in DOMAIN req[r].lock : req[r].lock[i] \in Mods
  BY Fields DEF TypeInv
<1>3. lock \in Locks
  <2> DEFINE D == DOMAIN req[r].lock \cup {id}
  <2>1. lock \in [D -> Mods] /\ D \in SUBSET Ids
    BY <1>1
  <2> QED BY <2>1 DEF Locks
<1>2. q \in Rec
  BY <1>1, <1>3, WithType
<1>4. q.call = req[r].call /\ q.lock = lock /\ q.work = req[r].work
  BY DEF With
<1>5. req' = [req EXCEPT ![r] = q] /\ Local(r, q, rows, ordered, Done)
  OBVIOUS
<1> HIDE DEF q
<1>6. Holds(r, req[r]) /\ Unique(r, req[r])
  BY DEF CatalogInv
<1>7. Unique(r, q)
  BY <1>4, <1>6 DEF Unique, Sees
<1>8. Holds(r, q)
  <2> SUFFICES ASSUME NEW i \in DOMAIN lock
               PROVE  /\ rows[i] # None
                      /\ \A o \in Requests : o # r /\ i \in DOMAIN req[o].lock =>
                           ~Conflict(lock[i], req[o].lock[i])
    BY <1>4 DEF Holds
  <2>1. CASE i = id
    BY <2>1
  <2>2. CASE i # id
    <3>1. i \in DOMAIN req[r].lock /\ lock[i] = req[r].lock[i]
      BY <2>2
    <3> QED BY <3>1, <1>6 DEF Holds
  <2> QED BY <2>1, <2>2
<1> QED BY <1>1, <1>2, <1>4, <1>5, <1>7, <1>8, Alone

\* A request that writes a row, or deletes it.
LEMMA WriteStep ==
  ASSUME TypeInv, CatalogInv, NEW r \in Requests, req[r].pc \in {"wait", "run"}, UNCHANGED Tables,
         NEW id \in Ids, NEW row \in Row \cup {None}, NEW todo \in Seq(Stmt), NEW work,
         work = [i \in DOMAIN req[r].work \cup {id} |-> IF i = id THEN row ELSE req[r].work[i]],
         \A j \in Ids : j # id => ~Same(row, Sees(req[r], j)),
         \A o \in Requests : o # r => \A j \in DOMAIN req[o].work : ~Same(row, req[o].work[j]),
         req' = [req EXCEPT ![r] = With(req[r], "run", todo, req[r].lock, work)],
         Local(r, With(req[r], "run", todo, req[r].lock, work), rows, ordered, Done)
  PROVE  TypeInv' /\ CatalogInv'
<1> DEFINE q == With(req[r], "run", todo, req[r].lock, work)
<1>1. req[r] \in Rec /\ req[r].call \in Calls[r] \cup {NoCall} /\ req[r].lock \in Locks /\ req[r].work \in Works
      /\ DOMAIN req[r].work \subseteq Ids /\ \A i \in DOMAIN req[r].work : req[r].work[i] \in Row \cup {None}
  BY Fields DEF TypeInv
<1>3. work \in Works
  <2> DEFINE D == DOMAIN req[r].work \cup {id}
  <2>1. work \in [D -> Row \cup {None}] /\ D \in SUBSET Ids
    BY <1>1
  <2> QED BY <2>1 DEF Works
<1>2. q \in Rec
  BY <1>1, <1>3, WithType
<1>4. q.call = req[r].call /\ q.lock = req[r].lock /\ q.work = work
  BY DEF With
<1>5. req' = [req EXCEPT ![r] = q] /\ Local(r, q, rows, ordered, Done)
  OBVIOUS
<1> HIDE DEF q
<1>6. Holds(r, req[r]) /\ Unique(r, req[r])
  BY DEF CatalogInv
<1>7. Holds(r, q)
  BY <1>4, <1>6 DEF Holds
<1>8. Unique(r, q)
  <2> SUFFICES ASSUME NEW i \in DOMAIN work
               PROVE  /\ \A j \in Ids : j # i => ~Same(work[i], Sees(q, j))
                      /\ \A o \in Requests : o # r => \A j \in DOMAIN req[o].work :
                           ~Same(work[i], req[o].work[j])
    BY <1>4 DEF Unique
  <2>0. \A j \in Ids : Sees(q, j) = IF j = id THEN row ELSE Sees(req[r], j)
    BY <1>4 DEF Sees
  <2>1. CASE i = id
    BY <2>0, <2>1
  <2>2. CASE i # id
    <3>1. i \in DOMAIN req[r].work /\ work[i] = req[r].work[i] /\ i \in Ids
      BY <1>1, <2>2
    <3>2. Sees(req[r], i) = work[i]
      BY <3>1 DEF Sees
    <3>3. ~Same(work[i], row)
      BY <2>2, <3>1, <3>2 DEF Same
    <3> QED BY <1>6, <2>0, <3>1, <3>3 DEF Unique
  <2> QED BY <2>1, <2>2
<1> QED BY <1>1, <1>2, <1>4, <1>5, <1>7, <1>8, Alone
-----------------------------------------------------------------------------
(* The start of a request                                                  *)

Started(call, pc, todo, presets) ==
  [pc |-> pc, call |-> call, todo |-> todo, lock |-> NoLocks, work |-> NoRows,
   presets |-> presets, ok |-> FALSE]

LEMMA StartStep ==
  ASSUME TypeInv, CatalogInv, NEW r \in Requests, req[r] = Idle, UNCHANGED Tables,
         NEW call \in Calls[r], NEW pc \in {"wait", "end"}, NEW todo \in Seq(Stmt), NEW presets \in Presets,
         req' = [req EXCEPT ![r] = Started(call, pc, todo, presets)],
         Local(r, Started(call, pc, todo, presets), rows, ordered, Done)
  PROVE  TypeInv' /\ CatalogInv'
<1> DEFINE q == Started(call, pc, todo, presets)
<1>1. call \in Call
  BY CatalogAssumption
<1>2. q \in Rec
  BY <1>1, Nothing DEF Rec, Started
<1>3. q.call = call /\ q.lock = NoLocks /\ q.work = NoRows
  BY DEF Started
<1>4. req' = [req EXCEPT ![r] = q] /\ Local(r, q, rows, ordered, Done)
  OBVIOUS
<1> HIDE DEF q
<1>5. Holds(r, q) /\ Unique(r, q)
  BY <1>3, Nothing DEF Holds, Unique
<1>6. req[r].pc # "end"
  BY DEF Idle
<1> QED BY <1>2, <1>3, <1>4, <1>5, <1>6, Alone

\* The list of an order's statements.
LEMMA OrderList ==
  ASSUME NEW plans \in Seq(PlanIds)
  PROVE  /\ CreateOrder(plans) \in Seq(Stmt)
         /\ \A n \in 1 .. Len(CreateOrder(plans)) :
              \E i \in PlanIds : CreateOrder(plans)[n] \in {Read(i), Lock(i, "share")}
         /\ \A n \in 1 .. Len(plans) :
              \E m \in 1 .. Len(CreateOrder(plans)) : CreateOrder(plans)[m] = Lock(plans[n], "share")
<1> DEFINE N == Len(plans)
           a == [n \in 1 .. N |-> Read(plans[n])]
           b == [n \in 1 .. N |-> Lock(plans[n], "share")]
           c == a \o b
<1>1. N \in Nat /\ \A n \in 1 .. N : plans[n] \in PlanIds /\ plans[n] \in Ids
  BY IdsApart
<1> HIDE DEF N
<1>2. \A n \in 1 .. N : Read(plans[n]) \in Stmt /\ Lock(plans[n], "share") \in Stmt
  BY <1>1 DEF Stmt, Read, Lock
<1>3. a \in Seq(Stmt) /\ b \in Seq(Stmt) /\ Len(a) = N /\ Len(b) = N
  BY <1>1, <1>2
<1>4. /\ \A n \in 1 .. N : a[n] = Read(plans[n]) /\ b[n] = Lock(plans[n], "share")
  OBVIOUS
<1> HIDE DEF a, b
<1>5. c \in Seq(Stmt) /\ Len(c) = N + N
      /\ \A i \in 1 .. N + N : c[i] = IF i <= N THEN a[i] ELSE b[i - N]
  <2>1. /\ c \in Seq(Stmt) /\ Len(c) = Len(a) + Len(b)
        /\ \A i \in 1 .. Len(a) + Len(b) : c[i] = IF i <= Len(a) THEN a[i] ELSE b[i - Len(a)]
    BY <1>3, ConcatProperties, Zenon
  <2> QED BY <1>3, <2>1
<1> HIDE DEF c
<1>6. \A n \in 1 .. Len(c) : \E i \in PlanIds : c[n] \in {Read(i), Lock(i, "share")}
  <2> SUFFICES ASSUME NEW n \in 1 .. N + N PROVE \E i \in PlanIds : c[n] \in {Read(i), Lock(i, "share")}
    BY <1>5
  <2>1. CASE n <= N
    <3>1. n \in 1 .. N /\ c[n] = a[n]
      BY <2>1, <1>1, <1>5
    <3> QED BY <3>1, <1>1, <1>4
  <2>2. CASE ~(n <= N)
    <3>1. n - N \in 1 .. N /\ c[n] = b[n - N]
      BY <2>2, <1>1, <1>5
    <3> QED BY <3>1, <1>1, <1>4
  <2> QED BY <2>1, <2>2
<1>7. \A n \in 1 .. N : \E m \in 1 .. Len(c) : c[m] = Lock(plans[n], "share")
  <2> SUFFICES ASSUME NEW n \in 1 .. N PROVE \E m \in 1 .. N + N : c[m] = Lock(plans[n], "share")
    BY <1>5
  <2>1. N + n \in 1 .. N + N /\ ~(N + n <= N) /\ (N + n) - N = n
    BY <1>1
  <2>2. c[N + n] = b[n]
    BY <2>1, <1>5
  <2> QED BY <2>1, <2>2, <1>4
<1>8. CreateOrder(plans) = c
  BY DEF CreateOrder, a, b, c, N
<1> QED BY <1>5, <1>6, <1>7, <1>8 DEF N

\* The list of a template's: the product, then its plans.
LEMMA TemplateList ==
  ASSUME NEW r \in Requests, NEW t \in Template, NEW call \in Call, call.do = "ApplyTemplate"
  PROVE  /\ applyTemplate(r, t, call) \in Seq(Stmt) /\ t.presets \in Presets
         /\ \A n \in 1 .. Len(applyTemplate(r, t, call)) :
              /\ applyTemplate(r, t, call)[n].op = "insert"
              /\ OwnRow(r, applyTemplate(r, t, call)[n].id, applyTemplate(r, t, call)[n].row)
         /\ \A k \in 0 .. Len(t.presets) :
              \E n \in 1 .. Len(applyTemplate(r, t, call)) : applyTemplate(r, t, call)[n].id = <<r, k>>
<1> DEFINE plan(i) == [kind |-> "plan", slug |-> t.presets[i], active |-> i \notin t.hidden,
                           product |-> <<r, 0>>]
           product == [kind |-> "product", slug |-> Coalesce(call.slug, t.slug),
                       active |-> Coalesce(call.active, t.active), product |-> None]
           N == Len(t.presets)
           first == Insert(<<r, 0>>, product)
           a == <<first>>
           b == [i \in 1 .. N |-> Insert(<<r, i>>, plan(i))]
           c == a \o b
<1>1. PICK n \in 0 .. MaxPresets : t.presets \in [1 .. n -> Slugs]
  BY DEF Template
<1>2. MaxPresets \in Nat /\ n \in Nat
  BY CatalogAssumption
<1>3. t.presets \in Seq(Slugs) /\ N = n /\ \A i \in 1 .. n : t.presets[i] \in Slugs
  BY <1>1, <1>2
<1>4. t.slug \in Slugs /\ t.active \in BOOLEAN
  BY DEF Template
<1>5. product \in ProductRow
  <2>1. Coalesce(call.slug, t.slug) \in Slugs
    BY CallFields, <1>4 DEF Coalesce
  <2>2. Coalesce(call.active, t.active) \in BOOLEAN
    BY CallFields, <1>4 DEF Coalesce
  <2> QED BY <2>1, <2>2 DEF ProductRow
<1>6. ASSUME NEW i \in 1 .. n
      PROVE  /\ plan(i) \in PlanRow /\ plan(i).product = <<r, 0>> /\ <<r, i>> # <<r, 0>>
             /\ <<r, i>> \in Own(r) /\ <<r, i>> \in Ids
  <2>1. i \in 1 .. MaxPresets /\ i \in 0 .. MaxPresets /\ i # 0
    BY <1>2
  <2>2. <<r, i>> \in Own(r) /\ <<r, i>> # <<r, 0>> /\ <<r, i>> \in Ids /\ <<r, 0>> \in ProductIds
    BY <2>1, IdsApart DEF Own
  <2>3. plan(i) \in PlanRow
    BY <1>3, <2>2 DEF PlanRow
  <2> QED BY <2>2, <2>3
<1>7. <<r, 0>> \in Own(r) /\ <<r, 0>> \in Ids
  BY IdsApart, CatalogAssumption DEF Own
<1> HIDE DEF product, plan, N
<1>8. first \in Stmt /\ first.op = "insert" /\ first.id = <<r, 0>> /\ OwnRow(r, first.id, first.row)
  BY <1>5, <1>7 DEF Insert, Stmt, OwnRow, Row
<1>9. \A i \in 1 .. n :
        /\ Insert(<<r, i>>, plan(i)) \in Stmt /\ Insert(<<r, i>>, plan(i)).op = "insert"
        /\ Insert(<<r, i>>, plan(i)).id = <<r, i>>
        /\ OwnRow(r, <<r, i>>, plan(i)) /\ Insert(<<r, i>>, plan(i)).row = plan(i)
  BY <1>6 DEF Insert, Stmt, OwnRow, Row
<1> HIDE DEF first
<1>10. a \in Seq(Stmt) /\ Len(a) = 1 /\ a[1] = first
  BY <1>8
<1>11. b \in Seq(Stmt) /\ Len(b) = n /\ \A i \in 1 .. n : b[i] = Insert(<<r, i>>, plan(i))
  BY <1>2, <1>3, <1>9
<1> HIDE DEF a, b
<1>12. c \in Seq(Stmt) /\ Len(c) = 1 + n /\ \A i \in 1 .. 1 + n : c[i] = IF i <= 1 THEN a[i] ELSE b[i - 1]
  <2>1. /\ c \in Seq(Stmt) /\ Len(c) = Len(a) + Len(b)
        /\ \A i \in 1 .. Len(a) + Len(b) : c[i] = IF i <= Len(a) THEN a[i] ELSE b[i - Len(a)]
    BY <1>10, <1>11, ConcatProperties, Zenon
  <2> QED BY <1>10, <1>11, <2>1
<1> HIDE DEF c
<1>13. c[1] = first /\ 1 \in 1 .. 1 + n
  BY <1>2, <1>10, <1>12
<1>14. ASSUME NEW i \in 1 .. n PROVE 1 + i \in 1 .. 1 + n /\ c[1 + i] = Insert(<<r, i>>, plan(i))
  <2>1. 1 + i \in 1 .. 1 + n /\ ~(1 + i <= 1) /\ (1 + i) - 1 = i
    BY <1>2
  <2> QED BY <2>1, <1>11, <1>12
<1>15. ASSUME NEW m \in 1 .. Len(c) PROVE c[m].op = "insert" /\ OwnRow(r, c[m].id, c[m].row)
  <2>1. CASE m = 1
    BY <2>1, <1>8, <1>13
  <2>2. CASE m # 1
    <3>1. m - 1 \in 1 .. n /\ 1 + (m - 1) = m
      BY <2>2, <1>2, <1>12
    <3>2. c[m] = Insert(<<r, m - 1>>, plan(m - 1))
      BY <3>1, <1>14
    <3> QED BY <3>1, <3>2, <1>9
  <2> QED BY <2>1, <2>2
<1>16. ASSUME NEW k \in 0 .. N PROVE \E m \in 1 .. Len(c) : c[m].id = <<r, k>>
  <2>1. CASE k = 0
    BY <2>1, <1>8, <1>12, <1>13
  <2>2. CASE k # 0
    <3>1. k \in 1 .. n
      BY <2>2, <1>2, <1>3
    <3>2. 1 + k \in 1 .. Len(c) /\ c[1 + k].id = <<r, k>>
      BY <3>1, <1>9, <1>12, <1>14
    <3> QED BY <3>2
  <2> QED BY <2>1, <2>2
<1>17. applyTemplate(r, t, call) = c
  BY DEF applyTemplate, createProduct, a, b, c, N, first, plan, product
<1>18. t.presets \in Presets
  BY <1>1 DEF Presets
<1> QED BY <1>3, <1>12, <1>15, <1>16, <1>17, <1>18 DEF N

LEMMA StartApplySteps ==
  ASSUME TypeInv, CatalogInv, NEW r \in Requests, NEW call \in Calls[r], StartApply(r, call)
  PROVE  TypeInv' /\ CatalogInv'
<1>1. /\ req[r] = Idle /\ call \in Call /\ call.do = "ApplyTemplate" /\ UNCHANGED Tables
      /\ call.id \in Templates /\ <<>> \in Seq(Stmt) /\ <<>> \in Presets
  BY CatalogAssumption, CallFields, PresetsFacts DEF StartApply
<1>2. CASE ~Found(call.id)
  <2>1. req' = [req EXCEPT ![r] = Started(call, "end", <<>>, <<>>)]
    <3>1. req' = [req EXCEPT ![r].pc = "end", ![r].call = call]
      BY <1>2 DEF StartApply
    <3> DEFINE x == req'[r]
    <3>2. /\ req' = [req EXCEPT ![r] = x] /\ x = [req[r] EXCEPT !.pc = "end", !.call = call]
          /\ req[r] \in Rec
      BY <3>1 DEF TypeInv
    <3> HIDE DEF x
    <3>3. x = [pc |-> x.pc, call |-> x.call, todo |-> x.todo, lock |-> x.lock, work |-> x.work,
               presets |-> x.presets, ok |-> x.ok]
      BY <3>2 DEF Rec
    <3>4. /\ x.pc = "end" /\ x.call = call /\ x.todo = req[r].todo /\ x.lock = req[r].lock
          /\ x.work = req[r].work /\ x.presets = req[r].presets /\ x.ok = req[r].ok
      BY <3>2 DEF Rec
    <3>5. /\ req[r].lock = NoLocks /\ req[r].work = NoRows /\ req[r].presets = <<>> /\ req[r].ok = FALSE
          /\ req[r].todo = <<>>
      BY <1>1 DEF Idle
    <3> QED BY <3>2, <3>3, <3>4, <3>5 DEF Started
  <2>2. Local(r, Started(call, "end", <<>>, <<>>), rows, ordered, Done)
    BY DEF Local, Started
  <2> QED BY <1>1, <2>1, <2>2, StartStep
<1>3. CASE Found(call.id)
  <2> DEFINE t == templates[call.id]
             todo == applyTemplate(r, t, call)
             q == Started(call, "wait", todo, t.presets)
  <2>1. t \in Template
    BY <1>1, <1>3 DEF TypeInv, Found
  <2>2. req' = [req EXCEPT ![r] = q]
    <3>1. req' = [req EXCEPT ![r].pc = "wait", ![r].call = call, ![r].presets = t.presets, ![r].todo = todo]
      BY <1>3 DEF StartApply
    <3> DEFINE x == req'[r]
    <3>2. /\ req' = [req EXCEPT ![r] = x] /\ x = [req[r] EXCEPT !.pc = "wait", !.call = call, !.presets = t.presets, !.todo = todo]
          /\ req[r] \in Rec
      BY <3>1 DEF TypeInv
    <3> HIDE DEF x, todo, t
    <3>3. x = [pc |-> x.pc, call |-> x.call, todo |-> x.todo, lock |-> x.lock, work |-> x.work,
               presets |-> x.presets, ok |-> x.ok]
      BY <3>2 DEF Rec
    <3>4. /\ x.pc = "wait" /\ x.call = call /\ x.todo = todo /\ x.lock = req[r].lock
          /\ x.work = req[r].work /\ x.presets = t.presets /\ x.ok = req[r].ok
      BY <3>2 DEF Rec
    <3>5. /\ req[r].lock = NoLocks /\ req[r].work = NoRows /\ req[r].presets = <<>> /\ req[r].ok = FALSE
          /\ req[r].todo = <<>>
      BY <1>1 DEF Idle
    <3> QED BY <3>2, <3>3, <3>4, <3>5 DEF Started
  <2> HIDE DEF t
  <2>3. /\ todo \in Seq(Stmt) /\ t.presets \in Presets
        /\ \A n \in 1 .. Len(todo) : todo[n].op = "insert" /\ OwnRow(r, todo[n].id, todo[n].row)
        /\ \A k \in 0 .. Len(t.presets) : \E n \in 1 .. Len(todo) : todo[n].id = <<r, k>>
    BY <1>1, <2>1, TemplateList
  <2> HIDE DEF todo
  <2>4. /\ q.pc = "wait" /\ q.call = call /\ q.todo = todo /\ q.lock = NoLocks /\ q.work = NoRows
        /\ q.presets = t.presets /\ ~q.ok
    BY DEF Started
  <2>5. Adds(r, q)
    <3> HIDE DEF q
    <3> QED BY <2>3, <2>4, Nothing DEF Adds
  <2>6. Local(r, q, rows, ordered, Done)
    <3> HIDE DEF q
    <3> QED BY <1>1, <2>4, <2>5 DEF Local, Does
  <2> QED BY <1>1, <2>2, <2>3, <2>6, StartStep
<1> QED BY <1>2, <1>3

LEMMA StartOtherSteps ==
  ASSUME TypeInv, CatalogInv, NEW r \in Requests, NEW call \in Calls[r], StartOther(r, call)
  PROVE  TypeInv' /\ CatalogInv'
<1>1. /\ req[r] = Idle /\ call \in Call /\ call.do # "ApplyTemplate" /\ UNCHANGED Tables
      /\ <<>> \in Seq(Stmt) /\ <<>> \in Presets
  BY CatalogAssumption, PresetsFacts DEF StartOther
<1> DEFINE todo == Statements(r, call)
           q == Started(call, "wait", todo, <<>>)
<1>2. req' = [req EXCEPT ![r] = q]
  <2>1. req' = [req EXCEPT ![r].pc = "wait", ![r].call = call, ![r].todo = todo]
    BY DEF StartOther
  <2> DEFINE x == req'[r]
  <2>2. /\ req' = [req EXCEPT ![r] = x] /\ x = [req[r] EXCEPT !.pc = "wait", !.call = call, !.todo = todo]
        /\ req[r] \in Rec
    BY <2>1 DEF TypeInv
  <2> HIDE DEF x, todo
  <2>3. x = [pc |-> x.pc, call |-> x.call, todo |-> x.todo, lock |-> x.lock, work |-> x.work,
             presets |-> x.presets, ok |-> x.ok]
    BY <2>2 DEF Rec
  <2>4. /\ x.pc = "wait" /\ x.call = call /\ x.todo = todo /\ x.lock = req[r].lock
        /\ x.work = req[r].work /\ x.presets = req[r].presets /\ x.ok = req[r].ok
    BY <2>2 DEF Rec
  <2>5. /\ req[r].lock = NoLocks /\ req[r].work = NoRows /\ req[r].presets = <<>> /\ req[r].ok = FALSE
        /\ req[r].todo = <<>>
    BY <1>1 DEF Idle
  <2> QED BY <2>2, <2>3, <2>4, <2>5 DEF Started
<1>3. /\ q.pc = "wait" /\ q.call = call /\ q.todo = todo /\ q.lock = NoLocks /\ q.work = NoRows
      /\ q.presets = <<>> /\ ~q.ok
  BY DEF Started
<1> HIDE DEF q, todo
<1>4. ASSUME todo \in Seq(Stmt),
             /\ call.do = "CreateProduct" => Adds(r, q)
             /\ call.do = "CreatePlan" => AddsPlan(r, q)
             /\ call.do \in {"UpdateProduct", "UpdatePlan"} => Changes(q, rows)
             /\ call.do \in {"DeleteProduct", "DeletePlan"} => Deletes(q, rows, ordered, Done)
             /\ call.do = "CreateOrder" => Orders(q)
             /\ call.do \in {"ListProducts", "GetProductBySlug", "ListPlansByProductID"} => Looks(q)
      PROVE  TypeInv' /\ CatalogInv'
  <2>1. Local(r, q, rows, ordered, Done)
    BY <1>1, <1>3, <1>4 DEF Local, Does
  <2> QED BY <1>1, <1>2, <1>4, <2>1, StartStep DEF q
<1>5. CASE call.do = "CreateProduct"
  <2>1. todo = <<Insert(<<r, 0>>, call.row)>>
    BY <1>5 DEF todo, Statements, createProduct
  <2>2. call.row \in ProductRow /\ <<r, 0>> \in Ids /\ <<r, 0>> \in Own(r)
    BY <1>1, <1>5, CallFields, IdsApart, CatalogAssumption DEF Own
  <2>3. Insert(<<r, 0>>, call.row) \in Stmt
    BY <2>2 DEF Insert, Stmt, Row
  <2>4. todo \in Seq(Stmt) /\ Len(todo) = 1 /\ todo[1] = Insert(<<r, 0>>, call.row)
    BY <2>1, <2>3
  <2>5. todo[1].op = "insert" /\ todo[1].id = <<r, 0>> /\ OwnRow(r, todo[1].id, todo[1].row)
    BY <2>2, <2>4 DEF Insert, OwnRow
  <2>6. \A n \in 1 .. Len(todo) : n = 1
    BY <2>4
  <2>7. \A k \in 0 .. Len(q.presets) : k = 0
    BY <1>3
  <2>8. 1 \in 1 .. Len(todo)
    BY <2>4
  <2>9. Adds(r, q)
    BY <1>3, <2>5, <2>6, <2>7, <2>8, Nothing DEF Adds
  <2> QED BY <1>4, <1>5, <2>4, <2>9
<1>6. CASE call.do = "CreatePlan"
  <2>1. todo = <<Insert(<<r, 1>>, call.row), Lock(call.row.product, "share")>>
    BY <1>6 DEF todo, Statements, createPlan
  <2>2. call.row \in PlanRow /\ call.row.product \in Ids /\ <<r, 1>> \in Ids
    BY <1>1, <1>6, CallFields, RowFields, IdsApart
  <2>3. Insert(<<r, 1>>, call.row) \in Stmt /\ Lock(call.row.product, "share") \in Stmt
    BY <2>2 DEF Insert, Lock, Stmt, Row
  <2>4. todo \in Seq(Stmt)
    BY <2>1, <2>3
  <2>5. AddsPlan(r, q)
    BY <1>3, <2>1 DEF AddsPlan
  <2> QED BY <1>4, <1>6, <2>4, <2>5
<1>7. CASE call.do \in {"UpdateProduct", "UpdatePlan"}
  <2>1. todo = <<Lock(call.new.id, "update"), Update(call.new)>>
    BY <1>7 DEF todo, Statements, updateProduct, updatePlan
  <2>2. call.new.id \in Ids /\ call.new \in Change(ProductIds) \cup Change(PlanIds)
    BY <1>1, <1>7, CallFields, ChangeFields, IdsApart
  <2>3. Lock(call.new.id, "update") \in Stmt /\ Update(call.new) \in Stmt
    BY <2>2 DEF Update, Lock, Stmt
  <2>4. todo \in Seq(Stmt)
    BY <2>1, <2>3
  <2>5. Changes(q, rows)
    BY <1>3, <2>1 DEF Changes
  <2> QED BY <1>4, <1>7, <2>4, <2>5
<1>8. CASE call.do = "DeletePlan"
  <2>1. todo = <<Lock(call.id, "key"), Delete(call.id), Restricted>>
    BY <1>8 DEF todo, Statements, deletePlan
  <2>2. call.id \in Ids
    BY <1>1, <1>8, CallFields, IdsApart
  <2>3. Lock(call.id, "key") \in Stmt /\ Delete(call.id) \in Stmt
    BY <2>2 DEF Delete, Lock, Stmt
  <2>4. Restricted \in Stmt
    BY DEF Restricted, Stmt
  <2>5. todo \in Seq(Stmt) /\ todo # <<>>
    BY <2>1, <2>3, <2>4
  <2>6. Deletes(q, rows, ordered, Done)
    BY <1>3, <1>8, <2>1, <2>5, Nothing DEF Deletes, DeletesPlan
  <2> QED BY <1>4, <1>8, <2>5, <2>6
<1>11. CASE call.do = "DeleteProduct"
  <2>1. todo = <<Lock(call.id, "key"), Delete(call.id), Cascade(call.id), Restricted>>
    BY <1>11 DEF todo, Statements, deleteProduct
  <2>2. call.id \in Ids
    BY <1>1, <1>11, CallFields, IdsApart
  <2>3. Lock(call.id, "key") \in Stmt /\ Delete(call.id) \in Stmt
    BY <2>2 DEF Delete, Lock, Stmt
  <2>4. Cascade(call.id) \in Stmt
    BY <2>2 DEF Cascade, Stmt
  <2>5. Restricted \in Stmt
    BY DEF Restricted, Stmt
  <2>6. todo \in Seq(Stmt) /\ todo # <<>>
    BY <2>1, <2>3, <2>4, <2>5
  <2>7. Deletes(q, rows, ordered, Done)
    BY <1>3, <1>11, <2>1, <2>6, Nothing DEF Deletes, DeletesProduct
  <2> QED BY <1>4, <1>11, <2>6, <2>7
<1>9. CASE call.do = "CreateOrder"
  <2>1. todo = CreateOrder(call.plans)
    BY <1>9 DEF todo, Statements
  <2>2. call.plans \in Seq(PlanIds)
    BY <1>1, <1>9, CallFields
  <2>3. todo \in Seq(Stmt)
    BY <2>1, <2>2, OrderList
  <2>4. Orders(q)
    BY <1>3, <2>1, <2>2, OrderList DEF Orders
  <2> QED BY <1>4, <1>9, <2>3, <2>4
<1>10. CASE call.do \in {"ListProducts", "GetProductBySlug", "ListPlansByProductID"}
  <2>1. /\ call.do = "ListProducts" => todo = <<Products>>
        /\ call.do = "GetProductBySlug" => todo = <<Product(call.slug), Plans>>
        /\ call.do = "ListPlansByProductID" => todo = <<Exists(call.id), Plans>>
    BY <1>10 DEF todo, Statements
  <2>2. /\ call.do = "GetProductBySlug" => call.slug \in Slugs
        /\ call.do = "ListPlansByProductID" => call.id \in Ids
    BY <1>1, CallFields, IdsApart
  <2>3. /\ Products \in Stmt /\ Plans \in Stmt
        /\ call.do = "GetProductBySlug" => Product(call.slug) \in Stmt
        /\ call.do = "ListPlansByProductID" => Exists(call.id) \in Stmt
    BY <2>2 DEF Products, Plans, Product, Exists, Stmt
  <2>4. todo \in Seq(Stmt)
    <3>1. CASE call.do = "ListProducts"
      <4>1. todo = <<Products>> /\ Products \in Stmt
        BY <3>1, <2>1, <2>3
      <4> QED BY <4>1
    <3>2. CASE call.do = "GetProductBySlug"
      <4>1. todo = <<Product(call.slug), Plans>> /\ Product(call.slug) \in Stmt /\ Plans \in Stmt
        BY <3>2, <2>1, <2>3
      <4> QED BY <4>1
    <3>3. CASE call.do = "ListPlansByProductID"
      <4>1. todo = <<Exists(call.id), Plans>> /\ Exists(call.id) \in Stmt /\ Plans \in Stmt
        BY <3>3, <2>1, <2>3
      <4> QED BY <4>1
    <3> QED BY <1>10, <3>1, <3>2, <3>3
  <2>5. ASSUME NEW n \in 1 .. Len(todo) PROVE todo[n].op \in {"products", "product", "exists", "plans"}
    <3>1. CASE call.do = "ListProducts"
      <4>1. todo = <<Products>>
        BY <3>1, <2>1
      <4>2. Len(todo) = 1 /\ todo[1] = Products
        BY <4>1
      <4>3. n = 1
        BY <4>2, <2>5
      <4> QED BY <4>2, <4>3 DEF Products
    <3>2. CASE call.do = "GetProductBySlug"
      <4>1. todo = <<Product(call.slug), Plans>> /\ n \in 1 .. 2
        BY <3>2, <2>1, <2>5
      <4>2. todo[n] = Product(call.slug) \/ todo[n] = Plans
        BY <4>1
      <4> QED BY <4>2 DEF Product, Plans
    <3>3. CASE call.do = "ListPlansByProductID"
      <4>1. todo = <<Exists(call.id), Plans>> /\ n \in 1 .. 2
        BY <3>3, <2>1, <2>5
      <4>2. todo[n] = Exists(call.id) \/ todo[n] = Plans
        BY <4>1
      <4> QED BY <4>2 DEF Exists, Plans
    <3> QED BY <1>10, <3>1, <3>2, <3>3
  <2>6. Looks(q)
    BY <1>3, <2>5 DEF Looks
  <2> QED BY <1>4, <1>10, <2>4, <2>6
<1> QED BY <1>1, <1>5, <1>6, <1>7, <1>8, <1>9, <1>10, <1>11, CallFields

-----------------------------------------------------------------------------
(* What a request that runs may come to                                    *)

LEMMA TailFacts ==
  ASSUME NEW S, NEW s \in Seq(S), s # <<>>
  PROVE  /\ Len(s) \in Nat /\ Head(s) \in S /\ Head(s) = s[1] /\ 1 \in 1 .. Len(s) /\ Tail(s) \in Seq(S)
         /\ \A n \in 1 .. Len(Tail(s)) : n + 1 \in 1 .. Len(s) /\ Tail(s)[n] = s[n + 1]
         /\ \A n \in 1 .. Len(s) : n = 1 \/ (n - 1 \in 1 .. Len(Tail(s)) /\ Tail(s)[n - 1] = s[n])
<1>1. /\ Len(s) \in Nat /\ Head(s) \in S /\ Tail(s) \in Seq(S) /\ Len(Tail(s)) = Len(s) - 1 /\ Head(s) = s[1]
      /\ \A n \in 1 .. Len(Tail(s)) : Tail(s)[n] = s[n + 1]
  BY HeadTailProperties, LenProperties
<1>2. Len(s) # 0
  BY EmptySeq
<1>3. \A n \in 1 .. Len(Tail(s)) : n + 1 \in 1 .. Len(s) /\ Tail(s)[n] = s[n + 1]
  BY <1>1
<1>4. ASSUME NEW n \in 1 .. Len(s), n # 1
      PROVE  n - 1 \in 1 .. Len(Tail(s)) /\ Tail(s)[n - 1] = s[n]
  <2>1. n - 1 \in 1 .. Len(Tail(s)) /\ (n - 1) + 1 = n
    BY <1>1, <1>4
  <2> QED BY <2>1, <1>1
<1> QED BY <1>1, <1>2, <1>3, <1>4

LEMMA WithFields ==
  ASSUME NEW q, NEW pc, NEW todo, NEW lock, NEW work
  PROVE  /\ With(q, pc, todo, lock, work).pc = pc /\ With(q, pc, todo, lock, work).call = q.call
         /\ With(q, pc, todo, lock, work).todo = todo /\ With(q, pc, todo, lock, work).lock = lock
         /\ With(q, pc, todo, lock, work).work = work
         /\ With(q, pc, todo, lock, work).presets = q.presets /\ With(q, pc, todo, lock, work).ok = q.ok
BY DEF With

LEMMA LocalWith ==
  ASSUME NEW r, NEW q, NEW tbl, NEW ord, NEW done, NEW todo, NEW lock, NEW work,
         Local(r, q, tbl, ord, done), q.pc \in {"wait", "run"},
         Does(r, With(q, "run", todo, lock, work), tbl, ord, done)
  PROVE  Local(r, With(q, "run", todo, lock, work), tbl, ord, done)
BY WithFields DEF Local

LEMMA Now ==
  ASSUME TypeInv, CatalogInv, NEW r \in Requests
  PROVE  /\ req \in [Requests -> Rec] /\ req[r] \in Rec /\ req[r].todo \in Seq(Stmt)
         /\ Local(r, req[r], rows, ordered, Done) /\ Holds(r, req[r]) /\ Unique(r, req[r])
         /\ req[r].pc \in {"wait", "run"} => Does(r, req[r], rows, ordered, Done) /\ req[r].call \in Call
         /\ DOMAIN req[r].lock \subseteq Ids /\ \A i \in DOMAIN req[r].lock : req[r].lock[i] \in Mods
         /\ DOMAIN req[r].work \subseteq Ids /\ \A i \in DOMAIN req[r].work : req[r].work[i] \in Row \cup {None}
<1>1. req \in [Requests -> Rec] /\ req[r] \in Rec
  BY DEF TypeInv
<1>2. Local(r, req[r], rows, ordered, Done) /\ Holds(r, req[r]) /\ Unique(r, req[r])
  BY DEF CatalogInv
<1>3. req[r].pc \in {"wait", "run"} => Does(r, req[r], rows, ordered, Done) /\ req[r].call \in Call
  BY <1>2 DEF Local, Does
<1> QED BY <1>1, <1>2, <1>3, Fields

\* What the statement is of, by what the request asks for.
LEMMA Kinds ==
  ASSUME NEW r, NEW q, NEW tbl, NEW ord, NEW done, Does(r, q, tbl, ord, done),
         q.todo \in Seq(Stmt), q.todo # <<>>
  PROVE  LET op == Head(q.todo).op IN
         /\ q.call.do \in {"ApplyTemplate", "CreateProduct"} => op = "insert"
         /\ q.call.do = "CreatePlan" => op \in {"insert", "lock"}
         /\ q.call.do \in {"UpdateProduct", "UpdatePlan"} => op \in {"lock", "update"}
         /\ q.call.do = "DeletePlan" => op \in {"lock", "delete", "restrict"}
         /\ q.call.do = "DeleteProduct" => op \in {"lock", "delete", "cascade", "restrict"}
         /\ q.call.do = "CreateOrder" => op \in {"read", "lock"}
         /\ q.call.do \in {"ListProducts", "GetProductBySlug", "ListPlansByProductID"} =>
              op \in {"products", "product", "exists", "plans"}
         /\ q.call.do \in {"ApplyTemplate", "CreateProduct", "CreatePlan", "UpdateProduct", "UpdatePlan",
                           "DeleteProduct", "DeletePlan", "CreateOrder", "ListProducts",
                           "GetProductBySlug", "ListPlansByProductID"}
<1> DEFINE h == Head(q.todo)
<1>1. h = q.todo[1] /\ 1 \in 1 .. Len(q.todo)
  BY TailFacts
<1>2. q.call.do \in {"ApplyTemplate", "CreateProduct"} => h.op = "insert"
  BY <1>1 DEF Does, Adds
<1>3. q.call.do = "CreatePlan" => h.op \in {"insert", "lock"}
  <2>1. q.call.do = "CreatePlan" =>
          h \in {Insert(<<r, 1>>, q.call.row), Lock(q.call.row.product, "share")}
    BY DEF Does, AddsPlan
  <2> HIDE DEF h
  <2> QED BY <2>1 DEF Insert, Lock
<1>4. q.call.do \in {"UpdateProduct", "UpdatePlan"} => h.op \in {"lock", "update"}
  <2>1. q.call.do \in {"UpdateProduct", "UpdatePlan"} =>
          h \in {Lock(q.call.new.id, "update"), Update(q.call.new)}
    BY DEF Does, Changes
  <2> HIDE DEF h
  <2> QED BY <2>1 DEF Update, Lock
<1>5. q.call.do = "DeletePlan" => h.op \in {"lock", "delete", "restrict"}
  <2>1. q.call.do = "DeletePlan" =>
          h \in {Lock(q.call.id, "key"), Delete(q.call.id), Restricted}
    BY DEF Does, Deletes, DeletesPlan
  <2> HIDE DEF h
  <2> QED BY <2>1 DEF Delete, Lock, Restricted
<1>6. q.call.do = "DeleteProduct" => h.op \in {"lock", "delete", "cascade", "restrict"}
  <2>1. q.call.do = "DeleteProduct" =>
          \/ h \in {Cascade(q.call.id), Restricted}
          \/ \E i : h \in {Lock(i, "key"), Delete(i)}
    BY DEF Does, Deletes, DeletesProduct
  <2> HIDE DEF h
  <2> QED BY <2>1 DEF Delete, Lock, Restricted, Cascade
<1>7. q.call.do = "CreateOrder" => h.op \in {"read", "lock"}
  <2>1. q.call.do = "CreateOrder" => \E i \in PlanIds : h \in {Read(i), Lock(i, "share")}
    BY <1>1 DEF Does, Orders
  <2> HIDE DEF h
  <2> QED BY <2>1 DEF Read, Lock
<1>8. q.call.do \in {"ListProducts", "GetProductBySlug", "ListPlansByProductID"} =>
        h.op \in {"products", "product", "exists", "plans"}
  BY <1>1 DEF Does, Looks
<1>9. q.call \in Call
  BY DEF Does
<1> QED BY <1>2, <1>3, <1>4, <1>5, <1>6, <1>7, <1>8, <1>9, CallFields

\* What a request has written it has inserted, or holds.
LEMMA Written ==
  ASSUME TypeInv, CatalogInv, NEW o \in Requests, NEW i \in DOMAIN req[o].work
  PROVE  \/ i \in Own(o) /\ rows[i] = None
         \/ i \in DOMAIN req[o].lock /\ req[o].lock[i] # "share" /\ rows[i] # None
<1>1. /\ Local(o, req[o], rows, ordered, Done) /\ Holds(o, req[o])
      /\ req[o].pc \in {"wait", "run"} => Does(o, req[o], rows, ordered, Done) /\ req[o].call \in Call
  BY Now
<1>2. req[o].pc \in {"wait", "run"}
  BY <1>1, Nothing DEF Local
<1>3. \A j \in Own(o) : rows[j] = None
  BY <1>2 DEF CatalogInv, IdsKept
<1>4. req[o].work # NoRows
  BY Nothing
<1> DEFINE q == req[o]
<1>5. Does(o, q, rows, ordered, Done) /\ i \in DOMAIN q.work /\ q.work # NoRows /\ q.call \in Call
  BY <1>1, <1>2, <1>4
<1> HIDE DEF q
<1>6. i \in Own(o) \/ (i \in DOMAIN q.lock /\ q.lock[i] # "share")
  <2>1. CASE q.call.do \in {"ApplyTemplate", "CreateProduct"}
    BY <2>1, <1>5 DEF Does, Adds, OwnRow
  <2>2. CASE q.call.do = "CreatePlan"
    <3>1. i = <<o, 1>>
      BY <2>2, <1>5 DEF Does, AddsPlan
    <3>2. 1 \in 0 .. MaxPresets
      BY CatalogAssumption
    <3> QED BY <3>1, <3>2 DEF Own
  <2>3. CASE q.call.do \in {"UpdateProduct", "UpdatePlan"}
    BY <2>3, <1>5 DEF Does, Changes
  <2>4. CASE q.call.do \in {"DeleteProduct", "DeletePlan"}
    BY <2>4, <1>5 DEF Does, Deletes
  <2>5. CASE q.call.do = "CreateOrder"
    BY <2>5, <1>5 DEF Does, Orders
  <2>6. CASE q.call.do \in {"ListProducts", "GetProductBySlug", "ListPlansByProductID"}
    BY <2>6, <1>5 DEF Does, Looks
  <2> QED BY <2>1, <2>2, <2>3, <2>4, <2>5, <2>6, <1>5, CallFields
<1> QED BY <1>1, <1>3, <1>6 DEF q, Holds

-----------------------------------------------------------------------------
(* The steps, one by one                                                   *)

LEMMA EndSteps ==
  ASSUME TypeInv, CatalogInv, NEW r \in Requests, Cancel(r) \/ Deadlocked(r)
  PROVE  TypeInv' /\ CatalogInv'
<1>1. End(r) /\ UNCHANGED Tables
  BY DEF Cancel, Deadlocked
<1>2. req[r].pc \in {"wait", "run"}
  BY DEF Cancel, Deadlocked, Ready, Blocks
<1> QED BY <1>1, <1>2, EndStep

LEMMA AcquireSteps ==
  ASSUME TypeInv, CatalogInv, NEW r \in Requests, Acquire(r)
  PROVE  TypeInv' /\ CatalogInv'
<1> DEFINE q == req[r]
           p == With(q, "run", q.todo, q.lock, q.work)
<1>1. q.pc = "wait" /\ UNCHANGED Tables /\ Runs(r)
  BY DEF Acquire, Runs
<1>2. req' = [req EXCEPT ![r] = p]
  BY <1>1, Now, NewPc
<1>3. p.call = q.call /\ p.todo = q.todo /\ p.lock = q.lock /\ p.work = q.work /\ p.presets = q.presets
  BY WithFields
<1>4. Does(r, q, rows, ordered, Done)
  BY <1>1, Now
<1>5. Does(r, p, rows, ordered, Done)
  <2> HIDE DEF p, q
  <2>1. Adds(r, q) => Adds(r, p)
    BY <1>3 DEF Adds
  <2>2. AddsPlan(r, q) => AddsPlan(r, p)
    BY <1>3 DEF AddsPlan
  <2>3. Changes(q, rows) => Changes(p, rows)
    BY <1>3 DEF Changes
  <2>4. DeletesPlan(q) => DeletesPlan(p)
    BY <1>3 DEF DeletesPlan
  <2>5. \A i : Met(q, i, rows, Done) => Met(p, i, rows, Done)
    BY <1>3 DEF Met
  <2>6. DeletesProduct(q, rows, Done) => DeletesProduct(p, rows, Done)
    BY <1>3, <2>5 DEF DeletesProduct
  <2>7. Deletes(q, rows, ordered, Done) => Deletes(p, rows, ordered, Done)
    BY <1>3, <2>4, <2>6 DEF Deletes
  <2>8. Orders(q) => Orders(p)
    BY <1>3 DEF Orders
  <2>9. Looks(q) => Looks(p)
    BY <1>3 DEF Looks
  <2> QED BY <1>3, <1>4, <2>1, <2>2, <2>3, <2>7, <2>8, <2>9 DEF Does
<1>6. Local(r, p, rows, ordered, Done)
  BY <1>1, <1>5, Now, LocalWith
<1> QED BY <1>1, <1>2, <1>6, Now, GoStep

\* The same lists without their first statement.
LEMMA OneLess ==
  ASSUME NEW r, NEW q \in Rec, NEW tbl, NEW ord, NEW done, Does(r, q, tbl, ord, done), q.todo # <<>>,
         Head(q.todo).op \in {"read", "products", "product", "exists", "plans"}
  PROVE  Does(r, With(q, "run", Tail(q.todo), q.lock, q.work), tbl, ord, done)
<1> DEFINE p == With(q, "run", Tail(q.todo), q.lock, q.work)
<1>1. p.call = q.call /\ p.todo = Tail(q.todo) /\ p.lock = q.lock /\ p.work = q.work /\ p.presets = q.presets
  BY WithFields
<1>2. q.todo \in Seq(Stmt)
  BY Fields
<1> HIDE DEF p
<1>3. q.call \in Call
  BY DEF Does
<1>4. CASE q.call.do = "CreateOrder"
  <2>1. Orders(q)
    BY <1>4 DEF Does
  <2>2. \A n \in 1 .. Len(p.todo) : \E i \in PlanIds : p.todo[n] \in {Read(i), Lock(i, "share")}
    BY <2>1, <1>1, <1>2, TailFacts DEF Orders
  <2>3. \A i : Head(q.todo) # Lock(i, "share")
    BY DEF Lock
  <2>4. ASSUME NEW n \in 1 .. Len(q.call.plans)
        PROVE  \/ q.call.plans[n] \in DOMAIN q.lock
               \/ \E m \in 1 .. Len(p.todo) : p.todo[m] = Lock(q.call.plans[n], "share")
    <3>1. ASSUME NEW m \in 1 .. Len(q.todo), q.todo[m] = Lock(q.call.plans[n], "share")
          PROVE  \E k \in 1 .. Len(p.todo) : p.todo[k] = Lock(q.call.plans[n], "share")
      <4>1. m # 1
        BY <2>3, <3>1, <1>2, TailFacts
      <4>2. m - 1 \in 1 .. Len(p.todo) /\ p.todo[m - 1] = q.todo[m]
        BY <4>1, <1>1, <1>2, TailFacts
      <4> QED BY <3>1, <4>2
    <3> QED BY <2>1, <3>1 DEF Orders
  <2>5. Orders(p)
    BY <1>1, <2>1, <2>2, <2>4 DEF Orders
  <2>6. Does(r, p, tbl, ord, done)
    BY <1>1, <1>3, <1>4, <2>5 DEF Does
  <2> QED BY <2>6 DEF p
<1>5. CASE q.call.do \in {"ListProducts", "GetProductBySlug", "ListPlansByProductID"}
  <2>1. Looks(q)
    BY <1>5 DEF Does
  <2>2. Looks(p)
    BY <2>1, <1>1, <1>2, TailFacts DEF Looks
  <2>3. Does(r, p, tbl, ord, done)
    BY <1>1, <1>3, <1>5, <2>2 DEF Does
  <2> QED BY <2>3 DEF p
<1> QED BY <1>2, <1>4, <1>5, Kinds

LEMMA LookSteps ==
  ASSUME TypeInv, CatalogInv, NEW r \in Requests, ReadPlan(r) \/ FindProduct(r) \/ ListPlans(r)
  PROVE  TypeInv' /\ CatalogInv'
<1> DEFINE q == req[r]
           p == With(q, "run", Tail(q.todo), q.lock, q.work)
<1>1. /\ q.pc = "run" /\ UNCHANGED Tables /\ q.todo # <<>>
      /\ End(r) \/ Goes(r, Tail(q.todo))
      /\ Head(q.todo).op \in {"read", "product", "exists", "plans"}
  <2>1. CASE ReadPlan(r)
    BY <2>1 DEF ReadPlan, At, Goes
  <2>2. CASE FindProduct(r)
    BY <2>2 DEF FindProduct, Goes
  <2>3. CASE ListPlans(r)
    BY <2>3 DEF ListPlans, At, Goes
  <2> QED BY <2>1, <2>2, <2>3
<1>2. CASE End(r)
  BY <1>1, <1>2, EndStep
<1>3. CASE Goes(r, Tail(q.todo))
  <2>1. req' = [req EXCEPT ![r] = With(req[r], req[r].pc, Tail(q.todo), req[r].lock, req[r].work)]
    BY <1>3, Now, NewTodo
  <2>2. req' = [req EXCEPT ![r] = p]
    BY <1>1, <2>1
  <2>3. Does(r, p, rows, ordered, Done)
    BY <1>1, Now, OneLess
  <2>4. Local(r, p, rows, ordered, Done)
    BY <1>1, <2>3, Now, LocalWith
  <2>5. Tail(q.todo) \in Seq(Stmt)
    BY <1>1, Now, TailFacts
  <2> QED BY <1>1, <2>2, <2>4, <2>5, GoStep
<1> QED BY <1>1, <1>2, <1>3

LEMMA IdsFinite == IsFiniteSet(Ids)
<1>1. IsFiniteSet(StartIds) /\ IsFiniteSet(Requests) /\ MaxPresets \in Nat
  BY CatalogAssumption
<1>2. IsFiniteSet({0}) /\ IsFiniteSet(1 .. MaxPresets)
  <2>1. 1 \in Int /\ MaxPresets \in Int
    BY <1>1
  <2>2. IsFiniteSet(1 .. MaxPresets)
    BY <2>1, FS_Interval, Zenon
  <2> QED BY <2>2, FS_Singleton
<1>3. IsFiniteSet(Requests \X {0}) /\ IsFiniteSet(Requests \X (1 .. MaxPresets))
  BY <1>1, <1>2, FS_Product
<1> DEFINE a == {i \in StartIds : StartRows[i].kind = "product"}
           b == {i \in StartIds : StartRows[i].kind = "plan"}
<1>4. IsFiniteSet(a) /\ IsFiniteSet(b)
  BY <1>1, FS_Subset
<1>5. ProductIds = a \cup (Requests \X {0}) /\ PlanIds = b \cup (Requests \X (1 .. MaxPresets))
  BY DEF ProductIds, PlanIds
<1> HIDE DEF a, b
<1>6. IsFiniteSet(ProductIds) /\ IsFiniteSet(PlanIds)
  BY <1>3, <1>4, <1>5, FS_Union
<1> QED BY <1>6, FS_Union DEF Ids

LEMMA ListProductsSteps ==
  ASSUME TypeInv, CatalogInv, NEW r \in Requests, ListProducts(r)
  PROVE  TypeInv' /\ CatalogInv'
<1> DEFINE q == req[r]
           N == Cardinality({i \in Ids : OnSale(i)})
           todo == [n \in 1 .. N |-> Plans]
           p == With(q, "run", todo, q.lock, q.work)
<1>1. q.pc = "run" /\ UNCHANGED Tables /\ q.todo # <<>> /\ Goes(r, todo) /\ Head(q.todo).op = "products"
  BY DEF ListProducts, At, Goes
<1>2. N \in Nat
  <2>1. IsFiniteSet({i \in Ids : OnSale(i)})
    BY IdsFinite, FS_Subset
  <2> QED BY <2>1, FS_CardinalityType
<1> HIDE DEF N
<1>3. Plans \in Stmt /\ Plans.op = "plans"
  BY DEF Plans, Stmt
<1>4. todo \in Seq(Stmt) /\ \A n \in 1 .. Len(todo) : todo[n] = Plans
  BY <1>2, <1>3
<1> HIDE DEF todo
<1>5. req' = [req EXCEPT ![r] = p]
  <2>1. req' = [req EXCEPT ![r] = With(req[r], req[r].pc, todo, req[r].lock, req[r].work)]
    BY <1>1, Now, NewTodo
  <2> QED BY <1>1, <2>1
<1>6. /\ q \in Rec /\ Does(r, q, rows, ordered, Done) /\ q.todo \in Seq(Stmt) /\ q.call \in Call
      /\ Local(r, q, rows, ordered, Done)
  BY <1>1, Now
<1>7. Does(r, p, rows, ordered, Done)
  <2>1. p.call = q.call /\ p.todo = todo /\ p.lock = q.lock /\ p.work = q.work
    BY WithFields
  <2> HIDE DEF p, q
  <2>2. q.call.do \in {"ListProducts", "GetProductBySlug", "ListPlansByProductID"}
    BY <1>1, <1>6, Kinds
  <2>3. Looks(p)
    BY <1>3, <1>4, <1>6, <2>1, <2>2 DEF Does, Looks
  <2> QED BY <1>6, <2>1, <2>2, <2>3 DEF Does
<1>8. Local(r, p, rows, ordered, Done)
  BY <1>1, <1>6, <1>7, LocalWith
<1> QED BY <1>1, <1>4, <1>5, <1>8, GoStep

\* A lock that is taken is of a row that is there, which the request has not written.
LEMMA Lockable ==
  ASSUME TypeInv, CatalogInv, NEW r \in Requests, req[r].pc = "run", req[r].todo # <<>>,
         Head(req[r].todo).op = "lock"
  PROVE  LET s == Head(req[r].todo) IN
         /\ s.id \in Ids \ DOMAIN req[r].work
         /\ s.mode = "key" /\ req[r].work # NoRows =>
              /\ req[r].call.do = "DeleteProduct" /\ req[r].call.id \in DOMAIN req[r].work
              /\ \E i \in PlanIds :
                   req[r].todo = <<Lock(i, "key"), Delete(i), Cascade(req[r].call.id), Restricted>>
<1> DEFINE q == req[r]
           s == Head(req[r].todo)
<1>1. /\ Does(r, q, rows, ordered, Done) /\ q.todo \in Seq(Stmt) /\ q.call \in Call
      /\ q.todo # <<>> /\ s = Head(q.todo) /\ s.op = "lock"
      /\ s \in Stmt /\ s = q.todo[1] /\ 1 \in 1 .. Len(q.todo)
  BY Now, TailFacts
<1> HIDE DEF q, s
<1>2. s.id \in Ids
  BY <1>1 DEF Stmt
<1>3. DOMAIN NoRows = {}
  BY Nothing
<1>4. CASE q.call.do = "CreatePlan"
  <2>1. AddsPlan(r, q)
    BY <1>1, <1>4 DEF Does
  <2>2. s.op # Insert(<<r, 1>>, q.call.row).op
    BY <1>1 DEF Insert
  <2>3. DOMAIN q.work = {<<r, 1>>} /\ s = Lock(q.call.row.product, "share")
    BY <1>1, <2>1, <2>2 DEF AddsPlan
  <2>4. q.call.row.product \in ProductIds
    BY <1>1, <1>4, CallFields, RowFields
  <2>5. s.id = q.call.row.product /\ s.mode = "share"
    BY <2>3 DEF Lock
  <2> QED BY <1>2, <2>3, <2>4, <2>5, IdsApart DEF q, s
<1>5. CASE q.call.do \in {"UpdateProduct", "UpdatePlan"}
  <2>1. Changes(q, rows)
    BY <1>1, <1>5 DEF Does
  <2>2. s.op # Update(q.call.new).op
    BY <1>1 DEF Update
  <2>3. q.work = NoRows
    BY <1>1, <2>1, <2>2 DEF Changes
  <2> QED BY <1>2, <1>3, <2>3 DEF q, s
<1>6. CASE q.call.do = "DeletePlan"
  <2>1. DeletesPlan(q)
    BY <1>1, <1>6 DEF Does, Deletes
  <2>2. s.op # Restricted.op
    BY <1>1 DEF Restricted
  <2>3. q.work = NoRows
    BY <1>1, <2>1, <2>2 DEF DeletesPlan
  <2> QED BY <1>2, <1>3, <2>3 DEF q, s
<1>7. CASE q.call.do = "DeleteProduct"
  <2>1. DeletesProduct(q, rows, Done)
    BY <1>1, <1>7 DEF Does, Deletes
  <2>2. s.op # Restricted.op /\ s.op # Cascade(q.call.id).op /\ \A i : s.op # Delete(i).op
    BY <1>1 DEF Restricted, Cascade, Delete
  <2>3. CASE q.work = NoRows
    BY <1>2, <1>3, <2>3 DEF q, s
  <2>4. CASE q.work # NoRows
    <3>1. /\ q.call.id \in DOMAIN q.work
          /\ \E i \in PlanIds :
               /\ Met(q, i, rows, Done)
               /\ q.todo = <<Lock(i, "key"), Delete(i), Cascade(q.call.id), Restricted>>
      BY <1>1, <2>1, <2>2, <2>4 DEF DeletesProduct
    <3>2. PICK i \in PlanIds :
            /\ Met(q, i, rows, Done)
            /\ q.todo = <<Lock(i, "key"), Delete(i), Cascade(q.call.id), Restricted>>
      BY <3>1
    <3>3. s.id = i
      BY <1>1, <3>2 DEF Lock
    <3> QED BY <1>2, <1>7, <3>1, <3>2, <3>3 DEF Met, q, s
  <2> QED BY <2>3, <2>4
<1>8. CASE q.call.do = "CreateOrder"
  <2>1. q.work = NoRows
    BY <1>1, <1>8 DEF Does, Orders
  <2> QED BY <1>2, <1>3, <2>1 DEF q, s
<1> QED BY <1>1, <1>4, <1>5, <1>6, <1>7, <1>8, Kinds

\* With the lock the request is where its list says.
LEMMA LockDone ==
  ASSUME TypeInv, CatalogInv, NEW r \in Requests, req[r].pc = "run", req[r].todo # <<>>,
         Head(req[r].todo).op = "lock", NEW lock, NEW mode \in Mods,
         lock = [i \in DOMAIN req[r].lock \cup {Head(req[r].todo).id} |->
                   IF i = Head(req[r].todo).id THEN mode ELSE req[r].lock[i]],
         Head(req[r].todo).mode = "update" => mode # "share",
         Head(req[r].todo).mode = "key" => mode = "key"
  PROVE  Does(r, With(req[r], "run", Tail(req[r].todo), lock, req[r].work), rows, ordered, Done)
<1> DEFINE q == req[r]
           s == Head(q.todo)
           p == With(q, "run", Tail(q.todo), lock, q.work)
<1>1. /\ Does(r, q, rows, ordered, Done) /\ q.todo \in Seq(Stmt) /\ q.call \in Call
      /\ q.todo # <<>> /\ s.op = "lock" /\ s \in Stmt /\ s = q.todo[1] /\ 1 \in 1 .. Len(q.todo)
  BY Now, TailFacts
<1>2. p.call = q.call /\ p.todo = Tail(q.todo) /\ p.lock = lock /\ p.work = q.work /\ p.presets = q.presets
  BY WithFields
<1>3. /\ lock = [i \in DOMAIN q.lock \cup {s.id} |-> IF i = s.id THEN mode ELSE q.lock[i]]
      /\ s.mode = "update" => mode # "share"
      /\ s.mode = "key" => mode = "key"
  OBVIOUS
<1> SUFFICES Does(r, p, rows, ordered, Done)
  OBVIOUS
<1> HIDE DEF p
<1>q. s = Head(q.todo)
  OBVIOUS
<1> HIDE DEF q, s
<1>d. /\ DOMAIN lock = DOMAIN q.lock \cup {s.id} /\ lock[s.id] = mode
      /\ \A i \in DOMAIN q.lock : i # s.id => lock[i] = q.lock[i]
  BY <1>3
<1>4. CASE q.call.do = "CreatePlan"
  <2>1. AddsPlan(r, q)
    BY <1>1, <1>4 DEF Does
  <2>2. s.op # Insert(<<r, 1>>, q.call.row).op
    BY <1>1 DEF Insert
  <2>3. /\ DOMAIN q.work = {<<r, 1>>} /\ q.work[<<r, 1>>] = q.call.row
        /\ q.todo = <<Lock(q.call.row.product, "share")>>
    BY <1>q, <2>1, <2>2, <1>1 DEF AddsPlan
  <2>4. s.id = q.call.row.product /\ p.todo = <<>>
    BY <1>2, <1>q, <2>3 DEF Lock
  <2>5. AddsPlan(r, p)
    BY <1>2, <1>d, <2>3, <2>4 DEF AddsPlan
  <2> QED BY <1>1, <1>2, <1>4, <2>5 DEF Does
<1>5. CASE q.call.do \in {"UpdateProduct", "UpdatePlan"}
  <2>1. Changes(q, rows)
    BY <1>1, <1>5 DEF Does
  <2>2. s.op # Update(q.call.new).op
    BY <1>1 DEF Update
  <2>3. /\ q.todo = <<Lock(q.call.new.id, "update"), Update(q.call.new)>> /\ q.lock = NoLocks
        /\ q.work = NoRows
    BY <1>1, <1>q, <2>1, <2>2 DEF Changes
  <2>4. s.id = q.call.new.id /\ s.mode = "update" /\ p.todo = <<Update(q.call.new)>>
    BY <1>2, <1>q, <2>3 DEF Lock
  <2>5. Changes(p, rows)
    BY <1>2, <1>3, <1>d, <2>3, <2>4, Nothing DEF Changes
  <2> QED BY <1>1, <1>2, <1>5, <2>5 DEF Does
<1>6. CASE q.call.do \in {"DeletePlan", "DeleteProduct"}
  <2>1. Deletes(q, rows, ordered, Done)
    BY <1>1, <1>6 DEF Does
  <2>2. s.op # Restricted.op /\ s.op # Cascade(q.call.id).op /\ \A i : s.op # Delete(i).op
    BY <1>1 DEF Restricted, Cascade, Delete
  <2>3. ASSUME q.call.do = "DeletePlan"
        PROVE  s.mode = "key" /\ p.todo # <<>> /\ DeletesPlan(p)
    <3>1. q.todo = <<Lock(q.call.id, "key"), Delete(q.call.id), Restricted>> /\ q.work = NoRows
      BY <1>1, <1>q, <2>1, <2>2, <2>3 DEF Deletes, DeletesPlan
    <3>2. s.id = q.call.id /\ s.mode = "key" /\ p.todo = <<Delete(q.call.id), Restricted>>
      BY <1>2, <1>q, <3>1 DEF Lock
    <3> QED BY <1>2, <1>d, <3>1, <3>2 DEF DeletesPlan
  <2>4. ASSUME q.call.do = "DeleteProduct"
        PROVE  s.mode = "key" /\ p.todo # <<>> /\ DeletesProduct(p, rows, Done)
    <3>1. DeletesProduct(q, rows, Done)
      BY <2>1, <2>4 DEF Deletes
    <3>2. CASE /\ q.todo = <<Lock(q.call.id, "key"), Delete(q.call.id), Cascade(q.call.id), Restricted>>
               /\ q.work = NoRows
      <4>1. /\ s.id = q.call.id /\ s.mode = "key"
            /\ p.todo = <<Delete(q.call.id), Cascade(q.call.id), Restricted>>
        BY <1>2, <1>q, <3>2 DEF Lock
      <4> QED BY <1>2, <1>d, <3>2, <4>1 DEF DeletesProduct
    <3>3. CASE /\ q.call.id \in DOMAIN q.work
               /\ \E i \in PlanIds : /\ Met(q, i, rows, Done)
                                     /\ q.todo = <<Lock(i, "key"), Delete(i), Cascade(q.call.id), Restricted>>
      <4>1. PICK i \in PlanIds : /\ Met(q, i, rows, Done)
                                 /\ q.todo = <<Lock(i, "key"), Delete(i), Cascade(q.call.id), Restricted>>
        BY <3>3
      <4>2. s.id = i /\ s.mode = "key" /\ p.todo = <<Delete(i), Cascade(q.call.id), Restricted>>
        BY <1>2, <1>q, <4>1 DEF Lock
      <4>3. Met(p, i, rows, Done)
        BY <1>2, <4>1 DEF Met
      <4>4. i \in DOMAIN p.lock /\ q.call.id \in DOMAIN p.work
        BY <1>2, <1>d, <3>3, <4>2
      <4>5. p.call.id = q.call.id /\ p.todo # <<>>
        <5>1. \A a, b, c : <<a, b, c>> # <<>>
          BY Heads
        <5>2. p.todo # <<>>
          BY <4>2, <5>1
        <5>3. p.call.id = q.call.id
          BY <1>2
        <5> QED BY <5>2, <5>3
      <4>6. DeletesProduct(p, rows, Done)
        BY <4>2, <4>3, <4>4, <4>5 DEF DeletesProduct
      <4> QED BY <4>2, <4>5, <4>6
    <3>4. \A x : q.todo # <<Restricted>> /\ q.todo # <<>> /\ q.todo # <<Cascade(q.call.id), Restricted>>
                  /\ q.todo # <<Delete(x), Cascade(q.call.id), Restricted>>
      BY <1>1, <1>q, <2>2
    <3>5. \/ /\ q.todo = <<Lock(q.call.id, "key"), Delete(q.call.id), Cascade(q.call.id), Restricted>>
             /\ q.work = NoRows
          \/ /\ q.call.id \in DOMAIN q.work
             /\ \E i \in PlanIds : /\ Met(q, i, rows, Done)
                                   /\ q.todo = <<Lock(i, "key"), Delete(i), Cascade(q.call.id), Restricted>>
      BY <3>1, <3>4 DEF DeletesProduct
    <3> QED BY <3>2, <3>3, <3>5
  <2>5. s.mode = "key" /\ p.todo # <<>>
    <3>1. CASE q.call.do = "DeletePlan"
      BY <2>3, <3>1
    <3>2. CASE q.call.do = "DeleteProduct"
      BY <2>4, <3>2
    <3> QED BY <1>6, <3>1, <3>2
  <2>6. \A i \in DOMAIN p.lock : p.lock[i] = "key"
    BY <1>2, <1>3, <1>d, <2>1, <2>5 DEF Deletes
  <2>7. \A i \in DOMAIN p.work :
          /\ p.work[i] = None /\ i \in DOMAIN p.lock
          /\ i = p.call.id \/ (i \in PlanIds /\ rows[i].product = p.call.id)
    BY <1>2, <1>d, <2>1 DEF Deletes
  <2>8. Deletes(p, rows, ordered, Done)
    BY <1>2, <2>3, <2>4, <2>5, <2>6, <2>7 DEF Deletes
  <2> QED BY <1>1, <1>2, <1>6, <2>8 DEF Does
<1>7. CASE q.call.do = "CreateOrder"
  <2>1. Orders(q)
    BY <1>1, <1>7 DEF Does
  <2>2. \A n \in 1 .. Len(p.todo) : \E i \in PlanIds : p.todo[n] \in {Read(i), Lock(i, "share")}
    BY <2>1, <1>1, <1>2, TailFacts DEF Orders
  <2>3. ASSUME NEW n \in 1 .. Len(q.call.plans)
        PROVE  \/ q.call.plans[n] \in DOMAIN lock
               \/ \E m \in 1 .. Len(p.todo) : p.todo[m] = Lock(q.call.plans[n], "share")
    <3>1. ASSUME NEW m \in 1 .. Len(q.todo), q.todo[m] = Lock(q.call.plans[n], "share")
          PROVE  \/ q.call.plans[n] \in DOMAIN lock
                 \/ \E k \in 1 .. Len(p.todo) : p.todo[k] = Lock(q.call.plans[n], "share")
      <4>1. CASE m = 1
        <5>1. s.id = q.call.plans[n]
          BY <1>1, <3>1, <4>1 DEF Lock
        <5> QED BY <5>1, <1>d
      <4>2. CASE m # 1
        <5>1. m - 1 \in 1 .. Len(p.todo) /\ p.todo[m - 1] = q.todo[m]
          BY <4>2, <1>1, <1>2, TailFacts
        <5> QED BY <5>1, <3>1
      <4> QED BY <4>1, <4>2
    <3> QED BY <1>d, <2>1, <3>1 DEF Orders
  <2>4. Orders(p)
    BY <1>2, <2>1, <2>2, <2>3 DEF Orders
  <2> QED BY <1>1, <1>2, <1>7, <2>4 DEF Does
<1> QED BY <1>1, <1>q, <1>4, <1>5, <1>6, <1>7, Kinds

LEMMA LockSteps ==
  ASSUME TypeInv, CatalogInv, NEW r \in Requests, TakeLock(r)
  PROVE  TypeInv' /\ CatalogInv'
<1> DEFINE q == req[r]
           s == Head(req[r].todo)
<1>1. q.pc = "run" /\ UNCHANGED Tables /\ q.todo # <<>> /\ s.op = "lock" /\ Ready(r)
  BY DEF TakeLock, At
<1>2. s.id \in Ids \ DOMAIN q.work
  BY <1>1, Lockable
<1>3. Visible(r, s.id) = rows[s.id]
  BY <1>2 DEF Visible
<1>4. q.todo \in Seq(Stmt) /\ s \in Stmt /\ Tail(q.todo) \in Seq(Stmt)
  BY <1>1, Now, TailFacts
<1>5. CASE rows[s.id] # None
  <2> DEFINE mode == Mode(r)
             lock == [i \in DOMAIN q.lock \cup {s.id} |-> IF i = s.id THEN mode ELSE q.lock[i]]
             p == With(q, "run", Tail(q.todo), lock, q.work)
  <2>1. /\ mode \in Mods
        /\ s.mode = "update" => mode # "share"
        /\ s.mode = "key" => mode = "key"
    <3>1. s.mode \in {"share", "update", "key"}
      BY <1>1, <1>4 DEF Stmt
    <3> QED BY <3>1 DEF Mode, Mods
  <2>2. \A o \in Requests : o # r /\ s.id \in DOMAIN req[o].lock => ~Conflict(mode, req[o].lock[s.id])
    BY <1>1 DEF Ready, Blocks
  <2>3. Takes(r, Tail(q.todo), lock)
    BY <1>3, <1>5 DEF TakeLock, Takes
  <2> HIDE DEF mode
  <2>4. lock = [i \in DOMAIN q.lock \cup {s.id} |-> IF i = s.id THEN mode ELSE q.lock[i]]
    OBVIOUS
  <2> HIDE DEF lock
  <2>5. req' = [req EXCEPT ![r] = p]
    <3>1. req' = [req EXCEPT ![r] = With(req[r], req[r].pc, Tail(q.todo), lock, req[r].work)]
      BY <2>3, Now, NewLock
    <3> QED BY <1>1, <3>1
  <2>6. Does(r, p, rows, ordered, Done)
    BY <1>1, <2>1, <2>4, LockDone
  <2>7. Local(r, p, rows, ordered, Done)
    BY <1>1, <2>6, Now, LocalWith
  <2> QED BY <1>1, <1>2, <1>4, <1>5, <2>1, <2>2, <2>4, <2>5, <2>7, LockStep
<1>6. CASE rows[s.id] = None /\ s.mode = "key" /\ q.work # NoRows
  <2>1. q.call.do = "DeleteProduct" /\ q.call.id \in DOMAIN q.work
    BY <1>1, <1>6, Lockable
  <2>2. PICK i \in PlanIds : q.todo = <<Lock(i, "key"), Delete(i), Cascade(q.call.id), Restricted>>
    BY <1>1, <1>6, Lockable
  <2> DEFINE todo == <<Cascade(q.call.id), Restricted>>
             p == With(q, "run", todo, q.lock, q.work)
  <2>3. Goes(r, todo)
    <3>1. req' = [req EXCEPT ![r].todo = SubSeq(req[r].todo, 3, Len(req[r].todo))]
      BY <1>3, <1>6, Now DEF TakeLock
    <3>2. SubSeq(req[r].todo, 3, Len(req[r].todo)) = todo
      <4> DEFINE x == Lock(i, "key")
                 y == Delete(i)
                 z == Cascade(q.call.id)
                 u == Restricted
      <4>1. req[r].todo = <<x, y, z, u>> /\ todo = <<z, u>>
        BY <2>2
      <4> HIDE DEF x, y, z, u, todo
      <4>2. SubSeq(<<x, y, z, u>>, 3, Len(<<x, y, z, u>>)) = <<z, u>>
        BY Third
      <4> QED BY <4>1, <4>2
    <3> QED BY <3>1, <3>2 DEF Goes
  <2>4. req' = [req EXCEPT ![r] = p]
    <3> HIDE DEF todo
    <3>1. req' = [req EXCEPT ![r] = With(req[r], req[r].pc, todo, req[r].lock, req[r].work)]
      BY <2>3, Now, NewTodo
    <3> QED BY <1>1, <3>1
  <2>5. todo \in Seq(Stmt) /\ todo # <<>>
    <3>1. q.call.id \in Ids
      BY <2>1, Now
    <3>2. Cascade(q.call.id) \in Stmt /\ Restricted \in Stmt
      BY <3>1 DEF Cascade, Restricted, Stmt
    <3> QED BY <3>2
  <2>6. Does(r, p, rows, ordered, Done)
    <3>1. p.call = q.call /\ p.todo = todo /\ p.lock = q.lock /\ p.work = q.work
      BY WithFields
    <3>2. Deletes(q, rows, ordered, Done) /\ q.call \in Call
      BY <1>1, <2>1, Now DEF Does
    <3> HIDE DEF p, q
    <3>3. DeletesProduct(p, rows, Done)
      BY <2>1, <3>1 DEF DeletesProduct
    <3>4. p.todo # <<>>
      BY <2>5, <3>1
    <3> HIDE DEF todo
    <3>5. Deletes(p, rows, ordered, Done)
      BY <2>1, <3>1, <3>2, <3>3, <3>4 DEF Deletes
    <3> QED BY <2>1, <3>1, <3>2, <3>5 DEF Does
  <2>7. Local(r, p, rows, ordered, Done)
    BY <1>1, <2>6, Now, LocalWith
  <2> HIDE DEF todo
  <2> QED BY <1>1, <2>4, <2>5, <2>7, GoStep
<1>7. CASE rows[s.id] = None /\ ~(s.mode = "key" /\ q.work # NoRows)
  <2>1. End(r)
    BY <1>3, <1>7 DEF TakeLock
  <2> QED BY <1>1, <2>1, EndStep
<1> QED BY <1>5, <1>6, <1>7

\* What a request writes is apart from what the others have written, unless the
\* slug is taken; so is a row it holds with the slug it has.
LEMMA InsertSteps ==
  ASSUME TypeInv, CatalogInv, NEW r \in Requests, InsertRow(r)
  PROVE  TypeInv' /\ CatalogInv'
<1> DEFINE q == req[r]
           s == Head(req[r].todo)
           work == [i \in DOMAIN q.work \cup {s.id} |-> IF i = s.id THEN s.row ELSE q.work[i]]
           p == With(q, "run", Tail(q.todo), q.lock, work)
<1>1. /\ q.pc = "run" /\ UNCHANGED Tables /\ q.todo # <<>> /\ s.op = "insert" /\ Ready(r)
      /\ WriteUnique(r, s.id, s.row)
  BY DEF InsertRow, At
<1>2. CASE End(r)
  BY <1>1, <1>2, EndStep
<1>3. CASE ~End(r)
  <2>1. /\ \A i \in Ids \ {s.id} : ~SameSlug(Visible(r, i), s.row)
        /\ Write(r, s.id, s.row)
    BY <1>1, <1>3 DEF WriteUnique
  <2>2. /\ Does(r, q, rows, ordered, Done) /\ q.todo \in Seq(Stmt) /\ q.call \in Call
        /\ s \in Stmt /\ s = q.todo[1] /\ 1 \in 1 .. Len(q.todo) /\ Tail(q.todo) \in Seq(Stmt)
    BY <1>1, Now, TailFacts
  <2>3. s.id \in Ids /\ s.row \in Row
    BY <1>1, <2>2 DEF Stmt
  <2>4. \A j \in Ids : j # s.id => ~Same(s.row, Sees(q, j))
    BY <2>1 DEF Same, SameSlug, Visible, Sees
  <2>5. \A o \in Requests : o # r => \A j \in DOMAIN req[o].work : ~Same(s.row, req[o].work[j])
    BY <1>1 DEF Ready, Blocks, Same, SameSlug
  <2>6. req' = [req EXCEPT ![r] = p]
    <3>1. Writes(r, Tail(q.todo), work)
      BY <2>1 DEF Writes, Write
    <3> HIDE DEF work
    <3>2. req' = [req EXCEPT ![r] = With(req[r], req[r].pc, Tail(q.todo), req[r].lock, work)]
      BY <3>1, Now, NewWork
    <3> QED BY <1>1, <3>2
  <2>7. p.call = q.call /\ p.todo = Tail(q.todo) /\ p.lock = q.lock /\ p.work = work /\ p.presets = q.presets
    BY WithFields
  <2>8. DOMAIN work = DOMAIN q.work \cup {s.id} /\ work[s.id] = s.row
        /\ \A i \in DOMAIN q.work : i # s.id => work[i] = q.work[i]
    OBVIOUS
  <2>w. work = [i \in DOMAIN req[r].work \cup {s.id} |-> IF i = s.id THEN s.row ELSE req[r].work[i]]
    OBVIOUS
  <2>s. s = Head(q.todo)
    OBVIOUS
  <2>9. Does(r, p, rows, ordered, Done)
    <3> HIDE DEF p, work, s, q
    <3>1. CASE q.call.do \in {"ApplyTemplate", "CreateProduct"}
      <4>1. Adds(r, q)
        BY <2>2, <3>1 DEF Does
      <4>2. OwnRow(r, s.id, s.row)
        BY <2>2, <4>1 DEF Adds
      <4>3. \A n \in 1 .. Len(p.todo) :
              p.todo[n].op = "insert" /\ OwnRow(r, p.todo[n].id, p.todo[n].row)
        BY <2>2, <2>7, <1>1, <4>1, TailFacts DEF Adds
      <4>4. \A i \in DOMAIN work : OwnRow(r, i, work[i])
        BY <2>8, <4>1, <4>2 DEF Adds
      <4>5. ASSUME NEW k \in 0 .. Len(q.presets)
            PROVE  <<r, k>> \in DOMAIN work \/ \E n \in 1 .. Len(p.todo) : p.todo[n].id = <<r, k>>
        <5>1. CASE <<r, k>> \in DOMAIN q.work
          BY <5>1, <2>8
        <5>2. ASSUME NEW n \in 1 .. Len(q.todo), q.todo[n].id = <<r, k>>
              PROVE  <<r, k>> \in DOMAIN work \/ \E m \in 1 .. Len(p.todo) : p.todo[m].id = <<r, k>>
          <6>1. CASE n = 1
            BY <5>2, <6>1, <2>2, <2>8
          <6>2. CASE n # 1
            <7>1. n - 1 \in 1 .. Len(p.todo) /\ p.todo[n - 1] = q.todo[n]
              BY <6>2, <1>1, <2>2, <2>7, TailFacts
            <7> QED BY <7>1, <5>2
          <6> QED BY <6>1, <6>2
        <5> QED BY <4>1, <5>1, <5>2 DEF Adds
      <4>6. Adds(r, p)
        BY <2>7, <4>1, <4>3, <4>4, <4>5 DEF Adds
      <4> QED BY <2>2, <2>7, <3>1, <4>6 DEF Does
    <3>2. CASE q.call.do = "CreatePlan"
      <4>1. AddsPlan(r, q)
        BY <2>2, <3>2 DEF Does
      <4>2. s.op # Lock(q.call.row.product, "share").op
        BY <1>1 DEF Lock
      <4>3. /\ q.todo = <<Insert(<<r, 1>>, q.call.row), Lock(q.call.row.product, "share")>>
            /\ q.lock = NoLocks /\ q.work = NoRows
        BY <1>1, <2>s, <4>1, <4>2 DEF AddsPlan
      <4>4. s.id = <<r, 1>> /\ s.row = q.call.row /\ p.todo = <<Lock(q.call.row.product, "share")>>
        BY <2>s, <2>7, <4>3 DEF Insert
      <4>5. AddsPlan(r, p)
        BY <2>7, <2>8, <4>3, <4>4, Nothing DEF AddsPlan
      <4> QED BY <2>2, <2>7, <3>2, <4>5 DEF Does
    <3> QED BY <1>1, <2>2, <2>s, <3>1, <3>2, Kinds
  <2>10. Local(r, p, rows, ordered, Done)
    BY <1>1, <2>9, Now, LocalWith
  <2> DEFINE id == s.id
             row == s.row
  <2>11. /\ id \in Ids /\ row \in Row \cup {None} /\ Tail(q.todo) \in Seq(Stmt)
         /\ work = [i \in DOMAIN req[r].work \cup {id} |-> IF i = id THEN row ELSE req[r].work[i]]
         /\ \A j \in Ids : j # id => ~Same(row, Sees(req[r], j))
         /\ \A o \in Requests : o # r => \A j \in DOMAIN req[o].work : ~Same(row, req[o].work[j])
    BY <2>2, <2>3, <2>4, <2>5
  <2> HIDE DEF work, id, row
  <2> QED BY <1>1, <2>6, <2>10, <2>11, WriteStep
<1> QED BY <1>2, <1>3

LEMMA UpdateSteps ==
  ASSUME TypeInv, CatalogInv, NEW r \in Requests, UpdateRow(r)
  PROVE  TypeInv' /\ CatalogInv'
<1> DEFINE q == req[r]
           new == Head(req[r].todo).new
           id == new.id
           row == [rows[id] EXCEPT !.slug = Coalesce(new.slug, @), !.active = Coalesce(new.active, @)]
           work == [i \in DOMAIN q.work \cup {id} |-> IF i = id THEN row ELSE q.work[i]]
           p == With(q, "run", Tail(q.todo), q.lock, work)
<1>1. /\ q.pc = "run" /\ UNCHANGED Tables /\ q.todo # <<>> /\ Head(q.todo).op = "update" /\ Ready(r)
      /\ WriteUnique(r, id, row)
  BY DEF UpdateRow, At
<1>2. CASE End(r)
  BY <1>1, <1>2, EndStep
<1>3. CASE ~End(r)
  <2>1. /\ \A i \in Ids \ {id} : ~SameSlug(Visible(r, i), row)
        /\ Write(r, id, row)
    BY <1>1, <1>3 DEF WriteUnique
  <2>2. /\ Does(r, q, rows, ordered, Done) /\ q.todo \in Seq(Stmt) /\ q.call \in Call /\ Holds(r, q)
        /\ q.call.do \in {"UpdateProduct", "UpdatePlan"} /\ Tail(q.todo) \in Seq(Stmt)
    BY <1>1, Now, TailFacts, Kinds
  <2>3. /\ q.todo = <<Update(q.call.new)>> /\ q.work = NoRows
        /\ DOMAIN q.lock = {q.call.new.id} /\ q.lock[q.call.new.id] # "share"
    <3>1. Changes(q, rows)
      BY <2>2 DEF Does
    <3>2. Lock(q.call.new.id, "update").op # "update"
      BY DEF Lock
    <3>3. Head(q.todo) # Lock(q.call.new.id, "update") /\ q.todo # <<>>
      BY <1>1, <3>2
    <3> HIDE DEF q
    <3> QED BY <3>1, <3>3 DEF Changes
  <2>4. new = q.call.new /\ Tail(q.todo) = <<>>
    BY <2>3 DEF Update
  <2>5. /\ id \in Ids /\ new.slug \in Slugs \cup {None} /\ new.active \in BOOLEAN \cup {None}
        /\ rows[id] # None /\ rows[id] \in Row
    <3>1. q.call.new \in Change(ProductIds) \/ q.call.new \in Change(PlanIds)
      BY <2>2, CallFields
    <3>2. q.call.new.id \in Ids /\ q.call.new.slug \in Slugs \cup {None} /\ q.call.new.active \in BOOLEAN \cup {None}
      BY <3>1, ChangeFields, IdsApart
    <3>3. rows[q.call.new.id] # None
      BY <2>2, <2>3 DEF Holds
    <3> QED BY <2>4, <3>2, <3>3 DEF TypeInv
  <2> DEFINE old == rows[id]
  <2>6. /\ row \in Row /\ row.kind = old.kind /\ row.product = old.product
        /\ row.slug = (IF new.slug = None THEN old.slug ELSE new.slug)
    <3> HIDE DEF new
    <3>1. old \in Row
      BY <2>5
    <3>2. row = [old EXCEPT !.slug = Coalesce(new.slug, old.slug), !.active = Coalesce(new.active, old.active)]
      OBVIOUS
    <3>3. Coalesce(new.slug, old.slug) \in Slugs /\ Coalesce(new.active, old.active) \in BOOLEAN
      BY <2>5, <3>1 DEF Coalesce, Row, ProductRow, PlanRow
    <3> HIDE DEF old, row
    <3>4. CASE old \in ProductRow
      BY <3>2, <3>3, <3>4 DEF ProductRow, Row, Coalesce
    <3>5. CASE old \in PlanRow
      BY <3>2, <3>3, <3>5 DEF PlanRow, Row, Coalesce
    <3> QED BY <3>1, <3>4, <3>5 DEF Row
  <2>7. \A j \in Ids : j # id => ~Same(row, Sees(q, j))
    <3> HIDE DEF row
    <3> QED BY <2>1 DEF Same, SameSlug, Visible, Sees
  <2>8. ASSUME NEW o \in Requests, o # r, NEW j \in DOMAIN req[o].work, Same(row, req[o].work[j])
        PROVE  FALSE
    <3>1. CASE new.slug # None
      <4> DEFINE alike == [rows[new.id] EXCEPT !.slug = new.slug]
      <4>1. ~SameSlug(req[o].work[j], alike)
        BY <1>1, <2>8, <3>1 DEF Ready, Blocks
      <4>2. alike.kind = old.kind /\ alike.slug = new.slug
        <5> HIDE DEF new
        <5> QED BY <2>5 DEF Row, ProductRow, PlanRow
      <4> HIDE DEF alike, row
      <4> QED BY <2>6, <2>8, <3>1, <4>1, <4>2 DEF Same, SameSlug
    <3>2. CASE new.slug = None
      <4>1. id \notin DOMAIN req[o].work
        <5>1. SUFFICES ASSUME id \in DOMAIN req[o].work PROVE FALSE
          OBVIOUS
        <5>2. id \in DOMAIN req[o].lock /\ req[o].lock[id] # "share"
          BY <2>5, <5>1, Written
        <5>3. ~Conflict(q.lock[id], req[o].lock[id]) /\ q.lock[id] # "share" /\ q.lock[id] \in Mods
          BY <2>2, <2>3, <2>4, <2>8, <5>2, Now DEF Holds
        <5>4. req[o].lock[id] \in Mods
          BY <5>2, Now
        <5> QED BY <5>2, <5>3, <5>4 DEF Conflict, Mods
      <4>2. Unique(o, req[o])
        BY Now
      <4>3. ~Same(req[o].work[j], rows[id])
        BY <2>5, <4>1, <4>2 DEF Unique, Sees
      <4> HIDE DEF row
      <4> QED BY <2>5, <2>6, <2>8, <3>2, <4>3 DEF Same
    <3> QED BY <3>1, <3>2
  <2>9. req' = [req EXCEPT ![r] = p]
    <3>1. Writes(r, Tail(q.todo), work)
      BY <2>1 DEF Writes, Write
    <3> HIDE DEF work
    <3>2. req' = [req EXCEPT ![r] = With(req[r], req[r].pc, Tail(q.todo), req[r].lock, work)]
      BY <3>1, Now, NewWork
    <3> QED BY <1>1, <3>2
  <2> HIDE DEF row
  <2>10. p.call = q.call /\ p.todo = Tail(q.todo) /\ p.lock = q.lock /\ p.work = work /\ p.presets = q.presets
    <3> HIDE DEF work, q
    <3> QED BY WithFields
  <2>11. DOMAIN work = {id} /\ work[id] = row
    BY <2>3, Nothing
  <2>w. work = [i \in DOMAIN req[r].work \cup {id} |-> IF i = id THEN row ELSE req[r].work[i]]
    OBVIOUS
  <2>12. Does(r, p, rows, ordered, Done)
    <3> HIDE DEF p, work, q, new
    <3>1. Changes(p, rows)
      BY <2>3, <2>4, <2>6, <2>10, <2>11 DEF Changes
    <3> QED BY <2>2, <2>10, <3>1 DEF Does
  <2>13. Local(r, p, rows, ordered, Done)
    BY <1>1, <2>12, Now, LocalWith
  <2>14. \A o \in Requests : o # r => \A j \in DOMAIN req[o].work : ~Same(row, req[o].work[j])
    BY <2>8
  <2> HIDE DEF work, new
  <2> QED BY <1>1, <2>2, <2>5, <2>6, <2>7, <2>14, <2>9, <2>13, <2>w, WriteStep
<1> QED BY <1>2, <1>3

LEMMA DeleteSteps ==
  ASSUME TypeInv, CatalogInv, NEW r \in Requests, DeleteRow(r)
  PROVE  TypeInv' /\ CatalogInv'
<1> DEFINE q == req[r]
           id == Head(req[r].todo).id
           work == [i \in DOMAIN q.work \cup {id} |-> IF i = id THEN None ELSE q.work[i]]
           p == With(q, "run", Tail(q.todo), q.lock, work)
<1>1. /\ q.pc = "run" /\ UNCHANGED Tables /\ q.todo # <<>> /\ Head(q.todo).op = "delete"
      /\ Write(r, id, None)
  BY DEF DeleteRow, At
<1>2. /\ Does(r, q, rows, ordered, Done) /\ q.todo \in Seq(Stmt) /\ q.call \in Call /\ Holds(r, q)
      /\ Head(q.todo) \in Stmt /\ q.call.do \in {"DeletePlan", "DeleteProduct"} /\ Tail(q.todo) \in Seq(Stmt)
  BY <1>1, Now, TailFacts, Kinds
<1>3. id \in Ids
  BY <1>1, <1>2 DEF Stmt
<1>4. req' = [req EXCEPT ![r] = p]
  <2>1. Writes(r, Tail(q.todo), work)
    BY <1>1 DEF Writes, Write
  <2> HIDE DEF work
  <2>2. req' = [req EXCEPT ![r] = With(req[r], req[r].pc, Tail(q.todo), req[r].lock, work)]
    BY <2>1, Now, NewWork
  <2> QED BY <1>1, <2>2
<1>5. /\ DOMAIN work = DOMAIN q.work \cup {id} /\ work[id] = None
      /\ \A i \in DOMAIN q.work : i # id => work[i] = q.work[i]
      /\ work = [i \in DOMAIN req[r].work \cup {id} |-> IF i = id THEN None ELSE req[r].work[i]]
  OBVIOUS
<1>h. \A x : Lock(x, "key").op # "delete" /\ Cascade(x).op # "delete" /\ Restricted.op # "delete"
             /\ Delete(x).id = x
  BY DEF Lock, Cascade, Restricted, Delete
<1>i. id = Head(q.todo).id
  OBVIOUS
<1> HIDE DEF work, id
<1>6. p.call = q.call /\ p.todo = Tail(q.todo) /\ p.lock = q.lock /\ p.work = work /\ p.presets = q.presets
  BY WithFields
<1> HIDE DEF p, q
<1>7. Deletes(q, rows, ordered, Done)
  BY <1>2 DEF Does
<1>8. ASSUME q.call.do = "DeletePlan"
      PROVE  id = q.call.id /\ id \in DOMAIN q.lock /\ p.todo # <<>> /\ DeletesPlan(p)
  <2>1. DeletesPlan(q)
    BY <1>7, <1>8 DEF Deletes
  <2>2. q.todo = <<Delete(q.call.id), Restricted>> /\ q.work = NoRows /\ q.call.id \in DOMAIN q.lock
    BY <1>1, <1>h, <2>1 DEF DeletesPlan
  <2>3. id = q.call.id /\ p.todo = <<Restricted>>
    BY <1>6, <1>h, <1>i, <2>2
  <2>4. DOMAIN p.work = {q.call.id}
    BY <1>5, <1>6, <2>2, <2>3, Nothing
  <2> QED BY <1>6, <2>2, <2>3, <2>4 DEF DeletesPlan
<1>9. ASSUME q.call.do = "DeleteProduct"
      PROVE  /\ id = q.call.id \/ (id \in PlanIds /\ rows[id].product = q.call.id)
             /\ id \in DOMAIN q.lock /\ p.todo # <<>> /\ DeletesProduct(p, rows, Done)
  <2>1. DeletesProduct(q, rows, Done)
    BY <1>7, <1>9 DEF Deletes
  <2>2. CASE /\ q.todo = <<Delete(q.call.id), Cascade(q.call.id), Restricted>> /\ q.work = NoRows
             /\ q.call.id \in DOMAIN q.lock
    <3>1. id = q.call.id /\ p.todo = <<Cascade(q.call.id), Restricted>>
      BY <1>6, <1>h, <1>i, <2>2
    <3>2. p.call.id = q.call.id /\ p.call.id \in DOMAIN p.work /\ p.todo # <<>>
      <4>1. p.todo # <<>>
        BY <3>1, Heads
      <4> QED BY <4>1, <1>5, <1>6, <3>1
    <3>3. DeletesProduct(p, rows, Done)
      BY <1>6, <3>1, <3>2 DEF DeletesProduct
    <3> QED BY <2>2, <3>1, <3>2, <3>3
  <2>3. CASE /\ q.call.id \in DOMAIN q.work
             /\ \E i \in PlanIds : /\ Met(q, i, rows, Done) /\ i \in DOMAIN q.lock
                                   /\ q.todo = <<Delete(i), Cascade(q.call.id), Restricted>>
    <3>1. PICK i \in PlanIds : /\ Met(q, i, rows, Done) /\ i \in DOMAIN q.lock
                               /\ q.todo = <<Delete(i), Cascade(q.call.id), Restricted>>
      BY <2>3
    <3>2. id = i /\ p.todo = <<Cascade(q.call.id), Restricted>>
      BY <1>6, <1>h, <1>i, <3>1
    <3>3. rows[i] # None /\ rows[i].product = q.call.id
      BY <1>2, <3>1 DEF Met, Holds
    <3>4. p.call.id = q.call.id /\ p.call.id \in DOMAIN p.work /\ p.todo # <<>>
      <4>1. p.todo # <<>>
        BY <3>2, Heads
      <4> QED BY <4>1, <1>5, <1>6, <2>3
    <3>5. DeletesProduct(p, rows, Done)
      BY <1>6, <3>2, <3>4 DEF DeletesProduct
    <3> QED BY <3>1, <3>2, <3>3, <3>4, <3>5
  <2>4. \/ /\ q.todo = <<Delete(q.call.id), Cascade(q.call.id), Restricted>> /\ q.work = NoRows
           /\ q.call.id \in DOMAIN q.lock
        \/ /\ q.call.id \in DOMAIN q.work
           /\ \E i \in PlanIds : /\ Met(q, i, rows, Done) /\ i \in DOMAIN q.lock
                                 /\ q.todo = <<Delete(i), Cascade(q.call.id), Restricted>>
    <3>1. \A x : /\ q.todo # <<Restricted>> /\ q.todo # <<>> /\ q.todo # <<Cascade(q.call.id), Restricted>>
                 /\ q.todo # <<Lock(x, "key"), Delete(x), Cascade(q.call.id), Restricted>>
      BY <1>1, <1>h
    <3> QED BY <2>1, <3>1 DEF DeletesProduct
  <2> QED BY <2>2, <2>3, <2>4
<1>10. Deletes(p, rows, ordered, Done)
  <2>1. /\ id = q.call.id \/ (id \in PlanIds /\ rows[id].product = q.call.id)
        /\ id \in DOMAIN q.lock /\ p.todo # <<>>
    <3>1. CASE q.call.do = "DeletePlan"
      BY <1>8, <3>1
    <3>2. CASE q.call.do = "DeleteProduct"
      BY <1>9, <3>2
    <3> QED BY <1>2, <3>1, <3>2
  <2>2. \A i \in DOMAIN p.work :
          /\ p.work[i] = None /\ i \in DOMAIN p.lock
          /\ i = p.call.id \/ (i \in PlanIds /\ rows[i].product = p.call.id)
    <3> SUFFICES ASSUME NEW i \in DOMAIN work
                 PROVE  /\ work[i] = None /\ i \in DOMAIN q.lock
                        /\ i = q.call.id \/ (i \in PlanIds /\ rows[i].product = q.call.id)
      BY <1>6
    <3>1. CASE i = id
      BY <3>1, <1>5, <2>1
    <3>2. CASE i # id
      BY <3>2, <1>5, <1>7 DEF Deletes
    <3> QED BY <3>1, <3>2
  <2> QED BY <1>6, <1>7, <1>8, <1>9, <2>1, <2>2 DEF Deletes
<1>11. Does(r, p, rows, ordered, Done)
  BY <1>2, <1>6, <1>10 DEF Does
<1>12. Local(r, p, rows, ordered, Done)
  BY <1>1, <1>11, Now, LocalWith DEF p, q
<1>13. /\ \A j \in Ids : j # id => ~Same(None, Sees(req[r], j))
       /\ \A o \in Requests : o # r => \A j \in DOMAIN req[o].work : ~Same(None, req[o].work[j])
  BY DEF Same
<1> DEFINE row == None
<1>14. /\ row \in Row \cup {None} /\ Tail(req[r].todo) \in Seq(Stmt) /\ req[r].pc \in {"wait", "run"}
       /\ work = [i \in DOMAIN req[r].work \cup {id} |-> IF i = id THEN row ELSE req[r].work[i]]
       /\ \A j \in Ids : j # id => ~Same(row, Sees(req[r], j))
       /\ \A o \in Requests : o # r => \A j \in DOMAIN req[o].work : ~Same(row, req[o].work[j])
  BY <1>1, <1>2, <1>5, <1>13 DEF q
<1>15. /\ req' = [req EXCEPT ![r] = With(req[r], "run", Tail(req[r].todo), req[r].lock, work)]
       /\ Local(r, With(req[r], "run", Tail(req[r].todo), req[r].lock, work), rows, ordered, Done)
  BY <1>4, <1>12 DEF p, q
<1> HIDE DEF row
<1> QED BY <1>1, <1>3, <1>14, <1>15, WriteStep

LEMMA CascadeSteps ==
  ASSUME TypeInv, CatalogInv, NEW r \in Requests, CascadeRow(r)
  PROVE  TypeInv' /\ CatalogInv'
<1> DEFINE q == req[r]
           id == q.call.id
<1>1. q.pc = "run" /\ UNCHANGED Tables /\ q.todo # <<>> /\ Head(q.todo).op = "cascade"
  BY DEF CascadeRow, At
<1>2. /\ Does(r, q, rows, ordered, Done) /\ q.todo \in Seq(Stmt) /\ q.call \in Call
      /\ q.call.do = "DeleteProduct" /\ req \in [Requests -> Rec]
  BY <1>1, Now, Kinds
<1>3. Deletes(q, rows, ordered, Done) /\ DeletesProduct(q, rows, Done)
  BY <1>2 DEF Does, Deletes
<1>4. q.todo = <<Cascade(id), Restricted>> /\ id \in DOMAIN q.work
  <2>1. \A x : Lock(x, "key").op # "cascade" /\ Delete(x).op # "cascade" /\ Restricted.op # "cascade"
    BY DEF Lock, Delete, Restricted
  <2>2. \A x, y, z : q.todo # <<Restricted>> /\ q.todo # <<>> /\ q.todo # <<Delete(x), y, z>>
    BY <1>1, <2>1
  <2>3. \A x, y, z, u : q.todo # <<Lock(x, "key"), y, z, u>>
    BY <1>1, <2>1
  <2> HIDE DEF q
  <2> QED BY <1>3, <2>2, <2>3 DEF DeletesProduct
<1>5. Head(q.todo).id = id /\ Tail(q.todo) = <<Restricted>> /\ id \in ProductIds /\ id \in Ids
  <2>1. id \in ProductIds /\ id \in Ids
    BY <1>2, CallFields, IdsApart
  <2> QED BY <1>4, <2>1 DEF Cascade
<1>6. Cascade(id) \in Stmt /\ Restricted \in Stmt
  BY <1>5 DEF Cascade, Restricted, Stmt
<1> DEFINE left == PlansOf(id) \ DOMAIN q.work
<1>7. \/ \E i \in left : req' = [req EXCEPT ![r].todo = <<Lock(i, "key"), Delete(i)>> \o q.todo]
      \/ left = {} /\ req' = [req EXCEPT ![r].todo = Tail(q.todo)]
  BY <1>2, <1>5 DEF CascadeRow
<1>8. IdsKept
  BY DEF CatalogInv
<1>9. \A i \in PlanIds : i \in Ids
  BY IdsApart
<1>10. CASE left = {} /\ req' = [req EXCEPT ![r].todo = Tail(q.todo)]
  <2> DEFINE todo == <<Restricted>>
             p == With(q, "run", todo, q.lock, q.work)
  <2>1. Goes(r, todo)
    BY <1>5, <1>10 DEF Goes
  <2>2. todo \in Seq(Stmt) /\ todo # <<>>
    BY <1>6
  <2>3. \A i \in PlanIds : rows[i] # None /\ rows[i].product = id => i \in DOMAIN q.work
    BY <1>9, <1>10 DEF PlansOf, Live
  <2> HIDE DEF id, left
  <2>4. req' = [req EXCEPT ![r] = p]
    <3> HIDE DEF todo
    <3>1. req' = [req EXCEPT ![r] = With(req[r], req[r].pc, todo, req[r].lock, req[r].work)]
      BY <2>1, Now, NewTodo
    <3> QED BY <1>1, <3>1
  <2>5. Does(r, p, rows, ordered, Done)
    <3>1. p.call = q.call /\ p.todo = todo /\ p.lock = q.lock /\ p.work = q.work
      BY WithFields
    <3> HIDE DEF p, q
    <3>2. DeletesProduct(p, rows, Done)
      BY <1>4, <2>3, <3>1 DEF DeletesProduct, id
    <3>3. Deletes(p, rows, ordered, Done)
      BY <1>2, <1>3, <2>2, <3>1, <3>2 DEF Deletes
    <3> QED BY <1>2, <3>1, <3>3 DEF Does
  <2>6. Local(r, p, rows, ordered, Done)
    BY <1>1, <2>5, Now, LocalWith
  <2> HIDE DEF todo
  <2> QED BY <1>1, <2>2, <2>4, <2>6, GoStep
<1>11. ASSUME NEW i \in left, req' = [req EXCEPT ![r].todo = <<Lock(i, "key"), Delete(i)>> \o q.todo]
       PROVE  TypeInv' /\ CatalogInv'
  <2> DEFINE todo == <<Lock(i, "key"), Delete(i), Cascade(id), Restricted>>
             p == With(q, "run", todo, q.lock, q.work)
  <2>1. i \in Ids /\ rows[i] # None /\ rows[i].product = id /\ i \notin DOMAIN q.work
    BY DEF PlansOf, Live
  <2>2. i \in PlanIds
    <3>1. SUFFICES ASSUME i \in ProductIds PROVE FALSE
      BY <2>1, IdsApart
    <3>2. rows[i].product = None
      BY <1>8, <2>1, <3>1, RowFields DEF IdsKept
    <3> QED BY <1>5, <2>1, <3>2, IdsApart
  <2>3. Met(q, i, rows, Done)
    <3>1. \A o \in Requests : i \in Own(o) => o \in Done
      BY <1>8, <2>1 DEF IdsKept, Done
    <3> QED BY <2>1, <2>2, <3>1 DEF Met
  <2>4. Goes(r, todo)
    <3> DEFINE x == Lock(i, "key")
               y == Delete(i)
               z == Cascade(id)
               u == Restricted
    <3>1. q.todo = <<z, u>> /\ todo = <<x, y, z, u>> /\ req' = [req EXCEPT ![r].todo = <<x, y>> \o q.todo]
      BY <1>4, <1>11
    <3> HIDE DEF x, y, z, u
    <3>2. <<x, y>> \o <<z, u>> = <<x, y, z, u>>
      BY Joined
    <3> HIDE DEF todo
    <3>3. <<x, y>> \o q.todo = todo
      BY <3>1, <3>2
    <3> QED BY <3>1, <3>3 DEF Goes
  <2>5. todo \in Seq(Stmt)
    <3>1. Lock(i, "key") \in Stmt /\ Delete(i) \in Stmt
      BY <2>1 DEF Lock, Delete, Stmt
    <3> QED BY <1>6, <3>1
  <2>6. todo # <<>>
    BY Heads
  <2> HIDE DEF left
  <2>7. req' = [req EXCEPT ![r] = p]
    <3> HIDE DEF todo
    <3>1. req' = [req EXCEPT ![r] = With(req[r], req[r].pc, todo, req[r].lock, req[r].work)]
      BY <2>4, Now, NewTodo
    <3> QED BY <1>1, <3>1
  <2>8. Does(r, p, rows, ordered, Done)
    <3>1. p.call = q.call /\ p.todo = todo /\ p.lock = q.lock /\ p.work = q.work
      BY WithFields
    <3> HIDE DEF p, q
    <3>2. Met(p, i, rows, Done)
      BY <2>3, <3>1 DEF Met
    <3>3. p.call.id = id /\ id \in DOMAIN p.work
      BY <1>4, <3>1
    <3> HIDE DEF id
    <3>4. p.todo = <<Lock(i, "key"), Delete(i), Cascade(p.call.id), Restricted>>
      BY <3>1, <3>3
    <3>5. DeletesProduct(p, rows, Done)
      BY <2>2, <3>2, <3>3, <3>4 DEF DeletesProduct
    <3>6. Deletes(p, rows, ordered, Done)
      BY <1>2, <1>3, <2>6, <3>1, <3>5 DEF Deletes
    <3> QED BY <1>2, <3>1, <3>6 DEF Does
  <2>9. Local(r, p, rows, ordered, Done)
    BY <1>1, <2>8, Now, LocalWith
  <2> HIDE DEF todo
  <2> QED BY <1>1, <2>5, <2>7, <2>9, GoStep
<1> HIDE DEF left
<1> QED BY <1>7, <1>10, <1>11

LEMMA RestrictSteps ==
  ASSUME TypeInv, CatalogInv, NEW r \in Requests, RestrictRows(r)
  PROVE  TypeInv' /\ CatalogInv'
<1> DEFINE q == req[r]
           p == With(q, "run", <<>>, q.lock, q.work)
<1>1. /\ q.pc = "run" /\ UNCHANGED Tables /\ q.todo # <<>> /\ Head(q.todo).op = "restrict"
      /\ End(r) \/ (ordered \cap DOMAIN q.work = {} /\ Goes(r, Tail(q.todo)))
  BY DEF RestrictRows, At, Goes
<1>2. CASE End(r)
  BY <1>1, <1>2, EndStep
<1>3. CASE ordered \cap DOMAIN q.work = {} /\ Goes(r, Tail(q.todo))
  <2>1. /\ Does(r, q, rows, ordered, Done) /\ q.todo \in Seq(Stmt) /\ q.call \in Call
        /\ q.call.do \in {"DeletePlan", "DeleteProduct"}
    BY <1>1, Now, Kinds
  <2>2. Deletes(q, rows, ordered, Done)
    BY <2>1 DEF Does
  <2>3. \A x : Lock(x, "key").op # "restrict" /\ Delete(x).op # "restrict" /\ Cascade(x).op # "restrict"
    BY DEF Lock, Delete, Cascade
  <2>4. \A x, y, z, u : /\ q.todo # <<Lock(x, "key"), y, z>> /\ q.todo # <<Delete(x), y>> /\ q.todo # <<>>
                        /\ q.todo # <<Lock(x, "key"), y, z, u>> /\ q.todo # <<Delete(x), y, z>>
                        /\ q.todo # <<Cascade(x), y>>
    BY <1>1, <2>3
  <2>5. /\ q.todo = <<Restricted>>
        /\ q.call.do = "DeletePlan" => DOMAIN q.work = {q.call.id}
        /\ q.call.do = "DeleteProduct" =>
             /\ q.call.id \in DOMAIN q.work
             /\ \A i \in PlanIds : rows[i] # None /\ rows[i].product = q.call.id => i \in DOMAIN q.work
    <3> HIDE DEF q
    <3>1. CASE q.call.do = "DeletePlan"
      BY <2>2, <2>4, <3>1 DEF Deletes, DeletesPlan
    <3>2. CASE q.call.do = "DeleteProduct"
      <4>1. DeletesProduct(q, rows, Done)
        BY <2>2, <3>2 DEF Deletes
      <4> QED BY <2>4, <3>2, <4>1 DEF DeletesProduct
    <3> QED BY <2>1, <3>1, <3>2
  <2>6. Tail(q.todo) = <<>> /\ <<>> \in Seq(Stmt)
    BY <2>5
  <2>7. req' = [req EXCEPT ![r] = p]
    <3>1. req' = [req EXCEPT ![r] = With(req[r], req[r].pc, Tail(q.todo), req[r].lock, req[r].work)]
      BY <1>3, Now, NewTodo
    <3> QED BY <1>1, <2>6, <3>1
  <2>8. Does(r, p, rows, ordered, Done)
    <3>1. p.call = q.call /\ p.todo = <<>> /\ p.lock = q.lock /\ p.work = q.work
      BY WithFields
    <3>2. ordered \cap DOMAIN q.work = {}
      BY <1>3
    <3> HIDE DEF p, q
    <3>3. q.call.do = "DeletePlan" => DeletesPlan(p)
      BY <2>5, <3>1 DEF DeletesPlan
    <3>4. q.call.do = "DeleteProduct" => DeletesProduct(p, rows, Done)
      BY <2>5, <3>1 DEF DeletesProduct
    <3>5. Deletes(p, rows, ordered, Done)
      BY <2>2, <3>1, <3>2, <3>3, <3>4 DEF Deletes
    <3> QED BY <2>1, <3>1, <3>5 DEF Does
  <2>9. Local(r, p, rows, ordered, Done)
    BY <1>1, <2>8, Now, LocalWith
  <2> QED BY <1>1, <2>6, <2>7, <2>9, GoStep
<1> QED BY <1>1, <1>2, <1>3

-----------------------------------------------------------------------------
(* A commit                                                                *)

Ended(q) == [pc |-> "end", call |-> q.call, todo |-> <<>>, lock |-> NoLocks, work |-> NoRows,
             presets |-> q.presets, ok |-> TRUE]

\* The three kinds of row that a request commits.
New(r, q, i) ==
  /\ i \in Own(r) /\ rows[i] = None
  /\ \/ i = <<r, 0>> /\ q.work[i] \in ProductRow
     \/ /\ i \in PlanIds /\ q.work[i] \in PlanRow
        /\ \/ /\ q.work[i].product = <<r, 0>> /\ <<r, 0>> \in DOMAIN q.work
              /\ q.work[<<r, 0>>] \in ProductRow
           \/ q.work[i].product \in DOMAIN q.lock \ DOMAIN q.work /\ q.call.do # "ApplyTemplate"

Altered(q, i) ==
  /\ rows[i] # None /\ i \in DOMAIN q.lock /\ q.lock[i] # "share"
  /\ q.work[i] \in Row /\ q.work[i].kind = rows[i].kind /\ q.work[i].product = rows[i].product

Deleted(q, i) ==
  /\ q.work[i] = None /\ rows[i] # None /\ i \notin ordered
  /\ i \in DOMAIN q.lock /\ q.lock[i] = "key" /\ \A j \in DOMAIN q.work : q.work[j] = None
  /\ \/ i \in PlanIds /\ q.call = [do |-> "DeletePlan", id |-> i]
     \/ /\ q.call.id \in ProductIds /\ q.call.id \in DOMAIN q.work
        /\ i = q.call.id \/ (i \in PlanIds /\ rows[i].product = q.call.id)
        /\ \A j \in PlanIds : rows[j] # None /\ rows[j].product = q.call.id => j \in DOMAIN q.work

LEMMA CommitShape ==
  ASSUME TypeInv, CatalogInv, NEW r \in Requests, Commit(r)
  PROVE  /\ req[r].pc = "run" /\ req[r].todo = <<>> /\ UNCHANGED <<templates, changes>>
         /\ rows' = [i \in Ids |-> Sees(req[r], i)]
         /\ ordered' = IF req[r].call.do = "CreateOrder"
                       THEN ordered \cup {req[r].call.plans[n] : n \in DOMAIN req[r].call.plans} ELSE ordered
         /\ req' = [req EXCEPT ![r] = Ended(req[r])]
         /\ Does(r, req[r], rows, ordered, Done) /\ req[r].call \in Call
<1>1. req \in [Requests -> Rec] /\ req[r] \in Rec
  BY Now
<1>2. req' = [req EXCEPT ![r] = Ended(req[r])]
  <2> DEFINE x == req'[r]
  <2>1. /\ req' = [req EXCEPT ![r] = x]
        /\ x = [req[r] EXCEPT !.pc = "end", !.lock = NoLocks, !.work = NoRows, !.ok = TRUE]
    BY <1>1 DEF Commit
  <2>2. req[r].todo = <<>>
    BY DEF Commit
  <2> HIDE DEF x
  <2>3. x = [pc |-> x.pc, call |-> x.call, todo |-> x.todo, lock |-> x.lock, work |-> x.work,
             presets |-> x.presets, ok |-> x.ok]
    BY <1>1, <2>1 DEF Rec
  <2>4. /\ x.pc = "end" /\ x.call = req[r].call /\ x.todo = req[r].todo /\ x.lock = NoLocks
        /\ x.work = NoRows /\ x.presets = req[r].presets /\ x.ok = TRUE
    BY <1>1, <2>1 DEF Rec
  <2> QED BY <2>1, <2>2, <2>3, <2>4 DEF Ended
<1>3. req[r].pc = "run" /\ req[r].todo = <<>> /\ UNCHANGED <<templates, changes>>
  BY DEF Commit
<1>4. rows' = [i \in Ids |-> Sees(req[r], i)]
  BY DEF Commit, Visible, Sees
<1>5. ordered' = IF req[r].call.do = "CreateOrder"
                 THEN ordered \cup {req[r].call.plans[n] : n \in DOMAIN req[r].call.plans} ELSE ordered
  BY DEF Commit
<1> QED BY <1>2, <1>3, <1>4, <1>5, Now

LEMMA Commits ==
  ASSUME TypeInv, CatalogInv, NEW r \in Requests, req[r].pc = "run", req[r].todo = <<>>,
         NEW i \in DOMAIN req[r].work
  PROVE  /\ i \in Ids
         /\ New(r, req[r], i) \/ Altered(req[r], i) \/ Deleted(req[r], i)
<1> DEFINE q == req[r]
<1>1. /\ Does(r, q, rows, ordered, Done) /\ q.call \in Call /\ Holds(r, q) /\ i \in Ids /\ i \in DOMAIN q.work
      /\ q.todo = <<>>
  BY Now
<1>2. \A j \in Own(r) : rows[j] = None
  BY DEF CatalogInv, IdsKept
<1>3. DOMAIN NoRows = {}
  BY Nothing
<1>4. Len(q.todo) = 0 /\ \A n \in 1 .. Len(q.todo) : FALSE
  BY <1>1
<1> HIDE DEF q
<1>5. CASE q.call.do \in {"ApplyTemplate", "CreateProduct"}
  <2>1. Adds(r, q)
    BY <1>1, <1>5 DEF Does
  <2>2. \A j \in DOMAIN q.work : OwnRow(r, j, q.work[j])
    BY <2>1 DEF Adds
  <2>3. <<r, 0>> \in DOMAIN q.work
    <3>1. q.presets \in Presets
      BY Now, Fields DEF q
    <3>2. 0 \in 0 .. Len(q.presets)
      BY <3>1, PresetsFacts
    <3> QED BY <1>4, <2>1, <3>2 DEF Adds
  <2>4. q.work[<<r, 0>>] \in ProductRow
    BY <2>2, <2>3 DEF OwnRow
  <2>5. CASE i = <<r, 0>>
    BY <1>1, <1>2, <2>2, <2>4, <2>5 DEF New, OwnRow, q
  <2>6. CASE i # <<r, 0>>
    <3>1. i \in Own(r) /\ q.work[i] \in PlanRow /\ q.work[i].product = <<r, 0>>
      BY <1>1, <2>2, <2>6 DEF OwnRow
    <3>2. i \in PlanIds
      <4>1. PICK k \in 0 .. MaxPresets : i = <<r, k>>
        BY <3>1 DEF Own
      <4>2. k \in 1 .. MaxPresets
        BY <2>6, <4>1, CatalogAssumption
      <4> QED BY <4>1, <4>2, IdsApart
    <3> QED BY <1>1, <1>2, <2>3, <2>4, <3>1, <3>2 DEF New, q
  <2> QED BY <2>5, <2>6
<1>6. CASE q.call.do = "CreatePlan"
  <2>1. AddsPlan(r, q)
    BY <1>1, <1>6 DEF Does
  <2>2. DOMAIN q.work = {<<r, 1>>} /\ q.work[<<r, 1>>] = q.call.row /\ q.call.row.product \in DOMAIN q.lock
    BY <1>1, <2>1 DEF AddsPlan
  <2>3. q.call.row \in PlanRow /\ q.call.row.product \in ProductIds /\ <<r, 1>> \in PlanIds
    BY <1>1, <1>6, CallFields, RowFields, IdsApart
  <2>4. i = <<r, 1>> /\ i \in Own(r)
    <3>1. 1 \in 0 .. MaxPresets
      BY CatalogAssumption
    <3> QED BY <1>1, <2>2, <3>1 DEF Own
  <2>5. q.call.row.product \notin DOMAIN q.work
    BY <2>2, <2>3, IdsApart
  <2>6. New(r, q, i)
    BY <1>2, <1>6, <2>2, <2>3, <2>4, <2>5 DEF New
  <2> QED BY <1>1, <2>6 DEF q
<1>7. CASE q.call.do \in {"UpdateProduct", "UpdatePlan"}
  <2>1. Changes(q, rows)
    BY <1>1, <1>7 DEF Does
  <2>2. /\ DOMAIN q.work = {q.call.new.id} /\ DOMAIN q.lock = {q.call.new.id}
        /\ q.lock[q.call.new.id] # "share" /\ q.work[q.call.new.id] \in Row
        /\ q.work[q.call.new.id].kind = rows[q.call.new.id].kind
        /\ q.work[q.call.new.id].product = rows[q.call.new.id].product
    BY <1>1, <1>3, <2>1 DEF Changes
  <2>3. Altered(q, i)
    BY <1>1, <2>2 DEF Altered, Holds
  <2> QED BY <1>1, <2>3 DEF q
<1>8. CASE q.call.do \in {"DeleteProduct", "DeletePlan"}
  <2>1. Deletes(q, rows, ordered, Done)
    BY <1>1, <1>8 DEF Does
  <2>2. /\ \A j \in DOMAIN q.work :
             /\ q.work[j] = None /\ j \in DOMAIN q.lock /\ q.lock[j] = "key"
             /\ j = q.call.id \/ (j \in PlanIds /\ rows[j].product = q.call.id)
        /\ i \notin ordered
    BY <1>1, <2>1 DEF Deletes
  <2>3. rows[i] # None
    BY <1>1, <2>2 DEF Holds
  <2>4. CASE q.call.do = "DeletePlan"
    <3>1. DeletesPlan(q)
      BY <2>1, <2>4 DEF Deletes
    <3>2. DOMAIN q.work = {q.call.id}
      BY <1>1, <3>1 DEF DeletesPlan
    <3>3. i = q.call.id /\ i \in PlanIds /\ q.call = [do |-> "DeletePlan", id |-> i]
      BY <1>1, <2>4, <3>2, CallFields
    <3>4. Deleted(q, i)
      BY <1>1, <2>2, <2>3, <3>3 DEF Deleted
    <3> QED BY <1>1, <3>4 DEF q
  <2>5. CASE q.call.do = "DeleteProduct"
    <3>1. DeletesProduct(q, rows, Done)
      BY <2>1, <2>5 DEF Deletes
    <3>2. /\ q.call.id \in DOMAIN q.work
          /\ \A j \in PlanIds : rows[j] # None /\ rows[j].product = q.call.id => j \in DOMAIN q.work
      BY <1>1, <3>1 DEF DeletesProduct
    <3>3. q.call.id \in ProductIds
      BY <1>1, <2>5, CallFields
    <3>4. Deleted(q, i)
      BY <1>1, <2>2, <2>3, <3>2, <3>3 DEF Deleted
    <3> QED BY <1>1, <3>4 DEF q
  <2> QED BY <1>8, <2>4, <2>5
<1>9. CASE q.call.do \in {"CreateOrder", "ListProducts", "GetProductBySlug", "ListPlansByProductID"}
  <2>1. q.work = NoRows
    BY <1>1, <1>9 DEF Does, Orders, Looks
  <2> QED BY <1>1, <1>3, <2>1
<1> QED BY <1>1, <1>5, <1>6, <1>7, <1>8, <1>9, CallFields

\* Two requests: what one writes the other does not hold; what one holds stays.
LEMMA Apart ==
  ASSUME TypeInv, CatalogInv, NEW r \in Requests, NEW o \in Requests, o # r,
         NEW i \in DOMAIN req[o].lock
  PROVE  /\ rows[i] # None
         /\ i \in DOMAIN req[r].work => req[o].lock[i] = "share" /\ req[r].lock[i] = "nokey"
         /\ i \in DOMAIN req[r].lock => req[o].lock[i] # "key" /\ req[r].lock[i] # "key"
<1>1. Holds(o, req[o]) /\ req[o].lock[i] \in Mods
  BY Now
<1>2. i \in DOMAIN req[r].lock => req[r].lock[i] \in Mods /\ ~Conflict(req[o].lock[i], req[r].lock[i])
  BY <1>1, Now DEF Holds
<1>3. i \in DOMAIN req[r].work => i \in DOMAIN req[r].lock /\ req[r].lock[i] # "share"
  BY <1>1, Written DEF Holds
<1> QED BY <1>1, <1>2, <1>3 DEF Conflict, Mods, Holds

LEMMA CommitRequests ==
  ASSUME TypeInv, CatalogInv, NEW r \in Requests, Commit(r)
  PROVE  /\ TypeInv'
         /\ \A o \in Requests : Local(o, req'[o], rows', ordered', Done')
         /\ \A o \in Requests : Holds(o, req[o])' /\ Unique(o, req[o])'
<1> DEFINE q == req[r]
           W == DOMAIN req[r].work
<1>1. /\ q.pc = "run" /\ q.todo = <<>> /\ UNCHANGED <<templates, changes>>
      /\ rows' = [i \in Ids |-> Sees(q, i)]
      /\ ordered' = IF q.call.do = "CreateOrder"
                    THEN ordered \cup {q.call.plans[n] : n \in DOMAIN q.call.plans} ELSE ordered
      /\ req' = [req EXCEPT ![r] = Ended(q)]
      /\ Does(r, q, rows, ordered, Done) /\ q.call \in Call
  BY CommitShape
<1>2. /\ req \in [Requests -> Rec] /\ q \in Rec /\ W \subseteq Ids
      /\ \A i \in W : q.work[i] \in Row \cup {None}
  BY Now
<1>3. Ended(q) \in Rec /\ Ended(q).pc = "end" /\ Ended(q).call = q.call /\ Ended(q).todo = <<>>
      /\ Ended(q).lock = NoLocks /\ Ended(q).work = NoRows /\ Ended(q).presets = q.presets
  <2>1. /\ Ended(q).pc = "end" /\ Ended(q).call = q.call /\ Ended(q).todo = <<>>
        /\ Ended(q).lock = NoLocks /\ Ended(q).work = NoRows /\ Ended(q).presets = q.presets
    BY DEF Ended
  <2>2. q.call \in Call \cup {NoCall} /\ q.presets \in Presets
    BY <1>2, Fields
  <2>3. Ended(q) \in Rec
    <3> HIDE DEF q
    <3> QED BY <2>2, Nothing DEF Ended, Rec
  <2> QED BY <2>1, <2>3
<1>4. /\ req'[r] = Ended(q) /\ \A o \in Requests : o # r => req'[o] = req[o]
      /\ req' \in [Requests -> Rec]
  BY <1>1, <1>2, <1>3
<1>5. \A i \in Ids : rows'[i] = IF i \in W THEN q.work[i] ELSE rows[i]
  BY <1>1 DEF Sees
<1>6. \A i \in ordered' \ ordered : i \in DOMAIN q.lock /\ i \in PlanIds
  <2> SUFFICES ASSUME NEW i \in ordered' \ ordered PROVE i \in DOMAIN q.lock /\ i \in PlanIds
    OBVIOUS
  <2>1. q.call.do = "CreateOrder" /\ Orders(q) /\ q.call.plans \in Seq(PlanIds)
    BY <1>1, CallFields DEF Does
  <2>2. PICK n \in 1 .. Len(q.call.plans) : i = q.call.plans[n]
    BY <1>1, <2>1
  <2>3. \A m \in 1 .. Len(q.todo) : FALSE
    BY <1>1
  <2>4. q.call.plans[n] \in DOMAIN q.lock
    BY <2>1, <2>3 DEF Orders
  <2> QED BY <2>1, <2>2, <2>4
<1>7. TypeInv'
  <2>1. rows' \in [Ids -> Row \cup {None}]
    <3>1. rows \in [Ids -> Row \cup {None}]
      BY DEF TypeInv
    <3>2. \A i \in Ids : Sees(q, i) \in Row \cup {None}
      BY <1>2, <3>1 DEF Sees
    <3> QED BY <1>1, <3>2
  <2>2. ordered' \subseteq Ids
    BY <1>6, IdsApart DEF TypeInv
  <2>3. \A o \in Requests : req'[o].call \in Calls[o] \cup {NoCall}
    BY <1>3, <1>4 DEF TypeInv
  <2> QED BY <1>1, <1>4, <2>1, <2>2, <2>3 DEF TypeInv
<1>8. ASSUME NEW o \in Requests, o # r, NEW i \in DOMAIN req[o].lock
      PROVE  /\ rows'[i] # None /\ i \in Ids
             /\ req[o].lock[i] # "share" => i \notin W /\ rows'[i] = rows[i]
             /\ req[o].lock[i] = "key" => i \notin ordered' \ ordered
  <2>1. i \in Ids /\ rows[i] # None
    BY <1>8, Now, Apart
  <2>2. CASE i \in W
    <3>1. req[o].lock[i] = "share" /\ q.lock[i] = "nokey"
      BY <1>8, <2>2, Apart
    <3>2. ~Deleted(q, i) /\ ~New(r, q, i)
      BY <2>1, <3>1 DEF Deleted, New
    <3>3. Altered(q, i)
      BY <1>1, <2>2, <3>2, Commits
    <3>4. rows'[i] # None
      BY <1>5, <2>1, <2>2, <3>3, CatalogAssumption DEF Altered
    <3> QED BY <2>1, <3>1, <3>4
  <2>3. CASE i \notin W
    <3>1. req[o].lock[i] = "key" => i \notin DOMAIN q.lock
      BY <1>8, Apart
    <3> QED BY <1>5, <1>6, <2>1, <2>3, <3>1
  <2> QED BY <2>2, <2>3
<1>9. ASSUME NEW o \in Requests, o # r, NEW i \in PlanIds, rows'[i] # None
      PROVE  \/ rows[i] # None /\ rows'[i].product = rows[i].product
             \/ /\ rows[i] = None /\ rows'[i].product \notin Kept(req[o])
                /\ \E p \in Requests : i \in Own(p) /\ p \notin Done
  <2>1. i \in Ids
    BY IdsApart
  <2>2. CASE i \notin W
    BY <1>5, <1>9, <2>1, <2>2
  <2>3. CASE i \in W /\ Altered(q, i)
    BY <1>5, <2>1, <2>3 DEF Altered
  <2>4. CASE i \in W /\ Deleted(q, i)
    BY <1>5, <1>9, <2>1, <2>4 DEF Deleted
  <2>5. CASE i \in W /\ New(r, q, i)
    <3>1. rows[i] = None /\ i \in Own(r) /\ r \notin Done /\ rows'[i] = q.work[i]
      BY <1>1, <1>5, <2>1, <2>5 DEF New, Done
    <3>2. i # <<r, 0>>
      BY IdsApart
    <3>3. q.work[i].product = <<r, 0>> \/ q.work[i].product \in DOMAIN q.lock
      BY <2>5, <3>2 DEF New
    <3>4. q.work[i].product \notin Kept(req[o])
      <4> SUFFICES ASSUME q.work[i].product \in DOMAIN req[o].lock,
                          req[o].lock[q.work[i].product] = "key"
                   PROVE  FALSE
        BY DEF Kept
      <4>1. CASE q.work[i].product = <<r, 0>>
        <5>1. rows[<<r, 0>>] # None
          BY <1>9, <4>1, Apart
        <5>2. <<r, 0>> \in Own(r)
          BY CatalogAssumption DEF Own
        <5> QED BY <1>1, <5>1, <5>2 DEF CatalogInv, IdsKept
      <4>2. CASE q.work[i].product \in DOMAIN q.lock
        BY <1>9, <4>2, Apart
      <4> QED BY <3>3, <4>1, <4>2
    <3> QED BY <3>1, <3>4
  <2> QED BY <1>1, <2>2, <2>3, <2>4, <2>5, Commits
<1>10. \A o \in Requests : Local(o, req'[o], rows', ordered', Done')
  <2> SUFFICES ASSUME NEW o \in Requests PROVE Local(o, req'[o], rows', ordered', Done')
    OBVIOUS
  <2>1. CASE o = r
    <3>1. q.call.do # "ApplyTemplate" => q.presets = <<>>
      BY Now DEF Local
    <3> QED BY <1>3, <1>4, <2>1, <3>1 DEF Local
  <2>2. CASE o # r
    <3>1. Local(o, req[o], rows, ordered, Done)
      BY Now
    <3>2. Done \subseteq Done'
      BY <1>3, <1>4 DEF Done
    <3>3. \A i \in Held(req[o]) : rows'[i] = rows[i]
      BY <1>8, <2>2 DEF Held
    <3>4. \A i \in Kept(req[o]) : i \notin ordered' \ ordered
      BY <1>8, <2>2 DEF Kept
    <3>5. Local(o, req[o], rows', ordered', Done')
      <4> DEFINE q2 == req[o]
                 d1 == Done
                 d2 == Done'
                 t1 == rows
                 t2 == rows'
                 o1 == ordered
                 o2 == ordered'
      <4>1. /\ Local(o, q2, t1, o1, d1) /\ d1 \subseteq d2
            /\ \A i \in Held(q2) : t2[i] = t1[i]
            /\ \A i \in Kept(q2) : i \notin o2 \ o1
            /\ \A i \in PlanIds : t2[i] # None =>
                 \/ t1[i] # None /\ t2[i].product = t1[i].product
                 \/ /\ t1[i] = None /\ t2[i].product \notin Kept(q2)
                    /\ \E p \in Requests : i \in Own(p) /\ p \notin d1
        BY <1>9, <2>2, <3>1, <3>2, <3>3, <3>4
      <4> HIDE DEF q2, d1, d2, t1, t2, o1, o2
      <4>2. Local(o, q2, t2, o2, d2)
        BY <4>1, LocalUnder
      <4> QED BY <4>2 DEF q2, d2, t2, o2
    <3> QED BY <1>4, <2>2, <3>5
  <2> QED BY <2>1, <2>2
<1>11. \A o \in Requests : Holds(o, req[o])'
  <2> SUFFICES ASSUME NEW o \in Requests, NEW i \in DOMAIN req'[o].lock
               PROVE  /\ rows'[i] # None
                      /\ \A p \in Requests : p # o /\ i \in DOMAIN req'[p].lock =>
                           ~Conflict(req'[o].lock[i], req'[p].lock[i])
    BY DEF Holds
  <2>1. DOMAIN req'[r].lock = {}
    BY <1>3, <1>4, Nothing
  <2>2. o # r /\ i \in DOMAIN req[o].lock
    BY <1>4, <2>1
  <2>3. Holds(o, req[o])
    BY Now
  <2> QED BY <1>4, <1>8, <2>1, <2>2, <2>3 DEF Holds
<1>12. \A o \in Requests : Unique(o, req[o])'
  <2> SUFFICES ASSUME NEW o \in Requests, NEW i \in DOMAIN req'[o].work
               PROVE  /\ \A j \in Ids : j # i => ~Same(req'[o].work[i], Sees(req[o], j)')
                      /\ \A p \in Requests : p # o => \A j \in DOMAIN req'[p].work :
                           ~Same(req'[o].work[i], req'[p].work[j])
    BY DEF Unique
  <2>1. DOMAIN req'[r].work = {}
    BY <1>3, <1>4, Nothing
  <2>2. o # r /\ i \in DOMAIN req[o].work /\ req'[o] = req[o]
    BY <1>4, <2>1
  <2>3. Unique(o, req[o])
    BY Now
  <2>4. ASSUME NEW j \in Ids, j # i PROVE ~Same(req[o].work[i], Sees(req[o], j)')
    <3>1. Sees(req[o], j)' = IF j \in DOMAIN req[o].work THEN req[o].work[j] ELSE rows'[j]
      BY <2>2 DEF Sees
    <3>2. CASE j \in DOMAIN req[o].work \/ j \notin W
      BY <1>5, <2>2, <2>3, <2>4, <3>1, <3>2 DEF Unique, Sees
    <3>3. CASE j \notin DOMAIN req[o].work /\ j \in W
      <4>1. Sees(req[o], j)' = q.work[j]
        BY <1>5, <3>1, <3>3
      <4> QED BY <2>2, <2>3, <3>3, <4>1 DEF Unique
    <3> QED BY <3>2, <3>3
  <2> QED BY <1>4, <2>1, <2>2, <2>3, <2>4 DEF Unique
<1> QED BY <1>7, <1>10, <1>11, <1>12

\* The table after a commit, as a table of its own.
LEMMA CommitTables ==
  ASSUME TypeInv, CatalogInv, NEW r \in Requests, Commit(r)
  PROVE  /\ \A i \in Ids : rows'[i] = IF i \in DOMAIN req[r].work THEN req[r].work[i] ELSE rows[i]
         /\ \A i \in ordered' \ ordered : i \in DOMAIN req[r].lock \ DOMAIN req[r].work
         /\ \A o \in Requests : req'[o].call = req[o].call /\ req'[o].presets = req[o].presets
         /\ req'[r].pc = "end" /\ req'[r].ok
         /\ \A o \in Requests : o # r => req'[o] = req[o]
<1>1. /\ req[r].pc = "run" /\ req[r].todo = <<>>
      /\ rows' = [i \in Ids |-> Sees(req[r], i)]
      /\ ordered' = IF req[r].call.do = "CreateOrder"
                    THEN ordered \cup {req[r].call.plans[n] : n \in DOMAIN req[r].call.plans} ELSE ordered
      /\ req' = [req EXCEPT ![r] = Ended(req[r])] /\ req \in [Requests -> Rec]
      /\ Does(r, req[r], rows, ordered, Done) /\ req[r].call \in Call
  BY CommitShape, Now
<1>2. ASSUME NEW i \in ordered' \ ordered PROVE i \in DOMAIN req[r].lock \ DOMAIN req[r].work
  <2>1. Orders(req[r]) /\ req[r].call.plans \in Seq(PlanIds) /\ req[r].call.do = "CreateOrder"
    BY <1>1, CallFields DEF Does
  <2>2. PICK n \in 1 .. Len(req[r].call.plans) : i = req[r].call.plans[n]
    BY <1>1, <2>1
  <2>3. \A m \in 1 .. Len(req[r].todo) : FALSE
    BY <1>1
  <2>4. req[r].call.plans[n] \in DOMAIN req[r].lock
    BY <2>1, <2>3 DEF Orders
  <2>5. DOMAIN req[r].work = {}
    BY <2>1, Nothing DEF Orders
  <2> QED BY <2>2, <2>4, <2>5
<1>3. req'[r] = Ended(req[r]) /\ \A o \in Requests : o # r => req'[o] = req[o]
  BY <1>1
<1>4. /\ Ended(req[r]).pc = "end" /\ Ended(req[r]).ok /\ Ended(req[r]).call = req[r].call
      /\ Ended(req[r]).presets = req[r].presets
  BY DEF Ended
<1>5. \A i \in Ids : rows'[i] = IF i \in DOMAIN req[r].work THEN req[r].work[i] ELSE rows[i]
  BY <1>1 DEF Sees
<1> QED BY <1>2, <1>3, <1>4, <1>5

LEMMA CommitIds ==
  ASSUME TypeInv, CatalogInv, NEW r \in Requests, Commit(r)
  PROVE  IdsKept'
<1> DEFINE q == req[r]
           W == DOMAIN req[r].work
<1>1. /\ \A i \in Ids : rows'[i] = IF i \in W THEN q.work[i] ELSE rows[i]
      /\ \A o \in Requests : req'[o].call = req[o].call
      /\ req'[r].pc = "end" /\ \A o \in Requests : o # r => req'[o] = req[o]
  BY CommitTables
<1>2. q.pc = "run" /\ q.todo = <<>> /\ q.call \in Call /\ Does(r, q, rows, ordered, Done)
  BY CommitShape
<1>3. \A i \in W : i \in Ids /\ (New(r, q, i) \/ Altered(q, i) \/ Deleted(q, i))
  BY <1>2, Commits
<1>4. IdsKept
  BY DEF CatalogInv
<1> HIDE DEF q
<1>5. ASSUME NEW i \in ProductIds PROVE rows'[i] \in ProductRow \cup {None}
  <2>1. i \in Ids /\ i \notin PlanIds
    BY IdsApart
  <2>2. CASE i \notin W
    BY <1>1, <1>4, <2>1, <2>2 DEF IdsKept
  <2>3. CASE i \in W /\ New(r, q, i)
    BY <1>1, <2>1, <2>3 DEF New
  <2>4. CASE i \in W /\ Deleted(q, i)
    BY <1>1, <2>1, <2>4 DEF Deleted
  <2>5. CASE i \in W /\ Altered(q, i)
    <3>1. rows[i] \in ProductRow
      BY <1>4, <2>5 DEF IdsKept, Altered
    <3>2. q.work[i] \in Row /\ q.work[i].kind = "product"
      BY <2>5, <3>1, RowFields DEF Altered
    <3>3. q.work[i] \in ProductRow
      BY <3>2, RowFields
    <3> QED BY <1>1, <2>1, <2>5, <3>3
  <2> QED BY <1>3, <2>2, <2>3, <2>4, <2>5
<1>6. ASSUME NEW i \in PlanIds PROVE rows'[i] \in PlanRow \cup {None}
  <2>1. i \in Ids /\ i # <<r, 0>>
    BY IdsApart
  <2>2. CASE i \notin W
    BY <1>1, <1>4, <2>1, <2>2 DEF IdsKept
  <2>3. CASE i \in W /\ New(r, q, i)
    BY <1>1, <2>1, <2>3 DEF New
  <2>4. CASE i \in W /\ Deleted(q, i)
    BY <1>1, <2>1, <2>4 DEF Deleted
  <2>5. CASE i \in W /\ Altered(q, i)
    <3>1. rows[i] \in PlanRow
      BY <1>4, <2>5 DEF IdsKept, Altered
    <3>2. q.work[i] \in Row /\ q.work[i].kind = "plan"
      BY <2>5, <3>1, RowFields DEF Altered
    <3>3. q.work[i] \in PlanRow
      BY <3>2, RowFields
    <3> QED BY <1>1, <2>1, <2>5, <3>3
  <2> QED BY <1>3, <2>2, <2>3, <2>4, <2>5
<1>7. ASSUME NEW p \in Requests, NEW i \in Own(p), rows'[i] # None
      PROVE  /\ req'[p].pc = "end"
             /\ req'[p].call.do = "ApplyTemplate" /\ i # <<p, 0>> => rows'[i].product = <<p, 0>>
  <2>1. i \in Ids
    <3>1. PICK k \in 0 .. MaxPresets : i = <<p, k>>
      BY DEF Own
    <3>2. k = 0 \/ k \in 1 .. MaxPresets
      BY CatalogAssumption
    <3> QED BY <3>1, <3>2, IdsApart
  <2>2. rows[i] # None => /\ req[p].pc = "end"
                          /\ req[p].call.do = "ApplyTemplate" /\ i # <<p, 0>> => rows[i].product = <<p, 0>>
    BY <1>4 DEF IdsKept
  <2>3. CASE i \notin W
    <3>1. rows[i] # None /\ rows'[i] = rows[i]
      BY <1>1, <1>7, <2>1, <2>3
    <3>2. req'[p].pc = "end"
      BY <1>1, <2>2, <3>1
    <3> QED BY <1>1, <2>2, <3>1, <3>2
  <2>4. CASE i \in W /\ Altered(q, i)
    <3>1. rows[i] # None /\ rows'[i].product = rows[i].product
      BY <1>1, <2>1, <2>4 DEF Altered
    <3>2. req'[p].pc = "end"
      BY <1>1, <2>2, <3>1
    <3> QED BY <1>1, <2>2, <3>1, <3>2
  <2>5. CASE i \in W /\ Deleted(q, i)
    BY <1>1, <1>7, <2>1, <2>5 DEF Deleted
  <2>6. CASE i \in W /\ New(r, q, i)
    <3>1. p = r
      BY <2>6 DEF New, Own
    <3>2. ASSUME req'[p].call.do = "ApplyTemplate", i # <<p, 0>> PROVE rows'[i].product = <<p, 0>>
      <4>1. req[r].call.do = "ApplyTemplate" /\ i # <<r, 0>>
        BY <1>1, <3>1, <3>2
      <4>2. Adds(r, q)
        BY <1>2, <4>1 DEF Does, q
      <4>3. OwnRow(r, i, q.work[i])
        BY <2>6, <4>2 DEF Adds, q
      <4>4. q.work[i].product = <<r, 0>>
        BY <4>1, <4>3 DEF OwnRow
      <4> QED BY <1>1, <2>1, <2>6, <3>1, <4>4
    <3> QED BY <1>1, <3>1, <3>2
  <2> QED BY <1>3, <2>3, <2>4, <2>5, <2>6
<1> QED BY <1>5, <1>6, <1>7 DEF IdsKept

LEMMA CommitRows ==
  ASSUME TypeInv, CatalogInv, NEW r \in Requests, Commit(r)
  PROVE  RowsConsistent'
<1> DEFINE q == req[r]
           W == DOMAIN req[r].work
<1>1. /\ \A i \in Ids : rows'[i] = IF i \in W THEN q.work[i] ELSE rows[i]
      /\ \A i \in ordered' \ ordered : i \in DOMAIN q.lock \ W
  BY CommitTables
<1>2. q.pc = "run" /\ q.todo = <<>>
  BY CommitShape
<1>3. \A i \in W : i \in Ids /\ (New(r, q, i) \/ Altered(q, i) \/ Deleted(q, i))
  BY <1>2, Commits
<1>4. /\ IdsKept /\ RowsConsistent /\ Holds(r, q) /\ Unique(r, q)
      /\ DOMAIN q.lock \subseteq Ids /\ ordered \subseteq Ids
  BY Now DEF CatalogInv, TypeInv
<1>5. IdsKept'
  BY CommitIds
<1>n. None \notin ProductRow /\ None \notin PlanRow /\ None \notin Row
  BY CatalogAssumption DEF Row
<1> HIDE DEF q
<1>6. ASSUME NEW i \in W PROVE q.work[i] = None <=> Deleted(q, i)
  BY <1>3, <1>n DEF New, Altered, Deleted
<1>7. ASSUME NEW i \in ordered' PROVE rows'[i] # None
  <2>1. CASE i \in ordered
    <3>1. rows[i] # None /\ i \in Ids
      BY <1>4, <2>1 DEF RowsConsistent, Live
    <3>2. i \in W => q.work[i] # None
      BY <1>6, <2>1 DEF Deleted
    <3> QED BY <1>1, <3>1, <3>2
  <2>2. CASE i \notin ordered
    <3>1. i \in DOMAIN q.lock /\ i \notin W
      BY <1>1, <1>7, <2>2
    <3>2. rows[i] # None /\ i \in Ids
      BY <1>4, <3>1 DEF Holds
    <3> QED BY <1>1, <3>1, <3>2
  <2> QED BY <2>1, <2>2
<1>8. ASSUME NEW i \in Ids, rows'[i] # None, rows'[i].kind = "plan" PROVE rows'[rows'[i].product] # None
  <2>1. i \in PlanIds /\ i \notin ProductIds
    <3>1. i \in ProductIds => rows'[i].kind = "product"
      BY <1>5, <1>8, RowFields DEF IdsKept
    <3> QED BY <1>8, <3>1, IdsApart
  <2>2. rows'[i].product \in ProductIds /\ rows'[i].product \in Ids
    BY <1>5, <1>8, <2>1, RowFields, IdsApart DEF IdsKept
  <2>3. CASE rows[i] # None /\ rows'[i].product = rows[i].product
    <3>1. rows[i].kind = "plan"
      BY <1>4, <2>1, <2>3, RowFields DEF IdsKept
    <3>2. rows[rows[i].product] # None
      BY <1>4, <2>3, <3>1 DEF RowsConsistent, Live
    <3> DEFINE m == rows[i].product
    <3>3. m \in Ids /\ m \in ProductIds /\ m \notin PlanIds
      BY <2>2, <2>3, IdsApart
    <3>4. ASSUME m \in W, Deleted(q, m) PROVE FALSE
      <4>1. q.call.id = m /\ q.call.id \in ProductIds
        BY <3>3, <3>4 DEF Deleted
      <4>2. \A j \in PlanIds : rows[j] # None /\ rows[j].product = q.call.id => j \in W
        BY <3>3, <3>4 DEF Deleted, q
      <4>3. i \in W
        BY <2>1, <2>3, <4>1, <4>2
      <4>4. q.work[i] # None
        BY <1>1, <1>8, <4>3
      <4>5. \A j \in W : q.work[j] = None
        BY <3>4 DEF Deleted, q
      <4> QED BY <4>3, <4>4, <4>5
    <3>5. rows'[m] # None
      BY <1>1, <1>6, <3>2, <3>3, <3>4
    <3> QED BY <2>3, <3>5
  <2>4. CASE i \in W /\ New(r, q, i)
    <3>1. i # <<r, 0>> /\ <<r, 0>> \in Ids
      BY <2>1, IdsApart
    <3>2. rows'[i] = q.work[i]
      BY <1>1, <2>4
    <3>3. CASE q.work[i].product = <<r, 0>> /\ <<r, 0>> \in W /\ q.work[<<r, 0>>] \in ProductRow
      BY <1>1, <1>n, <3>1, <3>2, <3>3
    <3>4. CASE q.work[i].product \in DOMAIN q.lock \ W
      <4>1. rows[q.work[i].product] # None
        BY <1>4, <3>4 DEF Holds
      <4> QED BY <1>1, <2>2, <3>2, <3>4, <4>1
    <3> QED BY <2>4, <3>1, <3>3, <3>4 DEF New, q
  <2>5. \/ rows[i] # None /\ rows'[i].product = rows[i].product
        \/ i \in W /\ New(r, q, i)
    BY <1>1, <1>3, <1>8 DEF Altered, Deleted
  <2> QED BY <2>3, <2>4, <2>5
<1>9. ASSUME NEW i \in Ids, NEW j \in Ids, i # j, rows'[i] # None, rows'[j] # None
      PROVE  ~SameSlug(rows'[i], rows'[j])
  <2>0. \A k \in Ids : Sees(q, k) = rows'[k]
    BY <1>1 DEF Sees, q
  <2>1. CASE i \in W
    <3>1. ~Same(q.work[i], Sees(q, j))
      BY <1>4, <1>9, <2>1 DEF Unique, q
    <3> QED BY <1>1, <1>9, <2>0, <2>1, <3>1 DEF Same, SameSlug
  <2>2. CASE j \in W
    <3>1. ~Same(q.work[j], Sees(q, i))
      BY <1>4, <1>9, <2>2 DEF Unique, q
    <3> QED BY <1>1, <1>9, <2>0, <2>2, <3>1 DEF Same, SameSlug
  <2>3. CASE i \notin W /\ j \notin W
    <3>1. rows'[i] = rows[i] /\ rows'[j] = rows[j]
      BY <1>1, <2>3
    <3> QED BY <1>4, <1>9, <3>1 DEF RowsConsistent, Live, SameSlug
  <2> QED BY <2>1, <2>2, <2>3
<1>10. \A i \in Ids : rows'[i] # None /\ rows'[i].kind = "plan" => rows'[rows'[i].product] # None
  BY <1>8
<1>11. \A i, j \in Ids : i # j /\ rows'[i] # None /\ rows'[j] # None => ~SameSlug(rows'[i], rows'[j])
  BY <1>9
<1> QED BY <1>7, <1>10, <1>11 DEF RowsConsistent, Live, SameSlug

LEMMA CommitApplied ==
  ASSUME TypeInv, CatalogInv, NEW r \in Requests, Commit(r)
  PROVE  AppliedWhole'
<1> DEFINE q == req[r]
           W == DOMAIN req[r].work
<1>1. /\ \A i \in Ids : rows'[i] = IF i \in W THEN q.work[i] ELSE rows[i]
      /\ \A o \in Requests : req'[o].call = req[o].call /\ req'[o].presets = req[o].presets
      /\ req'[r].ok /\ \A o \in Requests : o # r => req'[o] = req[o]
  BY CommitTables
<1>2. /\ q.pc = "run" /\ q.todo = <<>> /\ q.call \in Call /\ Does(r, q, rows, ordered, Done)
      /\ q \in Rec /\ ~q.ok
  BY CommitShape, Now DEF Local
<1>3. \A i \in W : i \in Ids /\ (New(r, q, i) \/ Altered(q, i) \/ Deleted(q, i))
  BY <1>2, Commits
<1>4. IdsKept /\ AppliedWhole
  BY DEF CatalogInv
<1>n. None \notin ProductRow /\ None \notin PlanRow /\ None \notin Row
  BY CatalogAssumption DEF Row
<1> HIDE DEF q
<1>5. SUFFICES ASSUME NEW p \in Requests, req[p].call.do = "ApplyTemplate", rows'[<<p, 0>>] # None,
                      NEW k \in 1 .. Len(req[p].presets), rows'[<<p, k>>] = None
               PROVE  \E o \in Requests :
                        req'[o].ok /\ req'[o].call = [do |-> "DeletePlan", id |-> <<p, k>>]
  BY <1>1 DEF AppliedWhole, Live
<1>6. /\ k \in 1 .. MaxPresets /\ k \in 0 .. Len(req[p].presets)
      /\ <<p, k>> \in PlanIds /\ <<p, k>> \in Ids /\ <<p, k>> \in Own(p) /\ <<p, k>> # <<p, 0>>
      /\ <<p, 0>> \in ProductIds /\ <<p, 0>> \in Ids /\ <<p, 0>> \notin PlanIds
  <2>1. Len(req[p].presets) \in 0 .. MaxPresets
    <3>1. req[p].presets \in Presets
      BY Now, Fields
    <3> QED BY <3>1, PresetsFacts
  <2>2. k \in 1 .. MaxPresets /\ k \in 0 .. MaxPresets /\ k \in 0 .. Len(req[p].presets)
    BY <2>1, CatalogAssumption
  <2>3. <<p, k>> \in Own(p)
    BY <2>2 DEF Own
  <2> QED BY <2>2, <2>3, IdsApart
<1>7. CASE p = r
  <2>1. Adds(r, q)
    BY <1>2, <1>5, <1>7 DEF Does, q
  <2>2. \A n \in 1 .. Len(q.todo) : FALSE
    BY <1>2
  <2>3. <<r, k>> \in DOMAIN q.work
    BY <1>6, <1>7, <2>1, <2>2 DEF Adds, q
  <2>4. q.work[<<r, k>>] # None
    BY <1>n, <2>1, <2>3 DEF Adds, OwnRow
  <2> QED BY <1>1, <1>5, <1>6, <1>7, <2>3, <2>4 DEF q
<1>8. CASE p # r
  <2>1. <<p, 0>> \notin Own(r) /\ <<p, k>> \notin Own(r)
    BY <1>8 DEF Own
  <2>2. rows[<<p, 0>>] # None
    BY <1>1, <1>3, <1>5, <1>6, <2>1 DEF New, Altered, Deleted
  <2>3. CASE rows[<<p, k>>] = None
    <3>1. PICK o \in Requests : req[o].ok /\ req[o].call = [do |-> "DeletePlan", id |-> <<p, k>>]
      BY <1>4, <1>5, <2>2, <2>3 DEF AppliedWhole, Live
    <3>2. o # r
      BY <1>2, <3>1 DEF q
    <3> QED BY <1>1, <3>1, <3>2
  <2>4. CASE rows[<<p, k>>] # None
    <3>1. <<p, k>> \in W /\ q.work[<<p, k>>] = None
      BY <1>1, <1>5, <1>6, <2>4
    <3>2. Deleted(q, <<p, k>>)
      BY <1>3, <1>n, <2>1, <3>1 DEF New, Altered
    <3>3. CASE q.call = [do |-> "DeletePlan", id |-> <<p, k>>]
      <4>1. req'[r].call = [do |-> "DeletePlan", id |-> <<p, k>>]
        BY <1>1, <3>3 DEF q
      <4> QED BY <1>1, <4>1
    <3>4. CASE q.call # [do |-> "DeletePlan", id |-> <<p, k>>]
      <4>1. /\ q.call.id \in ProductIds /\ q.call.id \in W /\ \A j \in W : q.work[j] = None
            /\ <<p, k>> = q.call.id \/ rows[<<p, k>>].product = q.call.id
        BY <3>2, <3>4 DEF Deleted, q
      <4>2. rows[<<p, k>>].product = <<p, 0>>
        BY <1>4, <1>5, <1>6, <2>4 DEF IdsKept
      <4>3. q.call.id = <<p, 0>>
        BY <1>6, <4>1, <4>2, IdsApart
      <4> QED BY <1>1, <1>5, <1>6, <4>1, <4>3
    <3> QED BY <3>3, <3>4
  <2> QED BY <2>3, <2>4
<1> QED BY <1>7, <1>8

LEMMA CommitSteps ==
  ASSUME TypeInv, CatalogInv, NEW r \in Requests, Commit(r)
  PROVE  TypeInv' /\ CatalogInv'
BY CommitRequests, CommitIds, CommitRows, CommitApplied DEF CatalogInv

-----------------------------------------------------------------------------
(* The invariant                                                           *)

LEMMA TemplateSteps ==
  ASSUME TypeInv, CatalogInv, NEW t \in Templates,
         \/ \E new \in TemplateRows : CreateTemplate(t, new) \/ UpdateTemplate(t, new)
         \/ DeleteTemplate(t)
  PROVE  TypeInv' /\ CatalogInv'
<1>1. UNCHANGED <<rows, ordered, req>> /\ changes < MaxChanges /\ changes' = changes + 1
  BY DEF CreateTemplate, UpdateTemplate, DeleteTemplate, Changed
<1>2. templates' \in [Templates -> Template \cup {None}]
  <2>1. TemplateRows \subseteq Template /\ templates \in [Templates -> Template \cup {None}]
    BY CatalogAssumption DEF TypeInv
  <2> QED BY <2>1 DEF CreateTemplate, UpdateTemplate, DeleteTemplate, createTemplate, updateTemplate, deleteTemplate
<1>3. changes' \in 0 .. MaxChanges
  BY <1>1, CatalogAssumption DEF TypeInv
<1>4. TypeInv'
  BY <1>1, <1>2, <1>3 DEF TypeInv
<1>5. Done' = Done
  BY <1>1 DEF Done
<1>6. \A r \in Requests : Local(r, req'[r], rows', ordered', Done')
  BY <1>1, <1>5 DEF CatalogInv
<1>7. (\A r \in Requests : Holds(r, req[r]) /\ Unique(r, req[r]))'
  BY <1>1 DEF CatalogInv, Holds, Unique, Sees
<1>8. IdsKept' /\ RowsConsistent' /\ AppliedWhole'
  BY <1>1 DEF CatalogInv, IdsKept, RowsConsistent, AppliedWhole, Live, SameSlug
<1> QED BY <1>4, <1>6, <1>7, <1>8 DEF CatalogInv

LEMMA InitHolds == Init => TypeInv /\ CatalogInv
<1> SUFFICES ASSUME Init PROVE TypeInv /\ CatalogInv
  OBVIOUS
<1>1. /\ rows = [i \in Ids |-> IF i \in StartIds THEN StartRows[i] ELSE None]
      /\ ordered = {} /\ templates = StartTemplates /\ changes = 0 /\ req = [r \in Requests |-> Idle]
  BY DEF Init
<1>2. /\ StartRows \in [StartIds -> Row] /\ None \notin Row /\ MaxPresets \in Nat /\ MaxChanges \in Nat
      /\ StartTemplates \in [Templates -> Template \cup {None}]
      /\ StartIds \cap (Requests \X (0 .. MaxPresets)) = {}
      /\ \A i \in StartIds : StartRows[i].kind = "plan" => StartRows[i].product \in StartIds
      /\ \A i, j \in StartIds :
           i # j /\ StartRows[i].kind = StartRows[j].kind => StartRows[i].slug # StartRows[j].slug
  BY CatalogAssumption
<1>3. Idle \in Rec
  BY Nothing, PresetsFacts DEF Idle, Rec
<1>4. TypeInv
  <2>1. rows \in [Ids -> Row \cup {None}]
    BY <1>1, <1>2
  <2>2. \A r \in Requests : req[r].call = NoCall
    BY <1>1 DEF Idle
  <2> QED BY <1>1, <1>2, <1>3, <2>1, <2>2 DEF TypeInv
<1>5. \A i \in StartIds : /\ i \in ProductIds => StartRows[i] \in ProductRow
                          /\ i \in PlanIds => StartRows[i] \in PlanRow
                          /\ i \in Ids
  <2> SUFFICES ASSUME NEW i \in StartIds
               PROVE  /\ i \in ProductIds => StartRows[i] \in ProductRow
                      /\ i \in PlanIds => StartRows[i] \in PlanRow
                      /\ i \in Ids
    OBVIOUS
  <2>1. StartRows[i] \in Row
    BY <1>2
  <2>2. StartRows[i].kind = "product" => StartRows[i] \in ProductRow /\ i \in ProductIds
    BY <2>1, RowFields DEF ProductIds
  <2>3. StartRows[i].kind = "plan" => StartRows[i] \in PlanRow /\ i \in PlanIds
    BY <2>1, RowFields DEF PlanIds
  <2>4. StartRows[i].kind = "product" \/ StartRows[i].kind = "plan"
    BY <2>1, RowFields
  <2> QED BY <2>2, <2>3, <2>4, IdsApart
<1>6. \A i \in Ids : rows[i] = IF i \in StartIds THEN StartRows[i] ELSE None
  BY <1>1
<1>7. \A r \in Requests : \A i \in Own(r) : i \in Ids /\ rows[i] = None
  <2> SUFFICES ASSUME NEW r \in Requests, NEW i \in Own(r) PROVE i \in Ids /\ rows[i] = None
    OBVIOUS
  <2>1. PICK k \in 0 .. MaxPresets : i = <<r, k>>
    BY DEF Own
  <2>2. k = 0 \/ k \in 1 .. MaxPresets
    BY <1>2
  <2>3. i \in Ids /\ i \notin StartIds
    BY <2>1, <2>2, IdsApart
  <2> QED BY <1>6, <2>3
<1>8. IdsKept
  <2>1. \A i \in ProductIds : rows[i] \in ProductRow \cup {None}
    BY <1>5, <1>6, IdsApart
  <2>2. \A i \in PlanIds : rows[i] \in PlanRow \cup {None}
    BY <1>5, <1>6, IdsApart
  <2> QED BY <1>7, <2>1, <2>2 DEF IdsKept
<1>9. RowsConsistent
  <2>1. ASSUME NEW i \in Ids, rows[i] # None, rows[i].kind = "plan" PROVE rows[rows[i].product] # None
    <3>1. i \in StartIds /\ rows[i] = StartRows[i]
      BY <1>6, <2>1
    <3>2. StartRows[i].product \in StartIds
      BY <1>2, <2>1, <3>1
    <3>3. StartRows[StartRows[i].product] \in Row
      BY <1>2, <3>2
    <3> QED BY <1>2, <1>5, <1>6, <3>1, <3>2, <3>3
  <2>2. ASSUME NEW i \in Ids, NEW j \in Ids, i # j, rows[i] # None, rows[j] # None
        PROVE  ~SameSlug(rows[i], rows[j])
    BY <1>2, <1>6, <2>2 DEF SameSlug
  <2> QED BY <1>1, <2>1, <2>2 DEF RowsConsistent, Live
<1>10. AppliedWhole
  <2>1. \A r \in Requests : req[r].call.do # "ApplyTemplate"
    BY <1>1 DEF Idle, NoCall
  <2> QED BY <2>1 DEF AppliedWhole
<1>11. ASSUME NEW r \in Requests PROVE Local(r, req[r], rows, ordered, Done)
  <2>1. req[r] = Idle
    BY <1>1
  <2>2. /\ Idle.pc = "idle" /\ Idle.todo = <<>> /\ Idle.lock = NoLocks /\ Idle.work = NoRows
        /\ Idle.presets = <<>> /\ ~Idle.ok
    BY DEF Idle
  <2> QED BY <2>1, <2>2 DEF Local
<1>12. ASSUME NEW r \in Requests PROVE Holds(r, req[r]) /\ Unique(r, req[r])
  <2>1. DOMAIN req[r].lock = {} /\ DOMAIN req[r].work = {}
    BY <1>1, Nothing DEF Idle
  <2> QED BY <2>1 DEF Holds, Unique
<1> QED BY <1>4, <1>8, <1>9, <1>10, <1>11, <1>12 DEF CatalogInv

LEMMA NextKeeps == TypeInv /\ CatalogInv /\ [Next]_vars => TypeInv' /\ CatalogInv'
<1> SUFFICES ASSUME TypeInv, CatalogInv, [Next]_vars PROVE TypeInv' /\ CatalogInv'
  OBVIOUS
<1>1. ASSUME NEW r \in Requests, NEW call \in Calls[r], StartApply(r, call) \/ StartOther(r, call)
      PROVE  TypeInv' /\ CatalogInv'
  BY <1>1, StartApplySteps, StartOtherSteps
<1>2. ASSUME NEW r \in Requests, Continue(r) \/ Cancel(r) PROVE TypeInv' /\ CatalogInv'
  <2>1. CASE Acquire(r)
    BY <2>1, AcquireSteps
  <2>2. CASE TakeLock(r)
    BY <2>2, LockSteps
  <2>3. CASE InsertRow(r)
    BY <2>3, InsertSteps
  <2>4. CASE UpdateRow(r)
    BY <2>4, UpdateSteps
  <2>5. CASE DeleteRow(r)
    BY <2>5, DeleteSteps
  <2>6. CASE CascadeRow(r)
    BY <2>6, CascadeSteps
  <2>7. CASE RestrictRows(r)
    BY <2>7, RestrictSteps
  <2>8. CASE ReadPlan(r) \/ FindProduct(r) \/ ListPlans(r)
    BY <2>8, LookSteps
  <2>9. CASE ListProducts(r)
    BY <2>9, ListProductsSteps
  <2>10. CASE Commit(r)
    BY <2>10, CommitSteps
  <2>11. CASE Cancel(r) \/ Deadlocked(r)
    BY <2>11, EndSteps
  <2> QED BY <1>2, <2>1, <2>2, <2>3, <2>4, <2>5, <2>6, <2>7, <2>8, <2>9, <2>10, <2>11 DEF Continue
<1>3. ASSUME NEW t \in Templates,
             \/ \E new \in TemplateRows : CreateTemplate(t, new) \/ UpdateTemplate(t, new)
             \/ DeleteTemplate(t)
      PROVE  TypeInv' /\ CatalogInv'
  BY <1>3, TemplateSteps
<1>4. CASE UNCHANGED vars
  <2>1. rows' = rows /\ ordered' = ordered /\ templates' = templates /\ changes' = changes /\ req' = req
    BY <1>4 DEF vars
  <2>2. TypeInv'
    BY <2>1 DEF TypeInv
  <2>3. Done' = Done
    BY <2>1 DEF Done
  <2>4. \A r \in Requests : Local(r, req'[r], rows', ordered', Done')
    BY <2>1, <2>3 DEF CatalogInv
  <2>5. (\A r \in Requests : Holds(r, req[r]) /\ Unique(r, req[r]))'
    BY <2>1 DEF CatalogInv, Holds, Unique, Sees
  <2>6. IdsKept' /\ RowsConsistent' /\ AppliedWhole'
    BY <2>1 DEF CatalogInv, IdsKept, RowsConsistent, AppliedWhole, Live, SameSlug
  <2> QED BY <2>2, <2>4, <2>5, <2>6 DEF CatalogInv
<1> QED BY <1>1, <1>2, <1>3, <1>4 DEF Next

LEMMA Invariant == Spec => [](TypeInv /\ CatalogInv)
<1>1. Init => TypeInv /\ CatalogInv
  BY InitHolds
<1>2. TypeInv /\ CatalogInv /\ [Next]_vars => (TypeInv /\ CatalogInv)'
  BY NextKeeps
<1> QED BY <1>1, <1>2, PTL DEF Spec

-----------------------------------------------------------------------------
(* The theorems                                                            *)

(***************************************************************************)
(* Every variable of the catalog keeps its type, for any requests, rows    *)
(* and templates.                                                          *)
(***************************************************************************)
THEOREM TypeCorrect == Spec => []TypeOK
<1>1. TypeInv /\ CatalogInv => TypeOK
  BY TypeInvImplies
<1> QED BY <1>1, Invariant, PTL

(***************************************************************************)
(* Whatever requests run side by side, wait, fail and commit: the plan of  *)
(* an order item and the product of a plan are there, and a slug names one *)
(* product and one plan.                                                   *)
(***************************************************************************)
THEOREM RowsStayConsistent == Spec => []RowsConsistent
<1>1. TypeInv /\ CatalogInv => RowsConsistent
  BY DEF CatalogInv
<1> QED BY <1>1, Invariant, PTL

(***************************************************************************)
(* A product that was made from a template has, as long as it is there, a  *)
(* plan for every preset, save those that were deleted one by one.         *)
(***************************************************************************)
THEOREM TemplatesApplyWhole == Spec => []AppliedWhole
<1>1. TypeInv /\ CatalogInv => AppliedWhole
  BY DEF CatalogInv
<1> QED BY <1>1, Invariant, PTL
=============================================================================

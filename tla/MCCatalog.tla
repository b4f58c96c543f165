----------------------------- MODULE MCCatalog -----------------------------
(* Instances of Catalog for TLC. *)
EXTENDS Catalog

CONSTANTS r1, r2, r3, p, a, b, s1, s2, s3, s4, t1, t2

PlanOfP(slug) == [kind |-> "plan", slug |-> slug, active |-> TRUE, product |-> p]
ProductWith(slug) == [kind |-> "product", slug |-> slug, active |-> TRUE, product |-> None]

\* A product with two plans, and a template; another one may be made whose
\* presets are the same, the other way round.
SmallRows == [i \in StartIds |->
  CASE i = p -> ProductWith(s1) [] i = a -> PlanOfP(s1) [] i = b -> PlanOfP(s2)]
SmallTemplates == [t \in Templates |->
  IF t = t1 THEN [slug |-> s3, active |-> TRUE, hidden |-> {2}, presets |-> <<s3, s4>>] ELSE None]
SmallTemplateRows == 
  {[slug |-> s4, active |-> FALSE, hidden |-> {}, presets |-> <<s4, s3>>]}

New(id, slug, active) == [id |-> id, slug |-> slug, active |-> active]

\* An administrator applies templates, another does all there is to do, a
\* customer looks and orders.
SmallCalls == [r \in Requests |->
  CASE r = r1 ->
         {[do |-> "ApplyTemplate", id |-> t1, slug |-> s2, active |-> None]}
    [] r = r2 ->
         {[do |-> "ApplyTemplate", id |-> t2, slug |-> None, active |-> TRUE],
          [do |-> "CreateProduct", row |-> ProductWith(s2)],
          [do |-> "CreatePlan", row |-> PlanOfP(s3)],
          [do |-> "UpdateProduct", new |-> New(p, None, FALSE)],
          [do |-> "UpdatePlan", new |-> New(b, s4, None)],
          [do |-> "UpdatePlan", new |-> New(a, s1, FALSE)],
          [do |-> "DeleteProduct", id |-> p],
          [do |-> "DeletePlan", id |-> <<r1, 1>>],
          [do |-> "ListProducts"]}
    [] r = r3 ->
         {[do |-> "ListProducts"],
          [do |-> "GetProductBySlug", slug |-> s1],
          [do |-> "ListPlansByProductID", id |-> p],
          [do |-> "DeletePlan", id |-> a],
          [do |-> "CreateOrder", plans |-> <<a, b>>],
          [do |-> "CreateOrder", plans |-> <<(<<r1, 1>>), b>>]}]
=============================================================================

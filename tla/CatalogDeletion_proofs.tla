----------------------- MODULE CatalogDeletion_proofs -----------------------
(***************************************************************************)
(* Deletions cascade: while no request re-parents a row, no active product *)
(* is left under an archived root and no active bridge on an archived      *)
(* product, for every number of requests, every seed and every set of      *)
(* inputs, with failures and crashes.                                      *)
(*                                                                         *)
(* The two properties are not inductive: what a commit does depends on     *)
(* what its transaction has inserted and archived, and that on what the    *)
(* handler read and on what others have committed since.  The invariant    *)
(* DeletionInv says it, request by request.                                *)
(*                                                                         *)
(* Three more properties hold only while one request is handled at a time  *)
(* (MaxInFlight = 1): an option or a value can be inserted under a row     *)
(* that another request deletes meanwhile, and a prefix inserted twice.    *)
(***************************************************************************)
EXTENDS Catalog_proofs, FiniteSetTheorems

\* Before its inserts a request has no row; a root waits, pending, for its products.
Fresh(r) ==
  /\ pc[r] \in {"idle", "exists", "insertRoot"} =>
       \A i \in RootId : i[1] = r => roots[i].st = "absent"
  /\ pc[r] \in {"idle", "exists", "insertRoot", "insertImages", "insertProducts"} =>
       \A p \in ProductId : p[1] = r => products[p].st = "absent" /\ bridges[p].st = "absent"
  /\ pc[r] \in {"insertImages", "insertProducts"} => roots[<<r, 1>>].st = "pending"

\* A handler works on a row others can see, and an update on the root it has read.
Targets(r) ==
  /\ pc[r] \in {"archiveBridges", "archiveProducts"} /\ in[r].op = "deleteProduct" =>
       got[r] \in Committed(products)
  /\ pc[r] \in InTransaction \cup {"commit"} /\ in[r].op = "deleteRoot" =>
       got[r] \in Committed(roots)
  /\ At(r, "updateProduct", "update") =>
       got[r] \in Committed(products) /\ seen[r].root = products[got[r]].root

\* A transaction archives rows others can see: products late, a root last.
MarksKnown(r) ==
  /\ marks[r].roots \subseteq Committed(roots)
  /\ marks[r].products \subseteq Committed(products)
  /\ marks[r].bridges \subseteq Committed(bridges)
  /\ marks[r].products # {} => pc[r] \in {"archiveRoot", "commit"}
  /\ marks[r].roots # {} =>
       pc[r] = "commit" /\ in[r].op = "deleteRoot" /\ marks[r].roots = {got[r]}

\* What a deletion has archived so far covers what it is about to archive.
Cascades(r) ==
  /\ marks[r].products \cap Active(bridges) \subseteq marks[r].bridges
  /\ At(r, "deleteProduct", "archiveProducts") =>
       (got[r] \in Active(bridges) => got[r] \in marks[r].bridges)
  /\ pc[r] \in {"archiveValues", "archiveOptions", "archiveProducts"} /\ in[r].op = "deleteRoot" =>
       \A p \in Committed(products) :
         products[p].root = got[r] /\ p \in Active(bridges) => p \in marks[r].bridges
  /\ pc[r] \in {"archiveRoot", "commit"} /\ in[r].op = "deleteRoot" =>
       \A p \in Active(products) : products[p].root = got[r] => p \in marks[r].products

RequestInv(r) == Fresh(r) /\ Targets(r) /\ MarksKnown(r) /\ Cascades(r)

\* A pending product hangs from the pending root of its request, a pending
\* bridge from a pending product.
PendingTogether ==
  /\ \A p \in Pending(products) :
       products[p].root = <<p[1], 1>> /\ products[p].root \in Pending(roots)
  /\ Pending(bridges) \subseteq Pending(products)

DeletionsCascade == ActiveProductsHaveActiveRoot /\ ActiveBridgesHaveActiveProduct

DeletionInv == PendingTogether /\ DeletionsCascade /\ \A r \in Request : RequestInv(r)

LEMMA DeletionInit == Init => DeletionInv
<1> SUFFICES ASSUME Init PROVE DeletionInv
  OBVIOUS
<1>1. /\ roots = Seed.roots /\ products = Seed.products /\ bridges = Seed.bridges
      /\ \A r \in Request : marks[r] = NoMarks /\ pc[r] = "idle"
  BY DEF Init, StoreInit
<1>2. /\ DOMAIN roots = RootId /\ DOMAIN products = ProductId /\ DOMAIN bridges = ProductId
  BY <1>1, SeedAssumption DEF Tables
<1>3. ASSUME NEW r \in Request, NEW i \in Transaction \X Ordinal, i[1] = r
      PROVE  roots[i].st = "absent" /\ products[i].st = "absent" /\ bridges[i].st = "absent"
  BY <1>1, <1>3, SeedAssumption, ConstantsAssumption DEF RootId, ProductId, Request
<1>4. PendingTogether
  BY <1>1, <1>2, SeedAssumption DEF PendingTogether, Pending
<1>5. DeletionsCascade
  BY <1>1, SeedAssumption
     DEF DeletionsCascade, ActiveProductsHaveActiveRoot, ActiveBridgesHaveActiveProduct
<1>6. ASSUME NEW r \in Request PROVE RequestInv(r)
  <2>1. Fresh(r)
    BY <1>1, <1>3 DEF Fresh, RootId, ProductId
  <2>2. Targets(r) /\ MarksKnown(r) /\ Cascades(r)
    BY <1>1 DEF Targets, MarksKnown, Cascades, NoMarks, InTransaction, At
  <2> QED BY <2>1, <2>2 DEF RequestInv
<1> QED BY <1>4, <1>5, <1>6 DEF DeletionInv

-----------------------------------------------------------------------------
(* Steps that leave roots, products and bridges alone *)

\* They disturb nothing but what the invariant says of the request itself.
LEMMA OneRequest ==
  ASSUME DeletionInv, NEW r \in Request, UNCHANGED <<roots, products, bridges>>,
         \A q \in Request \ {r} : /\ pc'[q] = pc[q] /\ in'[q] = in[q] /\ got'[q] = got[q]
                                  /\ seen'[q] = seen[q] /\ marks'[q] = marks[q],
         RequestInv(r)'
  PROVE  DeletionInv'
<1>1. PendingTogether' /\ DeletionsCascade'
  BY DEF DeletionInv, PendingTogether, DeletionsCascade, ActiveProductsHaveActiveRoot,
     ActiveBridgesHaveActiveProduct, Pending, Active
<1>2. ASSUME NEW q \in Request \ {r} PROVE RequestInv(q)'
  <2>1. RequestInv(q)
    BY DEF DeletionInv
  <2> QED BY <2>1 DEF RequestInv, Fresh, Targets, MarksKnown, Cascades, At, Committed, Active
<1> QED BY <1>1, <1>2 DEF DeletionInv

\* What Goto does to the labels.
LEMMA GotoFrame ==
  ASSUME TypeInv, NEW r \in Request, NEW l, pc' = [pc EXCEPT ![r] = l]
  PROVE  pc'[r] = l /\ \A q \in Request \ {r} : pc'[q] = pc[q]
BY DEF TypeInv, LocalsOK

\* A step that archives nothing of roots, products and bridges, and goes to a
\* label of which the invariant says nothing.
Quiet(r) ==
  /\ UNCHANGED <<roots, products, bridges, in, got, seen>>
  /\ \A q \in Request : /\ marks'[q].roots = marks[q].roots
                        /\ marks'[q].products = marks[q].products
                        /\ marks'[q].bridges = marks[q].bridges
  /\ \A q \in Request \ {r} : pc'[q] = pc[q] /\ marks'[q] = marks[q]
  /\ pc[r] \notin {"archiveRoot", "commit"}
  /\ \/ pc'[r] \in {"done", "leaked", "webhooks", "readBack", "nameFree"}
     \/ pc'[r] \in {"insertOption", "insertValue", "commit"} /\ in[r].op # "deleteRoot"
     \/ pc'[r] = "archiveOptions" /\ in[r].op = "deleteOption"
     \/ pc[r] = "exists" /\ pc'[r] = "insertRoot" /\ in[r].op = "createProduct"
     \/ pc[r] = "insertImages" /\ pc'[r] = "insertProducts" /\ in[r].op = "createProduct"

LEMMA QuietInv ==
  ASSUME DeletionInv, NEW r \in Request, Quiet(r)
  PROVE  DeletionInv'
<1>1. RequestInv(r)
  BY DEF DeletionInv
<1>2. Fresh(r)'
  BY <1>1 DEF RequestInv, Fresh, Quiet
<1>3. Targets(r)'
  BY <1>1 DEF RequestInv, Targets, Quiet, InTransaction, At
<1>4. MarksKnown(r)'
  BY <1>1 DEF RequestInv, MarksKnown, Quiet, Committed
<1>5. Cascades(r)'
  BY <1>1 DEF RequestInv, Cascades, Quiet, At, Active
<1>6. RequestInv(r)'
  BY <1>2, <1>3, <1>4, <1>5 DEF RequestInv
<1> QED BY <1>6, OneRequest DEF Quiet

LEMMA ArriveInv ==
  ASSUME TypeInv, DeletionInv, NEW r \in Request, Arrive(r)
  PROVE  DeletionInv'
<1>1. RequestInv(r)
  BY DEF DeletionInv
<1>2. UNCHANGED <<roots, products, bridges, marks, got, seen>> /\ pc[r] = "idle"
  BY DEF Arrive, tables
<1>3. PICK i \in Inputs : in' = [in EXCEPT ![r] = i]
                          /\ pc' = [pc EXCEPT ![r] =
                               IF i.op \in {"createProduct", "createOption", "createValue"}
                               THEN "exists" ELSE "find"]
  BY DEF Arrive, Continue, Goto
<1>4. pc'[r] \in {"exists", "find"} /\ \A q \in Request \ {r} : pc'[q] = pc[q] /\ in'[q] = in[q]
  BY <1>3 DEF TypeInv, LocalsOK
<1>5. RequestInv(r)'
  BY <1>1, <1>2, <1>4
     DEF RequestInv, Fresh, Targets, MarksKnown, Cascades, InTransaction, At, Committed, Active
<1> QED BY <1>2, <1>4, <1>5, OneRequest

LEMMA ReadStepQuiet ==
  ASSUME TypeInv, NEW r \in Request, ReadStep(r)
  PROVE  Quiet(r)
BY GotoFrame
   DEF ReadStep, CreateProduct_Exists, CreateOption_Exists, ProductRootExists,
      CreateOption_NameFree, CreateValue_Exists, ProductOptionExists, CreateValue_ValueFree,
      UpdateOption_ReadBack, GetWebhooks, At, Continue, Respond, Goto, locals, tables, Quiet

LEMMA FindStepInv ==
  ASSUME TypeInv, DeletionInv, NoReparenting, NEW r \in Request, FindStep(r)
  PROVE  DeletionInv'
<1> DEFINE Others == \A q \in Request \ {r} : pc'[q] = pc[q] /\ got'[q] = got[q] /\ seen'[q] = seen[q]
<1>1. RequestInv(r)
  BY DEF DeletionInv
<1>2. UNCHANGED <<roots, products, bridges, marks, in>> /\ pc[r] = "find"
  BY DEF FindStep, DeleteProduct_Find, DeleteRoot_Find, GetProductRoot, DeleteOption_Find,
     GetProductOption, UpdateValue_Find, GetProductOptionValue, DeleteValue_Find,
     UpdateProduct_Find, UpdateOption_Find, Find, At, tables
<1>3. /\ Others
      /\ \/ pc'[r] = "done"
         \/ in[r].op = "deleteProduct" /\ pc'[r] = "archiveBridges" /\ got'[r] \in Active(products)
         \/ in[r].op = "deleteRoot" /\ pc'[r] = "archiveBridges" /\ got'[r] \in Active(roots)
         \/ in[r].op = "deleteOption" /\ pc'[r] = "archiveValues"
         \/ in[r].op \in {"updateOption", "updateValue", "deleteValue"} /\ pc'[r] = "update"
         \/ /\ in[r].op = "updateProduct" /\ pc'[r] = "update"
            /\ got'[r] \in Active(products) /\ seen'[r] = products[got'[r]]
  <2> USE DEF TypeInv, LocalsOK
  <2>1. CASE DeleteProduct_Find(r)
    BY <2>1 DEF DeleteProduct_Find, ProductsWithSKU, Find, Respond, Continue, Goto, At
  <2>2. CASE DeleteRoot_Find(r)
    BY <2>2 DEF DeleteRoot_Find, GetProductRoot, Find, Respond, Continue, Goto, At
  <2>3. CASE DeleteOption_Find(r)
    BY <2>3 DEF DeleteOption_Find, GetProductOption, Find, Respond, Continue, Goto, At
  <2>4. CASE UpdateValue_Find(r)
    BY <2>4 DEF UpdateValue_Find, GetProductOptionValue, Find, Respond, Continue, Goto, At
  <2>5. CASE DeleteValue_Find(r)
    BY <2>5 DEF DeleteValue_Find, GetProductOptionValue, Find, Respond, Continue, Goto, At
  <2>6. CASE UpdateProduct_Find(r)
    <3>1. in[r].product = None
      BY <1>2, <2>6, RequestFields DEF NoReparenting, UpdateProduct_Find, At, Statement
    <3> QED
      BY <2>6, <3>1 DEF UpdateProduct_Find, ProductsWithSKU, Respond, Continue, Goto, At
  <2>7. CASE UpdateOption_Find(r)
    BY <2>7 DEF UpdateOption_Find, GetProductOption, Respond, Continue, Goto, At
  <2> QED BY <2>1, <2>2, <2>3, <2>4, <2>5, <2>6, <2>7 DEF FindStep
<1>4. Fresh(r)' /\ MarksKnown(r)' /\ Cascades(r)'
  BY <1>1, <1>2, <1>3 DEF RequestInv, Fresh, MarksKnown, Cascades, At, Committed, Active
<1>5. Targets(r)'
  BY <1>2, <1>3 DEF Targets, InTransaction, At, Committed, Active
<1> QED BY <1>2, <1>3, <1>4, <1>5, OneRequest DEF RequestInv

-----------------------------------------------------------------------------
(* Transactions that end *)

LEMMA RollbackInv ==
  ASSUME TypeInv, DeletionInv, NEW rs \in SUBSET Request, Rollback(rs),
         UNCHANGED <<in, got, seen>>,
         \A q \in Request \ rs : pc'[q] = pc[q],
         \A q \in rs : pc'[q] \in {"done", "leaked", "dead"}
  PROVE  DeletionInv'
<1> USE DEF TypeInv, StoreTypeOK
<1>1. ASSUME NEW i \in RootId
      PROVE  roots'[i].st = IF roots[i].st = "pending" /\ i[1] \in rs THEN "aborted" ELSE roots[i].st
  BY DEF Rollback, Undone, RootRow
<1>2. ASSUME NEW p \in ProductId
      PROVE  /\ products'[p].st =
                  IF products[p].st = "pending" /\ p[1] \in rs THEN "aborted" ELSE products[p].st
             /\ products'[p].root = products[p].root
  BY DEF Rollback, Undone, ProductRow
<1>3. ASSUME NEW p \in ProductId
      PROVE  bridges'[p].st =
                  IF bridges[p].st = "pending" /\ p[1] \in rs THEN "aborted" ELSE bridges[p].st
  BY DEF Rollback, Undone, BridgeRow
<1>4. DOMAIN roots' = RootId /\ DOMAIN products' = ProductId /\ DOMAIN bridges' = ProductId
  BY DEF Rollback, Undone
<1>5. /\ Committed(roots)' = Committed(roots) /\ Active(roots)' = Active(roots)
      /\ Committed(products)' = Committed(products) /\ Active(products)' = Active(products)
      /\ Committed(bridges)' = Committed(bridges) /\ Active(bridges)' = Active(bridges)
      /\ Pending(roots)' = {i \in Pending(roots) : i[1] \notin rs}
      /\ Pending(products)' = {i \in Pending(products) : i[1] \notin rs}
      /\ Pending(bridges)' = {i \in Pending(bridges) : i[1] \notin rs}
  BY <1>1, <1>2, <1>3, <1>4 DEF Committed, Active, Pending
<1>6. \A p \in ProductId : products'[p].root = products[p].root
  BY <1>2
<1>7. Committed(products) \subseteq ProductId /\ Active(products) \subseteq ProductId
      /\ Pending(products) \subseteq ProductId
  BY DEF Committed, Active, Pending
<1>8. PendingTogether'
  <2>1. PendingTogether
    BY DEF DeletionInv
  <2> QED BY <1>5, <1>6, <1>7, <2>1 DEF PendingTogether
<1>9. DeletionsCascade'
  BY <1>5, <1>6, <1>7
     DEF DeletionInv, DeletionsCascade, ActiveProductsHaveActiveRoot,
        ActiveBridgesHaveActiveProduct
<1>10. ASSUME NEW q \in rs PROVE RequestInv(q)'
  <2>1. marks'[q] = NoMarks /\ pc'[q] \in {"done", "leaked", "dead"}
    BY DEF Rollback
  <2> QED
    BY <2>1 DEF RequestInv, Fresh, Targets, MarksKnown, Cascades, NoMarks, InTransaction, At
<1>11. ASSUME NEW q \in Request \ rs PROVE RequestInv(q)'
  <2>1. RequestInv(q) /\ marks'[q] = marks[q] /\ pc'[q] = pc[q]
    BY DEF DeletionInv, Rollback
  <2>2. Fresh(q)'
    <3>1. <<q, 1>> \in RootId
      BY DrawnIds
    <3>2. roots[<<q, 1>>].st = "pending" => roots'[<<q, 1>>].st = "pending"
      BY <1>1, <3>1
    <3> QED BY <1>1, <1>2, <1>3, <2>1, <3>2 DEF RequestInv, Fresh
  <2>3. Targets(q)'
    BY <1>5, <1>6, <1>7, <2>1 DEF RequestInv, Targets, At
  <2>4. MarksKnown(q)'
    BY <1>5, <2>1 DEF RequestInv, MarksKnown
  <2>5. Cascades(q)'
    BY <1>5, <1>6, <1>7, <2>1 DEF RequestInv, Cascades, At
  <2> QED BY <2>2, <2>3, <2>4, <2>5 DEF RequestInv
<1> QED BY <1>8, <1>9, <1>10, <1>11 DEF DeletionInv

LEMMA CommitInv ==
  ASSUME TypeInv, DeletionInv, NEW r \in Request, Commit(r), pc[r] = "commit",
         UNCHANGED <<in, got, seen>>,
         \A q \in Request \ {r} : pc'[q] = pc[q],
         pc'[r] \in {"done", "webhooks"}
  PROVE  DeletionInv'
<1> USE DEF TypeInv, StoreTypeOK
<1>1. ASSUME NEW i \in RootId
      PROVE  roots'[i].st = IF roots[i].st = "pending" /\ i[1] = r THEN "active"
                            ELSE IF i \in marks[r].roots THEN "archived" ELSE roots[i].st
  BY DEF Commit, Settled, RootRow
<1>2. ASSUME NEW p \in ProductId
      PROVE  /\ products'[p].st = IF products[p].st = "pending" /\ p[1] = r THEN "active"
                                  ELSE IF p \in marks[r].products THEN "archived" ELSE products[p].st
             /\ products'[p].root = products[p].root
  BY DEF Commit, Settled, ProductRow
<1>3. ASSUME NEW p \in ProductId
      PROVE  bridges'[p].st = IF bridges[p].st = "pending" /\ p[1] = r THEN "active"
                              ELSE IF p \in marks[r].bridges THEN "archived" ELSE bridges[p].st
  BY DEF Commit, Settled, BridgeRow
<1>4. /\ DOMAIN roots' = RootId /\ DOMAIN products' = ProductId /\ DOMAIN bridges' = ProductId
      /\ DOMAIN roots = RootId /\ DOMAIN products = ProductId /\ DOMAIN bridges = ProductId
  BY DEF Commit, Settled
<1>5. RequestInv(r) /\ PendingTogether /\ DeletionsCascade
  BY DEF DeletionInv
<1>6. /\ marks[r].roots \subseteq Committed(roots)
      /\ marks[r].products \subseteq Committed(products)
      /\ marks[r].bridges \subseteq Committed(bridges)
  BY <1>5 DEF RequestInv, MarksKnown
\* What others see of the tables after the commit.
<1>7. /\ Active(roots)' = (Active(roots) \ marks[r].roots) \cup {i \in Pending(roots) : i[1] = r}
      /\ Active(products)' =
           (Active(products) \ marks[r].products) \cup {p \in Pending(products) : p[1] = r}
      /\ Active(bridges)' =
           (Active(bridges) \ marks[r].bridges) \cup {p \in Pending(bridges) : p[1] = r}
  <2>1. Active(roots)' = (Active(roots) \ marks[r].roots) \cup {i \in Pending(roots) : i[1] = r}
    BY <1>1, <1>4, <1>6 DEF Active, Pending, Committed
  <2>2. Active(products)' =
         (Active(products) \ marks[r].products) \cup {p \in Pending(products) : p[1] = r}
    BY <1>2, <1>4, <1>6 DEF Active, Pending, Committed
  <2>3. Active(bridges)' =
         (Active(bridges) \ marks[r].bridges) \cup {p \in Pending(bridges) : p[1] = r}
    BY <1>3, <1>4, <1>6 DEF Active, Pending, Committed
  <2> QED BY <2>1, <2>2, <2>3
<1>8. /\ Committed(roots)' = Committed(roots) \cup {i \in Pending(roots) : i[1] = r}
      /\ Committed(products)' = Committed(products) \cup {p \in Pending(products) : p[1] = r}
      /\ Committed(bridges)' = Committed(bridges) \cup {p \in Pending(bridges) : p[1] = r}
  <2>1. Committed(roots)' = Committed(roots) \cup {i \in Pending(roots) : i[1] = r}
    BY <1>1, <1>4, <1>6 DEF Pending, Committed
  <2>2. Committed(products)' = Committed(products) \cup {p \in Pending(products) : p[1] = r}
    BY <1>2, <1>4, <1>6 DEF Pending, Committed
  <2>3. Committed(bridges)' = Committed(bridges) \cup {p \in Pending(bridges) : p[1] = r}
    BY <1>3, <1>4, <1>6 DEF Pending, Committed
  <2> QED BY <2>1, <2>2, <2>3
<1>9. /\ Pending(roots)' = {i \in Pending(roots) : i[1] # r}
      /\ Pending(products)' = {p \in Pending(products) : p[1] # r}
      /\ Pending(bridges)' = {p \in Pending(bridges) : p[1] # r}
  <2>1. Pending(roots)' = {i \in Pending(roots) : i[1] # r}
    BY <1>1, <1>4, <1>6 DEF Pending, Committed
  <2>2. Pending(products)' = {p \in Pending(products) : p[1] # r}
    BY <1>2, <1>4, <1>6 DEF Pending, Committed
  <2>3. Pending(bridges)' = {p \in Pending(bridges) : p[1] # r}
    BY <1>3, <1>4, <1>6 DEF Pending, Committed
  <2> QED BY <2>1, <2>2, <2>3
<1>10. /\ \A p \in ProductId : products'[p].root = products[p].root
       /\ Committed(products) \subseteq ProductId /\ Active(products) \subseteq ProductId
       /\ Pending(products) \subseteq ProductId
       /\ Active(products) \subseteq Committed(products)
       /\ Committed(products) \cap Pending(products) = {}
       /\ Committed(roots) \cap Pending(roots) = {}
  BY <1>2, <1>4 DEF Committed, Active, Pending
<1>11. PendingTogether'
  <2>1. \A p \in Pending(products)' :
          products'[p].root = <<p[1], 1>> /\ products'[p].root \in Pending(roots)'
    BY <1>5, <1>9, <1>10 DEF PendingTogether
  <2>2. Pending(bridges)' \subseteq Pending(products)'
    BY <1>5, <1>9 DEF PendingTogether
  <2> QED BY <2>1, <2>2 DEF PendingTogether
<1>12. ActiveProductsHaveActiveRoot'
  <2> SUFFICES ASSUME NEW p \in Active(products)' PROVE products'[p].root \in Active(roots)'
    BY DEF ActiveProductsHaveActiveRoot
  <2>1. CASE p \in Pending(products) /\ p[1] = r
    <3>1. products[p].root = <<r, 1>> /\ <<r, 1>> \in Pending(roots)
      BY <1>5, <2>1 DEF PendingTogether
    <3> QED BY <1>7, <1>10, <2>1, <3>1
  <2>2. CASE p \in Active(products) \ marks[r].products
    <3>1. products[p].root \in Active(roots)
      BY <1>5, <2>2 DEF DeletionsCascade, ActiveProductsHaveActiveRoot
    <3>2. products[p].root \notin marks[r].roots
      BY <1>5, <2>2 DEF RequestInv, MarksKnown, Cascades
    <3> QED BY <1>7, <1>10, <2>2, <3>1, <3>2
  <2> QED BY <1>7, <2>1, <2>2
<1>13. ActiveBridgesHaveActiveProduct'
  BY <1>5, <1>7 DEF ActiveBridgesHaveActiveProduct, DeletionsCascade, PendingTogether,
     RequestInv, Cascades
<1>14. RequestInv(r)'
  <2>1. marks'[r] = NoMarks
    BY DEF Commit
  <2> QED
    BY <2>1 DEF RequestInv, Fresh, Targets, MarksKnown, Cascades, NoMarks, InTransaction, At
<1>15. ASSUME NEW q \in Request \ {r} PROVE RequestInv(q)'
  <2>1. RequestInv(q) /\ marks'[q] = marks[q] /\ pc'[q] = pc[q]
    BY DEF DeletionInv, Commit
  <2>2. Fresh(q)'
    <3>1. <<q, 1>> \in RootId
      BY DrawnIds
    <3>2. ASSUME NEW i \in RootId, i[1] = q, roots[i].st \in {"absent", "pending"}
          PROVE  roots'[i].st = roots[i].st
      BY <1>1, <1>6, <3>2 DEF Committed
    <3>3. ASSUME NEW p \in ProductId, p[1] = q, products[p].st = "absent", bridges[p].st = "absent"
          PROVE  products'[p].st = "absent" /\ bridges'[p].st = "absent"
      BY <1>2, <1>3, <1>6, <3>3 DEF Committed
    <3> QED BY <2>1, <3>1, <3>2, <3>3 DEF RequestInv, Fresh
  <2>3. Targets(q)'
    BY <1>8, <1>10, <2>1 DEF RequestInv, Targets, At
  <2>4. MarksKnown(q)'
    BY <1>8, <2>1 DEF RequestInv, MarksKnown
  \* A product of r that becomes visible hangs from r's own root, which q
  \* cannot have found.
  <2>5. ASSUME NEW p \in Committed(products)', products'[p].root \in Committed(roots)
        PROVE  p \in Committed(products)
    BY <1>5, <1>8, <1>10, <2>5 DEF PendingTogether
  <2>6. \A p \in Committed(products) \cap Active(bridges)' : p \in Active(bridges)
    BY <1>5, <1>7, <1>10 DEF PendingTogether
  <2>7. \A p \in Committed(products) \cap Active(products)' : p \in Active(products)
    BY <1>7, <1>10
  <2>8. (marks[q].products \cap Active(bridges) \subseteq marks[q].bridges)'
    BY <2>1, <2>6 DEF RequestInv, MarksKnown, Cascades
  <2>9. (At(q, "deleteProduct", "archiveProducts") =>
          (got[q] \in Active(bridges) => got[q] \in marks[q].bridges))'
    BY <2>1, <2>6 DEF RequestInv, Targets, Cascades, At
  <2>10. in[q].op = "deleteRoot" /\ pc[q] \in InTransaction \cup {"commit"} => got[q] \in Committed(roots)
    BY <2>1 DEF RequestInv, Targets
  <2>11. (pc[q] \in {"archiveValues", "archiveOptions", "archiveProducts"} /\ in[q].op = "deleteRoot" =>
           \A p \in Committed(products) :
             products[p].root = got[q] /\ p \in Active(bridges) => p \in marks[q].bridges)'
    BY <1>10, <2>1, <2>5, <2>6, <2>10 DEF RequestInv, Cascades, InTransaction
  <2>12. (pc[q] \in {"archiveRoot", "commit"} /\ in[q].op = "deleteRoot" =>
           \A p \in Active(products) : products[p].root = got[q] => p \in marks[q].products)'
    <3>1. Active(products)' \subseteq Committed(products)'
      BY DEF Active, Committed
    <3> QED BY <1>10, <2>1, <2>5, <2>7, <2>10, <3>1 DEF RequestInv, Cascades, InTransaction
  <2> QED BY <2>2, <2>3, <2>4, <2>8, <2>9, <2>11, <2>12 DEF RequestInv, Cascades
<1> QED BY <1>11, <1>12, <1>13, <1>14, <1>15 DEF DeletionInv, DeletionsCascade

LEMMA EndStepInv ==
  ASSUME TypeInv, DeletionInv, NEW r \in Request, EndStep(r)
  PROVE  DeletionInv'
<1>1. UNCHANGED <<in, got, seen>>
  BY DEF EndStep, CommitSucceeds, CommitFails, StatementFails, locals
<1>2. pc'[r] \in {"done", "webhooks", "leaked"} /\ \A q \in Request \ {r} : pc'[q] = pc[q]
  BY DEF EndStep, CommitSucceeds, CommitFails, StatementFails, Respond, RespondAndLeak,
     Continue, Goto, TypeInv, LocalsOK
<1>3. CASE Rollback({r}) /\ pc'[r] \in {"done", "leaked"}
  BY <1>1, <1>2, <1>3, RollbackInv
<1>4. CASE Commit(r) /\ pc[r] = "commit" /\ pc'[r] \in {"done", "webhooks"}
  BY <1>1, <1>2, <1>4, CommitInv
<1>5. CASE UNCHANGED <<tables, marks>> /\ pc[r] \notin InTransaction \cup {"commit"}
           /\ pc'[r] \in {"done", "leaked"}
  BY <1>1, <1>2, <1>5, QuietInv DEF Quiet, tables, InTransaction
<1>6. \/ Rollback({r}) /\ pc'[r] \in {"done", "leaked"}
      \/ Commit(r) /\ pc[r] = "commit" /\ pc'[r] \in {"done", "webhooks"}
      \/ UNCHANGED <<tables, marks>> /\ pc[r] \notin InTransaction \cup {"commit"}
         /\ pc'[r] \in {"done", "leaked"}
  BY DEF EndStep, CommitSucceeds, CommitFails, StatementFails, Respond, RespondAndLeak,
     Continue, Goto, TypeInv, LocalsOK
<1> QED BY <1>3, <1>4, <1>5, <1>6

LEMMA CrashInv ==
  ASSUME TypeInv, DeletionInv, ServerCrash
  PROVE  DeletionInv'
<1> DEFINE dying == InFlight \cup {r \in Request : pc[r] = "leaked"}
<1>1. dying \in SUBSET Request /\ Rollback(dying) /\ UNCHANGED <<in, got, seen>>
      /\ pc' = [r \in Request |-> IF r \in dying THEN "dead" ELSE pc[r]]
  BY DEF ServerCrash, InFlight, locals
<1> HIDE DEF dying
<1>2. (\A q \in Request \ dying : pc'[q] = pc[q]) /\ (\A q \in dying : pc'[q] = "dead")
  BY <1>1
<1> QED BY <1>1, <1>2, RollbackInv

-----------------------------------------------------------------------------
(* Statements that archive *)

\* A statement that archives rows, or is refused.
LEMMA MarkStepInv ==
  ASSUME TypeInv, DeletionInv, NEW r \in Request, MarkStep(r)
  PROVE  DeletionInv'
<1> USE DEF TypeInv, LocalsOK, StoreTypeOK
<1>1. RequestInv(r) /\ DeletionsCascade
  BY DEF DeletionInv
<1>2. UNCHANGED <<in, got, seen>>
  BY DEF MarkStep, DeleteProduct_ArchiveBridges, DeleteProductVariantBridgeByProductID,
     DeleteProduct_ArchiveProduct, DeleteProduct, DeleteRoot_ArchiveBridges,
     DeleteRoot_ArchiveValues, DeleteRoot_ArchiveOptions, DeleteRoot_ArchiveProducts,
     DeleteRoot_ArchiveRoot, DeleteProductRoot, DeleteOption_ArchiveValues,
     DeleteOption_ArchiveOption, DeleteProductOption, locals
<1>3. marks[r] \in Marks /\ DOMAIN products = ProductId /\ DOMAIN bridges = ProductId
  OBVIOUS
<1>4. CASE (DeleteRoot_ArchiveValues(r) \/ DeleteRoot_ArchiveProducts(r)) /\ pc'[r] = "done"
  <2>1. Rollback({r}) /\ \A q \in Request \ {r} : pc'[q] = pc[q]
    BY <1>4 DEF DeleteRoot_ArchiveValues, DeleteRoot_ArchiveProducts, Continue, Respond, Goto
  <2> QED BY <1>2, <1>4, <2>1, RollbackInv
<1>5. CASE DeleteProduct_ArchiveBridges(r)
  <2>1. /\ UNCHANGED <<roots, products, bridges>>
        /\ marks'[r].roots = marks[r].roots /\ marks'[r].products = marks[r].products
        /\ marks'[r].bridges = Active(bridges) \cap {got[r]}
        /\ pc[r] = "archiveBridges" /\ in[r].op = "deleteProduct" /\ pc'[r] = "archiveProducts"
        /\ \A q \in Request \ {r} : pc'[q] = pc[q] /\ marks'[q] = marks[q]
    BY <1>3, <1>5 DEF DeleteProduct_ArchiveBridges, DeleteProductVariantBridgeByProductID, At,
       Continue, Goto, tables, Marks
  <2>2. RequestInv(r)'
    BY <1>1, <1>2, <2>1 DEF RequestInv, Fresh, Targets, MarksKnown, Cascades, InTransaction,
       At, Committed, Active
  <2> QED BY <1>2, <2>1, <2>2, OneRequest
<1>6. CASE DeleteProduct_ArchiveProduct(r)
  <2>1. /\ UNCHANGED <<roots, products, bridges>>
        /\ marks'[r].roots = marks[r].roots /\ marks'[r].bridges = marks[r].bridges
        /\ marks'[r].products = {got[r]}
        /\ pc[r] = "archiveProducts" /\ in[r].op = "deleteProduct" /\ pc'[r] = "commit"
        /\ \A q \in Request \ {r} : pc'[q] = pc[q] /\ marks'[q] = marks[q]
    BY <1>3, <1>6 DEF DeleteProduct_ArchiveProduct, DeleteProduct, At, Continue, Goto, tables,
       Marks
  <2>2. RequestInv(r)'
    BY <1>1, <1>2, <2>1 DEF RequestInv, Fresh, Targets, MarksKnown, Cascades, InTransaction,
       At, Committed, Active
  <2> QED BY <1>2, <2>1, <2>2, OneRequest
<1>7. CASE DeleteRoot_ArchiveBridges(r)
  <2>1. /\ UNCHANGED <<roots, products, bridges>>
        /\ marks'[r].roots = marks[r].roots /\ marks'[r].products = marks[r].products
        /\ marks'[r].bridges = BridgesOfRoot(got[r])
        /\ pc[r] = "archiveBridges" /\ in[r].op = "deleteRoot" /\ pc'[r] = "archiveValues"
        /\ \A q \in Request \ {r} : pc'[q] = pc[q] /\ marks'[q] = marks[q]
    BY <1>3, <1>7 DEF DeleteRoot_ArchiveBridges, At, Continue, Goto, tables, Marks
  <2>2. RequestInv(r)'
    BY <1>1, <1>2, <2>1 DEF RequestInv, Fresh, Targets, MarksKnown, Cascades, InTransaction,
       At, Committed, Active, BridgesOfRoot
  <2> QED BY <1>2, <2>1, <2>2, OneRequest
<1>8. CASE DeleteRoot_ArchiveValues(r) /\ pc'[r] # "done"
  <2>1. /\ UNCHANGED <<roots, products, bridges>>
        /\ marks'[r].roots = marks[r].roots /\ marks'[r].products = marks[r].products
        /\ marks'[r].bridges = marks[r].bridges
        /\ pc[r] = "archiveValues" /\ in[r].op = "deleteRoot" /\ pc'[r] = "archiveOptions"
        /\ \A q \in Request \ {r} : pc'[q] = pc[q] /\ marks'[q] = marks[q]
    BY <1>3, <1>8 DEF DeleteRoot_ArchiveValues, At, Continue, Respond, Goto, tables, Marks
  <2>2. RequestInv(r)'
    BY <1>1, <1>2, <2>1 DEF RequestInv, Fresh, Targets, MarksKnown, Cascades, InTransaction,
       At, Committed, Active
  <2> QED BY <1>2, <2>1, <2>2, OneRequest
<1>9. CASE DeleteRoot_ArchiveOptions(r)
  <2>1. /\ UNCHANGED <<roots, products, bridges>>
        /\ marks'[r].roots = marks[r].roots /\ marks'[r].products = marks[r].products
        /\ marks'[r].bridges = marks[r].bridges
        /\ pc[r] = "archiveOptions" /\ in[r].op = "deleteRoot" /\ pc'[r] = "archiveProducts"
        /\ \A q \in Request \ {r} : pc'[q] = pc[q] /\ marks'[q] = marks[q]
    BY <1>3, <1>9 DEF DeleteRoot_ArchiveOptions, At, Continue, Goto, tables, Marks
  <2>2. RequestInv(r)'
    BY <1>1, <1>2, <2>1 DEF RequestInv, Fresh, Targets, MarksKnown, Cascades, InTransaction,
       At, Committed, Active
  <2> QED BY <1>2, <2>1, <2>2, OneRequest
<1>10. CASE DeleteRoot_ArchiveProducts(r) /\ pc'[r] # "done"
  <2>1. /\ UNCHANGED <<roots, products, bridges>>
        /\ marks'[r].roots = marks[r].roots /\ marks'[r].bridges = marks[r].bridges
        /\ marks'[r].products = ProductsOfRoot(got[r])
        /\ pc[r] = "archiveProducts" /\ in[r].op = "deleteRoot" /\ pc'[r] = "archiveRoot"
        /\ \A q \in Request \ {r} : pc'[q] = pc[q] /\ marks'[q] = marks[q]
    BY <1>3, <1>10 DEF DeleteRoot_ArchiveProducts, At, Continue, Respond, Goto, tables, Marks
  <2>2. RequestInv(r)'
    BY <1>1, <1>2, <2>1 DEF RequestInv, Fresh, Targets, MarksKnown, Cascades, InTransaction,
       At, Committed, Active, ProductsOfRoot
  <2> QED BY <1>2, <2>1, <2>2, OneRequest
<1>11. CASE DeleteRoot_ArchiveRoot(r)
  <2>1. /\ UNCHANGED <<roots, products, bridges>>
        /\ marks'[r].products = marks[r].products /\ marks'[r].bridges = marks[r].bridges
        /\ marks'[r].roots = {got[r]}
        /\ pc[r] = "archiveRoot" /\ in[r].op = "deleteRoot" /\ pc'[r] = "commit"
        /\ \A q \in Request \ {r} : pc'[q] = pc[q] /\ marks'[q] = marks[q]
    BY <1>3, <1>11 DEF DeleteRoot_ArchiveRoot, DeleteProductRoot, At, Continue, Goto, tables,
       Marks
  <2>2. RequestInv(r)'
    BY <1>1, <1>2, <2>1 DEF RequestInv, Fresh, Targets, MarksKnown, Cascades, InTransaction,
       At, Committed, Active
  <2> QED BY <1>2, <2>1, <2>2, OneRequest
<1>12. CASE DeleteOption_ArchiveValues(r)
  <2>1. /\ UNCHANGED <<roots, products, bridges>>
        /\ pc[r] = "archiveValues" /\ in[r].op = "deleteOption"
        /\ pc'[r] \in {"leaked", "archiveOptions"}
        /\ \A q \in Request \ {r} : pc'[q] = pc[q]
    BY <1>12 DEF DeleteOption_ArchiveValues, At, Continue, RespondAndLeak, Goto, tables
  <2>2. /\ marks'[r].roots = marks[r].roots /\ marks'[r].products = marks[r].products
        /\ marks'[r].bridges = marks[r].bridges
        /\ \A q \in Request \ {r} : marks'[q] = marks[q]
    BY <1>3, <1>12 DEF DeleteOption_ArchiveValues, Marks
  <2>3. Quiet(r)
    BY <1>2, <2>1, <2>2 DEF Quiet
  <2> QED BY <2>3, QuietInv
<1>13. CASE DeleteOption_ArchiveOption(r)
  <2>1. Quiet(r)
    BY <1>2, <1>3, <1>13 DEF DeleteOption_ArchiveOption, DeleteProductOption, At, Continue,
       Goto, tables, Marks, Quiet
  <2> QED BY <2>1, QuietInv
<1> QED BY <1>4, <1>5, <1>6, <1>7, <1>8, <1>9, <1>10, <1>11, <1>12, <1>13 DEF MarkStep

-----------------------------------------------------------------------------
(* Statements that insert *)

LEMMA InsertRootInv ==
  ASSUME TypeInv, DeletionInv, NEW r \in Request, CreateProduct_InsertRoot(r)
  PROVE  DeletionInv'
<1> USE DEF TypeInv, LocalsOK, StoreTypeOK
<1>1. /\ UNCHANGED <<products, bridges, marks, in, got, seen>>
      /\ pc[r] = "insertRoot" /\ in[r].op = "createProduct" /\ pc'[r] = "insertImages"
      /\ \A q \in Request \ {r} : pc'[q] = pc[q]
  BY DEF CreateProduct_InsertRoot, At, Continue, Goto, locals
<1> DEFINE drawn == <<r, 1>>
           row == [i \in {drawn} |-> [st |-> "pending", prefix |-> in[r].sku]]
<1>2. drawn \in RootId /\ roots' = Written(roots, row)
  BY DrawnIds DEF CreateProduct_InsertRoot, CreateProductRoot
<1>3. DOMAIN row = {drawn} /\ row[drawn].st = "pending"
  OBVIOUS
<1>4. DOMAIN roots' = RootId /\ DOMAIN roots = RootId
  <2> HIDE DEF drawn, row
  <2> QED BY <1>2 DEF Written
<1>5. <<r, 1>> \in RootId /\ roots'[<<r, 1>>].st = "pending"
      /\ \A i \in RootId \ {<<r, 1>>} : roots'[i] = roots[i]
  <2>1. drawn \in RootId /\ roots'[drawn].st = "pending"
        /\ \A i \in RootId \ {drawn} : roots'[i] = roots[i]
    <3> HIDE DEF drawn, row
    <3> QED BY <1>2, <1>3, <1>4 DEF Written
  <2> QED BY <2>1
<1> HIDE DEF row
<1>6. roots[<<r, 1>>].st = "absent" /\ RequestInv(r)
  BY <1>1, <1>5 DEF DeletionInv, RequestInv, Fresh
<1>7. /\ Committed(roots)' = Committed(roots) /\ Active(roots)' = Active(roots)
      /\ Pending(roots)' = Pending(roots) \cup {<<r, 1>>}
  BY <1>4, <1>5, <1>6 DEF Committed, Active, Pending
<1>8. PendingTogether' /\ DeletionsCascade'
  BY <1>1, <1>7 DEF DeletionInv, PendingTogether, DeletionsCascade,
     ActiveProductsHaveActiveRoot, ActiveBridgesHaveActiveProduct, Pending, Active
<1>9. RequestInv(r)'
  BY <1>1, <1>5, <1>6, <1>7 DEF RequestInv, Fresh, Targets, MarksKnown, Cascades,
     InTransaction, At, Committed, Active
<1>10. ASSUME NEW q \in Request \ {r} PROVE RequestInv(q)'
  <2>1. RequestInv(q) /\ pc'[q] = pc[q]
    BY <1>1 DEF DeletionInv
  <2>2. \A i \in RootId : i[1] = q => roots'[i] = roots[i]
    BY <1>5
  <2>3. <<q, 1>> \in RootId /\ roots'[<<q, 1>>] = roots[<<q, 1>>]
    <3>1. <<q, 1>> \in RootId /\ <<q, 1>>[1] = q
      BY DrawnIds
    <3> QED BY <3>1, <2>2
  <2>4. Fresh(q)'
    BY <1>1, <2>1, <2>2, <2>3 DEF RequestInv, Fresh
  <2>5. Targets(q)' /\ MarksKnown(q)' /\ Cascades(q)'
    BY <1>1, <1>7, <2>1 DEF RequestInv, Targets, MarksKnown, Cascades, At, Committed, Active
  <2> QED BY <2>5, <2>4 DEF RequestInv
<1> QED BY <1>8, <1>9, <1>10 DEF DeletionInv

\* Request r inserts products under its own root, and bridges of them.
InsertsProducts(r) ==
  /\ UNCHANGED <<roots, marks, in, got, seen>>
  /\ pc[r] = "insertProducts" /\ in[r].op = "createProduct" /\ pc'[r] = "commit"
  /\ \A q \in Request \ {r} : pc'[q] = pc[q]
  /\ DOMAIN products' = ProductId /\ DOMAIN bridges' = ProductId
  /\ \A p \in ProductId :
       \/ products'[p] = products[p]
       \/ p[1] = r /\ products'[p].st = "pending" /\ products'[p].root = <<r, 1>>
  /\ \A p \in ProductId :
       \/ bridges'[p] = bridges[p]
       \/ p[1] = r /\ bridges'[p].st = "pending" /\ products'[p].st = "pending"

LEMMA InsertsProductsInv ==
  ASSUME TypeInv, DeletionInv, NEW r \in Request, InsertsProducts(r)
  PROVE  DeletionInv'
<1> USE DEF InsertsProducts
<1>1. DOMAIN roots = RootId /\ DOMAIN products = ProductId /\ DOMAIN bridges = ProductId
  BY DEF TypeInv, StoreTypeOK
<1>2. RequestInv(r) /\ PendingTogether /\ DeletionsCascade
  BY DEF DeletionInv
<1>3. \A p \in ProductId : p[1] = r => products[p].st = "absent" /\ bridges[p].st = "absent"
  BY <1>2 DEF RequestInv, Fresh
<1>4. <<r, 1>> \in Pending(roots)
  BY <1>1, <1>2, DrawnIds DEF RequestInv, Fresh, Pending
<1>5. /\ Committed(products)' = Committed(products) /\ Active(products)' = Active(products)
      /\ Committed(bridges)' = Committed(bridges) /\ Active(bridges)' = Active(bridges)
      /\ \A p \in Committed(products) : products'[p] = products[p]
  BY <1>1, <1>3 DEF Committed, Active
<1>6. PendingTogether'
  <2>1. ASSUME NEW p \in Pending(products)'
        PROVE  products'[p].root = <<p[1], 1>> /\ products'[p].root \in Pending(roots)
    <3>1. p \in ProductId /\ products'[p].st = "pending"
      BY <2>1 DEF Pending
    <3>2. CASE p[1] = r
      BY <1>3, <1>4, <3>1, <3>2
    <3>3. CASE p[1] # r
      BY <1>1, <1>2, <3>1, <3>3 DEF PendingTogether, Pending
    <3> QED BY <3>2, <3>3
  <2>2. ASSUME NEW p \in Pending(bridges)'
        PROVE  p \in Pending(products)'
    <3>1. p \in ProductId /\ bridges'[p].st = "pending"
      BY <2>2 DEF Pending
    <3>2. CASE p[1] = r
      BY <1>3, <3>1, <3>2 DEF Pending
    <3>3. CASE p[1] # r
      BY <1>1, <1>2, <3>1, <3>3 DEF PendingTogether, Pending
    <3> QED BY <3>2, <3>3
  <2> QED BY <2>1, <2>2 DEF PendingTogether, Pending
<1>7. DeletionsCascade'
  <2>1. Active(products) \subseteq Committed(products)
    BY DEF Active, Committed
  <2> QED
    BY <1>2, <1>5, <2>1 DEF DeletionsCascade, ActiveProductsHaveActiveRoot,
       ActiveBridgesHaveActiveProduct, Active
<1>8. RequestInv(r)'
  BY <1>2, <1>5 DEF RequestInv, Fresh, Targets, MarksKnown, Cascades, InTransaction, At
<1>9. ASSUME NEW q \in Request \ {r} PROVE RequestInv(q)'
  <2>1. RequestInv(q)
    BY DEF DeletionInv
  <2>2. Fresh(q)'
    BY <2>1 DEF RequestInv, Fresh
  <2>3. Targets(q)' /\ MarksKnown(q)'
    BY <1>5, <2>1 DEF RequestInv, Targets, MarksKnown, At, Committed
  <2>4. Cascades(q)'
    <3>1. Active(products) \subseteq Committed(products)
      BY DEF Active, Committed
    <3> QED BY <1>5, <2>1, <3>1 DEF RequestInv, Cascades, At
  <2> QED BY <2>2, <2>3, <2>4 DEF RequestInv
<1> QED BY <1>6, <1>7, <1>8, <1>9 DEF DeletionInv

LEMMA InsertStepInv ==
  ASSUME TypeInv, DeletionInv, NEW r \in Request, InsertStep(r)
  PROVE  DeletionInv'
<1> USE DEF TypeInv, LocalsOK, StoreTypeOK
<1>1. /\ UNCHANGED <<in, got, seen>>
      /\ \A q \in Request \ {r} : pc'[q] = pc[q]
  BY DEF InsertStep, CreateProduct_InsertRoot, CreateProduct_InsertImages,
     CreateProduct_InsertProduct, CreateProduct, CreateProduct_InsertVariants,
     CreateOption_Insert, CreateValue_Insert, Continue, Respond, RespondAndLeak, Goto, locals
<1>2. CASE Rollback({r}) /\ pc'[r] = "done"
  BY <1>1, <1>2, RollbackInv
<1>3. CASE CreateProduct_InsertRoot(r)
  BY <1>3, InsertRootInv
<1>4. CASE CreateProduct_InsertImages(r) /\ ~(Rollback({r}) /\ pc'[r] = "done")
  <2>1. Quiet(r)
    BY <1>1, <1>4 DEF CreateProduct_InsertImages, At, Continue, Respond, RespondAndLeak, Goto,
       tables, Quiet
  <2> QED BY <2>1, QuietInv
<1>5. CASE CreateProduct_InsertProduct(r)
  <2>1. products' = Written(products, [p \in {<<r, 1>>} |->
                      [st |-> "pending", root |-> <<r, 1>>, sku |-> in[r].sku]])
        /\ bridges' = bridges /\ roots' = roots /\ marks' = marks
    BY <1>5 DEF CreateProduct_InsertProduct, CreateProduct
  <2>2. DOMAIN products' = ProductId
        /\ \A p \in ProductId :
             \/ products'[p] = products[p]
             \/ p[1] = r /\ products'[p].st = "pending" /\ products'[p].root = <<r, 1>>
    BY <2>1, SMTT(30) DEF Written
  <2>3. InsertsProducts(r)
    BY <1>1, <1>5, <2>1, <2>2 DEF CreateProduct_InsertProduct, CreateProduct, At, Continue,
       Goto, InsertsProducts
  <2> QED BY <2>3, InsertsProductsInv
<1>6. CASE CreateProduct_InsertVariants(r) /\ ~(Rollback({r}) /\ pc'[r] = "done")
  <2> DEFINE texts == in[r].options[1].values
  <2>1. /\ roots' = roots /\ marks' = marks
        /\ pc[r] = "insertProducts" /\ in[r].op = "createProduct"
        /\ \/ UNCHANGED <<products, bridges>> /\ pc'[r] \in {"commit", "leaked"}
           \/ CreateVariants(r, in[r].sku, texts) /\ pc'[r] = "commit"
    BY <1>6 DEF CreateProduct_InsertVariants, At, Continue, Respond, RespondAndLeak, Goto
  <2>2. CASE UNCHANGED <<products, bridges>> /\ pc'[r] \in {"commit", "leaked"}
    <3>1. Quiet(r)
      BY <1>1, <2>1, <2>2 DEF Quiet
    <3> QED BY <3>1, QuietInv
  <2>3. CASE CreateVariants(r, in[r].sku, texts) /\ pc'[r] = "commit"
    <3> DEFINE drawn == {p \in ProductId : p[1] = r /\ p[2] \in DOMAIN texts}
               productRow(p) == [st |-> "pending", root |-> <<r, 1>>,
                                 sku |-> Append(in[r].sku, Lower[texts[p[2]]])]
               bridgeRow(p) == [st |-> "pending", values |-> {<<r, 1, p[2]>>}]
    <3>1. /\ products' = Written(products, [p \in drawn |-> productRow(p)])
          /\ bridges' = Written(bridges, [p \in drawn |-> bridgeRow(p)])
      BY <2>3 DEF CreateVariants, CreateMultipleProductVariantBridges
    <3>2. /\ \A p : productRow(p).st = "pending" /\ productRow(p).root = <<r, 1>>
          /\ \A p : bridgeRow(p).st = "pending"
          /\ \A p \in drawn : p[1] = r
      OBVIOUS
    <3> HIDE DEF drawn, productRow, bridgeRow
    <3>3. /\ DOMAIN products' = ProductId /\ DOMAIN bridges' = ProductId
          /\ \A p \in ProductId :
               /\ products'[p] = IF p \in drawn THEN productRow(p) ELSE products[p]
               /\ bridges'[p] = IF p \in drawn THEN bridgeRow(p) ELSE bridges[p]
      BY <3>1 DEF Written
    <3>4. InsertsProducts(r)
      BY <1>1, <2>1, <2>3, <3>2, <3>3 DEF InsertsProducts
    <3> QED BY <3>4, InsertsProductsInv
  <2> QED BY <2>1, <2>2, <2>3
<1>7. CASE CreateOption_Insert(r) /\ ~(Rollback({r}) /\ pc'[r] = "done")
  <2>1. Quiet(r)
    BY <1>1, <1>7 DEF CreateOption_Insert, At, Continue, Respond, Goto, Quiet
  <2> QED BY <2>1, QuietInv
<1>8. CASE CreateValue_Insert(r) /\ ~(Rollback({r}) /\ pc'[r] = "done")
  <2>1. Quiet(r)
    BY <1>1, <1>8 DEF CreateValue_Insert, At, Continue, Respond, Goto, Quiet
  <2> QED BY <2>1, QuietInv
<1> QED BY <1>2, <1>3, <1>4, <1>5, <1>6, <1>7, <1>8 DEF InsertStep

-----------------------------------------------------------------------------
(* Updates that are their own transaction *)

LEMMA UpdateStepInv ==
  ASSUME TypeInv, DeletionInv, NoReparenting, NEW r \in Request, UpdateStep(r)
  PROVE  DeletionInv'
<1> USE DEF TypeInv, LocalsOK, StoreTypeOK
<1>1. /\ UNCHANGED <<roots, bridges, marks, in, got, seen>>
      /\ pc[r] = "update" /\ pc'[r] \in {"done", "webhooks", "readBack"}
      /\ \A q \in Request \ {r} : pc'[q] = pc[q]
  BY DEF UpdateStep, UpdateProduct_Update, UpdateOption_Update, UpdateValue_Update,
     DeleteValue_Update, DeleteProductOptionValue, At, Continue, Respond, Goto, locals
<1>2. CASE products' = products
  <2>1. Quiet(r)
    BY <1>1, <1>2 DEF Quiet
  <2> QED BY <2>1, QuietInv
<1>3. CASE UpdateProduct_Update(r) /\ products' # products
  <2>1. in[r].op = "updateProduct" /\ UpdateProduct(got[r], MergedRoot(r), MergedSku(r))
    BY <1>3 DEF UpdateProduct_Update, At
  <2>2. in[r].root = None
    BY <1>1, <2>1, RequestFields DEF NoReparenting, Statement
  <2>3. MergedRoot(r) = products[got[r]].root
    BY <1>1, <2>1, <2>2 DEF DeletionInv, RequestInv, Targets, At, MergedRoot
  <2>4. /\ DOMAIN products' = ProductId /\ DOMAIN products = ProductId
        /\ \A p \in ProductId : products'[p].st = products[p].st /\ products'[p].root = products[p].root
    BY <2>1, <2>3 DEF UpdateProduct, ProductRow
  <2>5. /\ Committed(products)' = Committed(products) /\ Active(products)' = Active(products)
        /\ Pending(products)' = Pending(products)
        /\ Committed(products) \subseteq ProductId /\ Active(products) \subseteq ProductId
        /\ Pending(products) \subseteq ProductId
    BY <2>4 DEF Committed, Active, Pending
  <2>6. PendingTogether' /\ DeletionsCascade'
    BY <1>1, <2>4, <2>5 DEF DeletionInv, PendingTogether, DeletionsCascade,
       ActiveProductsHaveActiveRoot, ActiveBridgesHaveActiveProduct, Active, Pending
  <2>7. ASSUME NEW q \in Request PROVE RequestInv(q)'
    <3>1. RequestInv(q)
      BY DEF DeletionInv
    <3>2. pc'[q] = pc[q] \/ (pc[q] = "update" /\ pc'[q] \in {"done", "webhooks", "readBack"})
      BY <1>1
    <3>3. Fresh(q)'
      BY <1>1, <2>4, <3>1, <3>2 DEF RequestInv, Fresh
    <3>4. Targets(q)'
      BY <1>1, <2>4, <2>5, <3>1, <3>2 DEF RequestInv, Targets, At, InTransaction, Committed
    <3>5. MarksKnown(q)' /\ Cascades(q)'
      BY <1>1, <2>4, <2>5, <3>1, <3>2 DEF RequestInv, MarksKnown, Cascades, At, Committed,
         Active
    <3> QED BY <3>3, <3>4, <3>5 DEF RequestInv
  <2> QED BY <2>6, <2>7 DEF DeletionInv
<1>4. UpdateOption_Update(r) \/ UpdateValue_Update(r) \/ DeleteValue_Update(r) => products' = products
  BY DEF UpdateOption_Update, UpdateValue_Update, DeleteValue_Update, DeleteProductOptionValue
<1> QED BY <1>2, <1>3, <1>4 DEF UpdateStep

-----------------------------------------------------------------------------

LEMMA DeletionNext ==
  ASSUME TypeInv, DeletionInv, NoReparenting, [Next]_vars
  PROVE  DeletionInv'
<1>1. CASE UNCHANGED vars
  BY <1>1 DEF vars, tables, locals, DeletionInv, PendingTogether, DeletionsCascade,
     ActiveProductsHaveActiveRoot, ActiveBridgesHaveActiveProduct, RequestInv, Fresh, Targets,
     MarksKnown, Cascades, At, Committed, Active, Pending
<1>2. CASE ServerCrash
  BY <1>2, CrashInv
<1>3. ASSUME NEW r \in Request, Arrive(r) PROVE DeletionInv'
  BY <1>3, ArriveInv
<1>4. ASSUME NEW r \in Request, Handle(r) PROVE DeletionInv'
  <2>1. CASE ReadStep(r)
    BY <2>1, ReadStepQuiet, QuietInv
  <2>2. CASE MarkStep(r)
    BY <2>2, MarkStepInv
  <2>3. CASE InsertStep(r)
    BY <2>3, InsertStepInv
  <2>4. CASE UpdateStep(r)
    BY <2>4, UpdateStepInv
  <2>5. CASE EndStep(r)
    BY <2>5, EndStepInv
  <2>6. CASE FindStep(r)
    BY <2>6, FindStepInv
  <2> QED BY <1>4, <2>1, <2>2, <2>3, <2>4, <2>5, <2>6, HandleSteps
<1> QED BY <1>1, <1>2, <1>3, <1>4 DEF Next, Quiescent

\* Deleting a product root leaves no active product of it, whatever other
\* requests create, rename and delete between the statements of the cascade,
\* fail at or die in: buildProductRootDeletionHandler archives every product
\* of the root before the root, and a product is only ever created together
\* with its root.
THEOREM RootDeletionCascades ==
  ASSUME NoReparenting
  PROVE  Spec => []ActiveProductsHaveActiveRoot
<1>1. Init => DeletionInv
  BY DeletionInit
<1>2. TypeInv /\ DeletionInv /\ [Next]_vars => DeletionInv'
  BY DeletionNext
<1>3. DeletionInv => ActiveProductsHaveActiveRoot
  BY DEF DeletionInv, DeletionsCascade
<1> QED BY <1>1, <1>2, <1>3, TypeInvariant, PTL DEF Spec

\* No active bridge points at an archived product: both deletion handlers
\* archive the bridges in an earlier statement than the products, and no
\* bridge of those products can appear in between.
THEOREM BridgesFollowProducts ==
  ASSUME NoReparenting
  PROVE  Spec => []ActiveBridgesHaveActiveProduct
<1>1. Init => DeletionInv
  BY DeletionInit
<1>2. TypeInv /\ DeletionInv /\ [Next]_vars => DeletionInv'
  BY DeletionNext
<1>3. DeletionInv => ActiveBridgesHaveActiveProduct
  BY DEF DeletionInv, DeletionsCascade
<1> QED BY <1>1, <1>2, <1>3, TypeInvariant, PTL DEF Spec


-----------------------------------------------------------------------------
(* What was answered stays true *)

Archived(table) == {i \in DOMAIN table : table[i].st = "archived"}

\* What a deletion is about to archive, has archived, and has answered.
Answers(r) ==
  /\ At(r, "deleteProduct", "archiveProducts") =>
       (got[r] \in Active(bridges) => got[r] \in marks[r].bridges)
  /\ pc[r] = "commit" =>
       /\ in[r].op = "deleteProduct" =>
            /\ got[r] \in marks[r].products
            /\ got[r] \in Active(bridges) => got[r] \in marks[r].bridges
       /\ in[r].op = "deleteRoot" => got[r] \in marks[r].roots
       /\ in[r].op = "deleteOption" => got[r] \in marks[r].options
  /\ pc[r] = "webhooks" \/ (pc[r] = "done" /\ status[r] = 200) =>
       /\ in[r].op = "deleteProduct" =>
            got[r] \in Archived(products) /\ got[r] \notin Active(bridges)
       /\ in[r].op = "deleteRoot" => got[r] \in Archived(roots)
       /\ in[r].op = "deleteOption" => got[r] \in Archived(options)
       /\ in[r].op = "deleteValue" => got[r] \in Archived(values)

LEMMA ArchivedForGood ==
  ASSUME TypeInv, TypeInv', TransactionInv, [Next]_vars
  PROVE  /\ Archived(roots) \subseteq Archived(roots)'
         /\ Archived(options) \subseteq Archived(options)'
         /\ Archived(values) \subseteq Archived(values)'
         /\ Archived(products) \subseteq Archived(products)'
<1>1. Domains /\ Domains'
  BY StoreDomains DEF TypeInv, StoreTypeOK, Domains
<1>2. RowsTurn("absent", "active") \/ RowsTurn("active", "archived")
  BY NextTurns
<1> QED BY <1>1, <1>2 DEF RowsTurn, Turned, Domains, Shown, Archived

\* A product and its bridges become visible together.
LEMMA BridgeNotPending ==
  ASSUME TypeInv, TransactionInv, NEW p \in Committed(products)
  PROVE  bridges[p].st # "pending"
<1>1. p \in ProductId /\ products[p].st \in {"active", "archived"}
  BY StoreDomains DEF TypeInv, Domains, Committed
<1>2. p[1] = 0 \/ p[1] \in Request
  BY <1>1, ConstantsAssumption DEF ProductId, Transaction, Request
<1>3. CASE p[1] = 0
  BY <1>1, <1>3 DEF TransactionInv, SeedRows, RowsAre
<1>4. CASE p[1] \in Request
  <2>1. Stage(p[1]) /\ pc[p[1]] \in Label
    BY <1>4 DEF TransactionInv, Transacts, TypeInv, LocalsOK
  <2> QED BY <1>1, <2>1 DEF Stage, RowsAre, OnlyRoot, NothingWritten
<1> QED BY <1>2, <1>3, <1>4

\* The bridge of a product others can see never comes (back) to life.
LEMMA BridgesStay ==
  ASSUME TypeInv, TransactionInv, [Next]_vars, NEW p \in Committed(products),
         p \notin Active(bridges)
  PROVE  p \notin Active(bridges)'
<1>1. StoreTypeOK /\ Domains /\ p \in ProductId /\ bridges[p].st # "active"
      /\ products[p].st \in {"active", "archived"}
  BY StoreDomains DEF TypeInv, Domains, Committed, Active
<1>2. bridges[p].st # "pending"
  BY BridgeNotPending
<1> SUFFICES bridges'[p].st # "active"
  BY DEF Active
<1>3. CASE bridges' = bridges
  BY <1>1, <1>3
<1>4. ASSUME NEW rs \in SUBSET Request, Rollback(rs) PROVE bridges'[p].st # "active"
  BY <1>1, <1>2, <1>4, RollbackRows
<1>5. ASSUME NEW r \in Request, Commit(r) PROVE bridges'[p].st # "active"
  BY <1>1, <1>2, <1>5, CommitRows
<1>6. ASSUME NEW r \in Request, Handle(r) PROVE bridges'[p].st # "active"
  <2>1. CASE CreateProduct_InsertVariants(r)
    <3>1. ASSUME NEW ps, CreateMultipleProductVariantBridges(r, ps)
          PROVE  bridges'[p].st # "active"
      BY <1>1, <3>1 DEF CreateMultipleProductVariantBridges, Written, Domains
    <3> QED BY <1>3, <1>4, <2>1, <3>1 DEF CreateProduct_InsertVariants, CreateVariants
  <2>2. CASE InsertStep(r) /\ ~CreateProduct_InsertVariants(r)
    <3>1. bridges' = bridges \/ Rollback({r})
      BY <2>2 DEF InsertStep, CreateProduct_InsertRoot, CreateProduct_InsertImages,
         CreateProduct_InsertProduct, CreateOption_Insert, CreateValue_Insert, tables
    <3> QED BY <1>3, <1>4, <3>1
  <2>3. CASE ReadStep(r)
    BY <1>3, <2>3, ReadStepFrame DEF tables
  <2>4. CASE MarkStep(r)
    BY <1>3, <1>4, <2>4, MarkStepFrame DEF MarksOnly, tables
  <2>5. CASE UpdateStep(r)
    BY <1>3, <2>5 DEF UpdateStep, UpdateProduct_Update, UpdateOption_Update, UpdateValue_Update,
       DeleteValue_Update
  <2>6. CASE EndStep(r)
    BY <1>3, <1>4, <1>5, <2>6 DEF EndStep, CommitSucceeds, CommitFails, StatementFails, tables
  <2>7. CASE FindStep(r)
    BY <1>3, <2>7 DEF FindStep, DeleteProduct_Find, DeleteRoot_Find, GetProductRoot,
       DeleteOption_Find, GetProductOption, UpdateValue_Find, GetProductOptionValue,
       DeleteValue_Find, UpdateProduct_Find, UpdateOption_Find, Find, tables
  <2> QED BY <1>6, <2>1, <2>2, <2>3, <2>4, <2>5, <2>6, <2>7, HandleSteps
<1>7. CASE ServerCrash
  <2>1. PICK rs \in SUBSET Request : Rollback(rs)
    BY <1>7 DEF ServerCrash, InFlight
  <2> QED BY <1>4, <2>1
<1> QED BY <1>3, <1>6, <1>7 DEF Next, Arrive, Quiescent, vars, tables

LEMMA AnswersKept ==
  ASSUME TypeInv, TypeInv', TransactionInv, [Next]_vars, NEW r \in Request, Answers(r),
         pc'[r] = pc[r], in'[r] = in[r], got'[r] = got[r], marks'[r] = marks[r],
         status'[r] = status[r]
  PROVE  Answers(r)'
<1>1. WorksOn(r) /\ Domains
  BY StoreDomains DEF TransactionInv, Transacts, TypeInv
<1>2. \A p \in Committed(products) : p \in Active(bridges)' => p \in Active(bridges)
  BY BridgesStay
<1>3. CASE At(r, "deleteProduct", "archiveProducts")
  <2>1. got[r] \in Committed(products)
    BY <1>1, <1>3 DEF WorksOn, Archiving, At
  <2> QED BY <1>2, <1>3, <2>1 DEF Answers, At
<1>4. CASE pc[r] = "commit"
  <2>1. in[r].op = "deleteProduct" => got[r] \in Committed(products)
    BY <1>1, <1>4 DEF WorksOn
  <2> QED BY <1>2, <1>4, <2>1 DEF Answers, At
<1>5. CASE pc[r] \in {"webhooks", "done"}
  <2>1. Archived(products) \subseteq Committed(products)
    BY DEF Archived, Committed
  <2> QED BY <1>2, <1>5, <2>1, ArchivedForGood DEF Answers, At
<1>6. CASE pc[r] \notin {"commit", "webhooks", "done"} /\ ~At(r, "deleteProduct", "archiveProducts")
  BY <1>6 DEF Answers, At
<1> QED BY <1>3, <1>4, <1>5, <1>6


\* A step of one request leaves the locals, the marks and the answers of others alone.
LEMMA OthersAlone ==
  ASSUME TypeInv, NEW r \in Request, Arrive(r) \/ Handle(r), NEW q \in Request \ {r}
  PROVE  /\ pc'[q] = pc[q] /\ in'[q] = in[q] /\ got'[q] = got[q] /\ marks'[q] = marks[q]
         /\ status'[q] = status[q]
<1> USE DEF TypeInv, LocalsOK, StoreTypeOK
<1>1. CASE Arrive(r)
  BY <1>1 DEF Arrive, Continue, Goto
<1>2. ASSUME Advances(r)
      PROVE  pc'[q] = pc[q] /\ in'[q] = in[q] /\ got'[q] = got[q] /\ status'[q] = status[q]
  <2>1. PICK l \in Label : pc' = [pc EXCEPT ![r] = l]
    BY <1>2 DEF Advances
  <2>2. status'[q] = status[q]
    BY <1>2 DEF Advances
  <2> QED BY <1>2, <2>1, <2>2 DEF Advances
<1>3. ASSUME Rollback({r}) \/ Commit(r) \/ UNCHANGED marks \/ MarksOnly(r)
      PROVE  marks'[q] = marks[q]
  BY <1>3 DEF Rollback, Commit, MarksOnly
<1>4. CASE ReadStep(r)
  BY <1>2, <1>3, <1>4, ReadStepFrame
<1>5. CASE MarkStep(r)
  BY <1>2, <1>3, <1>5, MarkStepAdvances, MarkStepFrame
<1>6. CASE InsertStep(r)
  <2>1. UNCHANGED marks \/ Rollback({r})
    BY <1>6 DEF InsertStep, CreateProduct_InsertRoot, CreateProduct_InsertImages,
       CreateProduct_InsertProduct, CreateProduct_InsertVariants, CreateOption_Insert,
       CreateValue_Insert
  <2> QED BY <1>2, <1>3, <1>6, <2>1, InsertStepAdvances
<1>7. CASE UpdateStep(r)
  <2>1. UNCHANGED marks
    BY <1>7 DEF UpdateStep, UpdateProduct_Update, UpdateOption_Update, UpdateValue_Update,
       DeleteValue_Update
  <2> QED BY <1>2, <1>3, <1>7, <2>1, UpdateStepAdvances
<1>8. CASE EndStep(r)
  <2>1. UNCHANGED marks \/ Rollback({r}) \/ Commit(r)
    BY <1>8 DEF EndStep, CommitSucceeds, CommitFails, StatementFails
  <2> QED BY <1>2, <1>3, <1>8, <2>1, EndStepAdvances
<1>9. CASE FindStep(r)
  <2>1. UNCHANGED <<marks, in>>
    BY <1>9 DEF FindStep, DeleteProduct_Find, DeleteRoot_Find, GetProductRoot,
       DeleteOption_Find, GetProductOption, UpdateValue_Find, GetProductOptionValue,
       DeleteValue_Find, UpdateProduct_Find, UpdateOption_Find, Find
  <2>2. ASSUME NEW ids, NEW next, Find(r, ids, next)
        PROVE  pc'[q] = pc[q] /\ got'[q] = got[q] /\ status'[q] = status[q]
    BY <2>2 DEF Find, Respond, Continue, Goto
  <2>3. ASSUME UpdateProduct_Find(r) \/ UpdateOption_Find(r)
        PROVE  pc'[q] = pc[q] /\ got'[q] = got[q] /\ status'[q] = status[q]
    BY <2>3 DEF UpdateProduct_Find, UpdateOption_Find, Respond, Continue, Goto
  <2> QED BY <1>9, <2>1, <2>2, <2>3 DEF FindStep, DeleteProduct_Find, DeleteRoot_Find,
             DeleteOption_Find, UpdateValue_Find, DeleteValue_Find
<1> QED BY <1>1, <1>4, <1>5, <1>6, <1>7, <1>8, <1>9, HandleSteps


LEMMA MarkStepAnswers ==
  ASSUME TypeInv, TransactionInv, NEW r \in Request, MarkStep(r), Answers(r)
  PROVE  Answers(r)'
<1> USE DEF TypeInv, LocalsOK, StoreTypeOK
<1>1. UNCHANGED <<in, got>>
  BY MarkStepAdvances DEF Advances
<1>2. CASE DeleteProduct_ArchiveBridges(r)
  BY <1>1, <1>2 DEF DeleteProduct_ArchiveBridges, DeleteProductVariantBridgeByProductID, At,
     Continue, Goto, tables, Answers, Active, Marks
<1>3. CASE DeleteProduct_ArchiveProduct(r)
  <2>1. /\ marks' = [marks EXCEPT ![r].products = {got[r]}] /\ bridges' = bridges
        /\ At(r, "deleteProduct", "archiveProducts") /\ pc'[r] = "commit"
    BY <1>3 DEF DeleteProduct_ArchiveProduct, DeleteProduct, At, Continue, Goto, tables
  <2>2. marks'[r].products = {got[r]} /\ marks'[r].bridges = marks[r].bridges
    BY <2>1 DEF Marks
  <2> QED BY <1>1, <2>1, <2>2 DEF Answers, At, Active
<1>4. CASE DeleteRoot_ArchiveRoot(r)
  <2>1. /\ marks' = [marks EXCEPT ![r].roots = {got[r]}] /\ in[r].op = "deleteRoot"
        /\ pc'[r] = "commit"
    BY <1>4 DEF DeleteRoot_ArchiveRoot, DeleteProductRoot, At, Continue, Goto
  <2>2. marks'[r].roots = {got[r]}
    BY <2>1 DEF Marks
  <2> QED BY <1>1, <2>1, <2>2 DEF Answers, At
<1>5. CASE DeleteOption_ArchiveOption(r)
  <2>1. /\ marks' = [marks EXCEPT ![r].options = {got[r]}] /\ in[r].op = "deleteOption"
        /\ pc'[r] = "commit"
    BY <1>5 DEF DeleteOption_ArchiveOption, DeleteProductOption, At, Continue, Goto
  <2>2. marks'[r].options = {got[r]}
    BY <2>1 DEF Marks
  <2> QED BY <1>1, <2>1, <2>2 DEF Answers, At
<1>6. CASE \/ DeleteRoot_ArchiveBridges(r) \/ DeleteRoot_ArchiveValues(r)
           \/ DeleteRoot_ArchiveOptions(r) \/ DeleteRoot_ArchiveProducts(r)
           \/ DeleteOption_ArchiveValues(r)
  <2>1. /\ in'[r].op # "deleteProduct"
        /\ \/ pc'[r] \in {"archiveValues", "archiveOptions", "archiveProducts", "archiveRoot", "leaked"}
           \/ pc'[r] = "done" /\ status'[r] = 500
    BY <1>1, <1>6 DEF DeleteRoot_ArchiveBridges, DeleteRoot_ArchiveValues,
       DeleteRoot_ArchiveOptions, DeleteRoot_ArchiveProducts, DeleteOption_ArchiveValues, At,
       Continue, Respond, RespondAndLeak, Goto
  <2> QED BY <2>1 DEF Answers, At
<1> QED BY <1>2, <1>3, <1>4, <1>5, <1>6 DEF MarkStep

LEMMA CommitAnswers ==
  ASSUME TypeInv, TransactionInv, NEW r \in Request, CommitSucceeds(r), Answers(r)
  PROVE  Answers(r)'
<1>1. /\ pc[r] = "commit" /\ Commit(r) /\ UNCHANGED <<in, got>>
      /\ pc'[r] \in {"webhooks", "done"}
      /\ in[r].op \in {"createProduct", "deleteProduct", "createOption", "createValue", "deleteRoot",
                       "deleteOption"}
  BY DEF CommitSucceeds, Continue, Respond, Goto, locals, TypeInv, LocalsOK
<1>2. WorksOn(r) /\ StoreTypeOK /\ Domains /\ Domains'
  BY StoreDomains, CommitType, <1>1 DEF TransactionInv, Transacts, TypeInv, StoreTypeOK, Domains
<1>3. CASE in[r].op = "deleteProduct"
  <2>1. /\ got[r] \in ProductId /\ products[got[r]].st # "pending"
        /\ got[r] \in marks[r].products
        /\ got[r] \in Active(bridges) => got[r] \in marks[r].bridges
    BY <1>1, <1>2, <1>3 DEF WorksOn, Answers, Committed, Domains
  <2>2. products'[got[r]].st = "archived"
    BY <1>1, <1>2, <2>1, CommitRows
  <2>3. bridges[got[r]].st # "pending"
    BY <1>1, <1>2, <1>3, BridgeNotPending DEF WorksOn
  <2>4. bridges'[got[r]].st # "active"
    BY <1>1, <1>2, <2>1, <2>3, CommitRows DEF Active, Domains
  <2> QED BY <1>1, <1>2, <1>3, <2>1, <2>2, <2>4 DEF Answers, At, Archived, Active, Domains
<1>4. CASE in[r].op = "deleteRoot"
  <2>1. got[r] \in RootId /\ roots[got[r]].st # "pending" /\ got[r] \in marks[r].roots
    BY <1>1, <1>2, <1>4 DEF WorksOn, Answers, Committed, Domains
  <2>2. roots'[got[r]].st = "archived"
    BY <1>1, <1>2, <2>1, CommitRows
  <2> QED BY <1>1, <1>2, <1>4, <2>1, <2>2 DEF Answers, At, Archived, Domains
<1>5. CASE in[r].op = "deleteOption"
  <2>1. got[r] \in OptionId /\ options[got[r]].st # "pending" /\ got[r] \in marks[r].options
    BY <1>1, <1>2, <1>5 DEF WorksOn, Answers, Committed, Domains
  <2>2. options'[got[r]].st = "archived"
    BY <1>1, <1>2, <2>1, CommitRows
  <2> QED BY <1>1, <1>2, <1>5, <2>1, <2>2 DEF Answers, At, Archived, Domains
<1>6. CASE in[r].op \in {"createProduct", "createOption", "createValue"}
  BY <1>1, <1>6 DEF Answers, At
<1> QED BY <1>1, <1>3, <1>4, <1>5, <1>6

LEMMA OwnAnswers ==
  ASSUME TypeInv, TypeInv', TransactionInv, NEW r \in Request, Arrive(r) \/ Handle(r), Answers(r)
  PROVE  Answers(r)'
<1> USE DEF TypeInv, LocalsOK
<1>1. CASE Arrive(r)
  <2>1. pc'[r] \in {"exists", "find"}
    BY <1>1 DEF Arrive, Continue, Goto
  <2> QED BY <2>1 DEF Answers, At
<1>2. CASE ReadStep(r)
  <2>1. UNCHANGED <<tables, in, got>>
    BY <1>2, ReadStepFrame DEF Advances
  <2>2. \/ pc'[r] \in {"insertRoot", "nameFree", "insertOption", "insertValue"}
        \/ pc'[r] = "done" /\ status'[r] \in {400, 404}
        \/ At(r, "updateOption", "readBack") /\ pc'[r] = "done"
        \/ pc[r] = "webhooks" /\ pc'[r] = "done"
    BY <1>2 DEF ReadStep, CreateProduct_Exists, CreateOption_Exists, CreateOption_NameFree,
       CreateValue_Exists, CreateValue_ValueFree, UpdateOption_ReadBack, GetWebhooks, At,
       Continue, Respond, Goto
  <2> QED BY <2>1, <2>2 DEF Answers, At, tables, Archived, Active
<1>3. CASE MarkStep(r)
  BY <1>3, MarkStepAnswers
<1>4. CASE InsertStep(r)
  <2>1. in[r].op \in {"createProduct", "createOption", "createValue"} /\ in' = in
    BY <1>4, InsertStepAdvances DEF InsertStep, CreateProduct_InsertRoot,
       CreateProduct_InsertImages, CreateProduct_InsertProduct, CreateProduct_InsertVariants,
       CreateOption_Insert, CreateValue_Insert, At, Advances
  <2> QED BY <2>1 DEF Answers, At
<1>5. CASE UpdateStep(r)
  <2>1. UNCHANGED <<in, got>>
    BY <1>5, UpdateStepAdvances DEF Advances
  <2>2. CASE DeleteValue_Update(r)
    <3>1. /\ in[r].op = "deleteValue" /\ pc'[r] = "done"
          /\ values' = [values EXCEPT ![got[r]].st = "archived"] /\ pc[r] = "update"
      BY <2>2 DEF DeleteValue_Update, DeleteProductOptionValue, At, Respond, Goto
    <3>2. got[r] \in ValueId /\ values \in [ValueId -> ValueRow]
      BY <3>1 DEF TransactionInv, Transacts, WorksOn, Committed, StoreTypeOK
    <3>3. got[r] \in Archived(values)'
      BY <3>1, <3>2 DEF Archived, ValueRow
    <3> QED BY <2>1, <3>1, <3>3 DEF Answers, At
  <2>3. CASE UpdateProduct_Update(r) \/ UpdateOption_Update(r) \/ UpdateValue_Update(r)
    <3>1. in[r].op \in {"updateProduct", "updateOption", "updateValue"}
      BY <2>3 DEF UpdateProduct_Update, UpdateOption_Update, UpdateValue_Update, At
    <3> QED BY <2>1, <3>1 DEF Answers, At
  <2> QED BY <1>5, <2>2, <2>3 DEF UpdateStep
<1>6. CASE CommitSucceeds(r)
  BY <1>6, CommitAnswers
<1>7. CASE CommitFails(r) \/ StatementFails(r)
  <2>1. pc'[r] = "leaked" \/ (pc'[r] = "done" /\ status'[r] # 200)
    BY <1>7 DEF CommitFails, StatementFails, Respond, RespondAndLeak, Goto
  <2> QED BY <2>1 DEF Answers, At
<1>8. CASE FindStep(r)
  <2>1. ASSUME NEW ids, NEW next, Find(r, ids, next)
        PROVE  pc'[r] = next \/ (pc'[r] = "done" /\ status'[r] = 404)
    BY <2>1 DEF Find, Respond, Continue, Goto
  <2>2. ASSUME UpdateProduct_Find(r) \/ UpdateOption_Find(r)
        PROVE  pc'[r] = "update" \/ (pc'[r] = "done" /\ status'[r] \in {400, 404})
    BY <2>2 DEF UpdateProduct_Find, UpdateOption_Find, Respond, Continue, Goto
  <2>3. \/ pc'[r] \in {"archiveBridges", "archiveValues", "update"}
        \/ pc'[r] = "done" /\ status'[r] \in {400, 404}
    BY <1>8, <2>1, <2>2 DEF FindStep, DeleteProduct_Find, DeleteRoot_Find, DeleteOption_Find,
       UpdateValue_Find, DeleteValue_Find
  <2> QED BY <2>3 DEF Answers, At
<1> QED BY <1>1, <1>2, <1>3, <1>4, <1>5, <1>6, <1>7, <1>8, HandleSteps DEF EndStep


AnswersInv == \A r \in Request : Answers(r)

LEMMA AnswersNext ==
  ASSUME TypeInv, TransactionInv, AnswersInv, [Next]_vars
  PROVE  AnswersInv'
<1> SUFFICES ASSUME NEW q \in Request PROVE Answers(q)'
  BY DEF AnswersInv
<1>1. TypeInv' /\ Answers(q)
  BY NextType DEF AnswersInv
<1>2. CASE UNCHANGED vars
  BY <1>1, <1>2 DEF vars, tables, locals, Answers, At, Archived, Active
<1>3. ASSUME NEW r \in Request, Arrive(r) \/ Handle(r) PROVE Answers(q)'
  <2>1. CASE q = r
    BY <1>1, <1>3, <2>1, OwnAnswers
  <2>2. CASE q # r
    BY <1>1, <1>3, <2>2, OthersAlone, AnswersKept
  <2> QED BY <2>1, <2>2
<1>4. CASE ServerCrash
  <2> DEFINE dying == InFlight \cup {r \in Request : pc[r] = "leaked"}
  <2>1. /\ Rollback(dying) /\ UNCHANGED <<in, got, status>>
        /\ pc' = [r \in Request |-> IF r \in dying THEN "dead" ELSE pc[r]]
    BY <1>4 DEF ServerCrash, locals
  <2>2. CASE q \in dying
    BY <2>1, <2>2 DEF Answers, At
  <2>3. CASE q \notin dying
    <3>1. marks'[q] = marks[q]
      BY <2>1, <2>3 DEF Rollback
    <3>2. pc'[q] = pc[q]
      BY <2>1, <2>3
    <3> QED BY <1>1, <2>1, <3>1, <3>2, AnswersKept
  <2> QED BY <2>2, <2>3
<1> QED BY <1>2, <1>3, <1>4 DEF Next, Quiescent

\* A DELETE answered with 200 stays done, whatever PATCH works on an older
\* copy of the row, races with it or follows it: the UPDATE statements write
\* every column but archived_on.
THEOREM DeletionsStay ==
  ASSUME NoReparenting
  PROVE  Spec => []DeletionsHold
<1>1. Init => DeletionInv /\ AnswersInv
  BY DeletionInit DEF Init, AnswersInv, Answers, At
<1>2. TypeInv /\ TransactionInv /\ DeletionInv /\ AnswersInv /\ [Next]_vars
        => (DeletionInv /\ AnswersInv)'
  BY DeletionNext, AnswersNext
<1>3. DeletionInv /\ AnswersInv => DeletionsHold
  <2> SUFFICES ASSUME DeletionInv, AnswersInv, NEW r \in Request, pc[r] = "done", status[r] = 200
               PROVE  CASE in[r].op = "deleteProduct" -> /\ products[got[r]].st = "archived"
                                                         /\ got[r] \notin Active(bridges)
                        [] in[r].op = "deleteRoot"    -> /\ roots[got[r]].st = "archived"
                                                         /\ \A p \in Active(products) :
                                                              products[p].root # got[r]
                        [] in[r].op = "deleteOption"  -> options[got[r]].st = "archived"
                        [] in[r].op = "deleteValue"   -> values[got[r]].st = "archived"
                        [] OTHER -> TRUE
    BY DEF DeletionsHold
  <2>1. Answers(r) /\ ActiveProductsHaveActiveRoot
    BY DEF AnswersInv, DeletionInv, DeletionsCascade
  <2> QED BY <2>1 DEF Answers, Archived, ActiveProductsHaveActiveRoot, Active
<1> QED BY <1>1, <1>2, <1>3, TypeInvariant, TransactionInvariant, PTL DEF Spec

-----------------------------------------------------------------------------
(* Requests handled one at a time: the hierarchy of rows *)

\* The handlers run one at a time.
OneAtATime == \A q, r \in Request : pc[q] \in Statement /\ pc[r] \in Statement => q = r

\* What a handler has checked still holds when it inserts.
StillChecked(r) ==
  /\ in[r].op = "createOption" /\ pc[r] \in {"nameFree", "insertOption"} =>
       in[r].root \in Active(roots)
  /\ in[r].op = "createValue" /\ pc[r] \in {"nameFree", "insertValue"} =>
       in[r].option \in Active(options)
  /\ in[r].op = "createProduct"
     /\ pc[r] \in {"insertRoot", "insertImages", "insertProducts", "commit"} =>
       \A i \in Active(roots) : roots[i].prefix # in[r].sku
  /\ At(r, "updateOption", "update") => seen[r].root = options[got[r]].root

\* What a commit makes active hangs from rows that are, or become so with it.
HangsTogether(r) ==
  /\ pc[r] \in {"insertImages", "insertProducts", "commit"} =>
       \A i \in Pending(roots) :
         i[1] = r => in[r].op = "createProduct" /\ i = <<r, 1>> /\ roots[i].prefix = in[r].sku
  /\ pc[r] = "commit" =>
       /\ \A o \in Pending(options) : o[1] = r =>
            \/ options[o].root \in Active(roots)
            \/ options[o].root \in Pending(roots) /\ options[o].root[1] = r
       /\ \A v \in Pending(values) : v[1] = r =>
            \/ values[v].option \in Active(options)
            \/ values[v].option \in Pending(options) /\ values[v].option[1] = r

\* What a transaction archives takes what hangs from it along.
ArchivesBelow(r) ==
  /\ \A v \in Active(values) : values[v].option \in marks[r].options => v \in marks[r].values
  /\ At(r, "deleteOption", "archiveOptions") =>
       \A v \in Active(values) : values[v].option = got[r] => v \in marks[r].values
  /\ At(r, "deleteRoot", "archiveOptions") =>
       \A v \in Active(values) : options[values[v].option].root = got[r] => v \in marks[r].values
  /\ in[r].op = "deleteRoot" /\ pc[r] \in {"archiveProducts", "archiveRoot", "commit"} =>
       \A o \in Active(options) : options[o].root = got[r] => o \in marks[r].options
  /\ marks[r].options # {} => pc[r] \in {"archiveProducts", "archiveRoot", "commit"}
  /\ marks[r].roots # {} =>
       pc[r] = "commit" /\ in[r].op = "deleteRoot" /\ marks[r].roots = {got[r]}

Alone(r) == StillChecked(r) /\ HangsTogether(r) /\ ArchivesBelow(r)

\* A PATCH that names a root moves an option there, deleted or not.
Hierarchy ==
  /\ ActiveValuesHaveActiveOption
  /\ UniqueActivePrefix
  /\ NoReparenting => ActiveOptionsHaveActiveRoot

\* What a request has checked stays true only because no other runs meanwhile:
\* the invariant says, statement by statement, what a handler relies on.
SerialInv ==
  OneAtATime /\ Hierarchy /\ \A r \in Request : pc[r] \in Statement => Alone(r)

LEMMA SerialInit == Init => SerialInv
<1> SUFFICES ASSUME Init PROVE SerialInv
  OBVIOUS
<1>1. /\ roots = Seed.roots /\ options = Seed.options /\ values = Seed.values
      /\ \A r \in Request : pc[r] = "idle"
  BY DEF Init, StoreInit
<1>2. Hierarchy
  BY <1>1, SeedAssumption DEF Hierarchy, ActiveValuesHaveActiveOption, UniqueActivePrefix,
     ActiveOptionsHaveActiveRoot
<1> QED BY <1>1, <1>2 DEF SerialInv, OneAtATime, Statement

\* The step shows and hides no root and no option, and moves nothing.
Undisturbed ==
  /\ \A i \in RootId : roots'[i].st = "active" <=> roots[i].st = "active"
  /\ \A i \in RootId : roots[i].st = "active" => roots'[i].prefix = roots[i].prefix
  /\ \A o \in OptionId : options'[o].st = "active" <=> options[o].st = "active"
  /\ NoReparenting =>
       \A o \in OptionId : options[o].st = "active" => options'[o].root = options[o].root
  /\ \A v \in ValueId : values'[v].st = "active" =>
       values[v].st = "active" /\ values'[v].option = values[v].option

LEMMA UndisturbedHierarchy ==
  ASSUME Domains, Domains', Hierarchy, Undisturbed
  PROVE  Hierarchy'
<1>1. ActiveValuesHaveActiveOption'
  BY DEF Hierarchy, Undisturbed, ActiveValuesHaveActiveOption, Active, Domains
<1>2. UniqueActivePrefix'
  BY DEF Hierarchy, Undisturbed, UniqueActivePrefix, Active, Domains
<1>3. NoReparenting => ActiveOptionsHaveActiveRoot'
  BY DEF Hierarchy, Undisturbed, ActiveOptionsHaveActiveRoot, Active, Domains
<1> QED BY <1>1, <1>2, <1>3 DEF Hierarchy

LEMMA UnchangedHierarchy ==
  ASSUME Hierarchy, UNCHANGED <<roots, options, values>>
  PROVE  Hierarchy'
BY DEF Hierarchy, ActiveValuesHaveActiveOption, UniqueActivePrefix, ActiveOptionsHaveActiveRoot,
   Active

\* A rollback shows and hides nothing.
LEMMA RollbackHierarchy ==
  ASSUME StoreTypeOK, StoreTypeOK', Hierarchy, NEW rs \in SUBSET Request, Rollback(rs)
  PROVE  Hierarchy'
<1>1. Domains /\ Domains'
  BY DEF StoreTypeOK, Domains
<1>2. \A i \in RootId : roots'[i].st = "active" <=> roots[i].st = "active"
  BY RollbackRows
<1>3. \A i \in RootId : roots[i].st = "active" => roots'[i] = roots[i]
  BY <1>1 DEF Rollback, Undone, Domains
<1>4. \A o \in OptionId : /\ options'[o].st = "active" <=> options[o].st = "active"
                          /\ options'[o].root = options[o].root
  BY RollbackRows
<1>5. \A v \in ValueId : values'[v].st = "active" =>
        values[v].st = "active" /\ values'[v].option = values[v].option
  BY RollbackRows
<1>6. Undisturbed
  BY <1>2, <1>3, <1>4, <1>5 DEF Undisturbed
<1> QED BY <1>1, <1>6, UndisturbedHierarchy

\* Where a handler checks nothing, makes nothing visible or archives nothing,
\* it has nothing to keep.
LEMMA NothingArchived ==
  ASSUME NEW r \in Request, MarksOK(r)',
         in'[r].op \notin Deletions \/ pc'[r] \notin Archiving \cup {"commit"}
  PROVE  ArchivesBelow(r)'
<1>1. marks'[r] = NoMarks
  BY DEF MarksOK
<1>2. /\ ~At(r, "deleteOption", "archiveOptions")' /\ ~At(r, "deleteRoot", "archiveOptions")'
      /\ ~(in'[r].op = "deleteRoot" /\ pc'[r] \in {"archiveProducts", "archiveRoot", "commit"})
  BY DEF At, Deletions, Archiving
<1>3. marks'[r].options = {} /\ marks'[r].roots = {}
  BY <1>1 DEF NoMarks
<1> QED BY <1>2, <1>3 DEF ArchivesBelow

LEMMA NothingChecked ==
  ASSUME NEW r \in Request,
         pc'[r] \in {"exists", "find", "readBack", "webhooks"} \cup Archiving
         \/ in'[r].op \in Deletions
  PROVE  StillChecked(r)'
BY DEF StillChecked, At, Archiving, Deletions

LEMMA NothingPending ==
  ASSUME NEW r \in Request, Stage(r)', Domains',
         pc'[r] \notin {"insertImages", "insertProducts", "commit"} \/ in'[r].op \in Deletions
  PROVE  HangsTogether(r)'
<1>1. CASE pc'[r] \notin {"insertImages", "insertProducts", "commit"}
  BY <1>1 DEF HangsTogether
<1>2. CASE pc'[r] = "commit" /\ in'[r].op \in Deletions
  <2>1. RowsAre(r, {"absent"})'
    BY <1>2 DEF Stage
  <2> QED BY <2>1, <1>2 DEF HangsTogether, RowsAre, Pending, Domains
<1>3. CASE pc'[r] \in {"insertImages", "insertProducts"} /\ in'[r].op \in Deletions
  BY <1>3 DEF Stage, Deletions
<1> QED BY <1>1, <1>2, <1>3

\* With one request at a time, only the one that takes the step matters.
LEMMA StepAlone ==
  ASSUME NEW r \in Request, OneAtATime,
         pc[r] \in Statement \/ \A q \in Request : pc[q] \notin Statement,
         \A q \in Request \ {r} : pc'[q] = pc[q],
         Hierarchy', pc'[r] \in Statement => Alone(r)'
  PROVE  SerialInv'
<1>1. \A q \in Request \ {r} : pc'[q] \notin Statement
  BY DEF OneAtATime
<1>2. OneAtATime'
  BY <1>1 DEF OneAtATime
<1>3. \A q \in Request : pc'[q] \in Statement => Alone(q)'
  BY <1>1
<1> QED BY <1>2, <1>3 DEF SerialInv

LEMMA NobodyElse ==
  ASSUME MaxInFlight = 1, Cardinality(InFlight) < MaxInFlight
  PROVE  \A q \in Request : pc[q] \notin Statement
<1>1. IsFiniteSet(Request)
  BY FS_Interval, ConstantsAssumption DEF Request
<1>2. IsFiniteSet(InFlight)
  BY <1>1, FS_Subset DEF InFlight
<1>3. Cardinality(InFlight) \in Nat
  BY <1>2, FS_CardinalityType
<1>4. Cardinality(InFlight) = 0
  BY <1>3
<1>5. InFlight = {}
  BY <1>2, <1>4, FS_EmptySet
<1> QED BY <1>5 DEF InFlight

LEMMA ArriveSerial ==
  ASSUME MaxInFlight = 1, TypeInv, TypeInv', TransactionInv', SerialInv,
         NEW r \in Request, Arrive(r)
  PROVE  SerialInv'
<1>1. \A q \in Request : pc[q] \notin Statement
  BY NobodyElse DEF Arrive
<1>2. /\ UNCHANGED tables /\ pc'[r] \in {"exists", "find"}
      /\ \A q \in Request \ {r} : pc'[q] = pc[q]
  BY DEF Arrive, Continue, Goto, TypeInv, LocalsOK
<1>3. MarksOK(r)' /\ Stage(r)' /\ Domains'
  BY DEF TransactionInv, Transacts, TypeInv, StoreTypeOK, Domains
<1>4. Alone(r)'
  BY <1>2, <1>3, NothingArchived, NothingChecked, NothingPending DEF Alone, Archiving
<1>5. Hierarchy'
  BY <1>2, UnchangedHierarchy DEF SerialInv, tables
<1> QED BY <1>1, <1>2, <1>4, <1>5, StepAlone DEF SerialInv


LEMMA ReadSerial ==
  ASSUME TypeInv, TypeInv', TransactionInv', NEW r \in Request, Alone(r), ReadStep(r)
  PROVE  Alone(r)'
<1> USE DEF TypeInv, LocalsOK
<1>1. UNCHANGED <<tables, marks, in>>
  BY ReadStepFrame DEF Advances
<1>2. /\ MarksOK(r)' /\ Stage(r)' /\ Domains'
  BY DEF TransactionInv, Transacts, StoreTypeOK, Domains
<1>3. /\ pc'[r] \in {"insertRoot", "nameFree", "insertOption", "insertValue", "done"}
      /\ pc'[r] = "nameFree" =>
           \/ in[r].op = "createOption" /\ in[r].root \in Active(roots)
           \/ in[r].op = "createValue" /\ in[r].option \in Active(options)
      /\ pc'[r] \in {"insertOption", "insertValue"} =>
           pc[r] = "nameFree" /\ in[r].op \in {"createOption", "createValue"}
      /\ pc'[r] = "insertRoot" =>
           in[r].op = "createProduct" /\ \A i \in Active(roots) : roots[i].prefix # in[r].sku
  BY DEF ReadStep, CreateProduct_Exists, CreateOption_Exists, CreateOption_NameFree,
     CreateValue_Exists, CreateValue_ValueFree, UpdateOption_ReadBack, GetWebhooks, At,
     Continue, Respond, Goto, ProductRootWithSKUPrefixExists, ProductRootExists,
     ProductOptionExists
<1>4. ArchivesBelow(r)' /\ HangsTogether(r)'
  BY <1>2, <1>3, NothingArchived, NothingPending DEF Archiving
<1>5. StillChecked(r)'
  BY <1>1, <1>3 DEF Alone, StillChecked, At, tables, Active
<1> QED BY <1>4, <1>5 DEF Alone

LEMMA FindSerial ==
  ASSUME TypeInv, TypeInv', TransactionInv, TransactionInv', NEW r \in Request, FindStep(r)
  PROVE  Alone(r)'
<1> USE DEF TypeInv, LocalsOK
<1>1. UNCHANGED <<tables, marks, in>> /\ pc[r] = "find"
  BY DEF FindStep, DeleteProduct_Find, DeleteRoot_Find, DeleteOption_Find, UpdateValue_Find,
     DeleteValue_Find, UpdateProduct_Find, UpdateOption_Find, Find, At
<1>2. MarksOK(r) /\ MarksOK(r)' /\ Stage(r)' /\ Domains'
  BY DEF TransactionInv, Transacts, StoreTypeOK, Domains
<1>3. ASSUME NEW ids, NEW next, Find(r, ids, next)
      PROVE  pc'[r] \in {next, "done"}
  BY <1>3 DEF Find, Respond, Continue, Goto
<1>4. /\ pc'[r] \in {"archiveBridges", "archiveValues", "update", "done"}
      /\ pc'[r] = "archiveValues" => in[r].op = "deleteOption"
      /\ pc'[r] = "update" => in[r].op \in {"updateProduct", "updateOption", "updateValue", "deleteValue"}
  BY <1>3 DEF FindStep, DeleteProduct_Find, DeleteRoot_Find, DeleteOption_Find, UpdateValue_Find,
     DeleteValue_Find, UpdateProduct_Find, UpdateOption_Find, At, Respond, Continue, Goto
<1>5. ArchivesBelow(r)'
  <2>1. marks'[r].options = {} /\ marks'[r].roots = {}
    BY <1>1, <1>2 DEF MarksOK, NoMarks, Archiving
  <2> QED BY <1>4, <2>1 DEF ArchivesBelow, At
<1>6. HangsTogether(r)'
  BY <1>2, <1>4, NothingPending
<1>7. StillChecked(r)'
  <2>1. CASE pc'[r] = "update" /\ in[r].op = "updateOption"
    <3>1. UpdateOption_Find(r)
      BY <1>3, <2>1 DEF FindStep, DeleteProduct_Find, DeleteRoot_Find, DeleteOption_Find,
         UpdateValue_Find, DeleteValue_Find, UpdateProduct_Find, At
    <3>2. got'[r] = in[r].option /\ seen'[r] = options[in[r].option]
      BY <2>1, <3>1 DEF UpdateOption_Find, Respond, Goto
    <3> QED BY <1>1, <2>1, <3>2 DEF StillChecked, At, tables
  <2>2. CASE ~(pc'[r] = "update" /\ in[r].op = "updateOption")
    BY <1>1, <1>4, <2>2 DEF StillChecked, At
  <2> QED BY <2>1, <2>2
<1> QED BY <1>5, <1>6, <1>7 DEF Alone

LEMMA MarkSerial ==
  ASSUME TypeInv, TypeInv', TransactionInv, TransactionInv', Hierarchy, NEW r \in Request,
         Alone(r), MarkStep(r)
  PROVE  Hierarchy' /\ (pc'[r] \in Statement => Alone(r)')
<1> USE DEF TypeInv
<1>1. UNCHANGED <<in, got>>
  BY MarkStepAdvances DEF Advances
<1>2. CASE pc'[r] \notin Statement
  <2>1. Rollback({r}) \/ UNCHANGED tables
    BY MarkStepOutcome
  <2> QED BY <1>2, <2>1, RollbackHierarchy, UnchangedHierarchy DEF tables
<1>3. CASE pc'[r] \in Statement
  <2>1. /\ UNCHANGED tables /\ in[r].op \in Deletions
        /\ pc'[r] \in Archiving \cup {"commit"}
    BY <1>3, MarkStepOutcome DEF Statement
  <2>2. /\ Stage(r)' /\ Domains /\ Domains'
    BY DEF TransactionInv, Transacts, StoreTypeOK, Domains
  <2>3. StillChecked(r)' /\ HangsTogether(r)'
    BY <1>1, <2>1, <2>2, NothingChecked, NothingPending
  <2>4. Hierarchy'
    BY <2>1, UnchangedHierarchy DEF tables
  <2>5. ArchivesBelow(r)
    BY DEF Alone
  <2>6. marks[r] \in Marks /\ marks \in [Request -> Marks]
    BY DEF StoreTypeOK
  <2>7. CASE DeleteProduct_ArchiveBridges(r) \/ DeleteProduct_ArchiveProduct(r)
    <3>1. /\ in[r].op = "deleteProduct" /\ pc[r] \in {"archiveBridges", "archiveProducts"}
          /\ marks'[r].roots = marks[r].roots /\ marks'[r].options = marks[r].options
          /\ marks'[r].values = marks[r].values /\ pc'[r] \in {"archiveProducts", "commit"}
      BY <2>6, <2>7 DEF DeleteProduct_ArchiveBridges, DeleteProduct_ArchiveProduct, At,
         DeleteProductVariantBridgeByProductID, DeleteProduct, Continue, Goto, Marks, LocalsOK
    <3> QED BY <1>1, <2>1, <2>3, <2>4, <2>5, <3>1 DEF Alone, ArchivesBelow, At, tables, Active
  <2>8. CASE DeleteRoot_ArchiveBridges(r)
    <3>1. /\ At(r, "deleteRoot", "archiveBridges")
          /\ marks'[r].roots = marks[r].roots /\ marks'[r].options = marks[r].options
          /\ marks'[r].values = marks[r].values /\ pc'[r] = "archiveValues"
      BY <2>6, <2>8 DEF DeleteRoot_ArchiveBridges, Continue, Goto, Marks, LocalsOK, At
    <3> QED BY <1>1, <2>1, <2>3, <2>4, <2>5, <3>1 DEF Alone, ArchivesBelow, At, tables, Active
  <2>9. CASE DeleteRoot_ArchiveValues(r)
    <3>1. /\ At(r, "deleteRoot", "archiveValues")
          /\ marks'[r].roots = marks[r].roots /\ marks'[r].options = marks[r].options
          /\ marks'[r].values = ValuesOfRoot(got[r]) /\ pc'[r] = "archiveOptions"
      BY <1>3, <2>6, <2>9 DEF DeleteRoot_ArchiveValues, Continue, Goto, Marks, LocalsOK, At,
         Respond, Statement
    <3>2. marks[r].options = {} /\ marks[r].roots = {}
      BY <2>5, <3>1 DEF ArchivesBelow, At
    <3>3. \A v \in Active(values) : options[values[v].option].root = got[r] =>
            v \in ValuesOfRoot(got[r])
      BY DEF Hierarchy, ActiveValuesHaveActiveOption, ValuesOfRoot, Active, Committed
    <3> QED BY <1>1, <2>1, <2>3, <2>4, <3>1, <3>2, <3>3
            DEF Alone, ArchivesBelow, At, tables, Active
  <2>10. CASE DeleteRoot_ArchiveOptions(r)
    <3>1. /\ At(r, "deleteRoot", "archiveOptions")
          /\ marks'[r].roots = marks[r].roots /\ marks'[r].options = OptionsOfRoot(got[r])
          /\ marks'[r].values = marks[r].values /\ pc'[r] = "archiveProducts"
      BY <2>6, <2>10 DEF DeleteRoot_ArchiveOptions, Continue, Goto, Marks, LocalsOK, At
    <3>2. \A o \in OptionsOfRoot(got[r]) : options[o].root = got[r]
      BY DEF OptionsOfRoot
    <3>3. \A o \in Active(options) : options[o].root = got[r] => o \in OptionsOfRoot(got[r])
      BY DEF OptionsOfRoot
    <3> QED BY <1>1, <2>1, <2>3, <2>4, <2>5, <3>1, <3>2, <3>3
            DEF Alone, ArchivesBelow, At, tables, Active
  <2>11. CASE DeleteRoot_ArchiveProducts(r)
    <3>1. /\ At(r, "deleteRoot", "archiveProducts")
          /\ marks'[r].roots = marks[r].roots /\ marks'[r].options = marks[r].options
          /\ marks'[r].values = marks[r].values /\ pc'[r] = "archiveRoot"
      BY <1>3, <2>6, <2>11 DEF DeleteRoot_ArchiveProducts, Continue, Goto, Marks, LocalsOK, At,
         Respond, Statement
    <3> QED BY <1>1, <2>1, <2>3, <2>4, <2>5, <3>1 DEF Alone, ArchivesBelow, At, tables, Active
  <2>12. CASE DeleteRoot_ArchiveRoot(r)
    <3>1. /\ At(r, "deleteRoot", "archiveRoot")
          /\ marks'[r].roots = {got[r]} /\ marks'[r].options = marks[r].options
          /\ marks'[r].values = marks[r].values /\ pc'[r] = "commit"
      BY <2>6, <2>12 DEF DeleteRoot_ArchiveRoot, DeleteProductRoot, Continue, Goto, Marks,
         LocalsOK, At
    <3> QED BY <1>1, <2>1, <2>3, <2>4, <2>5, <3>1 DEF Alone, ArchivesBelow, At, tables, Active
  <2>13. CASE DeleteOption_ArchiveValues(r)
    <3>1. /\ At(r, "deleteOption", "archiveValues")
          /\ marks'[r].roots = marks[r].roots /\ marks'[r].options = marks[r].options
          /\ marks'[r].values = ValuesOfOption(got[r]) /\ pc'[r] = "archiveOptions"
      BY <1>3, <2>6, <2>13 DEF DeleteOption_ArchiveValues, Continue, Goto, Marks, LocalsOK, At,
         RespondAndLeak, Statement
    <3>2. marks[r].options = {} /\ marks[r].roots = {}
      BY <2>5, <3>1 DEF ArchivesBelow, At
    <3>3. \A v \in Active(values) : values[v].option = got[r] => v \in ValuesOfOption(got[r])
      BY DEF ValuesOfOption, Active, Committed
    <3> QED BY <1>1, <2>1, <2>3, <2>4, <3>1, <3>2, <3>3
            DEF Alone, ArchivesBelow, At, tables, Active
  <2>14. CASE DeleteOption_ArchiveOption(r)
    <3>1. /\ At(r, "deleteOption", "archiveOptions")
          /\ marks'[r].roots = marks[r].roots /\ marks'[r].options = {got[r]}
          /\ marks'[r].values = marks[r].values /\ pc'[r] = "commit"
      BY <2>6, <2>14 DEF DeleteOption_ArchiveOption, DeleteProductOption, Continue, Goto, Marks,
         LocalsOK, At
    <3> QED BY <1>1, <2>1, <2>3, <2>4, <2>5, <3>1 DEF Alone, ArchivesBelow, At, tables, Active
  <2> QED BY <2>7, <2>8, <2>9, <2>10, <2>11, <2>12, <2>13, <2>14 DEF MarkStep
<1> QED BY <1>2, <1>3


\* What an INSERT writes, only the request's own transaction sees.
Inserts(r) ==
  /\ \A i \in RootId : roots'[i] = roots[i] \/ (roots[i].st # "active" /\ roots'[i].st = "pending")
  /\ \A o \in OptionId :
       options'[o] = options[o] \/ (options[o].st # "active" /\ options'[o].st = "pending")
  /\ \A v \in ValueId :
       values'[v] = values[v] \/ (values[v].st # "active" /\ values'[v].st = "pending")

LEMMA InsertsHierarchy ==
  ASSUME Domains, Domains', Hierarchy, NEW r \in Request, Inserts(r)
  PROVE  Hierarchy'
<1>1. Undisturbed
  BY DEF Inserts, Undisturbed
<1> QED BY <1>1, UndisturbedHierarchy

LEMMA InsertRootSerial ==
  ASSUME TypeInv, TypeInv', TransactionInv, TransactionInv', Hierarchy, NEW r \in Request,
         Alone(r), CreateProduct_InsertRoot(r)
  PROVE  Hierarchy' /\ Alone(r)'
<1> USE DEF TypeInv, LocalsOK
<1>1. /\ At(r, "createProduct", "insertRoot") /\ pc'[r] = "insertImages"
      /\ roots' = Written(roots, [i \in {<<r, 1>>} |-> [st |-> "pending", prefix |-> in[r].sku]])
      /\ UNCHANGED <<options, values, products, bridges, marks, locals>>
  BY DEF CreateProduct_InsertRoot, CreateProductRoot, At, Continue, Goto
<1>2. Domains /\ Domains' /\ MarksOK(r)' /\ Stage(r)
  BY DEF TransactionInv, Transacts, StoreTypeOK, Domains
<1>3. \A i \in RootId : i[1] = r => roots[i].st = "absent"
  BY <1>1, <1>2 DEF Stage, RowsAre, NothingWritten, At, Label, Statement
<1>4. /\ \A i \in RootId \ {<<r, 1>>} : roots'[i] = roots[i]
      /\ roots'[<<r, 1>>].st = "pending" /\ roots'[<<r, 1>>].prefix = in[r].sku
  BY <1>1, <1>2, DrawnIds DEF Written, Domains
<1>5. roots[<<r, 1>>].st = "absent"
  BY <1>3, DrawnIds
<1>6. Hierarchy'
  <2>1. \A i \in RootId : roots'[i] = roots[i] \/ (roots[i].st # "active" /\ roots'[i].st = "pending")
    <3> TAKE i \in RootId
    <3>1. CASE i = <<r, 1>>
      BY <1>4, <1>5, <3>1
    <3>2. CASE i # <<r, 1>>
      BY <1>4, <3>2
    <3> QED BY <3>1, <3>2
  <2>2. Inserts(r)
    BY <1>1, <2>1 DEF Inserts
  <2> QED BY <1>2, <2>2, InsertsHierarchy
<1>7. ArchivesBelow(r)'
  BY <1>1, <1>2, NothingArchived DEF locals, At, Deletions
<1>8. StillChecked(r)'
  <2>1. \A i \in Active(roots) : roots[i].prefix # in[r].sku
    BY <1>1 DEF Alone, StillChecked, At
  <2>2. Active(roots)' = Active(roots) /\ <<r, 1>> \notin Active(roots)
    BY <1>2, <1>4, <1>5 DEF Active, Domains
  <2>3. \A i \in Active(roots)' : roots'[i].prefix # in[r].sku
    <3> TAKE i \in Active(roots)'
    <3>1. i \in RootId \ {<<r, 1>>} /\ i \in Active(roots)
      BY <1>2, <2>2 DEF Active, Domains
    <3> QED BY <1>4, <2>1, <3>1
  <2> QED BY <1>1, <2>3 DEF StillChecked, At, locals
<1>9. HangsTogether(r)'
  <2>1. \A i \in Pending(roots)' : i[1] = r => i = <<r, 1>> /\ roots'[i].prefix = in[r].sku
    BY <1>2, <1>3, <1>4 DEF Pending, Domains
  <2> QED BY <1>1, <2>1 DEF HangsTogether, At, locals
<1> QED BY <1>6, <1>7, <1>8, <1>9 DEF Alone

LEMMA InsertImagesSerial ==
  ASSUME TypeInv, TypeInv', TransactionInv, TransactionInv', Hierarchy, NEW r \in Request,
         Alone(r), CreateProduct_InsertImages(r)
  PROVE  Hierarchy' /\ (pc'[r] \in Statement => Alone(r)')
<1> USE DEF TypeInv, LocalsOK
<1>1. /\ At(r, "createProduct", "insertImages") /\ UNCHANGED locals
      /\ \/ pc'[r] = "insertProducts" /\ UNCHANGED tables
         \/ pc'[r] \notin Statement /\ (UNCHANGED tables \/ Rollback({r}))
  BY DEF CreateProduct_InsertImages, At, Continue, Respond, RespondAndLeak, Goto, Statement
<1>2. Hierarchy'
  BY <1>1, RollbackHierarchy, UnchangedHierarchy DEF tables
<1>3. ASSUME pc'[r] \in Statement PROVE Alone(r)'
  <2>1. pc'[r] = "insertProducts" /\ UNCHANGED tables
    BY <1>1, <1>3
  <2>2. ArchivesBelow(r)'
    BY <1>1, NothingArchived DEF locals, At, Deletions, TransactionInv, Transacts
  <2> QED BY <1>1, <2>1, <2>2
          DEF Alone, StillChecked, HangsTogether, At, locals, tables, Active, Pending
<1> QED BY <1>2, <1>3

LEMMA InsertProductSerial ==
  ASSUME TypeInv, TypeInv', TransactionInv, TransactionInv', Hierarchy, NEW r \in Request,
         Alone(r), CreateProduct_InsertProduct(r)
  PROVE  Hierarchy' /\ Alone(r)'
<1> USE DEF TypeInv, LocalsOK
<1>1. /\ At(r, "createProduct", "insertProducts") /\ pc'[r] = "commit"
      /\ UNCHANGED <<roots, options, values, locals>>
  BY DEF CreateProduct_InsertProduct, At, Continue, Goto
<1>2. Domains /\ MarksOK(r)' /\ OnlyRoot(r)
  BY <1>1 DEF TransactionInv, Transacts, StoreTypeOK, Domains, Stage, At
<1>3. Hierarchy'
  BY <1>1, UnchangedHierarchy
<1>4. ArchivesBelow(r)'
  BY <1>1, <1>2, NothingArchived DEF locals, At, Deletions
<1>5. /\ \A o \in Pending(options)' : o[1] # r
      /\ \A v \in Pending(values)' : v[1] # r
  BY <1>1, <1>2 DEF OnlyRoot, Pending, Domains
<1> QED BY <1>1, <1>3, <1>4, <1>5
        DEF Alone, StillChecked, HangsTogether, At, locals, Active, Pending

\* The options and values a request inserts hang together.
LEMMA OptionsAndValuesHang ==
  ASSUME StoreTypeOK, Domains', NEW r \in Request, NEW root, NEW opts,
         CreateOptionsAndValues(r, root, opts),
         \A o \in OptionId : o[1] = r => options[o].st = "absent",
         \A v \in ValueId : v[1] = r => values[v].st = "absent"
  PROVE  /\ \A o \in OptionId :
              options'[o] = options[o] \/ (options[o].st # "active" /\ options'[o].st = "pending")
         /\ \A v \in ValueId :
              values'[v] = values[v] \/ (values[v].st # "active" /\ values'[v].st = "pending")
         /\ \A o \in Pending(options)' : o[1] = r => options'[o].root = root
         /\ \A v \in Pending(values)' : v[1] = r =>
              values'[v].option \in Pending(options)' /\ values'[v].option[1] = r
<1>1. \A o \in OptionId :
        IF o[1] = r /\ o[2] \in DOMAIN opts
        THEN options'[o].st = "pending" /\ options'[o].root = root
        ELSE options'[o] = options[o]
  BY OptionsAndValuesRows
<1>2. \A v \in ValueId :
        IF v[1] = r /\ v[2] \in DOMAIN opts /\ v[3] \in DOMAIN opts[v[2]].values
        THEN values'[v].st = "pending" /\ values'[v].option = <<r, v[2]>>
        ELSE values'[v] = values[v]
  BY OptionsAndValuesRows
<1>3. ASSUME NEW v \in Pending(values)', v[1] = r
      PROVE  values'[v].option \in Pending(options)' /\ values'[v].option[1] = r
  <2>1. v \in ValueId /\ values'[v].st = "pending"
    BY <1>3 DEF Pending, Domains
  <2>2. v[2] \in DOMAIN opts /\ values'[v].option = <<r, v[2]>>
    BY <1>2, <1>3, <2>1
  <2>3. v[2] \in Ordinal
    BY <2>1 DEF ValueId
  <2>4. <<r, v[2]>> \in OptionId
    BY <2>3, DrawnIds
  <2>5. options'[<<r, v[2]>>].st = "pending"
    BY <1>1, <2>2, <2>4
  <2> QED BY <2>2, <2>4, <2>5 DEF Pending, Domains
<1>4. \A o \in Pending(options)' : o[1] = r => options'[o].root = root
  BY <1>1 DEF Pending, Domains
<1> QED BY <1>1, <1>2, <1>3, <1>4

LEMMA InsertVariantsSerial ==
  ASSUME TypeInv, TypeInv', TransactionInv, TransactionInv', Hierarchy, NEW r \in Request,
         Alone(r), CreateProduct_InsertVariants(r)
  PROVE  Hierarchy' /\ (pc'[r] \in Statement => Alone(r)')
<1> USE DEF TypeInv, LocalsOK
<1>1. /\ At(r, "createProduct", "insertProducts") /\ UNCHANGED locals
      /\ \/ pc'[r] \notin Statement /\ Rollback({r})
         \/ /\ CreateOptionsAndValues(r, <<r, 1>>, in[r].options)
            /\ UNCHANGED roots
            /\ pc'[r] = "commit" \/ pc'[r] \notin Statement
  BY DEF CreateProduct_InsertVariants, At, Continue, Respond, RespondAndLeak, Goto, Statement
<1>2. /\ Domains /\ Domains' /\ MarksOK(r)' /\ OnlyRoot(r)
  BY <1>1 DEF TransactionInv, Transacts, StoreTypeOK, Domains, Stage, At
<1>3. CASE Rollback({r}) /\ pc'[r] \notin Statement
  BY <1>3, RollbackHierarchy
<1>4. CASE /\ CreateOptionsAndValues(r, <<r, 1>>, in[r].options) /\ UNCHANGED roots
           /\ pc'[r] = "commit" \/ pc'[r] \notin Statement
  <2>1. /\ \A o \in OptionId : o[1] = r => options[o].st = "absent"
        /\ \A v \in ValueId : v[1] = r => values[v].st = "absent"
    BY <1>2 DEF OnlyRoot
  <2>2. Hierarchy'
    BY <1>2, <1>4, <2>1, OptionsAndValuesHang, InsertsHierarchy DEF Inserts
  <2>3. ASSUME pc'[r] \in Statement PROVE Alone(r)'
    <3>1. ArchivesBelow(r)'
      BY <1>1, <1>2, NothingArchived DEF locals, At, Deletions
    <3>2. StillChecked(r)'
      BY <1>1, <1>4, <2>3 DEF Alone, StillChecked, At, locals, Active
    <3>3. <<r, 1>> \in Pending(roots)' /\ <<r, 1>>[1] = r
      BY <1>2, <1>4, DrawnIds DEF OnlyRoot, Pending, Domains
    <3>4. \A i \in Pending(roots)' : i[1] = r => i = <<r, 1>> /\ roots'[i].prefix = in[r].sku
      BY <1>1, <1>4 DEF Alone, HangsTogether, At, Pending
    <3>5. \A o \in Pending(options)' : o[1] = r => options'[o].root = <<r, 1>>
      BY <1>2, <1>4, <2>1, OptionsAndValuesHang
    <3>6. \A v \in Pending(values)' : v[1] = r =>
            values'[v].option \in Pending(options)' /\ values'[v].option[1] = r
      BY <1>2, <1>4, <2>1, OptionsAndValuesHang
    <3>7. HangsTogether(r)'
      BY <1>1, <3>3, <3>4, <3>5, <3>6 DEF HangsTogether, At, locals
    <3> QED BY <3>1, <3>2, <3>7 DEF Alone
  <2> QED BY <2>2, <2>3
<1> QED BY <1>1, <1>3, <1>4


LEMMA InsertOptionSerial ==
  ASSUME TypeInv, TypeInv', TransactionInv, TransactionInv', Hierarchy, NEW r \in Request,
         Alone(r), CreateOption_Insert(r)
  PROVE  Hierarchy' /\ (pc'[r] \in Statement => Alone(r)')
<1> USE DEF TypeInv, LocalsOK
<1>1. /\ At(r, "createOption", "insertOption") /\ UNCHANGED locals
      /\ \/ pc'[r] \notin Statement /\ Rollback({r})
         \/ /\ CreateOptionsAndValues(r, in[r].root, in[r].options)
            /\ UNCHANGED roots /\ pc'[r] = "commit"
  BY DEF CreateOption_Insert, At, Continue, Respond, Goto, Statement
<1>2. /\ Domains /\ Domains' /\ MarksOK(r)' /\ RowsAre(r, {"absent"})
  BY <1>1 DEF TransactionInv, Transacts, StoreTypeOK, Domains, Stage, At, NothingWritten, Label,
     Statement
<1>3. CASE Rollback({r}) /\ pc'[r] \notin Statement
  BY <1>3, RollbackHierarchy
<1>4. CASE /\ CreateOptionsAndValues(r, in[r].root, in[r].options) /\ UNCHANGED roots
           /\ pc'[r] = "commit"
  <2>1. /\ \A i \in RootId : i[1] = r => roots[i].st = "absent"
        /\ \A o \in OptionId : o[1] = r => options[o].st = "absent"
        /\ \A v \in ValueId : v[1] = r => values[v].st = "absent"
    BY <1>2 DEF RowsAre
  <2>2. Hierarchy'
    BY <1>2, <1>4, <2>1, OptionsAndValuesHang, InsertsHierarchy DEF Inserts
  <2>3. ArchivesBelow(r)'
    BY <1>1, <1>2, NothingArchived DEF locals, At, Deletions
  <2>4. StillChecked(r)'
    BY <1>1, <1>4 DEF StillChecked, At, locals
  <2>5. in[r].root \in Active(roots)'
    BY <1>1, <1>4 DEF Alone, StillChecked, At, Active
  <2>6. \A i \in Pending(roots)' : i[1] # r
    BY <1>2, <1>4, <2>1 DEF Pending, Domains
  <2>7. \A o \in Pending(options)' : o[1] = r => options'[o].root = in[r].root
    BY <1>2, <1>4, <2>1, OptionsAndValuesHang
  <2>8. \A v \in Pending(values)' : v[1] = r =>
          values'[v].option \in Pending(options)' /\ values'[v].option[1] = r
    BY <1>2, <1>4, <2>1, OptionsAndValuesHang
  <2>9. HangsTogether(r)'
    BY <2>5, <2>6, <2>7, <2>8 DEF HangsTogether
  <2> QED BY <2>2, <2>3, <2>4, <2>9 DEF Alone
<1> QED BY <1>1, <1>3, <1>4

LEMMA InsertValueSerial ==
  ASSUME TypeInv, TypeInv', TransactionInv, TransactionInv', Hierarchy, NEW r \in Request,
         Alone(r), CreateValue_Insert(r)
  PROVE  Hierarchy' /\ (pc'[r] \in Statement => Alone(r)')
<1> USE DEF TypeInv, LocalsOK
<1>1. /\ At(r, "createValue", "insertValue") /\ UNCHANGED locals
      /\ \/ pc'[r] \notin Statement /\ Rollback({r})
         \/ /\ CreateProductOptionValue(r, in[r].option, in[r].text)
            /\ UNCHANGED <<roots, options>> /\ pc'[r] = "commit"
  BY DEF CreateValue_Insert, At, Continue, Respond, Goto, Statement
<1>2. /\ Domains /\ Domains' /\ MarksOK(r)' /\ RowsAre(r, {"absent"})
  BY <1>1 DEF TransactionInv, Transacts, StoreTypeOK, Domains, Stage, At, NothingWritten, Label,
     Statement
<1>3. CASE Rollback({r}) /\ pc'[r] \notin Statement
  BY <1>3, RollbackHierarchy
<1>4. CASE /\ CreateProductOptionValue(r, in[r].option, in[r].text)
           /\ UNCHANGED <<roots, options>> /\ pc'[r] = "commit"
  <2>1. /\ \A i \in RootId : i[1] = r => roots[i].st = "absent"
        /\ \A o \in OptionId : o[1] = r => options[o].st = "absent"
        /\ \A v \in ValueId : v[1] = r => values[v].st = "absent"
    BY <1>2 DEF RowsAre
  <2>2. /\ \A v \in ValueId \ {<<r, 1, 1>>} : values'[v] = values[v]
        /\ values'[<<r, 1, 1>>].st = "pending" /\ values'[<<r, 1, 1>>].option = in[r].option
    BY <1>2, <1>4, DrawnIds DEF CreateProductOptionValue, Written, Domains
  <2>3. values[<<r, 1, 1>>].st = "absent"
    BY <2>1, DrawnIds
  <2>4. Hierarchy'
    BY <1>2, <1>4, <2>2, <2>3, InsertsHierarchy DEF Inserts
  <2>5. ArchivesBelow(r)'
    BY <1>1, <1>2, NothingArchived DEF locals, At, Deletions
  <2>6. StillChecked(r)'
    BY <1>1, <1>4 DEF StillChecked, At, locals
  <2>7. in[r].option \in Active(options)'
    BY <1>1, <1>4 DEF Alone, StillChecked, At, Active
  <2>8. \A i \in Pending(roots)' : i[1] # r
    BY <1>2, <1>4, <2>1 DEF Pending, Domains
  <2>9. \A o \in Pending(options)' : o[1] # r
    BY <1>2, <1>4, <2>1 DEF Pending, Domains
  <2>10. \A v \in Pending(values)' : v[1] = r => values'[v].option = in[r].option
    BY <1>2, <2>1, <2>2 DEF Pending, Domains
  <2>11. HangsTogether(r)'
    BY <2>7, <2>8, <2>9, <2>10 DEF HangsTogether
  <2> QED BY <2>4, <2>5, <2>6, <2>11 DEF Alone
<1> QED BY <1>1, <1>3, <1>4

LEMMA InsertSerial ==
  ASSUME TypeInv, TypeInv', TransactionInv, TransactionInv', Hierarchy, NEW r \in Request,
         Alone(r), InsertStep(r)
  PROVE  Hierarchy' /\ (pc'[r] \in Statement => Alone(r)')
BY InsertRootSerial, InsertImagesSerial, InsertProductSerial, InsertVariantsSerial,
   InsertOptionSerial, InsertValueSerial DEF InsertStep

LEMMA UpdateSerial ==
  ASSUME TypeInv, TypeInv', TransactionInv, TransactionInv', Hierarchy, NEW r \in Request,
         Alone(r), UpdateStep(r)
  PROVE  Hierarchy' /\ Alone(r)'
<1>1. in' = in /\ pc'[r] \in {"webhooks", "readBack", "done"}
  BY UpdateStepAdvances DEF Advances, UpdateStep, UpdateProduct_Update, UpdateOption_Update,
     UpdateValue_Update, DeleteValue_Update, Continue, Respond, Goto, TypeInv, LocalsOK
<1>2. /\ Domains /\ Domains' /\ MarksOK(r)' /\ Stage(r)' /\ WorksOn(r)
  BY DEF TransactionInv, Transacts, StoreTypeOK, Domains, TypeInv
<1>3. Alone(r)'
  <2>1. StillChecked(r)'
    BY <1>1 DEF StillChecked, At
  <2>2. ArchivesBelow(r)'
    BY <1>1, <1>2, NothingArchived DEF Archiving
  <2>3. HangsTogether(r)'
    BY <1>1 DEF HangsTogether
  <2> QED BY <2>1, <2>2, <2>3 DEF Alone
<1>4. CASE UpdateProduct_Update(r)
  BY <1>3, <1>4, UnchangedHierarchy DEF UpdateProduct_Update
<1>5. CASE UpdateOption_Update(r)
  <2>1. At(r, "updateOption", "update") /\ roots' = roots /\ values' = values
    BY <1>5 DEF UpdateOption_Update
  <2>2. UNCHANGED options \/ UpdateProductOption(got[r], MergedRoot(r), MergedName(r))
    BY <1>5 DEF UpdateOption_Update
  <2>3. CASE UNCHANGED options
    BY <1>3, <2>1, <2>3, UnchangedHierarchy
  <2>4. CASE UpdateProductOption(got[r], MergedRoot(r), MergedName(r))
    <3>1. /\ options \in [OptionId -> OptionRow] /\ got[r] \in OptionId
          /\ in[r] \in Inputs
      BY <1>2, <2>1, RequestFields
         DEF WorksOn, At, Committed, Domains, StoreTypeOK, Statement, TypeInv
    <3>2. NoReparenting => MergedRoot(r) = options[got[r]].root
      BY <2>1, <3>1 DEF NoReparenting, MergedRoot, Alone, StillChecked, At
    <3>3. /\ \A o \in OptionId \ {got[r]} : options'[o] = options[o]
          /\ options'[got[r]].st = options[got[r]].st
          /\ options'[got[r]].root = MergedRoot(r)
      BY <2>4, <3>1 DEF UpdateProductOption, OptionRow
    <3>4. \A o \in OptionId : options'[o].st = options[o].st
      BY <3>3
    <3>5. NoReparenting => \A o \in OptionId : options'[o].root = options[o].root
      BY <3>2, <3>3
    <3>6. Undisturbed
      BY <2>1, <3>4, <3>5 DEF Undisturbed
    <3> QED BY <1>2, <1>3, <3>6, UndisturbedHierarchy
  <2> QED BY <2>2, <2>3, <2>4
<1>6. CASE UpdateValue_Update(r) \/ DeleteValue_Update(r)
  <2>1. /\ pc[r] = "update" /\ in[r].op \in {"updateValue", "deleteValue"}
        /\ UNCHANGED <<roots, options>>
        /\ \/ UNCHANGED values
           \/ UpdateProductOptionValue(got[r], in[r].text)
           \/ DeleteProductOptionValue(got[r])
    BY <1>6 DEF UpdateValue_Update, DeleteValue_Update, At
  <2>2. values \in [ValueId -> ValueRow] /\ got[r] \in ValueId
    BY <1>2, <2>1 DEF WorksOn, Committed, Domains, StoreTypeOK, TypeInv
  <2>3. \A v \in ValueId :
          values'[v].st \in {values[v].st, "archived"} /\ values'[v].option = values[v].option
    BY <2>1, <2>2 DEF UpdateProductOptionValue, DeleteProductOptionValue, ValueRow
  <2>4. \A v \in ValueId : values'[v].st = "active" => values[v].st = "active"
    BY <2>3
  <2>5. Undisturbed
    BY <2>1, <2>3, <2>4 DEF Undisturbed
  <2> QED BY <1>2, <1>3, <2>5, UndisturbedHierarchy
<1> QED BY <1>3, <1>4, <1>5, <1>6 DEF UpdateStep


\* A commit makes the request's own rows active, or archives what hangs
\* from what it archives along with it: never both.
LEMMA CommitHierarchy ==
  ASSUME TypeInv, TypeInv', TransactionInv, Hierarchy, NEW r \in Request, Alone(r),
         pc[r] = "commit", Commit(r)
  PROVE  Hierarchy'
<1>1. /\ StoreTypeOK /\ Domains /\ Domains' /\ MarksOK(r) /\ Stage(r)
  BY DEF TransactionInv, Transacts, StoreTypeOK, Domains, TypeInv
<1>2. \A i \in RootId : roots'[i].prefix = roots[i].prefix
  BY <1>1 DEF Commit, Settled, StoreTypeOK, RootRow
<1>3. \A i \in RootId :
        roots'[i].st = IF roots[i].st = "pending" /\ i[1] = r THEN "active"
                       ELSE IF i \in marks[r].roots THEN "archived" ELSE roots[i].st
  BY <1>1, CommitRows
<1>4. \A o \in OptionId :
        /\ options'[o].st = IF options[o].st = "pending" /\ o[1] = r THEN "active"
                            ELSE IF o \in marks[r].options THEN "archived" ELSE options[o].st
        /\ options'[o].root = options[o].root
  BY <1>1, CommitRows
<1>5. \A v \in ValueId :
        /\ values'[v].st = IF values[v].st = "pending" /\ v[1] = r THEN "active"
                           ELSE IF v \in marks[r].values THEN "archived" ELSE values[v].st
        /\ values'[v].option = values[v].option
  BY <1>1, CommitRows
<1>6. CASE in[r].op \in Deletions
  <2>1. /\ \A i \in RootId : i[1] = r => roots[i].st = "absent"
        /\ \A o \in OptionId : o[1] = r => options[o].st = "absent"
        /\ \A v \in ValueId : v[1] = r => values[v].st = "absent"
    BY <1>1, <1>6 DEF Stage, RowsAre
  <2>2. Active(roots)' = Active(roots) \ marks[r].roots
    BY <1>1, <1>3, <2>1 DEF Active, Domains
  <2>3. Active(options)' = Active(options) \ marks[r].options
    BY <1>1, <1>4, <2>1 DEF Active, Domains
  <2>4. Active(values)' = Active(values) \ marks[r].values
    BY <1>1, <1>5, <2>1 DEF Active, Domains
  <2>5. ActiveValuesHaveActiveOption'
    <3>1. \A v \in Active(values) : values[v].option \in marks[r].options => v \in marks[r].values
      BY DEF Alone, ArchivesBelow
    <3>2. \A v \in Active(values) : v \in ValueId /\ values[v].option \in Active(options)
      BY <1>1 DEF Hierarchy, ActiveValuesHaveActiveOption, Active, Domains
    <3> QED BY <1>5, <2>3, <2>4, <3>1, <3>2 DEF ActiveValuesHaveActiveOption
  <2>6. UniqueActivePrefix'
    <3>1. \A i \in Active(roots) : i \in RootId
      BY <1>1 DEF Active, Domains
    <3> QED BY <1>2, <2>2, <3>1 DEF Hierarchy, UniqueActivePrefix
  <2>7. ASSUME NoReparenting PROVE ActiveOptionsHaveActiveRoot'
    <3>1. \A o \in Active(options) : options[o].root \in marks[r].roots => o \in marks[r].options
      BY DEF Alone, ArchivesBelow
    <3>2. \A o \in Active(options) : o \in OptionId /\ options[o].root \in Active(roots)
      BY <1>1, <2>7 DEF Hierarchy, ActiveOptionsHaveActiveRoot, Active, Domains
    <3> QED BY <1>4, <2>2, <2>3, <3>1, <3>2 DEF ActiveOptionsHaveActiveRoot
  <2> QED BY <2>5, <2>6, <2>7 DEF Hierarchy
<1>7. CASE in[r].op \notin Deletions
  <2>1. marks[r].roots = {} /\ marks[r].options = {} /\ marks[r].values = {}
    BY <1>1, <1>7 DEF MarksOK, NoMarks
  <2> DEFINE own(table) == {i \in Pending(table) : i[1] = r}
  <2>2. Active(roots)' = Active(roots) \cup own(roots)
    BY <1>1, <1>3, <2>1 DEF Active, Domains, Pending
  <2>3. Active(options)' = Active(options) \cup own(options)
    BY <1>1, <1>4, <2>1 DEF Active, Domains, Pending
  <2>4. Active(values)' = Active(values) \cup own(values)
    BY <1>1, <1>5, <2>1 DEF Active, Domains, Pending
  <2>5. HangsTogether(r) /\ StillChecked(r)
    BY DEF Alone
  <2>6. ActiveValuesHaveActiveOption'
    <3>1. \A v \in own(values) : values[v].option \in Active(options) \cup own(options)
      BY <2>5 DEF HangsTogether
    <3>2. \A v \in Active(values) : values[v].option \in Active(options)
      BY DEF Hierarchy, ActiveValuesHaveActiveOption
    <3>3. \A v \in Active(values) \cup own(values) : v \in ValueId
      BY <1>1 DEF Active, Pending, Domains
    <3> HIDE DEF own
    <3> QED BY <1>5, <2>3, <2>4, <3>1, <3>2, <3>3 DEF ActiveValuesHaveActiveOption
  <2>7. UniqueActivePrefix'
    <3>1. \A i \in own(roots) : i = <<r, 1>> /\ roots[i].prefix = in[r].sku
      BY <2>5 DEF HangsTogether
    <3>2. \A i \in own(roots), j \in Active(roots) : roots[i].prefix # roots[j].prefix
      BY <2>5, <3>1 DEF HangsTogether, StillChecked
    <3>3. \A i \in Active(roots) \cup own(roots) : i \in RootId
      BY <1>1 DEF Active, Pending, Domains
    <3>4. \A i, j \in Active(roots) : roots[i].prefix = roots[j].prefix => i = j
      BY DEF Hierarchy, UniqueActivePrefix
    <3> HIDE DEF own
    <3> QED BY <1>2, <2>2, <3>1, <3>2, <3>3, <3>4 DEF UniqueActivePrefix
  <2>8. ASSUME NoReparenting PROVE ActiveOptionsHaveActiveRoot'
    <3>1. \A o \in own(options) : options[o].root \in Active(roots) \cup own(roots)
      BY <2>5 DEF HangsTogether
    <3>2. \A o \in Active(options) : options[o].root \in Active(roots)
      BY <2>8 DEF Hierarchy, ActiveOptionsHaveActiveRoot
    <3>3. \A o \in Active(options) \cup own(options) : o \in OptionId
      BY <1>1 DEF Active, Pending, Domains
    <3> HIDE DEF own
    <3> QED BY <1>4, <2>2, <2>3, <3>1, <3>2, <3>3 DEF ActiveOptionsHaveActiveRoot
  <2> QED BY <2>6, <2>7, <2>8 DEF Hierarchy
<1> QED BY <1>6, <1>7

LEMMA EndSerial ==
  ASSUME TypeInv, TypeInv', TransactionInv, TransactionInv', Hierarchy, NEW r \in Request,
         Alone(r), EndStep(r)
  PROVE  Hierarchy' /\ (pc'[r] \in Statement => Alone(r)')
<1>1. /\ pc'[r] \in {"webhooks", "done", "leaked"}
      /\ (pc[r] = "commit" /\ Commit(r)) \/ Rollback({r}) \/ UNCHANGED tables
  BY DEF EndStep, CommitSucceeds, CommitFails, StatementFails, Continue, Respond, RespondAndLeak,
     Goto, TypeInv, LocalsOK
<1>2. MarksOK(r)' /\ StoreTypeOK /\ StoreTypeOK'
  BY DEF TransactionInv, Transacts, TypeInv
<1>3. Hierarchy'
  BY <1>1, <1>2, CommitHierarchy, RollbackHierarchy, UnchangedHierarchy DEF tables
<1>4. ArchivesBelow(r)'
  BY <1>1, <1>2, NothingArchived DEF Archiving
<1>5. StillChecked(r)' /\ HangsTogether(r)'
  BY <1>1 DEF StillChecked, HangsTogether, At
<1> QED BY <1>3, <1>4, <1>5 DEF Alone

\* A handler that takes a step is at a statement.
LEMMA HandleRuns ==
  ASSUME NEW r \in Request, Handle(r)
  PROVE  pc[r] \in Statement
BY DEF Handle, Runs, CreateProductStep, DeleteProductStep, DeleteRootStep, UpdateProductStep,
   OptionStep, ValueStep, CommitSucceeds, CommitFails, StatementFails, GetWebhooks, Statement,
   CreateProduct_Exists, CreateProduct_InsertRoot, CreateProduct_InsertImages,
   CreateProduct_InsertProduct, CreateProduct_InsertVariants, DeleteProduct_Find,
   DeleteProduct_ArchiveBridges, DeleteProduct_ArchiveProduct, DeleteRoot_Find,
   DeleteRoot_ArchiveBridges, DeleteRoot_ArchiveValues, DeleteRoot_ArchiveOptions,
   DeleteRoot_ArchiveProducts, DeleteRoot_ArchiveRoot, UpdateProduct_Find, UpdateProduct_Update,
   CreateOption_Exists, CreateOption_NameFree, CreateOption_Insert, DeleteOption_Find,
   DeleteOption_ArchiveValues, DeleteOption_ArchiveOption, UpdateOption_Find,
   UpdateOption_Update, UpdateOption_ReadBack, CreateValue_Exists, CreateValue_ValueFree,
   CreateValue_Insert, UpdateValue_Find, UpdateValue_Update, DeleteValue_Find,
   DeleteValue_Update, At

LEMMA HandleSerial ==
  ASSUME TypeInv, TypeInv', TransactionInv, TransactionInv', SerialInv, NEW r \in Request,
         Handle(r)
  PROVE  SerialInv'
<1>1. pc[r] \in Statement
  BY HandleRuns
<1>2. Hierarchy /\ Alone(r)
  BY <1>1 DEF SerialInv
<1>3. \A q \in Request \ {r} : pc'[q] = pc[q]
  BY OthersAlone
<1>4. Hierarchy' /\ (pc'[r] \in Statement => Alone(r)')
  <2>1. CASE ReadStep(r)
    <3>1. UNCHANGED tables
      BY <2>1, ReadStepFrame
    <3> QED BY <1>2, <2>1, <3>1, ReadSerial, UnchangedHierarchy DEF tables
  <2>2. CASE FindStep(r)
    <3>1. UNCHANGED tables
      BY <2>2 DEF FindStep, DeleteProduct_Find, DeleteRoot_Find, DeleteOption_Find,
         UpdateValue_Find, DeleteValue_Find, UpdateProduct_Find, UpdateOption_Find, Find
    <3> QED BY <1>2, <2>2, <3>1, FindSerial, UnchangedHierarchy DEF tables
  <2>3. CASE MarkStep(r)
    BY <1>2, <2>3, MarkSerial
  <2>4. CASE InsertStep(r)
    BY <1>2, <2>4, InsertSerial
  <2>5. CASE UpdateStep(r)
    BY <1>2, <2>5, UpdateSerial
  <2>6. CASE EndStep(r)
    BY <1>2, <2>6, EndSerial
  <2> QED BY <2>1, <2>2, <2>3, <2>4, <2>5, <2>6, HandleSteps
<1> QED BY <1>1, <1>3, <1>4, StepAlone DEF SerialInv

LEMMA SerialNext ==
  ASSUME MaxInFlight = 1, TypeInv, TransactionInv, SerialInv, [Next]_vars
  PROVE  SerialInv'
<1>1. TypeInv' /\ TransactionInv'
  BY NextType, TransactionNext
<1>2. CASE UNCHANGED vars
  BY <1>2 DEF vars, tables, locals, SerialInv, OneAtATime, Hierarchy, Alone, StillChecked,
     HangsTogether, ArchivesBelow, At, Active, Pending, ActiveValuesHaveActiveOption,
     UniqueActivePrefix, ActiveOptionsHaveActiveRoot
<1>3. ASSUME NEW r \in Request, Arrive(r) PROVE SerialInv'
  BY <1>1, <1>3, ArriveSerial
<1>4. ASSUME NEW r \in Request, Handle(r) PROVE SerialInv'
  BY <1>1, <1>4, HandleSerial
<1>5. CASE ServerCrash
  <2> DEFINE dying == InFlight \cup {r \in Request : pc[r] = "leaked"}
  <2>1. /\ Rollback(dying)
        /\ pc' = [r \in Request |-> IF r \in dying THEN "dead" ELSE pc[r]]
    BY <1>5 DEF ServerCrash
  <2>2. \A r \in Request : pc'[r] \notin Statement
    BY <2>1 DEF InFlight, Statement
  <2>3. Hierarchy'
    BY <1>1, <2>1, RollbackHierarchy DEF SerialInv, TypeInv, InFlight
  <2> QED BY <2>2, <2>3 DEF SerialInv, OneAtATime
<1> QED BY <1>2, <1>3, <1>4, <1>5 DEF Next, Quiescent

\* While requests are handled one at a time, no active value is left under a
\* deleted option: deleting an option archives its values first, and a value
\* is created only under an option that was found to exist.
THEOREM ValuesFollowOptions ==
  ASSUME MaxInFlight = 1
  PROVE  Spec => []ActiveValuesHaveActiveOption
<1>1. TypeInv /\ TransactionInv /\ SerialInv /\ [Next]_vars => SerialInv'
  BY SerialNext
<1>2. SerialInv => ActiveValuesHaveActiveOption
  BY DEF SerialInv, Hierarchy
<1> QED BY <1>1, <1>2, SerialInit, TypeInvariant, TransactionInvariant, PTL DEF Spec

\* While requests are handled one at a time and no PATCH moves an option to
\* another root, no active option is left under a deleted root: the deletion
\* of a root archives its options first, and "can't create an option for a
\* product that doesn't exist!" stays true until the insert.
THEOREM OptionsFollowRoots ==
  ASSUME MaxInFlight = 1, NoReparenting
  PROVE  Spec => []ActiveOptionsHaveActiveRoot
<1>1. TypeInv /\ TransactionInv /\ SerialInv /\ [Next]_vars => SerialInv'
  BY SerialNext
<1>2. SerialInv => ActiveOptionsHaveActiveRoot
  BY DEF SerialInv, Hierarchy
<1> QED BY <1>1, <1>2, SerialInit, TypeInvariant, TransactionInvariant, PTL DEF Spec

\* While requests are handled one at a time, no two active roots have the
\* same SKU prefix: nothing but the existence check of POST /v1/product says so.
THEOREM PrefixesUnique ==
  ASSUME MaxInFlight = 1
  PROVE  Spec => []UniqueActivePrefix
<1>1. TypeInv /\ TransactionInv /\ SerialInv /\ [Next]_vars => SerialInv'
  BY SerialNext
<1>2. SerialInv => UniqueActivePrefix
  BY DEF SerialInv, Hierarchy
<1> QED BY <1>1, <1>2, SerialInit, TypeInvariant, TransactionInvariant, PTL DEF Spec

=============================================================================

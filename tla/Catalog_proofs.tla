--------------------------- MODULE Catalog_proofs ---------------------------
(***************************************************************************)
(* Theorems about Catalog, for every number of requests, every seed and    *)
(* every set of inputs, with failed statements, lost commits, leaked       *)
(* transactions and crashes: its types; and what the transactions of       *)
(* concurrent requests leave in the tables.  Creations are atomic, unique  *)
(* keys stay unique, leaks block nobody, and rows are soft-deleted once    *)
(* (the module SoftDelete).                                                *)
(*                                                                         *)
(* Two invariants carry them: TypeInv, of what handlers know, and          *)
(* TransactionInv.  Of a request the latter says how far its own rows can  *)
(* be at each statement (Stage), what its transaction may have archived    *)
(* (MarksOK), that it works on rows others can see (WorksOn), and what a   *)
(* leak leaves (LeaksNothing); of the tables, that keys are unique over    *)
(* committed and pending rows alike.                                       *)
(***************************************************************************)
EXTENDS Catalog, TLAPS

-----------------------------------------------------------------------------
(* Types *)

LEMMA NoMarksType == NoMarks \in Marks
BY DEF NoMarks, Marks

LEMMA CommitType ==
  ASSUME StoreTypeOK, NEW r \in Request, Commit(r)
  PROVE  StoreTypeOK'
<1>1. roots' \in [RootId -> RootRow]
  BY DEF StoreTypeOK, Commit, Settled, RootRow, RowState
<1>2. options' \in [OptionId -> OptionRow]
  BY DEF StoreTypeOK, Commit, Settled, OptionRow, RowState
<1>3. values' \in [ValueId -> ValueRow]
  BY DEF StoreTypeOK, Commit, Settled, ValueRow, RowState
<1>4. products' \in [ProductId -> ProductRow]
  BY DEF StoreTypeOK, Commit, Settled, ProductRow, RowState
<1>5. bridges' \in [ProductId -> BridgeRow]
  BY DEF StoreTypeOK, Commit, Settled, BridgeRow, RowState
<1>6. marks' \in [Request -> Marks]
  BY NoMarksType DEF StoreTypeOK, Commit
<1> QED BY <1>1, <1>2, <1>3, <1>4, <1>5, <1>6 DEF StoreTypeOK

LEMMA RollbackType ==
  ASSUME StoreTypeOK, NEW rs \in SUBSET Request, Rollback(rs)
  PROVE  StoreTypeOK'
<1>1. roots' \in [RootId -> RootRow]
  BY DEF StoreTypeOK, Rollback, Undone, RootRow, RowState
<1>2. options' \in [OptionId -> OptionRow]
  BY DEF StoreTypeOK, Rollback, Undone, OptionRow, RowState
<1>3. values' \in [ValueId -> ValueRow]
  BY DEF StoreTypeOK, Rollback, Undone, ValueRow, RowState
<1>4. products' \in [ProductId -> ProductRow]
  BY DEF StoreTypeOK, Rollback, Undone, ProductRow, RowState
<1>5. bridges' \in [ProductId -> BridgeRow]
  BY DEF StoreTypeOK, Rollback, Undone, BridgeRow, RowState
<1>6. marks' \in [Request -> Marks]
  BY NoMarksType DEF StoreTypeOK, Rollback
<1> QED BY <1>1, <1>2, <1>3, <1>4, <1>5, <1>6 DEF StoreTypeOK

\* A handler past its arrival works on one of the inputs, and past its first
\* read on an id, and a row, of the kind its operation is about.
RequestsOK ==
  \A r \in Request : pc[r] \in Statement =>
    /\ in[r] \in Inputs
    /\ pc[r] # "find" =>
         /\ in[r].op = "updateProduct" => got[r] \in ProductId /\ seen[r] \in ProductRow
         /\ in[r].op = "updateOption" => got[r] \in OptionId /\ seen[r] \in OptionRow
         /\ in[r].op = "deleteProduct" => got[r] \in ProductId
         /\ in[r].op = "deleteRoot" => got[r] \in RootId
         /\ in[r].op = "deleteOption" => got[r] \in OptionId
         /\ in[r].op \in {"updateValue", "deleteValue"} => got[r] \in ValueId

\* The part of TypeOK that is about the requests.
LocalsOK ==
  /\ pc \in [Request -> Label]
  /\ in \in [Request -> Inputs \cup {None}]
  /\ got \in [Request -> RootId \cup OptionId \cup ValueId \cup ProductId \cup {None}]
  /\ seen \in [Request -> OptionRow \cup ProductRow \cup {None}]
  /\ status \in [Request -> {0, 200, 201, 400, 404, 500}]
  /\ crashes \in 0..MaxCrashes

TypeInv == StoreTypeOK /\ LocalsOK /\ RequestsOK

LEMMA TypeInvImpliesTypeOK == TypeInv => TypeOK
BY DEF TypeInv, LocalsOK, TypeOK

LEMMA InputFields ==
  ASSUME NEW i \in Inputs
  PROVE  /\ i.op \in Operation
         /\ i.sku \in Sku
         /\ i.newSku \in Sku \cup {None}
         /\ i.root \in RootId \cup {None}
         /\ i.option \in OptionId \cup {None}
         /\ i.value \in ValueId \cup {None}
         /\ i.product \in ProductId \cup {None}
         /\ i.text \in Text \cup {None}
         /\ i.options \in Seq(NewOption)
         /\ i.images \in {"valid", "invalid", "unknownType"}
BY InputsAssumption DEF Input

LEMMA InitType == Init => TypeInv
<1> SUFFICES ASSUME Init PROVE TypeInv
  OBVIOUS
<1>1. StoreTypeOK
  BY SeedAssumption, NoMarksType DEF Init, StoreInit, StoreTypeOK, Tables
<1>2. LocalsOK
  BY InputsAssumption DEF Init, LocalsOK, Label
<1>3. RequestsOK
  BY DEF Init, RequestsOK, Statement
<1> QED BY <1>1, <1>2, <1>3 DEF TypeInv

LEMMA ArriveType ==
  ASSUME TypeInv, NEW r \in Request, Arrive(r)
  PROVE  TypeInv'
<1>1. StoreTypeOK'
  BY DEF TypeInv, StoreTypeOK, Arrive, tables
<1>2. LocalsOK'
  BY DEF TypeInv, LocalsOK, Arrive, Continue, Goto, Label, Statement
<1>3. RequestsOK'
  <2>1. PICK i \in Inputs :
          /\ in' = [in EXCEPT ![r] = i]
          /\ pc' = [pc EXCEPT ![r] =
                      IF i.op \in {"createProduct", "createOption", "createValue"}
                      THEN "exists" ELSE "find"]
    BY DEF Arrive, Continue, Goto
  <2>2. got' = got /\ seen' = seen
    BY DEF Arrive
  <2>3. in'[r] = i
    BY <2>1 DEF TypeInv, LocalsOK
  <2>4. pc'[r] # "find" => i.op \in {"createProduct", "createOption", "createValue"}
    BY <2>1 DEF TypeInv, LocalsOK
  <2>5. \A q \in Request \ {r} : pc'[q] = pc[q] /\ in'[q] = in[q]
    BY <2>1 DEF TypeInv, LocalsOK
  <2> QED BY <2>2, <2>3, <2>4, <2>5 DEF TypeInv, RequestsOK
<1> QED BY <1>1, <1>2, <1>3 DEF TypeInv

-----------------------------------------------------------------------------
(* What a step of a handler does to the request *)

Codes == {0, 200, 201, 400, 404, 500}

\* Every step but a find: the handler moves on, or answers.
Advances(r) ==
  /\ pc[r] \in Statement
  /\ \E l \in Label \ {"find", "idle"} :
       /\ pc' = [pc EXCEPT ![r] = l]
       /\ l \in Statement => pc[r] # "find"
  /\ \/ status' = status
     \/ \E c \in Codes : status' = [status EXCEPT ![r] = c]
  /\ UNCHANGED <<in, got, seen, crashes>>

LEMMA AdvanceType ==
  ASSUME TypeInv, NEW r \in Request, Advances(r), StoreTypeOK'
  PROVE  TypeInv'
<1>1. LocalsOK'
  BY DEF TypeInv, LocalsOK, Advances, Codes
<1>2. RequestsOK'
  <2>1. PICK l \in Label \ {"find", "idle"} :
          pc' = [pc EXCEPT ![r] = l] /\ (l \in Statement => pc[r] # "find")
    BY DEF Advances
  <2>2. in' = in /\ got' = got /\ seen' = seen /\ pc[r] \in Statement
    BY DEF Advances
  <2>3. pc'[r] = l /\ \A q \in Request \ {r} : pc'[q] = pc[q]
    BY <2>1 DEF TypeInv, LocalsOK
  <2> QED BY <2>1, <2>2, <2>3 DEF TypeInv, RequestsOK
<1> QED BY <1>1, <1>2 DEF TypeInv

\* The steps that only read: they answer, or go on to another statement.
ReadStep(r) ==
  \/ CreateProduct_Exists(r)
  \/ CreateOption_Exists(r) \/ CreateOption_NameFree(r)
  \/ CreateValue_Exists(r) \/ CreateValue_ValueFree(r)
  \/ UpdateOption_ReadBack(r) \/ GetWebhooks(r)

LEMMA ReadStepFrame ==
  ASSUME NEW r \in Request, ReadStep(r)
  PROVE  Advances(r) /\ UNCHANGED <<tables, marks>>
BY DEF ReadStep, CreateProduct_Exists, CreateOption_Exists, ProductRootExists,
   CreateOption_NameFree, CreateValue_Exists, ProductOptionExists, CreateValue_ValueFree,
   UpdateOption_ReadBack, GetWebhooks, Advances, At, Continue, Respond, Goto, locals, Label,
   Statement, Codes

\* The steps that archive rows in an open transaction.
MarkStep(r) ==
  \/ DeleteProduct_ArchiveBridges(r) \/ DeleteProduct_ArchiveProduct(r)
  \/ DeleteRoot_ArchiveBridges(r) \/ DeleteRoot_ArchiveValues(r)
  \/ DeleteRoot_ArchiveOptions(r) \/ DeleteRoot_ArchiveProducts(r)
  \/ DeleteRoot_ArchiveRoot(r)
  \/ DeleteOption_ArchiveValues(r) \/ DeleteOption_ArchiveOption(r)

\* The steps that insert rows in an open transaction.
InsertStep(r) ==
  \/ CreateProduct_InsertRoot(r) \/ CreateProduct_InsertImages(r)
  \/ CreateProduct_InsertProduct(r) \/ CreateProduct_InsertVariants(r)
  \/ CreateOption_Insert(r) \/ CreateValue_Insert(r)

\* The updates that are their own transaction.
UpdateStep(r) ==
  \/ UpdateProduct_Update(r) \/ UpdateOption_Update(r)
  \/ UpdateValue_Update(r) \/ DeleteValue_Update(r)

\* The ends of a transaction.
EndStep(r) == CommitSucceeds(r) \/ CommitFails(r) \/ StatementFails(r)

\* The reads that pick the row to work on.
FindStep(r) ==
  \/ DeleteProduct_Find(r) \/ DeleteRoot_Find(r) \/ DeleteOption_Find(r)
  \/ UpdateValue_Find(r) \/ DeleteValue_Find(r)
  \/ UpdateProduct_Find(r) \/ UpdateOption_Find(r)

LEMMA HandleSteps ==
  ASSUME NEW r \in Request, Handle(r)
  PROVE  \/ ReadStep(r) \/ MarkStep(r) \/ InsertStep(r)
         \/ UpdateStep(r) \/ EndStep(r) \/ FindStep(r)
BY DEF Handle, Runs, CreateProductStep, DeleteProductStep, DeleteRootStep, UpdateProductStep,
   OptionStep, ValueStep, ReadStep, MarkStep, InsertStep, UpdateStep, EndStep, FindStep

LEMMA MarkStepAdvances ==
  ASSUME NEW r \in Request, MarkStep(r)
  PROVE  Advances(r)
BY DEF MarkStep, DeleteProduct_ArchiveBridges, DeleteProductVariantBridgeByProductID,
   DeleteProduct_ArchiveProduct, DeleteProduct, DeleteRoot_ArchiveBridges,
   DeleteRoot_ArchiveValues, DeleteRoot_ArchiveOptions, DeleteRoot_ArchiveProducts,
   DeleteRoot_ArchiveRoot, DeleteProductRoot, DeleteOption_ArchiveValues,
   DeleteOption_ArchiveOption, DeleteProductOption, Advances, At, Continue, Respond,
   RespondAndLeak, Goto, locals, Label, Statement, Codes

LEMMA InsertStepAdvances ==
  ASSUME NEW r \in Request, InsertStep(r)
  PROVE  Advances(r)
BY DEF InsertStep, CreateProduct_InsertRoot, CreateProduct_InsertImages,
   CreateProduct_InsertProduct, CreateProduct, CreateProduct_InsertVariants,
   CreateOption_Insert, CreateValue_Insert, Advances, At, Continue, Respond, RespondAndLeak,
   Goto, locals, Label, Statement, Codes

LEMMA UpdateStepAdvances ==
  ASSUME NEW r \in Request, UpdateStep(r)
  PROVE  Advances(r)
BY DEF UpdateStep, UpdateProduct_Update, UpdateOption_Update, UpdateValue_Update,
   DeleteValue_Update, DeleteProductOptionValue, Advances, At, Continue, Respond,
   RespondAndLeak, Goto, locals, Label, Statement, Codes

LEMMA EndStepAdvances ==
  ASSUME NEW r \in Request, EndStep(r)
  PROVE  Advances(r)
BY DEF EndStep, CommitSucceeds, CommitFails, StatementFails, Advances, At, Continue, Respond,
   RespondAndLeak, Goto, locals, Label, Statement, Codes

-----------------------------------------------------------------------------
(* What a step of a handler does to the tables *)

\* What r's new marks may be, and what the rest of the store looks like.
MarksOnly(r) ==
  /\ UNCHANGED tables
  /\ \E m \in Marks : marks' = [marks EXCEPT ![r] = m]

LEMMA MarkStepFrame ==
  ASSUME TypeInv, NEW r \in Request, MarkStep(r)
  PROVE  MarksOnly(r) \/ Rollback({r})
<1> USE DEF TypeInv, StoreTypeOK
<1>1. pc[r] \in Statement /\ pc[r] # "find" /\ marks[r] \in Marks
  BY DEF MarkStep, DeleteProduct_ArchiveBridges, DeleteProductVariantBridgeByProductID,
     DeleteProduct_ArchiveProduct, DeleteProduct, DeleteRoot_ArchiveBridges,
     DeleteRoot_ArchiveValues, DeleteRoot_ArchiveOptions, DeleteRoot_ArchiveProducts,
     DeleteRoot_ArchiveRoot, DeleteProductRoot, DeleteOption_ArchiveValues,
     DeleteOption_ArchiveOption, DeleteProductOption, At, Statement
<1>2. /\ in[r].op = "deleteProduct" => got[r] \in ProductId
      /\ in[r].op = "deleteRoot" => got[r] \in RootId
      /\ in[r].op = "deleteOption" => got[r] \in OptionId
  BY <1>1 DEF RequestsOK
<1>3. ASSUME NEW ps \in SUBSET ProductId
      PROVE  /\ [marks[r] EXCEPT !.bridges = ps] \in Marks
             /\ [marks[r] EXCEPT !.products = ps] \in Marks
  BY <1>1 DEF Marks
<1>4. ASSUME NEW vs \in SUBSET ValueId
      PROVE  [marks[r] EXCEPT !.values = vs] \in Marks
  BY <1>1 DEF Marks
<1>5. ASSUME NEW os \in SUBSET OptionId
      PROVE  [marks[r] EXCEPT !.options = os] \in Marks
  BY <1>1 DEF Marks
<1>6. ASSUME NEW rs \in SUBSET RootId
      PROVE  [marks[r] EXCEPT !.roots = rs] \in Marks
  BY <1>1 DEF Marks
<1>7. CASE DeleteProduct_ArchiveBridges(r)
  BY <1>7, <1>3 DEF DeleteProduct_ArchiveBridges, DeleteProductVariantBridgeByProductID,
     Active, MarksOnly
<1>8. CASE DeleteProduct_ArchiveProduct(r)
  BY <1>8, <1>2, <1>3 DEF DeleteProduct_ArchiveProduct, DeleteProduct, At, MarksOnly
<1>9. CASE DeleteRoot_ArchiveBridges(r)
  BY <1>9, <1>3 DEF DeleteRoot_ArchiveBridges, BridgesOfRoot, Committed, MarksOnly
<1>10. CASE DeleteRoot_ArchiveValues(r)
  BY <1>10, <1>4 DEF DeleteRoot_ArchiveValues, ValuesOfRoot, Committed, MarksOnly
<1>11. CASE DeleteRoot_ArchiveOptions(r)
  BY <1>11, <1>5 DEF DeleteRoot_ArchiveOptions, OptionsOfRoot, Active, MarksOnly
<1>12. CASE DeleteRoot_ArchiveProducts(r)
  BY <1>12, <1>3 DEF DeleteRoot_ArchiveProducts, ProductsOfRoot, Committed, MarksOnly
<1>13. CASE DeleteRoot_ArchiveRoot(r)
  BY <1>13, <1>2, <1>6 DEF DeleteRoot_ArchiveRoot, DeleteProductRoot, At, MarksOnly
<1>14. CASE DeleteOption_ArchiveValues(r)
  BY <1>14, <1>1, <1>4 DEF DeleteOption_ArchiveValues, ValuesOfOption, Committed, MarksOnly
<1>15. CASE DeleteOption_ArchiveOption(r)
  BY <1>15, <1>2, <1>5 DEF DeleteOption_ArchiveOption, DeleteProductOption, At, MarksOnly
<1> QED
  BY <1>7, <1>8, <1>9, <1>10, <1>11, <1>12, <1>13, <1>14, <1>15 DEF MarkStep

LEMMA MarksOnlyType ==
  ASSUME StoreTypeOK, NEW r \in Request, MarksOnly(r)
  PROVE  StoreTypeOK'
BY DEF StoreTypeOK, MarksOnly, tables

LEMMA WrittenType ==
  ASSUME NEW Id, NEW Row, NEW table \in [Id -> Row],
         NEW rows, \A i \in DOMAIN rows : rows[i] \in Row
  PROVE  Written(table, rows) \in [Id -> Row]
BY DEF Written

\* The ids a request draws are ids.
LEMMA DrawnIds ==
  ASSUME NEW r \in Request
  PROVE  /\ <<r, 1>> \in RootId /\ <<r, 1>> \in OptionId /\ <<r, 1>> \in ProductId
         /\ <<r, 1, 1>> \in ValueId
         /\ \A k \in Ordinal : <<r, k>> \in OptionId
         /\ \A k \in Ordinal : <<r, 1, k>> \in ValueId
BY ConstantsAssumption
   DEF Request, Transaction, Ordinal, RootId, OptionId, ProductId, ValueId

LEMMA CreateOptionsAndValuesType ==
  ASSUME StoreTypeOK, NEW r \in Request, NEW root \in RootId, NEW opts \in Seq(NewOption),
         CreateOptionsAndValues(r, root, opts)
  PROVE  options' \in [OptionId -> OptionRow] /\ values' \in [ValueId -> ValueRow]
<1> DEFINE optionIds == {o \in OptionId : o[1] = r /\ o[2] \in DOMAIN opts}
           valueIds == {v \in ValueId : v[1] = r /\ v[2] \in DOMAIN opts /\ v[3] \in DOMAIN opts[v[2]].values}
           optionRow(o) == [st |-> "pending", root |-> root, name |-> opts[o[2]].name]
           valueRow(v) == [st |-> "pending", option |-> <<r, v[2]>>, value |-> opts[v[2]].values[v[3]]]
<1>1. ASSUME NEW i \in DOMAIN opts
      PROVE  opts[i].name \in Text /\ opts[i].values \in Seq(Text)
  <2>1. opts[i] \in NewOption
    BY <1>1
  <2> QED BY <2>1 DEF NewOption
<1>2. \A o \in optionIds : optionRow(o) \in OptionRow
  <2> SUFFICES ASSUME NEW o \in optionIds PROVE optionRow(o) \in OptionRow
    OBVIOUS
  <2>1. opts[o[2]].name \in Text
    BY <1>1
  <2> QED BY <2>1 DEF OptionRow, RowState
<1>3. \A v \in valueIds : valueRow(v) \in ValueRow
  <2> SUFFICES ASSUME NEW v \in valueIds PROVE valueRow(v) \in ValueRow
    OBVIOUS
  <2>1. <<r, v[2]>> \in OptionId
    BY DEF ValueId, OptionId, Request, Transaction
  <2>2. opts[v[2]].values[v[3]] \in Text
    BY <1>1
  <2> QED BY <2>1, <2>2 DEF ValueRow, RowState
<1>4. /\ options' = Written(options, [o \in optionIds |-> optionRow(o)])
      /\ values' = Written(values, [v \in valueIds |-> valueRow(v)])
  BY DEF CreateOptionsAndValues
<1> HIDE DEF optionIds, valueIds, optionRow, valueRow
<1> QED BY <1>2, <1>3, <1>4, WrittenType DEF StoreTypeOK

LEMMA CreateVariantsType ==
  ASSUME StoreTypeOK, NEW r \in Request, NEW sku \in Sku, NEW texts \in Seq(Text),
         CreateVariants(r, sku, texts)
  PROVE  products' \in [ProductId -> ProductRow] /\ bridges' \in [ProductId -> BridgeRow]
<1> DEFINE drawn == {p \in ProductId : p[1] = r /\ p[2] \in DOMAIN texts}
           productRow(p) == [st |-> "pending", root |-> <<r, 1>>,
                             sku |-> Append(sku, Lower[texts[p[2]]])]
           bridgeRow(p) == [st |-> "pending", values |-> {<<r, 1, p[2]>>}]
<1>1. \A p \in drawn : productRow(p) \in ProductRow
  <2> SUFFICES ASSUME NEW p \in drawn PROVE productRow(p) \in ProductRow
    OBVIOUS
  <2>1. Lower[texts[p[2]]] \in Text
    BY ConstantsAssumption
  <2>2. Append(sku, Lower[texts[p[2]]]) \in Sku
    BY <2>1 DEF Sku
  <2> QED BY <2>2, DrawnIds DEF ProductRow, RowState
<1>2. \A p \in drawn : bridgeRow(p) \in BridgeRow
  <2> SUFFICES ASSUME NEW p \in drawn PROVE bridgeRow(p) \in BridgeRow
    OBVIOUS
  <2>1. p[2] \in Ordinal
    BY DEF ProductId
  <2> QED BY <2>1, DrawnIds DEF BridgeRow, RowState
<1>3. /\ products' = Written(products, [p \in drawn |-> productRow(p)])
      /\ bridges' = Written(bridges, [p \in drawn |-> bridgeRow(p)])
  BY DEF CreateVariants, CreateMultipleProductVariantBridges
<1> HIDE DEF drawn, productRow, bridgeRow
<1> QED BY <1>1, <1>2, <1>3, WrittenType DEF StoreTypeOK

\* What the inputs of a handler that needs them are.
LEMMA RequestFields ==
  ASSUME TypeInv, NEW r \in Request, pc[r] \in Statement
  PROVE  /\ in[r] \in Inputs
         /\ in[r].op = "createOption" => in[r].root \in RootId
         /\ in[r].op \in {"updateOption", "deleteOption", "createValue"} => in[r].option \in OptionId
         /\ in[r].op \in {"createValue", "updateValue"} => in[r].text \in Text
         /\ in[r].op \in {"updateValue", "deleteValue"} => in[r].value \in ValueId
         /\ in[r].op = "deleteRoot" => in[r].root \in RootId
<1>1. in[r] \in Inputs
  BY DEF TypeInv, RequestsOK
<1> QED BY <1>1, InputsAssumption

LEMMA InsertStepType ==
  ASSUME TypeInv, NEW r \in Request, InsertStep(r)
  PROVE  StoreTypeOK'
<1>1. StoreTypeOK /\ pc[r] \in Statement
  BY DEF TypeInv, InsertStep, CreateProduct_InsertRoot, CreateProduct_InsertImages,
     CreateProduct_InsertProduct, CreateProduct, CreateProduct_InsertVariants,
     CreateOption_Insert, CreateValue_Insert, At, Statement
<1>2. in[r] \in Inputs
  BY <1>1, RequestFields
<1>3. in[r].sku \in Sku /\ in[r].options \in Seq(NewOption)
  BY <1>2, InputFields
<1>4. CASE Rollback({r})
  BY <1>1, <1>4, RollbackType
<1>5. CASE CreateProduct_InsertRoot(r)
  <2>1. roots' \in [RootId -> RootRow]
    BY <1>1, <1>3, <1>5, DrawnIds
       DEF CreateProduct_InsertRoot, CreateProductRoot, Written, StoreTypeOK, RootRow, RowState
  <2> QED BY <1>1, <1>5, <2>1 DEF CreateProduct_InsertRoot, StoreTypeOK
<1>6. CASE CreateProduct_InsertImages(r)
  BY <1>1, <1>4, <1>6 DEF CreateProduct_InsertImages, StoreTypeOK, tables
<1>7. CASE CreateProduct_InsertProduct(r)
  <2>1. products' \in [ProductId -> ProductRow]
    BY <1>1, <1>3, <1>7, DrawnIds
       DEF CreateProduct_InsertProduct, CreateProduct, Written, StoreTypeOK, ProductRow,
          RowState
  <2> QED BY <1>1, <1>7, <2>1 DEF CreateProduct_InsertProduct, CreateProduct, StoreTypeOK
<1>8. CASE CreateProduct_InsertVariants(r) /\ ~Rollback({r})
  <2> DEFINE opts == in[r].options
  <2>1. CreateOptionsAndValues(r, <<r, 1>>, opts) /\ roots' = roots /\ marks' = marks
    BY <1>8 DEF CreateProduct_InsertVariants
  <2>2. options' \in [OptionId -> OptionRow] /\ values' \in [ValueId -> ValueRow]
    BY <1>1, <1>3, <2>1, DrawnIds, CreateOptionsAndValuesType
  <2>3. \/ UNCHANGED <<products, bridges>>
        \/ CreateVariants(r, in[r].sku, opts[1].values) /\ opts # <<>>
    BY <1>8 DEF CreateProduct_InsertVariants
  <2>4. ASSUME opts # <<>> PROVE opts[1].values \in Seq(Text)
    <3>1. opts[1] \in NewOption
      BY <1>3, <2>4
    <3> QED BY <3>1 DEF NewOption
  <2>5. products' \in [ProductId -> ProductRow] /\ bridges' \in [ProductId -> BridgeRow]
    <3>1. CASE UNCHANGED <<products, bridges>>
      BY <1>1, <3>1 DEF StoreTypeOK
    <3>2. CASE CreateVariants(r, in[r].sku, opts[1].values) /\ opts # <<>>
      BY <1>1, <1>3, <2>4, <3>2, CreateVariantsType
    <3> QED BY <2>3, <3>1, <3>2
  <2> QED BY <1>1, <2>1, <2>2, <2>5 DEF StoreTypeOK
<1>9. CASE CreateOption_Insert(r) /\ ~Rollback({r})
  <2>1. /\ CreateOptionsAndValues(r, in[r].root, in[r].options)
        /\ UNCHANGED <<roots, products, bridges, marks>>
        /\ in[r].op = "createOption"
    BY <1>9 DEF CreateOption_Insert, At
  <2>2. in[r].root \in RootId
    BY <1>1, <2>1, RequestFields
  <2>3. options' \in [OptionId -> OptionRow] /\ values' \in [ValueId -> ValueRow]
    BY <1>1, <1>3, <2>1, <2>2, CreateOptionsAndValuesType
  <2> QED BY <1>1, <2>1, <2>3 DEF StoreTypeOK
<1>10. CASE CreateValue_Insert(r) /\ ~Rollback({r})
  <2>1. /\ CreateProductOptionValue(r, in[r].option, in[r].text)
        /\ UNCHANGED <<roots, options, products, bridges, marks>>
        /\ in[r].op = "createValue"
    BY <1>10 DEF CreateValue_Insert, At
  <2>2. in[r].option \in OptionId /\ in[r].text \in Text
    BY <1>1, <2>1, RequestFields
  <2>3. values' \in [ValueId -> ValueRow]
    BY <1>1, <2>1, <2>2 DEF CreateProductOptionValue, Written, StoreTypeOK, ValueRow, RowState
  <2> QED BY <1>1, <2>1, <2>3 DEF StoreTypeOK
<1> QED BY <1>4, <1>5, <1>6, <1>7, <1>8, <1>9, <1>10 DEF InsertStep

LEMMA UpdateStepType ==
  ASSUME TypeInv, NEW r \in Request, UpdateStep(r)
  PROVE  StoreTypeOK'
<1>1. StoreTypeOK /\ pc[r] = "update" /\ pc[r] \in Statement
  BY DEF TypeInv, UpdateStep, UpdateProduct_Update, UpdateOption_Update, UpdateValue_Update,
     DeleteValue_Update, DeleteProductOptionValue, At, Statement
<1>2. in[r] \in Inputs
  BY <1>1, RequestFields
<1>3. in[r].newSku \in Sku \cup {None} /\ in[r].root \in RootId \cup {None}
      /\ in[r].text \in Text \cup {None}
  BY <1>2, InputFields
<1>4. /\ in[r].op = "updateProduct" => got[r] \in ProductId /\ seen[r] \in ProductRow
      /\ in[r].op = "updateOption" => got[r] \in OptionId /\ seen[r] \in OptionRow
  BY <1>1 DEF TypeInv, RequestsOK
<1>5. CASE UpdateProduct_Update(r)
  <2>1. MergedSku(r) \in Sku /\ MergedRoot(r) \in RootId
    BY <1>3, <1>4, <1>5 DEF UpdateProduct_Update, At, MergedSku, MergedRoot, ProductRow
  <2>2. products' \in [ProductId -> ProductRow]
    <3>1. products' = products \/ UpdateProduct(got[r], MergedRoot(r), MergedSku(r))
      BY <1>5 DEF UpdateProduct_Update
    <3> QED BY <1>1, <2>1, <3>1 DEF UpdateProduct, StoreTypeOK, ProductRow
  <2> QED BY <1>1, <1>5, <2>2 DEF UpdateProduct_Update, StoreTypeOK
<1>6. CASE UpdateOption_Update(r)
  <2>1. MergedName(r) \in Text /\ MergedRoot(r) \in RootId
    BY <1>3, <1>4, <1>6 DEF UpdateOption_Update, At, MergedName, MergedRoot, OptionRow
  <2>2. options' \in [OptionId -> OptionRow]
    BY <1>1, <1>6, <2>1 DEF UpdateOption_Update, UpdateProductOption, StoreTypeOK, OptionRow
  <2> QED BY <1>1, <1>6, <2>2 DEF UpdateOption_Update, StoreTypeOK
<1>7. CASE UpdateValue_Update(r)
  <2>1. in[r].text \in Text
    BY <1>1, <1>7, RequestFields DEF UpdateValue_Update, At
  <2>2. values' \in [ValueId -> ValueRow]
    BY <1>1, <1>7, <2>1 DEF UpdateValue_Update, UpdateProductOptionValue, StoreTypeOK, ValueRow
  <2> QED BY <1>1, <1>7, <2>2 DEF UpdateValue_Update, StoreTypeOK
<1>8. CASE DeleteValue_Update(r)
  <2>1. values' \in [ValueId -> ValueRow]
    BY <1>1, <1>8 DEF DeleteValue_Update, DeleteProductOptionValue, StoreTypeOK, ValueRow,
       RowState
  <2> QED BY <1>1, <1>8, <2>1 DEF DeleteValue_Update, DeleteProductOptionValue, StoreTypeOK
<1> QED BY <1>5, <1>6, <1>7, <1>8 DEF UpdateStep

LEMMA EndStepType ==
  ASSUME StoreTypeOK, NEW r \in Request, EndStep(r)
  PROVE  StoreTypeOK'
<1>1. Commit(r) \/ Rollback({r}) \/ UNCHANGED <<tables, marks>>
  BY DEF EndStep, CommitSucceeds, CommitFails, StatementFails
<1>2. CASE UNCHANGED <<tables, marks>>
  BY <1>2 DEF StoreTypeOK, tables
<1> QED BY <1>1, <1>2, CommitType, RollbackType

LEMMA FindStepType ==
  ASSUME TypeInv, NEW r \in Request, FindStep(r)
  PROVE  TypeInv'
<1> DEFINE AllIds == RootId \cup OptionId \cup ValueId \cup ProductId \cup {None}
<1>1. pc[r] = "find" /\ pc[r] \in Statement
  BY DEF FindStep, DeleteProduct_Find, DeleteRoot_Find, GetProductRoot, DeleteOption_Find,
     GetProductOption, UpdateValue_Find, GetProductOptionValue, DeleteValue_Find,
     UpdateProduct_Find, UpdateOption_Find, At, Statement
<1>2. UNCHANGED <<tables, marks, in, crashes>>
  BY DEF FindStep, DeleteProduct_Find, DeleteRoot_Find, GetProductRoot, DeleteOption_Find,
     GetProductOption, UpdateValue_Find, GetProductOptionValue, DeleteValue_Find,
     UpdateProduct_Find, UpdateOption_Find, Find, Respond, Continue
<1>3. StoreTypeOK'
  BY <1>2 DEF TypeInv, StoreTypeOK, tables
<1>4. in[r] \in Inputs /\ in[r].product \in ProductId \cup {None}
  BY <1>1, RequestFields, InputFields
<1> DEFINE Found(op, ids, next) ==
             /\ in[r].op = op /\ UNCHANGED seen
             /\ \/ /\ pc' = [pc EXCEPT ![r] = "done"] /\ UNCHANGED got
                   /\ status' = [status EXCEPT ![r] = 404]
                \/ \E id \in ids : /\ pc' = [pc EXCEPT ![r] = next] /\ UNCHANGED status
                                   /\ got' = [got EXCEPT ![r] = id]
<1>5. /\ DeleteProduct_Find(r) => Found("deleteProduct", ProductId, "archiveBridges")
      /\ DeleteRoot_Find(r) => Found("deleteRoot", RootId, "archiveBridges")
      /\ DeleteOption_Find(r) => Found("deleteOption", OptionId, "archiveValues")
      /\ UpdateValue_Find(r) => Found("updateValue", ValueId, "update")
      /\ DeleteValue_Find(r) => Found("deleteValue", ValueId, "update")
  <2>1. /\ Active(products) \subseteq ProductId /\ Active(roots) \subseteq RootId
        /\ Active(options) \subseteq OptionId /\ Active(values) \subseteq ValueId
    BY DEF Active, TypeInv, StoreTypeOK
  <2>2. DeleteProduct_Find(r) => Found("deleteProduct", ProductId, "archiveBridges")
    BY <2>1 DEF DeleteProduct_Find, ProductsWithSKU, Find, Respond, Continue, Goto, At
  <2>3. DeleteRoot_Find(r) => Found("deleteRoot", RootId, "archiveBridges")
    BY <2>1 DEF DeleteRoot_Find, GetProductRoot, Find, Respond, Continue, Goto, At
  <2>4. DeleteOption_Find(r) => Found("deleteOption", OptionId, "archiveValues")
    BY <2>1 DEF DeleteOption_Find, GetProductOption, Find, Respond, Continue, Goto, At
  <2>5. UpdateValue_Find(r) => Found("updateValue", ValueId, "update")
    BY <2>1 DEF UpdateValue_Find, GetProductOptionValue, Find, Respond, Continue, Goto, At
  <2>6. DeleteValue_Find(r) => Found("deleteValue", ValueId, "update")
    BY <2>1 DEF DeleteValue_Find, GetProductOptionValue, Find, Respond, Continue, Goto, At
  <2> QED BY <2>2, <2>3, <2>4, <2>5, <2>6
<1> DEFINE Went(l, id, row) ==
             /\ pc' = [pc EXCEPT ![r] = l]
             /\ got' = got \/ got' = [got EXCEPT ![r] = id]
             /\ seen' = seen \/ seen' = [seen EXCEPT ![r] = row]
             /\ status' = status \/ \E code \in {400, 404} : status' = [status EXCEPT ![r] = code]
             /\ l \in Statement =>
                  /\ got' = [got EXCEPT ![r] = id]
                  /\ in[r].op = "updateProduct" =>
                       id \in ProductId /\ row \in ProductRow /\ seen' = [seen EXCEPT ![r] = row]
                  /\ in[r].op = "updateOption" =>
                       id \in OptionId /\ row \in OptionRow /\ seen' = [seen EXCEPT ![r] = row]
                  /\ in[r].op = "deleteProduct" => id \in ProductId
                  /\ in[r].op = "deleteRoot" => id \in RootId
                  /\ in[r].op = "deleteOption" => id \in OptionId
                  /\ in[r].op \in {"updateValue", "deleteValue"} => id \in ValueId
<1>6. PICK l \in Label, id \in AllIds, row \in OptionRow \cup ProductRow \cup {None} : Went(l, id, row)
  <2>1. CASE DeleteProduct_Find(r)
    <3>1. Found("deleteProduct", ProductId, "archiveBridges")
      BY <1>5, <2>1
    <3> QED BY <3>1 DEF Label, Statement
  <2>2. CASE DeleteRoot_Find(r)
    <3>1. Found("deleteRoot", RootId, "archiveBridges")
      BY <1>5, <2>2
    <3> QED BY <3>1 DEF Label, Statement
  <2>3. CASE DeleteOption_Find(r)
    <3>1. Found("deleteOption", OptionId, "archiveValues")
      BY <1>5, <2>3
    <3> QED BY <3>1 DEF Label, Statement
  <2>4. CASE UpdateValue_Find(r)
    <3>1. Found("updateValue", ValueId, "update")
      BY <1>5, <2>4
    <3> QED BY <3>1 DEF Label, Statement
  <2>5. CASE DeleteValue_Find(r)
    <3>1. Found("deleteValue", ValueId, "update")
      BY <1>5, <2>5
    <3> QED BY <3>1 DEF Label, Statement
  <2>6. CASE UpdateProduct_Find(r)
    <3>1. ASSUME NEW code \in {400, 404}, Respond(r, code), UNCHANGED <<got, seen>>
          PROVE  Went("done", None, None) /\ "done" \in Label
      <4>1. "done" \in Label /\ "done" \notin Statement
        BY DEF Label, Statement
      <4>2. pc' = [pc EXCEPT ![r] = "done"] /\ status' = [status EXCEPT ![r] = code]
        BY <3>1 DEF Respond, Goto
      <4>3. got' = got /\ seen' = seen
        BY <3>1
      <4>4. \E c \in {400, 404} : status' = [status EXCEPT ![r] = c]
        <5>1. code \in {400, 404}
          BY <3>1
        <5>2. status' = [status EXCEPT ![r] = code]
          BY <4>2
        <5> QED BY <5>1, <5>2, ZenonT(30)
      <4> QED BY <4>1, <4>2, <4>3, <4>4
    <3>2. ASSUME NEW p \in ProductsWithSKU(in[r].sku), Continue(r, "update"),
                 got' = [got EXCEPT ![r] = IF in[r].product = None THEN p ELSE in[r].product],
                 seen' = [seen EXCEPT ![r] = products[p]]
          PROVE  \E id \in ProductId : Went("update", id, products[p]) /\ products[p] \in ProductRow
      <4>1. p \in ProductId /\ products[p] \in ProductRow
        BY DEF ProductsWithSKU, Active, TypeInv, StoreTypeOK
      <4>2. (IF in[r].product = None THEN p ELSE in[r].product) \in ProductId
        BY <1>4, <4>1
      <4>3. in[r].op = "updateProduct"
        BY <2>6 DEF UpdateProduct_Find, At
      <4> QED BY <3>2, <4>1, <4>2, <4>3 DEF Continue, Goto
    <3>3. \/ \E code \in {400, 404} : Respond(r, code) /\ UNCHANGED <<got, seen>>
          \/ \E p \in ProductsWithSKU(in[r].sku) :
               /\ got' = [got EXCEPT ![r] = IF in[r].product = None THEN p ELSE in[r].product]
               /\ seen' = [seen EXCEPT ![r] = products[p]]
               /\ Continue(r, "update")
      BY <2>6 DEF UpdateProduct_Find
    <3>4. "update" \in Label
      BY DEF Label, Statement
    <3>5. CASE \E code \in {400, 404} : Respond(r, code) /\ UNCHANGED <<got, seen>>
      <4>1. Went("done", None, None) /\ "done" \in Label
        BY <3>1, <3>5
      <4> HIDE DEF Went
      <4> QED BY <4>1
    <3>6. CASE \E p \in ProductsWithSKU(in[r].sku) :
                 /\ got' = [got EXCEPT ![r] = IF in[r].product = None THEN p ELSE in[r].product]
                 /\ seen' = [seen EXCEPT ![r] = products[p]]
                 /\ Continue(r, "update")
      <4>1. \E id \in ProductId, row \in ProductRow : Went("update", id, row)
        <5> HIDE DEF Went
        <5> QED BY <3>2, <3>6
      <4> HIDE DEF Went
      <4> QED BY <3>4, <4>1
    <3> HIDE DEF Went
    <3> QED BY <3>3, <3>5, <3>6
  <2>7. CASE UpdateOption_Find(r)
    <3>1. CASE /\ GetProductOption(in[r].option) = {}
               /\ Respond(r, 404)
               /\ UNCHANGED <<got, seen>>
      <4>1. Went("done", None, None) /\ "done" \in Label
        BY <3>1 DEF Respond, Goto, Label, Statement
      <4> HIDE DEF Went
      <4> QED BY <4>1
    <3>2. CASE /\ GetProductOption(in[r].option) # {}
               /\ got' = [got EXCEPT ![r] = in[r].option]
               /\ seen' = [seen EXCEPT ![r] = options[in[r].option]]
               /\ Continue(r, "update")
      <4>1. in[r].option \in OptionId /\ options[in[r].option] \in OptionRow
        BY <3>2 DEF GetProductOption, Active, TypeInv, StoreTypeOK
      <4>2. in[r].op = "updateOption"
        BY <2>7 DEF UpdateOption_Find, At
      <4>3. Went("update", in[r].option, options[in[r].option]) /\ "update" \in Label
        BY <3>2, <4>1, <4>2 DEF Continue, Goto, Label, Statement
      <4> HIDE DEF Went
      <4> QED BY <4>1, <4>3
    <3> HIDE DEF Went
    <3> QED BY <2>7, <3>1, <3>2 DEF UpdateOption_Find
  <2> QED BY <2>1, <2>2, <2>3, <2>4, <2>5, <2>6, <2>7 DEF FindStep
<1>7. LocalsOK'
  BY <1>2, <1>6 DEF TypeInv, LocalsOK
<1>8. RequestsOK'
  <2>1. pc'[r] = l /\ \A q \in Request \ {r} : pc'[q] = pc[q] /\ got'[q] = got[q] /\ seen'[q] = seen[q]
    BY <1>6 DEF TypeInv, LocalsOK
  <2>2. l \in Statement =>
          got'[r] = id /\ (in[r].op \in {"updateProduct", "updateOption"} => seen'[r] = row)
    BY <1>6 DEF TypeInv, LocalsOK
  <2> QED BY <1>2, <1>4, <1>6, <2>1, <2>2 DEF TypeInv, RequestsOK
<1> QED BY <1>3, <1>7, <1>8 DEF TypeInv

LEMMA HandleType ==
  ASSUME TypeInv, NEW r \in Request, Handle(r)
  PROVE  TypeInv'
<1> USE DEF TypeInv
<1>1. CASE ReadStep(r)
  <2>1. StoreTypeOK'
    BY <1>1, ReadStepFrame DEF StoreTypeOK, tables
  <2> QED BY <1>1, <2>1, ReadStepFrame, AdvanceType
<1>2. CASE MarkStep(r)
  <2>1. StoreTypeOK'
    BY <1>2, MarkStepFrame, MarksOnlyType, RollbackType
  <2> QED BY <1>2, <2>1, MarkStepAdvances, AdvanceType
<1>3. CASE InsertStep(r)
  BY <1>3, InsertStepAdvances, InsertStepType, AdvanceType
<1>4. CASE UpdateStep(r)
  BY <1>4, UpdateStepAdvances, UpdateStepType, AdvanceType
<1>5. CASE EndStep(r)
  BY <1>5, EndStepAdvances, EndStepType, AdvanceType
<1>6. CASE FindStep(r)
  BY <1>6, FindStepType
<1> QED BY <1>1, <1>2, <1>3, <1>4, <1>5, <1>6, HandleSteps

LEMMA CrashType ==
  ASSUME TypeInv, ServerCrash
  PROVE  TypeInv'
<1> DEFINE dying == InFlight \cup {r \in Request : pc[r] = "leaked"}
<1>1. StoreTypeOK'
  <2>1. Rollback(dying) /\ dying \in SUBSET Request
    BY DEF ServerCrash, InFlight
  <2> HIDE DEF dying
  <2> QED BY <2>1, RollbackType DEF TypeInv
<1>2. pc' = [r \in Request |-> IF r \in dying THEN "dead" ELSE pc[r]]
  BY DEF ServerCrash
<1>3. UNCHANGED <<in, got, seen, status>> /\ crashes' = crashes + 1 /\ crashes < MaxCrashes
  BY DEF ServerCrash, locals
<1> HIDE DEF dying
<1>4. LocalsOK'
  BY <1>2, <1>3, InputsAssumption DEF TypeInv, LocalsOK, Label
<1>5. RequestsOK'
  BY <1>2, <1>3 DEF TypeInv, RequestsOK, Statement
<1> QED BY <1>1, <1>4, <1>5 DEF TypeInv

LEMMA StutterType ==
  ASSUME TypeInv, UNCHANGED vars
  PROVE  TypeInv'
BY DEF TypeInv, vars, tables, locals, StoreTypeOK, LocalsOK, RequestsOK

LEMMA NextType ==
  ASSUME TypeInv, [Next]_vars
  PROVE  TypeInv'
BY ArriveType, HandleType, CrashType, StutterType DEF Next, Quiescent

LEMMA TypeInvariant == Spec => []TypeInv
BY InitType, NextType, PTL DEF Spec

\* The handlers keep every row and every local of the type its columns have:
\* what mergo.Merge writes back, when a body leaves fields out, is a whole row.
THEOREM TypeCorrect == Spec => []TypeOK
BY TypeInvariant, TypeInvImpliesTypeOK, PTL

-----------------------------------------------------------------------------
(* The invariant of the transactions *)

Deletions == {"deleteProduct", "deleteRoot", "deleteOption"}

Archiving == {"archiveBridges", "archiveValues", "archiveOptions", "archiveProducts",
              "archiveRoot"}

\* Every row request r has drawn an id for is in one of the states.
RowsAre(r, states) ==
  /\ \A i \in RootId : i[1] = r => roots[i].st \in states
  /\ \A i \in OptionId : i[1] = r => options[i].st \in states
  /\ \A i \in ValueId : i[1] = r => values[i].st \in states
  /\ \A i \in ProductId : i[1] = r => products[i].st \in states /\ bridges[i].st \in states

\* Request r has inserted its root, and nothing else yet.
OnlyRoot(r) ==
  /\ \A i \in RootId : i[1] = r => roots[i].st \in {"absent", "pending"}
  /\ \A i \in OptionId : i[1] = r => options[i].st = "absent"
  /\ \A i \in ValueId : i[1] = r => values[i].st = "absent"
  /\ \A i \in ProductId : i[1] = r => products[i].st = "absent" /\ bridges[i].st = "absent"
  /\ roots[<<r, 1>>].st = "pending"

\* Where a handler is before its first INSERT, or if it has none.
NothingWritten ==
  Label \ {"insertImages", "insertProducts", "commit", "leaked", "webhooks", "done", "dead"}

Stage(r) ==
  /\ pc[r] \in NothingWritten => RowsAre(r, {"absent"})
  /\ pc[r] \in {"insertImages", "insertProducts"} => in[r].op = "createProduct" /\ OnlyRoot(r)
  /\ pc[r] \in {"commit", "leaked"} => RowsAre(r, {"absent", "pending"})
  /\ pc[r] = "commit" /\ in[r].op \in Deletions => RowsAre(r, {"absent"})
  /\ pc[r] \in {"webhooks", "done", "dead"} =>
       RowsAre(r, {"absent", "aborted"}) \/ RowsAre(r, {"absent", "active", "archived"})

\* Only deletions archive in a transaction, and only rows others can see.
MarksOK(r) ==
  /\ marks[r].roots \subseteq Committed(roots)
  /\ marks[r].options \subseteq Committed(options)
  /\ marks[r].values \subseteq Committed(values)
  /\ marks[r].products \subseteq Committed(products)
  /\ marks[r].bridges \subseteq Committed(bridges)
  /\ marks[r] # NoMarks => in[r].op \in Deletions /\ pc[r] \in Archiving \cup {"commit"}
  /\ At(r, "deleteOption", "archiveValues") => marks[r] = NoMarks

\* The row a handler has found, or has checked to exist, is one others can see.
WorksOn(r) ==
  /\ pc[r] \in Archiving \cup {"commit"} =>
       /\ in[r].op = "deleteProduct" => got[r] \in Committed(products)
       /\ in[r].op = "deleteRoot"    => got[r] \in Committed(roots)
       /\ in[r].op = "deleteOption"  => got[r] \in Committed(options)
  /\ pc[r] = "update" =>
       /\ in[r].op = "updateOption" => got[r] \in Committed(options)
       /\ in[r].op \in {"updateValue", "deleteValue"} => got[r] \in Committed(values)
  /\ pc[r] \in {"nameFree", "insertOption", "insertValue"} =>
       /\ in[r].op = "createOption" => in[r].root \in Committed(roots)
       /\ in[r].op = "createValue"  => in[r].option \in Committed(options)

LeaksNothing(r) ==
  pc[r] = "leaked" =>
    /\ marks[r] = NoMarks
    /\ \A o \in Pending(options) : o[1] = r => options[o].root \in Pending(roots)
    /\ \A v \in Pending(values) : v[1] = r => values[v].option \in Pending(options)

Transacts(r) == Stage(r) /\ MarksOK(r) /\ WorksOn(r) /\ LeaksNothing(r)

\* The rows a unique index holds: those of open transactions count.
Live(table) == Committed(table) \cup Pending(table)

\* The two unique indexes that archived_on is no part of.
KeysUnique ==
  /\ \A o, q \in Live(options) :
       options[o].root = options[q].root /\ options[o].name = options[q].name => o = q
  /\ \A v, w \in Live(values) :
       values[v].option = values[w].option /\ values[v].value = values[w].value => v = w

\* An option hangs from a root others can see or from its own request's, a
\* value from such an option: nobody inserts under a row he cannot see.
HangsFromVisible ==
  /\ \A o \in Live(options) :
       options[o].root \in Committed(roots) \/ options[o].root = <<o[1], 1>>
  /\ \A v \in Live(values) :
       values[v].option \in Committed(options) \/ values[v].option[1] = v[1]

SeedRows == RowsAre(0, {"absent", "active", "archived"})

TransactionInv ==
  SeedRows /\ KeysUnique /\ HangsFromVisible /\ \A r \in Request : Transacts(r)

LEMMA TransactionInit == Init => TransactionInv
<1> SUFFICES ASSUME Init PROVE TransactionInv
  OBVIOUS
<1>1. /\ roots = Seed.roots /\ options = Seed.options /\ values = Seed.values
      /\ products = Seed.products /\ bridges = Seed.bridges
      /\ \A r \in Request : marks[r] = NoMarks /\ pc[r] = "idle"
  BY DEF Init, StoreInit
<1>2. /\ DOMAIN roots = RootId /\ DOMAIN options = OptionId /\ DOMAIN values = ValueId
      /\ DOMAIN products = ProductId /\ DOMAIN bridges = ProductId
  BY <1>1, SeedAssumption DEF Tables
<1>3. SeedRows
  BY <1>1, SeedAssumption DEF SeedRows, RowsAre
<1>4. Live(options) = Committed(options) /\ Live(values) = Committed(values)
  BY <1>1, <1>2, SeedAssumption DEF Live, Committed, Pending
<1>5. KeysUnique
  BY <1>1, <1>4, SeedAssumption DEF KeysUnique
<1>6. HangsFromVisible
  BY <1>1, <1>4, SeedAssumption DEF HangsFromVisible
<1>7. ASSUME NEW r \in Request PROVE Transacts(r)
  <2>1. r # 0
    BY DEF Request
  <2>2. RowsAre(r, {"absent"})
    BY <1>1, <2>1, SeedAssumption DEF RowsAre
  <2>3. Stage(r)
    BY <1>1, <2>2 DEF Stage
  <2>4. MarksOK(r) /\ WorksOn(r) /\ LeaksNothing(r)
    BY <1>1 DEF MarksOK, WorksOn, LeaksNothing, NoMarks, Archiving, At
  <2> QED BY <2>3, <2>4 DEF Transacts
<1> QED BY <1>3, <1>5, <1>6, <1>7 DEF TransactionInv

-----------------------------------------------------------------------------
(* What the requests rs leave of the rows of others *)

\* A committed row stays committed, an archived one archived, and a row that
\* is not committed is nobody's business but its request's.
Kept(old, new, rs) ==
  \A i \in DOMAIN old :
    /\ old[i].st = "active" => new[i].st \in {"active", "archived"}
    /\ old[i].st = "archived" => new[i].st = "archived"
    /\ i[1] \notin rs /\ old[i].st \notin {"active", "archived"} => new[i] = old[i]

OthersKept(rs) ==
  /\ Kept(roots, roots', rs)
  /\ Kept(options, options', rs)
  /\ Kept(values, values', rs)
  /\ Kept(products, products', rs)
  /\ Kept(bridges, bridges', rs)

Domains ==
  /\ DOMAIN roots = RootId /\ DOMAIN options = OptionId /\ DOMAIN values = ValueId
  /\ DOMAIN products = ProductId /\ DOMAIN bridges = ProductId

LEMMA StoreDomains == StoreTypeOK => Domains
BY DEF StoreTypeOK, Domains

LEMMA CommittedGrows ==
  ASSUME Domains, Domains', NEW rs, OthersKept(rs)
  PROVE  /\ Committed(roots) \subseteq Committed(roots)'
         /\ Committed(options) \subseteq Committed(options)'
         /\ Committed(values) \subseteq Committed(values)'
         /\ Committed(products) \subseteq Committed(products)'
         /\ Committed(bridges) \subseteq Committed(bridges)'
BY DEF Domains, OthersKept, Kept, Committed

\* Rows that keep to some states do so when others work.
LEMMA RowsKept ==
  ASSUME Domains, NEW rs, OthersKept(rs), NEW q, q \notin rs,
         NEW states \in SUBSET RowState, RowsAre(q, states),
         "active" \in states => "archived" \in states
  PROVE  RowsAre(q, states)'
<1>1. ASSUME NEW i \in RootId, i[1] = q PROVE roots'[i].st \in states
  BY <1>1 DEF Domains, OthersKept, Kept, RowsAre
<1>2. ASSUME NEW i \in OptionId, i[1] = q PROVE options'[i].st \in states
  BY <1>2 DEF Domains, OthersKept, Kept, RowsAre
<1>3. ASSUME NEW i \in ValueId, i[1] = q PROVE values'[i].st \in states
  BY <1>3 DEF Domains, OthersKept, Kept, RowsAre
<1>4. ASSUME NEW i \in ProductId, i[1] = q PROVE products'[i].st \in states
  BY <1>4 DEF Domains, OthersKept, Kept, RowsAre
<1>5. ASSUME NEW i \in ProductId, i[1] = q PROVE bridges'[i].st \in states
  BY <1>5 DEF Domains, OthersKept, Kept, RowsAre
<1> QED BY <1>1, <1>2, <1>3, <1>4, <1>5 DEF RowsAre

LEMMA SeedRowsKept ==
  ASSUME Domains, NEW rs \in SUBSET Request, OthersKept(rs), SeedRows
  PROVE  SeedRows'
<1>1. 0 \notin rs
  BY DEF Request
<1> QED BY <1>1, RowsKept DEF SeedRows, RowState

LEMMA OthersStage ==
  ASSUME Domains, NEW rs \in SUBSET Request, OthersKept(rs), NEW q \in Request \ rs, Stage(q),
         pc'[q] = pc[q], in'[q] = in[q], pc[q] \in Label
  PROVE  Stage(q)'
<1>1. RowsAre(q, {"absent"}) => RowsAre(q, {"absent"})'
  BY RowsKept DEF RowState
<1>2. RowsAre(q, {"absent", "pending"}) => RowsAre(q, {"absent", "pending"})'
  BY RowsKept DEF RowState
<1>3. RowsAre(q, {"absent", "aborted"}) => RowsAre(q, {"absent", "aborted"})'
  BY RowsKept DEF RowState
<1>4. RowsAre(q, {"absent", "active", "archived"}) => RowsAre(q, {"absent", "active", "archived"})'
  BY RowsKept DEF RowState
<1>5. OnlyRoot(q) => OnlyRoot(q)'
  <2> SUFFICES ASSUME OnlyRoot(q) PROVE OnlyRoot(q)'
    OBVIOUS
  <2>1. /\ \A i \in RootId : i[1] = q => roots'[i] = roots[i]
        /\ \A i \in OptionId : i[1] = q => options'[i] = options[i]
        /\ \A i \in ValueId : i[1] = q => values'[i] = values[i]
        /\ \A i \in ProductId : i[1] = q => products'[i] = products[i] /\ bridges'[i] = bridges[i]
    BY DEF OnlyRoot, OthersKept, Kept, Domains
  <2>2. <<q, 1>> \in RootId
    BY DrawnIds
  <2> QED BY <2>1, <2>2 DEF OnlyRoot
<1> QED BY <1>1, <1>2, <1>3, <1>4, <1>5 DEF Stage

LEMMA OthersLeak ==
  ASSUME StoreTypeOK, Domains, Domains', NEW rs, OthersKept(rs), NEW q \in Request \ rs,
         LeaksNothing(q), HangsFromVisible, pc'[q] = pc[q], marks'[q] = marks[q]
  PROVE  LeaksNothing(q)'
<1> SUFFICES ASSUME pc[q] = "leaked"
             PROVE  /\ marks[q] = NoMarks
                    /\ \A o \in Pending(options)' : o[1] = q => options'[o].root \in Pending(roots)'
                    /\ \A v \in Pending(values)' :
                         v[1] = q => values'[v].option \in Pending(options)'
  BY DEF LeaksNothing
<1>1. /\ marks[q] = NoMarks
      /\ \A o \in Pending(options) : o[1] = q => options[o].root \in Pending(roots)
      /\ \A v \in Pending(values) : v[1] = q => values[v].option \in Pending(options)
  BY DEF LeaksNothing
<1>2. /\ \A o \in Pending(options)' : o[1] = q => o \in Pending(options) /\ options'[o] = options[o]
      /\ \A v \in Pending(values)' : v[1] = q => v \in Pending(values) /\ values'[v] = values[v]
      /\ \A i \in Pending(roots) : i[1] = q => i \in Pending(roots)'
      /\ \A o \in Pending(options) : o[1] = q => o \in Pending(options)'
  BY DEF OthersKept, Kept, Domains, Pending
<1>3. ASSUME NEW o \in Pending(options)', o[1] = q
      PROVE  options'[o].root \in Pending(roots)'
  <2>1. o \in Pending(options) /\ options'[o] = options[o] /\ options[o].root \in Pending(roots)
    BY <1>1, <1>2, <1>3
  <2>2. options[o].root = <<q, 1>>
    BY <1>3, <2>1 DEF HangsFromVisible, Live, Pending, Committed
  <2> QED BY <1>2, <2>1, <2>2
<1>4. ASSUME NEW v \in Pending(values)', v[1] = q
      PROVE  values'[v].option \in Pending(options)'
  <2>1. v \in Pending(values) /\ values'[v] = values[v] /\ values[v].option \in Pending(options)
    BY <1>1, <1>2, <1>4
  <2>2. values[v].option[1] = q
    BY <1>4, <2>1 DEF HangsFromVisible, Live, Pending, Committed
  <2> QED BY <1>2, <2>1, <2>2
<1> QED BY <1>1, <1>3, <1>4

\* A request the step is not about keeps its part of the invariant.
LEMMA OthersTransact ==
  ASSUME StoreTypeOK, StoreTypeOK', NEW rs \in SUBSET Request, OthersKept(rs),
         NEW q \in Request \ rs, Transacts(q), HangsFromVisible, pc[q] \in Label,
         pc'[q] = pc[q], in'[q] = in[q], got'[q] = got[q], marks'[q] = marks[q]
  PROVE  Transacts(q)'
<1>1. Domains /\ Domains'
  BY StoreDomains DEF StoreTypeOK, Domains
<1>2. Stage(q)'
  BY <1>1, OthersStage DEF Transacts
<1>3. LeaksNothing(q)'
  BY <1>1, OthersLeak DEF Transacts
<1>4. /\ Committed(roots) \subseteq Committed(roots)'
      /\ Committed(options) \subseteq Committed(options)'
      /\ Committed(values) \subseteq Committed(values)'
      /\ Committed(products) \subseteq Committed(products)'
      /\ Committed(bridges) \subseteq Committed(bridges)'
  BY <1>1, CommittedGrows
<1>5. MarksOK(q)'
  BY <1>4 DEF Transacts, MarksOK, At
<1>6. WorksOn(q)'
  BY <1>4 DEF Transacts, WorksOn
<1> QED BY <1>2, <1>3, <1>5, <1>6 DEF Transacts

\* What a step of the requests rs has to show.
LEMMA StepKeeps ==
  ASSUME TypeInv, TypeInv', TransactionInv, NEW rs \in SUBSET Request, OthersKept(rs),
         \A q \in Request \ rs : /\ pc'[q] = pc[q] /\ in'[q] = in[q] /\ got'[q] = got[q]
                                 /\ marks'[q] = marks[q],
         KeysUnique', HangsFromVisible', \A q \in rs : Transacts(q)'
  PROVE  TransactionInv'
<1>1. SeedRows'
  BY SeedRowsKept, StoreDomains DEF TypeInv, TransactionInv
<1>2. ASSUME NEW q \in Request \ rs PROVE Transacts(q)'
  <2>1. pc[q] \in Label
    BY DEF TypeInv, LocalsOK
  <2> QED BY <2>1, OthersTransact DEF TypeInv, TransactionInv
<1> QED BY <1>1, <1>2 DEF TransactionInv

-----------------------------------------------------------------------------
(* Steps that leave the tables alone *)

LEMMA TablesAlone ==
  ASSUME TypeInv, TypeInv', TransactionInv, NEW r \in Request, UNCHANGED tables,
         \A q \in Request \ {r} : /\ pc'[q] = pc[q] /\ in'[q] = in[q] /\ got'[q] = got[q]
                                  /\ marks'[q] = marks[q],
         Transacts(r)'
  PROVE  TransactionInv'
<1>1. UNCHANGED <<roots, options, values, products, bridges>>
  BY DEF tables
<1>2. OthersKept({r})
  BY <1>1 DEF OthersKept, Kept
<1>3. KeysUnique' /\ HangsFromVisible'
  BY <1>1 DEF TransactionInv, KeysUnique, HangsFromVisible, Live, Committed, Pending
<1> QED BY <1>2, <1>3, StepKeeps

\* A request that has written nothing, or has committed, and goes on.
LEMMA StageAlone ==
  ASSUME NEW r \in Request, UNCHANGED tables, Stage(r),
         \/ pc[r] \in NothingWritten /\ pc'[r] \in NothingWritten \cup {"webhooks", "done", "leaked"}
         \/ pc[r] \in NothingWritten /\ pc'[r] = "commit"
         \/ pc[r] = "webhooks" /\ pc'[r] = "done"
  PROVE  Stage(r)'
<1>1. RowsAre(r, {"absent"}) => RowsAre(r, {"absent", "aborted"})
                                /\ RowsAre(r, {"absent", "pending"})
  BY DEF RowsAre
<1>2. \A states \in SUBSET RowState : RowsAre(r, states)' <=> RowsAre(r, states)
  BY DEF RowsAre, tables
<1> QED BY <1>1, <1>2 DEF Stage, NothingWritten, RowState

LEMMA NoMarksOK ==
  ASSUME NEW r, marks[r] = NoMarks
  PROVE  MarksOK(r)
BY DEF MarksOK, NoMarks

LEMMA ArriveKeeps ==
  ASSUME TypeInv, TypeInv', TransactionInv, NEW r \in Request, Arrive(r)
  PROVE  TransactionInv'
<1>1. UNCHANGED <<tables, marks, got>> /\ pc[r] = "idle"
  BY DEF Arrive
<1>2. pc'[r] \in {"exists", "find"}
      /\ \A q \in Request \ {r} : pc'[q] = pc[q] /\ in'[q] = in[q]
  BY DEF Arrive, Continue, Goto, TypeInv, LocalsOK
<1>3. Stage(r) /\ MarksOK(r)
  BY DEF TransactionInv, Transacts
<1>4. Stage(r)'
  BY <1>1, <1>2, <1>3, StageAlone DEF NothingWritten, Label, Statement
<1>5. marks'[r] = NoMarks
  BY <1>1, <1>3 DEF MarksOK, Archiving
<1>6. MarksOK(r)'
  BY <1>5, NoMarksOK DEF MarksOK, NoMarks
<1>7. WorksOn(r)' /\ LeaksNothing(r)'
  BY <1>2 DEF WorksOn, LeaksNothing, Archiving
<1>8. Transacts(r)'
  BY <1>4, <1>6, <1>7 DEF Transacts
<1> QED BY <1>1, <1>2, <1>8, TablesAlone

LEMMA ReadStepKeeps ==
  ASSUME TypeInv, TypeInv', TransactionInv, NEW r \in Request, ReadStep(r)
  PROVE  TransactionInv'
<1>1. UNCHANGED <<tables, marks, in, got>>
  BY ReadStepFrame DEF Advances
<1>2. /\ \A q \in Request \ {r} : pc'[q] = pc[q]
      /\ \/ pc[r] \in {"exists", "nameFree", "readBack", "webhooks"} /\ pc'[r] = "done"
         \/ /\ At(r, "createProduct", "exists") /\ pc'[r] = "insertRoot"
         \/ /\ At(r, "createOption", "exists") /\ pc'[r] = "nameFree"
            /\ in[r].root \in Active(roots)
         \/ /\ At(r, "createOption", "nameFree") /\ pc'[r] = "insertOption"
         \/ /\ At(r, "createValue", "exists") /\ pc'[r] = "nameFree"
            /\ in[r].option \in Active(options)
         \/ /\ At(r, "createValue", "nameFree") /\ pc'[r] = "insertValue"
  BY DEF ReadStep, CreateProduct_Exists, CreateOption_Exists, ProductRootExists,
     CreateOption_NameFree, CreateValue_Exists, ProductOptionExists, CreateValue_ValueFree,
     UpdateOption_ReadBack, GetWebhooks, At, Continue, Respond, Goto, TypeInv, LocalsOK
<1>3. Transacts(r)
  BY DEF TransactionInv
<1>4. Stage(r)'
  BY <1>1, <1>2, <1>3, StageAlone DEF Transacts, NothingWritten, Label, Statement, At
<1>5. marks'[r] = NoMarks
  BY <1>1, <1>2, <1>3 DEF Transacts, MarksOK, Archiving, At
<1>6. MarksOK(r)'
  BY <1>5, NoMarksOK DEF MarksOK, NoMarks
<1>7. WorksOn(r)'
  BY <1>1, <1>2, <1>3 DEF Transacts, WorksOn, Archiving, At, Active, Committed, tables
<1>8. LeaksNothing(r)'
  BY <1>2 DEF LeaksNothing, At
<1>9. Transacts(r)'
  BY <1>4, <1>6, <1>7, <1>8 DEF Transacts
<1> QED BY <1>1, <1>2, <1>9, TablesAlone

LEMMA FindStepKeeps ==
  ASSUME TypeInv, TypeInv', TransactionInv, NEW r \in Request, FindStep(r)
  PROVE  TransactionInv'
<1>1. UNCHANGED <<tables, marks, in>> /\ pc[r] = "find"
  BY DEF FindStep, DeleteProduct_Find, DeleteRoot_Find, GetProductRoot, DeleteOption_Find,
     GetProductOption, UpdateValue_Find, GetProductOptionValue, DeleteValue_Find,
     UpdateProduct_Find, UpdateOption_Find, Find, At
<1>2. /\ \A q \in Request \ {r} : pc'[q] = pc[q] /\ got'[q] = got[q]
      /\ \/ pc'[r] = "done"
         \/ in[r].op = "deleteProduct" /\ pc'[r] = "archiveBridges" /\ got'[r] \in Active(products)
         \/ in[r].op = "deleteRoot" /\ pc'[r] = "archiveBridges" /\ got'[r] \in Active(roots)
         \/ in[r].op = "deleteOption" /\ pc'[r] = "archiveValues" /\ got'[r] \in Active(options)
         \/ in[r].op = "updateOption" /\ pc'[r] = "update" /\ got'[r] \in Active(options)
         \/ /\ in[r].op \in {"updateValue", "deleteValue"} /\ pc'[r] = "update"
            /\ got'[r] \in Active(values)
         \/ in[r].op = "updateProduct" /\ pc'[r] = "update"
  <2> USE DEF TypeInv, LocalsOK
  <2>1. CASE DeleteProduct_Find(r)
    BY <2>1 DEF DeleteProduct_Find, ProductsWithSKU, Find, Respond, Continue, Goto, At
  <2>2. CASE DeleteRoot_Find(r)
    BY <2>2 DEF DeleteRoot_Find, GetProductRoot, Find, Respond, Continue, Goto, At
  <2>3. CASE DeleteOption_Find(r)
    BY <2>3 DEF DeleteOption_Find, GetProductOption, Find, Respond, Continue, Goto, At
  <2>4. CASE UpdateValue_Find(r)
    BY <2>4 DEF UpdateValue_Find, GetProductOptionValue, Find, Respond, Continue, Goto, At
  <2>5. CASE DeleteValue_Find(r)
    BY <2>5 DEF DeleteValue_Find, GetProductOptionValue, Find, Respond, Continue, Goto, At
  <2>6. CASE UpdateProduct_Find(r)
    BY <2>6 DEF UpdateProduct_Find, ProductsWithSKU, Respond, Continue, Goto, At
  <2>7. CASE UpdateOption_Find(r)
    BY <2>7 DEF UpdateOption_Find, GetProductOption, Respond, Continue, Goto, At
  <2> QED BY <2>1, <2>2, <2>3, <2>4, <2>5, <2>6, <2>7 DEF FindStep
<1>3. Stage(r) /\ MarksOK(r)
  BY DEF TransactionInv, Transacts
<1>4. Stage(r)'
  BY <1>1, <1>2, <1>3, StageAlone DEF NothingWritten, Label, Statement
<1>5. marks'[r] = NoMarks
  BY <1>1, <1>3 DEF MarksOK, Archiving
<1>6. MarksOK(r)'
  BY <1>5, NoMarksOK DEF MarksOK, NoMarks
<1>7. WorksOn(r)'
  BY <1>1, <1>2 DEF WorksOn, Archiving, Active, Committed, tables
<1>8. LeaksNothing(r)'
  BY <1>2 DEF LeaksNothing
<1>9. Transacts(r)'
  BY <1>4, <1>6, <1>7, <1>8 DEF Transacts
<1> QED BY <1>1, <1>2, <1>9, TablesAlone

-----------------------------------------------------------------------------
(* Transactions that end *)

\* A rollback aborts what its requests have inserted.
LEMMA RollbackRows ==
  ASSUME StoreTypeOK, NEW rs \in SUBSET Request, Rollback(rs)
  PROVE  /\ \A i \in RootId :
              /\ roots'[i].st = IF roots[i].st = "pending" /\ i[1] \in rs THEN "aborted" ELSE roots[i].st
              /\ i[1] \notin rs => roots'[i] = roots[i]
         /\ \A i \in OptionId :
              /\ options'[i].st = IF options[i].st = "pending" /\ i[1] \in rs THEN "aborted" ELSE options[i].st
              /\ i[1] \notin rs => options'[i] = options[i]
              /\ options'[i].root = options[i].root /\ options'[i].name = options[i].name
         /\ \A i \in ValueId :
              /\ values'[i].st = IF values[i].st = "pending" /\ i[1] \in rs THEN "aborted" ELSE values[i].st
              /\ i[1] \notin rs => values'[i] = values[i]
              /\ values'[i].option = values[i].option /\ values'[i].value = values[i].value
         /\ \A i \in ProductId :
              /\ products'[i].st = IF products[i].st = "pending" /\ i[1] \in rs THEN "aborted" ELSE products[i].st
              /\ i[1] \notin rs => products'[i] = products[i]
              /\ bridges'[i].st = IF bridges[i].st = "pending" /\ i[1] \in rs THEN "aborted" ELSE bridges[i].st
              /\ i[1] \notin rs => bridges'[i] = bridges[i]
<1> USE DEF StoreTypeOK, Rollback, Undone
<1>1. ASSUME NEW i \in RootId
      PROVE  /\ roots'[i].st = IF roots[i].st = "pending" /\ i[1] \in rs THEN "aborted" ELSE roots[i].st
             /\ i[1] \notin rs => roots'[i] = roots[i]
  BY DEF RootRow
<1>2. ASSUME NEW i \in OptionId
      PROVE  /\ options'[i].st = IF options[i].st = "pending" /\ i[1] \in rs THEN "aborted" ELSE options[i].st
             /\ i[1] \notin rs => options'[i] = options[i]
             /\ options'[i].root = options[i].root /\ options'[i].name = options[i].name
  BY DEF OptionRow
<1>3. ASSUME NEW i \in ValueId
      PROVE  /\ values'[i].st = IF values[i].st = "pending" /\ i[1] \in rs THEN "aborted" ELSE values[i].st
             /\ i[1] \notin rs => values'[i] = values[i]
             /\ values'[i].option = values[i].option /\ values'[i].value = values[i].value
  BY DEF ValueRow
<1>4. ASSUME NEW i \in ProductId
      PROVE  /\ products'[i].st = IF products[i].st = "pending" /\ i[1] \in rs THEN "aborted" ELSE products[i].st
             /\ i[1] \notin rs => products'[i] = products[i]
  BY DEF ProductRow
<1>5. ASSUME NEW i \in ProductId
      PROVE  /\ bridges'[i].st = IF bridges[i].st = "pending" /\ i[1] \in rs THEN "aborted" ELSE bridges[i].st
             /\ i[1] \notin rs => bridges'[i] = bridges[i]
  BY DEF BridgeRow
<1> QED BY <1>1, <1>2, <1>3, <1>4, <1>5

LEMMA RollbackKeeps ==
  ASSUME TypeInv, TypeInv', TransactionInv, NEW rs \in SUBSET Request, Rollback(rs),
         UNCHANGED <<in, got>>,
         \A q \in Request \ rs : pc'[q] = pc[q],
         \A q \in rs : \/ pc[q] \in Statement \cup {"leaked"} /\ pc'[q] \in {"done", "dead"}
                       \/ pc[q] \in NothingWritten /\ pc'[q] = "leaked"
  PROVE  TransactionInv'
<1>1. StoreTypeOK /\ StoreTypeOK' /\ Domains /\ Domains'
  BY StoreDomains DEF TypeInv, StoreTypeOK, Domains
<1>2. OthersKept(rs)
  <2>1. Kept(roots, roots', rs)
    BY <1>1, RollbackRows DEF Kept, Domains
  <2>2. Kept(options, options', rs)
    BY <1>1, RollbackRows DEF Kept, Domains
  <2>3. Kept(values, values', rs)
    BY <1>1, RollbackRows DEF Kept, Domains
  <2>4. Kept(products, products', rs)
    <3>1. \A i \in ProductId :
            /\ products'[i].st = IF products[i].st = "pending" /\ i[1] \in rs THEN "aborted" ELSE products[i].st
            /\ i[1] \notin rs => products'[i] = products[i]
      BY <1>1, RollbackRows
    <3> QED BY <1>1, <3>1 DEF Kept, Domains
  <2>5. Kept(bridges, bridges', rs)
    <3>1. \A i \in ProductId :
            /\ bridges'[i].st = IF bridges[i].st = "pending" /\ i[1] \in rs THEN "aborted" ELSE bridges[i].st
            /\ i[1] \notin rs => bridges'[i] = bridges[i]
      BY <1>1, RollbackRows
    <3> QED BY <1>1, <3>1 DEF Kept, Domains
  <2> QED BY <2>1, <2>2, <2>3, <2>4, <2>5 DEF OthersKept
<1>3. /\ Live(options)' \subseteq Live(options) /\ Live(values)' \subseteq Live(values)
      /\ Committed(roots)' = Committed(roots) /\ Committed(options)' = Committed(options)
      /\ Live(options) \subseteq OptionId /\ Live(values) \subseteq ValueId
  <2>1. Committed(roots)' = Committed(roots)
    BY <1>1, RollbackRows DEF Committed, Domains
  <2>2. Committed(options)' = Committed(options) /\ Live(options)' \subseteq Live(options)
    BY <1>1, RollbackRows, SMTT(30) DEF Live, Committed, Pending, Domains
  <2>3. Live(values)' \subseteq Live(values)
    BY <1>1, RollbackRows, SMTT(30) DEF Live, Committed, Pending, Domains
  <2>4. Live(options) \subseteq OptionId /\ Live(values) \subseteq ValueId
    BY <1>1 DEF Live, Committed, Pending, Domains
  <2> QED BY <2>1, <2>2, <2>3, <2>4
<1>4. /\ \A o \in OptionId : options'[o].root = options[o].root /\ options'[o].name = options[o].name
      /\ \A v \in ValueId : values'[v].option = values[v].option /\ values'[v].value = values[v].value
  BY <1>1, RollbackRows
<1>5. KeysUnique' /\ HangsFromVisible'
  BY <1>3, <1>4 DEF TransactionInv, KeysUnique, HangsFromVisible
<1>6. \A q \in Request \ rs : marks'[q] = marks[q]
  BY DEF Rollback
<1>7. ASSUME NEW q \in rs PROVE Transacts(q)'
  <2>1. marks'[q] = NoMarks
    BY DEF Rollback
  <2>2. /\ RowsAre(q, {"absent"}) => RowsAre(q, {"absent"})'
        /\ RowsAre(q, {"absent"}) => RowsAre(q, {"absent", "aborted"})'
        /\ RowsAre(q, {"absent", "pending"}) => RowsAre(q, {"absent", "aborted"})'
        /\ RowsAre(q, {"absent", "aborted"}) => RowsAre(q, {"absent", "aborted"})'
        /\ RowsAre(q, {"absent", "active", "archived"}) =>
             RowsAre(q, {"absent", "active", "archived"})'
        /\ OnlyRoot(q) => RowsAre(q, {"absent", "aborted"})'
    BY <1>1, RollbackRows, SMTT(30) DEF RowsAre, OnlyRoot
  <2>3. Stage(q)
    BY DEF TransactionInv, Transacts
  <2>4. Stage(q)'
    <3>1. CASE pc'[q] = "leaked" /\ pc[q] \in NothingWritten
      <4>1. RowsAre(q, {"absent", "pending"})'
        BY <2>2, <2>3, <3>1 DEF Stage, RowsAre
      <4> QED BY <3>1, <4>1 DEF Stage, NothingWritten
    <3>2. CASE pc[q] \in Statement \cup {"leaked"} /\ pc'[q] \in {"done", "dead"}
      <4>1. RowsAre(q, {"absent", "aborted"})' \/ RowsAre(q, {"absent", "active", "archived"})'
        BY <2>2, <2>3, <3>2 DEF Stage, NothingWritten, Statement, Label
      <4> QED BY <3>2, <4>1 DEF Stage, NothingWritten
    <3> QED BY <3>1, <3>2
  <2>5. MarksOK(q)'
    BY <2>1 DEF MarksOK, NoMarks
  <2>6. WorksOn(q)'
    BY DEF WorksOn, Archiving, NothingWritten
  <2>7. LeaksNothing(q)'
    <3>1. /\ \A o \in Pending(options)' : o[1] # q
          /\ \A v \in Pending(values)' : v[1] # q
      BY <1>1, RollbackRows DEF Pending, Domains
    <3> QED BY <2>1, <3>1 DEF LeaksNothing
  <2> QED BY <2>4, <2>5, <2>6, <2>7 DEF Transacts
<1> QED BY <1>2, <1>5, <1>6, <1>7, StepKeeps

\* A commit shows what its request has inserted and archives what it has marked.
LEMMA CommitRows ==
  ASSUME StoreTypeOK, NEW r \in Request, Commit(r)
  PROVE  /\ \A i \in RootId :
              /\ roots'[i].st = IF roots[i].st = "pending" /\ i[1] = r THEN "active"
                                ELSE IF i \in marks[r].roots THEN "archived" ELSE roots[i].st
              /\ i[1] # r /\ i \notin marks[r].roots => roots'[i] = roots[i]
         /\ \A i \in OptionId :
              /\ options'[i].st = IF options[i].st = "pending" /\ i[1] = r THEN "active"
                                  ELSE IF i \in marks[r].options THEN "archived" ELSE options[i].st
              /\ i[1] # r /\ i \notin marks[r].options => options'[i] = options[i]
              /\ options'[i].root = options[i].root /\ options'[i].name = options[i].name
         /\ \A i \in ValueId :
              /\ values'[i].st = IF values[i].st = "pending" /\ i[1] = r THEN "active"
                                 ELSE IF i \in marks[r].values THEN "archived" ELSE values[i].st
              /\ i[1] # r /\ i \notin marks[r].values => values'[i] = values[i]
              /\ values'[i].option = values[i].option /\ values'[i].value = values[i].value
         /\ \A i \in ProductId :
              /\ products'[i].st = IF products[i].st = "pending" /\ i[1] = r THEN "active"
                                   ELSE IF i \in marks[r].products THEN "archived" ELSE products[i].st
              /\ i[1] # r /\ i \notin marks[r].products => products'[i] = products[i]
              /\ bridges'[i].st = IF bridges[i].st = "pending" /\ i[1] = r THEN "active"
                                  ELSE IF i \in marks[r].bridges THEN "archived" ELSE bridges[i].st
              /\ i[1] # r /\ i \notin marks[r].bridges => bridges'[i] = bridges[i]
<1> USE DEF StoreTypeOK, Commit, Settled
<1>1. ASSUME NEW i \in RootId
      PROVE  /\ roots'[i].st = IF roots[i].st = "pending" /\ i[1] = r THEN "active"
                               ELSE IF i \in marks[r].roots THEN "archived" ELSE roots[i].st
             /\ i[1] # r /\ i \notin marks[r].roots => roots'[i] = roots[i]
  BY DEF RootRow
<1>2. ASSUME NEW i \in OptionId
      PROVE  /\ options'[i].st = IF options[i].st = "pending" /\ i[1] = r THEN "active"
                                 ELSE IF i \in marks[r].options THEN "archived" ELSE options[i].st
             /\ i[1] # r /\ i \notin marks[r].options => options'[i] = options[i]
             /\ options'[i].root = options[i].root /\ options'[i].name = options[i].name
  BY DEF OptionRow
<1>3. ASSUME NEW i \in ValueId
      PROVE  /\ values'[i].st = IF values[i].st = "pending" /\ i[1] = r THEN "active"
                                ELSE IF i \in marks[r].values THEN "archived" ELSE values[i].st
             /\ i[1] # r /\ i \notin marks[r].values => values'[i] = values[i]
             /\ values'[i].option = values[i].option /\ values'[i].value = values[i].value
  BY DEF ValueRow
<1>4. ASSUME NEW i \in ProductId
      PROVE  /\ products'[i].st = IF products[i].st = "pending" /\ i[1] = r THEN "active"
                                  ELSE IF i \in marks[r].products THEN "archived" ELSE products[i].st
             /\ i[1] # r /\ i \notin marks[r].products => products'[i] = products[i]
  BY DEF ProductRow
<1>5. ASSUME NEW i \in ProductId
      PROVE  /\ bridges'[i].st = IF bridges[i].st = "pending" /\ i[1] = r THEN "active"
                                 ELSE IF i \in marks[r].bridges THEN "archived" ELSE bridges[i].st
             /\ i[1] # r /\ i \notin marks[r].bridges => bridges'[i] = bridges[i]
  BY DEF BridgeRow
<1> QED BY <1>1, <1>2, <1>3, <1>4, <1>5

LEMMA CommitOthersKept ==
  ASSUME StoreTypeOK, NEW r \in Request, MarksOK(r), Commit(r)
  PROVE  OthersKept({r})
<1>1. Domains
  BY StoreDomains
<1>2. Kept(roots, roots', {r})
  BY <1>1, CommitRows DEF Kept, Domains, MarksOK, Committed
<1>3. Kept(options, options', {r})
  BY <1>1, CommitRows DEF Kept, Domains, MarksOK, Committed
<1>4. Kept(values, values', {r})
  BY <1>1, CommitRows DEF Kept, Domains, MarksOK, Committed
<1>5. Kept(products, products', {r})
  BY <1>1, CommitRows DEF Kept, Domains, MarksOK, Committed
<1>6. Kept(bridges, bridges', {r})
  BY <1>1, CommitRows DEF Kept, Domains, MarksOK, Committed
<1> QED BY <1>2, <1>3, <1>4, <1>5, <1>6 DEF OthersKept

LEMMA CommitKeeps ==
  ASSUME TypeInv, TypeInv', TransactionInv, NEW r \in Request, Commit(r), pc[r] = "commit",
         UNCHANGED <<in, got>>,
         \A q \in Request \ {r} : pc'[q] = pc[q],
         pc'[r] \in {"done", "webhooks"}
  PROVE  TransactionInv'
<1>1. StoreTypeOK /\ StoreTypeOK' /\ Domains /\ Domains'
  BY StoreDomains DEF TypeInv, StoreTypeOK, Domains
<1>2. Stage(r) /\ MarksOK(r)
  BY DEF TransactionInv, Transacts
<1>3. OthersKept({r})
  BY <1>1, <1>2, CommitOthersKept
<1>4. /\ Live(options)' = Live(options) /\ Live(values)' = Live(values)
      /\ Live(options) \subseteq OptionId /\ Live(values) \subseteq ValueId
  <2>1. Live(options)' = Live(options)
    BY <1>1, <1>2, CommitRows DEF Live, Committed, Pending, Domains, MarksOK
  <2>2. Live(values)' = Live(values)
    BY <1>1, <1>2, CommitRows DEF Live, Committed, Pending, Domains, MarksOK
  <2>3. Live(options) \subseteq OptionId /\ Live(values) \subseteq ValueId
    BY <1>1 DEF Live, Committed, Pending, Domains
  <2> QED BY <2>1, <2>2, <2>3
<1>5. /\ \A o \in OptionId : options'[o].root = options[o].root /\ options'[o].name = options[o].name
      /\ \A v \in ValueId : values'[v].option = values[v].option /\ values'[v].value = values[v].value
  BY <1>1, CommitRows
<1>6. /\ Committed(roots) \subseteq Committed(roots)'
      /\ Committed(options) \subseteq Committed(options)'
  BY <1>1, <1>3, CommittedGrows
<1>7. KeysUnique' /\ HangsFromVisible'
  BY <1>4, <1>5, <1>6 DEF TransactionInv, KeysUnique, HangsFromVisible
<1>8. marks'[r] = NoMarks /\ \A q \in Request \ {r} : marks'[q] = marks[q]
  BY <1>1 DEF Commit, StoreTypeOK
<1>9. Stage(r)'
  <2>1. RowsAre(r, {"absent", "pending"})
    BY <1>2 DEF Stage
  <2>2. RowsAre(r, {"absent", "active", "archived"})'
    BY <1>1, <2>1, CommitRows DEF RowsAre
  <2> QED BY <2>2 DEF Stage, NothingWritten
<1>10. MarksOK(r)'
  BY <1>8 DEF MarksOK, NoMarks
<1>11. WorksOn(r)' /\ LeaksNothing(r)'
  BY DEF WorksOn, LeaksNothing, Archiving
<1>12. Transacts(r)'
  BY <1>9, <1>10, <1>11 DEF Transacts
<1> QED BY <1>3, <1>7, <1>8, <1>12, StepKeeps

LEMMA EndStepKeeps ==
  ASSUME TypeInv, TypeInv', TransactionInv, NEW r \in Request, EndStep(r)
  PROVE  TransactionInv'
<1>1. UNCHANGED <<in, got>>
  BY DEF EndStep, CommitSucceeds, CommitFails, StatementFails, locals
<1>2. pc[r] \in Statement /\ \A q \in Request \ {r} : pc'[q] = pc[q]
  BY DEF EndStep, CommitSucceeds, CommitFails, StatementFails, Respond, RespondAndLeak,
     Continue, Goto, TypeInv, LocalsOK, Statement
<1>3. Stage(r)
  BY DEF TransactionInv, Transacts
<1>4. \/ Rollback({r}) /\ pc'[r] = "done"
      \/ Rollback({r}) /\ pc'[r] = "leaked" /\ pc[r] \in InTransaction /\ in[r].op = "deleteOption"
      \/ Commit(r) /\ pc[r] = "commit" /\ pc'[r] \in {"done", "webhooks"}
      \/ /\ UNCHANGED <<tables, marks>> /\ pc'[r] = "done"
         /\ pc[r] \notin InTransaction \cup {"commit"}
  BY DEF EndStep, CommitSucceeds, CommitFails, StatementFails, Respond, RespondAndLeak,
     Continue, Goto, TypeInv, LocalsOK
<1>5. CASE Rollback({r}) /\ pc'[r] = "done"
  BY <1>1, <1>2, <1>5, RollbackKeeps
<1>6. CASE Rollback({r}) /\ pc'[r] = "leaked" /\ pc[r] \in InTransaction /\ in[r].op = "deleteOption"
  <2>1. pc[r] \in NothingWritten
    BY <1>2, <1>3, <1>6 DEF Stage, NothingWritten, InTransaction, Label
  <2> QED BY <1>1, <1>2, <1>6, <2>1, RollbackKeeps
<1>7. CASE Commit(r) /\ pc[r] = "commit" /\ pc'[r] \in {"done", "webhooks"}
  BY <1>1, <1>2, <1>7, CommitKeeps
<1>8. CASE /\ UNCHANGED <<tables, marks>> /\ pc'[r] = "done"
           /\ pc[r] \notin InTransaction \cup {"commit"}
  <2>1. Stage(r)'
    BY <1>2, <1>3, <1>8, StageAlone DEF NothingWritten, Label, InTransaction, Statement
  <2>2. marks'[r] = NoMarks
    BY <1>8 DEF TransactionInv, Transacts, MarksOK, Archiving, InTransaction
  <2>3. MarksOK(r)' /\ WorksOn(r)' /\ LeaksNothing(r)'
    BY <1>8, <2>2 DEF MarksOK, NoMarks, WorksOn, LeaksNothing, Archiving
  <2>4. Transacts(r)'
    BY <2>1, <2>3 DEF Transacts
  <2> QED BY <1>1, <1>2, <1>8, <2>4, TablesAlone
<1> QED BY <1>4, <1>5, <1>6, <1>7, <1>8

LEMMA CrashKeeps ==
  ASSUME TypeInv, TypeInv', TransactionInv, ServerCrash
  PROVE  TransactionInv'
<1> DEFINE dying == InFlight \cup {r \in Request : pc[r] = "leaked"}
<1>1. /\ Rollback(dying) /\ dying \in SUBSET Request
      /\ pc' = [r \in Request |-> IF r \in dying THEN "dead" ELSE pc[r]]
      /\ UNCHANGED <<in, got>>
      /\ \A q \in dying : pc[q] \in Statement \cup {"leaked"}
  BY DEF ServerCrash, InFlight, locals
<1> HIDE DEF dying
<1> QED BY <1>1, RollbackKeeps

-----------------------------------------------------------------------------
(* Steps that archive rows in an open transaction *)

\* Marks on rows others can see.
Visible(m) ==
  /\ m.roots \subseteq Committed(roots)
  /\ m.options \subseteq Committed(options)
  /\ m.values \subseteq Committed(values)
  /\ m.products \subseteq Committed(products)
  /\ m.bridges \subseteq Committed(bridges)

LEMMA VisibleExcept ==
  ASSUME NEW m \in Marks, Visible(m)
  PROVE  /\ \A s \in SUBSET Committed(roots) : Visible([m EXCEPT !.roots = s])
         /\ \A s \in SUBSET Committed(options) : Visible([m EXCEPT !.options = s])
         /\ \A s \in SUBSET Committed(values) : Visible([m EXCEPT !.values = s])
         /\ \A s \in SUBSET Committed(products) : Visible([m EXCEPT !.products = s])
         /\ \A s \in SUBSET Committed(bridges) : Visible([m EXCEPT !.bridges = s])
BY DEF Visible, Marks

LEMMA MarkStepOutcome ==
  ASSUME TypeInv, TransactionInv, NEW r \in Request, MarkStep(r)
  PROVE  \/ Rollback({r}) /\ pc'[r] = "done"
         \/ /\ UNCHANGED <<tables, marks>> /\ At(r, "deleteOption", "archiveValues")
            /\ pc'[r] = "leaked"
         \/ /\ UNCHANGED tables
            /\ in[r].op \in Deletions
            /\ pc'[r] \in Archiving \cup {"commit"}
            /\ ~(in[r].op = "deleteOption" /\ pc'[r] = "archiveValues")
            /\ Visible(marks'[r]) /\ \A q \in Request \ {r} : marks'[q] = marks[q]
<1> USE DEF Deletions, Archiving
<1>1. marks[r] \in Marks /\ marks \in [Request -> Marks] /\ pc \in [Request -> Label]
  BY DEF TypeInv, StoreTypeOK, LocalsOK
<1>2. Visible(marks[r]) /\ WorksOn(r)
  BY DEF TransactionInv, Transacts, MarksOK, Visible
<1>3. /\ \A s \in SUBSET Committed(roots) : Visible([marks[r] EXCEPT !.roots = s])
      /\ \A s \in SUBSET Committed(options) : Visible([marks[r] EXCEPT !.options = s])
      /\ \A s \in SUBSET Committed(values) : Visible([marks[r] EXCEPT !.values = s])
      /\ \A s \in SUBSET Committed(products) : Visible([marks[r] EXCEPT !.products = s])
      /\ \A s \in SUBSET Committed(bridges) : Visible([marks[r] EXCEPT !.bridges = s])
  BY <1>1, <1>2, VisibleExcept
<1>4. CASE DeleteProduct_ArchiveBridges(r)
  BY <1>1, <1>3, <1>4 DEF DeleteProduct_ArchiveBridges, DeleteProductVariantBridgeByProductID,
     Active, Committed, At, Continue, Goto
<1>5. CASE DeleteProduct_ArchiveProduct(r)
  <2>1. got[r] \in Committed(products)
    BY <1>2, <1>5 DEF DeleteProduct_ArchiveProduct, At, WorksOn
  <2> QED
    BY <1>1, <1>3, <1>5, <2>1 DEF DeleteProduct_ArchiveProduct, DeleteProduct, At, Continue, Goto
<1>6. CASE DeleteRoot_ArchiveBridges(r)
  BY <1>1, <1>3, <1>6 DEF DeleteRoot_ArchiveBridges, BridgesOfRoot, At, Continue, Goto
<1>7. CASE DeleteRoot_ArchiveValues(r)
  BY <1>1, <1>3, <1>7 DEF DeleteRoot_ArchiveValues, ValuesOfRoot, At, Continue, Goto, Respond
<1>8. CASE DeleteRoot_ArchiveOptions(r)
  BY <1>1, <1>3, <1>8 DEF DeleteRoot_ArchiveOptions, OptionsOfRoot, Active, Committed, At,
     Continue, Goto
<1>9. CASE DeleteRoot_ArchiveProducts(r)
  BY <1>1, <1>3, <1>9 DEF DeleteRoot_ArchiveProducts, ProductsOfRoot, At, Continue, Goto, Respond
<1>10. CASE DeleteRoot_ArchiveRoot(r)
  <2>1. got[r] \in Committed(roots)
    BY <1>2, <1>10 DEF DeleteRoot_ArchiveRoot, At, WorksOn
  <2> QED
    BY <1>1, <1>3, <1>10, <2>1 DEF DeleteRoot_ArchiveRoot, DeleteProductRoot, At, Continue, Goto
<1>11. CASE DeleteOption_ArchiveValues(r)
  BY <1>1, <1>3, <1>11 DEF DeleteOption_ArchiveValues, ValuesOfOption, At, Continue, Goto,
     RespondAndLeak
<1>12. CASE DeleteOption_ArchiveOption(r)
  <2>1. got[r] \in Committed(options)
    BY <1>2, <1>12 DEF DeleteOption_ArchiveOption, At, WorksOn
  <2> QED
    BY <1>1, <1>3, <1>12, <2>1 DEF DeleteOption_ArchiveOption, DeleteProductOption, At,
       Continue, Goto
<1> QED BY <1>4, <1>5, <1>6, <1>7, <1>8, <1>9, <1>10, <1>11, <1>12 DEF MarkStep

LEMMA MarkStepKeeps ==
  ASSUME TypeInv, TypeInv', TransactionInv, NEW r \in Request, MarkStep(r)
  PROVE  TransactionInv'
<1>1. pc[r] \in Archiving /\ pc[r] \in Statement
  BY DEF MarkStep, DeleteProduct_ArchiveBridges, DeleteProductVariantBridgeByProductID,
     DeleteProduct_ArchiveProduct, DeleteProduct, DeleteRoot_ArchiveBridges,
     DeleteRoot_ArchiveValues, DeleteRoot_ArchiveOptions, DeleteRoot_ArchiveProducts,
     DeleteRoot_ArchiveRoot, DeleteProductRoot, DeleteOption_ArchiveValues,
     DeleteOption_ArchiveOption, DeleteProductOption, At, Statement, Archiving
<1>2. Advances(r)
  BY MarkStepAdvances
<1>3. UNCHANGED <<in, got>> /\ \A q \in Request \ {r} : pc'[q] = pc[q]
  BY <1>2 DEF Advances, TypeInv, LocalsOK
<1>4. Stage(r) /\ MarksOK(r) /\ WorksOn(r)
  BY DEF TransactionInv, Transacts
<1>5. pc[r] \in NothingWritten
  BY <1>1 DEF Archiving, NothingWritten, Label
<1>6. RowsAre(r, {"absent"})
  BY <1>4, <1>5 DEF Stage
<1>7. CASE Rollback({r}) /\ pc'[r] = "done"
  BY <1>1, <1>3, <1>7, RollbackKeeps
<1>8. CASE /\ UNCHANGED <<tables, marks>> /\ At(r, "deleteOption", "archiveValues")
           /\ pc'[r] = "leaked"
  <2>1. Stage(r)'
    BY <1>4, <1>5, <1>8, StageAlone DEF NothingWritten
  <2>2. marks'[r] = NoMarks
    BY <1>4, <1>8 DEF MarksOK
  <2>3. MarksOK(r)' /\ WorksOn(r)'
    BY <1>8, <2>2 DEF MarksOK, NoMarks, WorksOn, Archiving
  <2>4. LeaksNothing(r)'
    <3>1. /\ \A o \in Pending(options)' : o[1] # r
          /\ \A v \in Pending(values)' : v[1] # r
      BY <1>6, <1>8 DEF RowsAre, Pending, tables, TypeInv, StoreTypeOK
    <3> QED BY <2>2, <3>1 DEF LeaksNothing
  <2>5. Transacts(r)'
    BY <2>1, <2>3, <2>4 DEF Transacts
  <2> QED BY <1>3, <1>8, <2>5, TablesAlone
<1>9. CASE /\ UNCHANGED tables
           /\ in[r].op \in Deletions
           /\ pc'[r] \in Archiving \cup {"commit"}
           /\ ~(in[r].op = "deleteOption" /\ pc'[r] = "archiveValues")
           /\ Visible(marks'[r]) /\ \A q \in Request \ {r} : marks'[q] = marks[q]
  <2>1. Stage(r)'
    BY <1>4, <1>5, <1>9, StageAlone DEF NothingWritten, Archiving, Label, Statement
  <2>2. MarksOK(r)'
    BY <1>3, <1>9 DEF MarksOK, Visible, Committed, tables, At
  <2>3. WorksOn(r)'
    BY <1>1, <1>3, <1>4, <1>9 DEF WorksOn, Archiving, Committed, tables
  <2>4. LeaksNothing(r)'
    BY <1>9 DEF LeaksNothing, Archiving
  <2>5. Transacts(r)'
    BY <2>1, <2>2, <2>3, <2>4 DEF Transacts
  <2> QED BY <1>3, <1>9, <2>5, TablesAlone
<1> QED BY <1>7, <1>8, <1>9, MarkStepOutcome

-----------------------------------------------------------------------------
(* Updates that are their own transaction *)

\* What they have in common: they work on a row others can see.
LEMMA UpdateKeeps ==
  ASSUME TypeInv, TypeInv', TransactionInv, NEW r \in Request, pc[r] = "update",
         OthersKept({}), KeysUnique', HangsFromVisible',
         UNCHANGED <<in, got, marks>>, \A q \in Request \ {r} : pc'[q] = pc[q],
         pc'[r] \in {"webhooks", "readBack", "done"}
  PROVE  TransactionInv'
<1>1. Domains
  BY StoreDomains DEF TypeInv
<1>2. Stage(r) /\ MarksOK(r)
  BY DEF TransactionInv, Transacts
<1>3. RowsAre(r, {"absent"})
  BY <1>2 DEF Stage, NothingWritten, Label, Statement
<1>4. RowsAre(r, {"absent"})'
  <2> SUFFICES ASSUME NEW rs, rs = {} PROVE RowsAre(r, {"absent"})'
    OBVIOUS
  <2>1. OthersKept(rs) /\ r \notin rs
    OBVIOUS
  <2>2. {"absent"} \in SUBSET RowState /\ "active" \notin {"absent"}
    BY DEF RowState
  <2> QED BY <1>1, <1>3, <2>1, <2>2, RowsKept
<1>5. Stage(r)'
  BY <1>4 DEF Stage, NothingWritten, RowsAre
<1>6. marks'[r] = NoMarks
  BY <1>2 DEF MarksOK, Archiving
<1>7. MarksOK(r)' /\ WorksOn(r)' /\ LeaksNothing(r)'
  BY <1>6 DEF MarksOK, NoMarks, WorksOn, LeaksNothing, Archiving
<1>8. Transacts(r)'
  BY <1>5, <1>7 DEF Transacts
<1>9. OthersKept({r})
  BY DEF OthersKept, Kept
<1> QED BY <1>8, <1>9, StepKeeps

LEMMA UpdateOptionKeys ==
  ASSUME TypeInv, TransactionInv, NEW r \in Request, pc[r] = "update",
         NEW o \in Committed(options), NEW root \in Committed(roots), NEW name,
         UpdateProductOption(o, root, name), UNCHANGED <<roots, values>>,
         ~OptionNameContended(r, root, name), ~OptionNameTaken(o, root, name)
  PROVE  KeysUnique' /\ HangsFromVisible' /\ Kept(options, options', {})
<1>1. Domains /\ options \in [OptionId -> OptionRow]
  BY StoreDomains DEF TypeInv, StoreTypeOK
<1>2. o \in OptionId
  BY <1>1 DEF Committed, Domains
<1>3. /\ DOMAIN options' = OptionId
      /\ \A q \in OptionId : options'[q].st = options[q].st
      /\ \A q \in OptionId \ {o} : options'[q] = options[q]
      /\ options'[o].root = root /\ options'[o].name = name
  BY <1>1, <1>2 DEF UpdateProductOption, OptionRow
<1>4. Live(options)' = Live(options) /\ Committed(options)' = Committed(options)
      /\ Live(options) \subseteq OptionId
  BY <1>1, <1>3 DEF Live, Committed, Pending, Domains
<1>5. Live(values)' = Live(values) /\ Committed(roots)' = Committed(roots)
  BY DEF Live, Committed, Pending
<1>6. RowsAre(r, {"absent"})
  BY DEF TransactionInv, Transacts, Stage, NothingWritten, Label, Statement
<1>7. \A q \in Live(options) \ {o} : ~(options[q].root = root /\ options[q].name = name)
  BY <1>1, <1>6 DEF Live, OptionNameContended, OptionNameTaken, Pending, Domains, RowsAre
<1>8. KeysUnique'
  BY <1>3, <1>4, <1>5, <1>7 DEF TransactionInv, KeysUnique
<1>9. HangsFromVisible'
  BY <1>3, <1>4, <1>5 DEF TransactionInv, HangsFromVisible
<1>10. Kept(options, options', {})
  BY <1>1, <1>2, <1>3 DEF Kept, Domains, Committed
<1> QED BY <1>8, <1>9, <1>10

LEMMA UpdateValueKeys ==
  ASSUME TypeInv, TransactionInv, NEW r \in Request, pc[r] = "update",
         NEW v \in Committed(values), NEW text,
         UpdateProductOptionValue(v, text), UNCHANGED <<roots, options>>,
         ~ValueContended(r, values[v].option, text), ~ValueTaken(v, values[v].option, text)
  PROVE  KeysUnique' /\ HangsFromVisible' /\ Kept(values, values', {})
<1>1. Domains /\ values \in [ValueId -> ValueRow]
  BY StoreDomains DEF TypeInv, StoreTypeOK
<1>2. v \in ValueId
  BY <1>1 DEF Committed, Domains
<1>3. /\ DOMAIN values' = ValueId
      /\ \A w \in ValueId : values'[w].st = values[w].st /\ values'[w].option = values[w].option
      /\ \A w \in ValueId \ {v} : values'[w] = values[w]
      /\ values'[v].value = text
  BY <1>1, <1>2 DEF UpdateProductOptionValue, ValueRow
<1>4. Live(values)' = Live(values) /\ Live(values) \subseteq ValueId
  BY <1>1, <1>3 DEF Live, Committed, Pending, Domains
<1>5. Live(options)' = Live(options) /\ Committed(options)' = Committed(options)
      /\ Committed(roots)' = Committed(roots)
  BY DEF Live, Committed, Pending
<1>6. RowsAre(r, {"absent"})
  BY DEF TransactionInv, Transacts, Stage, NothingWritten, Label, Statement
<1>7. \A w \in Live(values) \ {v} : ~(values[w].option = values[v].option /\ values[w].value = text)
  BY <1>1, <1>6 DEF Live, ValueContended, ValueTaken, Pending, Domains, RowsAre
<1>8. KeysUnique'
  BY <1>2, <1>3, <1>4, <1>5, <1>7 DEF TransactionInv, KeysUnique
<1>9. HangsFromVisible'
  BY <1>3, <1>4, <1>5 DEF TransactionInv, HangsFromVisible
<1>10. Kept(values, values', {})
  BY <1>1, <1>2, <1>3 DEF Kept, Domains, Committed
<1> QED BY <1>8, <1>9, <1>10

LEMMA UpdateStepKeeps ==
  ASSUME TypeInv, TypeInv', TransactionInv, NEW r \in Request, UpdateStep(r)
  PROVE  TransactionInv'
<1>1. /\ pc[r] = "update" /\ UNCHANGED <<in, got, marks>>
      /\ \A q \in Request \ {r} : pc'[q] = pc[q]
      /\ pc'[r] \in {"webhooks", "readBack", "done"}
  BY DEF UpdateStep, UpdateProduct_Update, UpdateOption_Update, UpdateValue_Update,
     DeleteValue_Update, DeleteProductOptionValue, At, Respond, Continue, Goto, locals, TypeInv, LocalsOK
<1>2. Domains /\ WorksOn(r)
  BY StoreDomains DEF TypeInv, TransactionInv, Transacts
<1>3. \A table : Kept(table, table, {})
  BY DEF Kept
<1>4. CASE UNCHANGED tables
  <2>1. UNCHANGED <<roots, options, values, products, bridges>>
    BY <1>4 DEF tables
  <2>2. OthersKept({})
    BY <2>1 DEF OthersKept, Kept
  <2>3. KeysUnique' /\ HangsFromVisible'
    BY <2>1 DEF TransactionInv, KeysUnique, HangsFromVisible, Live, Committed, Pending
  <2> QED BY <1>1, <2>2, <2>3, UpdateKeeps
<1>5. CASE UpdateProduct_Update(r)
  <2>1. UNCHANGED <<roots, options, values, bridges>>
    BY <1>5 DEF UpdateProduct_Update
  <2>2. Kept(products, products', {})
    <3>1. products \in [ProductId -> ProductRow]
      BY DEF TypeInv, StoreTypeOK
    <3> QED BY <1>2, <1>5, <3>1 DEF UpdateProduct_Update, UpdateProduct, Kept, Committed, ProductRow
  <2>3. OthersKept({})
    BY <1>3, <2>1, <2>2 DEF OthersKept
  <2>4. KeysUnique' /\ HangsFromVisible'
    BY <2>1 DEF TransactionInv, KeysUnique, HangsFromVisible, Live, Committed, Pending
  <2> QED BY <1>1, <2>3, <2>4, UpdateKeeps
<1>6. CASE UpdateOption_Update(r) /\ ~UNCHANGED tables
  <2>1. /\ UNCHANGED <<roots, values, products, bridges>>
        /\ UpdateProductOption(got[r], MergedRoot(r), MergedName(r))
        /\ ~OptionNameContended(r, MergedRoot(r), MergedName(r))
        /\ ~OptionNameTaken(got[r], MergedRoot(r), MergedName(r))
        /\ MergedRoot(r) \in Committed(roots) /\ in[r].op = "updateOption"
    BY <1>6 DEF UpdateOption_Update, At, tables
  <2>2. got[r] \in Committed(options)
    BY <1>1, <1>2, <2>1 DEF WorksOn
  <2>3. KeysUnique' /\ HangsFromVisible' /\ Kept(options, options', {})
    BY <1>1, <2>1, <2>2, UpdateOptionKeys
  <2>4. OthersKept({})
    BY <1>3, <2>1, <2>3 DEF OthersKept
  <2> QED BY <1>1, <2>3, <2>4, UpdateKeeps
<1>7. CASE UpdateValue_Update(r) /\ ~UNCHANGED tables
  <2>1. /\ UNCHANGED <<roots, options, products, bridges>>
        /\ UpdateProductOptionValue(got[r], in[r].text)
        /\ ~ValueContended(r, values[got[r]].option, in[r].text)
        /\ ~ValueTaken(got[r], values[got[r]].option, in[r].text)
        /\ in[r].op = "updateValue"
    BY <1>7 DEF UpdateValue_Update, At, tables
  <2>2. got[r] \in Committed(values)
    BY <1>1, <1>2, <2>1 DEF WorksOn
  <2>3. KeysUnique' /\ HangsFromVisible' /\ Kept(values, values', {})
    BY <1>1, <2>1, <2>2, UpdateValueKeys
  <2>4. OthersKept({})
    BY <1>3, <2>1, <2>3 DEF OthersKept
  <2> QED BY <1>1, <2>3, <2>4, UpdateKeeps
<1>8. CASE DeleteValue_Update(r)
  <2>1. /\ UNCHANGED <<roots, options, products, bridges>>
        /\ values' = [values EXCEPT ![got[r]].st = "archived"]
        /\ in[r].op = "deleteValue"
    BY <1>8 DEF DeleteValue_Update, DeleteProductOptionValue, At
  <2>2. got[r] \in Committed(values) /\ values \in [ValueId -> ValueRow]
    BY <1>1, <1>2, <2>1 DEF WorksOn, TypeInv, StoreTypeOK
  <2>3. /\ DOMAIN values' = ValueId
        /\ \A w \in ValueId : values'[w].option = values[w].option /\ values'[w].value = values[w].value
        /\ \A w \in ValueId \ {got[r]} : values'[w] = values[w]
        /\ got[r] \in ValueId /\ values'[got[r]].st = "archived"
    BY <2>1, <2>2 DEF ValueRow, Committed
  <2>4. Live(values)' = Live(values) /\ Live(values) \subseteq ValueId
    BY <2>2, <2>3 DEF Live, Committed, Pending
  <2>5. KeysUnique' /\ HangsFromVisible'
    BY <2>1, <2>3, <2>4 DEF TransactionInv, KeysUnique, HangsFromVisible, Live, Committed, Pending
  <2>6. Kept(values, values', {})
    BY <2>2, <2>3 DEF Kept, Committed
  <2>7. OthersKept({})
    BY <1>3, <2>1, <2>6 DEF OthersKept
  <2> QED BY <1>1, <2>5, <2>7, UpdateKeeps
<1> QED BY <1>4, <1>5, <1>6, <1>7, <1>8 DEF UpdateStep

-----------------------------------------------------------------------------
(* Inserts *)

LEMMA WrittenKept ==
  ASSUME NEW table, NEW rows, NEW r, \A i \in DOMAIN rows : i[1] = r,
         \A i \in DOMAIN table : i[1] = r => table[i].st \in {"absent", "pending"}
  PROVE  Kept(table, Written(table, rows), {r})
BY DEF Kept, Written

LEMMA WrittenPending ==
  ASSUME NEW table, NEW rows, NEW r, \A i \in DOMAIN rows : rows[i].st = "pending",
         \A i \in DOMAIN table : i[1] = r => table[i].st \in {"absent", "pending"}
  PROVE  \A i \in DOMAIN table : i[1] = r => Written(table, rows)[i].st \in {"absent", "pending"}
BY DEF Written

\* What an insert has to show.
LEMMA InsertKeeps ==
  ASSUME TypeInv, TypeInv', TransactionInv, NEW r \in Request,
         pc[r] \in {"insertRoot", "insertImages", "insertProducts", "insertOption", "insertValue"},
         UNCHANGED <<in, got, marks>>, \A q \in Request \ {r} : pc'[q] = pc[q],
         pc'[r] \in {"insertImages", "insertProducts", "commit", "leaked"},
         in[r].op \notin Deletions,
         OthersKept({r}), KeysUnique', HangsFromVisible', Stage(r)', LeaksNothing(r)'
  PROVE  TransactionInv'
<1>1. marks'[r] = NoMarks
  BY DEF TransactionInv, Transacts, MarksOK, Archiving
<1>2. MarksOK(r)'
  BY <1>1, NoMarksOK DEF MarksOK, NoMarks
<1>3. WorksOn(r)'
  BY DEF WorksOn, Deletions, Archiving
<1>4. Transacts(r)'
  BY <1>2, <1>3 DEF Transacts
<1> QED BY <1>4, StepKeeps

\* What createProductOptionAndValuesInDBFromInput leaves in the two tables.
LEMMA OptionsAndValuesRows ==
  ASSUME StoreTypeOK, NEW r \in Request, NEW root, NEW opts, CreateOptionsAndValues(r, root, opts)
  PROVE  /\ DOMAIN options' = OptionId /\ DOMAIN values' = ValueId
         /\ \A o \in OptionId :
              IF o[1] = r /\ o[2] \in DOMAIN opts
              THEN /\ options'[o].st = "pending" /\ options'[o].root = root
                   /\ options'[o].name = opts[o[2]].name
              ELSE options'[o] = options[o]
         /\ \A v \in ValueId :
              IF v[1] = r /\ v[2] \in DOMAIN opts /\ v[3] \in DOMAIN opts[v[2]].values
              THEN /\ values'[v].st = "pending" /\ values'[v].option = <<r, v[2]>>
                   /\ values'[v].value = opts[v[2]].values[v[3]]
              ELSE values'[v] = values[v]
<1>1. DOMAIN options = OptionId /\ DOMAIN values = ValueId
  BY DEF StoreTypeOK
<1>2. DOMAIN options' = OptionId /\ DOMAIN values' = ValueId
  BY <1>1 DEF CreateOptionsAndValues, Written
<1>3. ASSUME NEW o \in OptionId
      PROVE  IF o[1] = r /\ o[2] \in DOMAIN opts
             THEN /\ options'[o].st = "pending" /\ options'[o].root = root
                  /\ options'[o].name = opts[o[2]].name
             ELSE options'[o] = options[o]
  BY <1>1 DEF CreateOptionsAndValues, Written
<1>4. ASSUME NEW v \in ValueId
      PROVE  IF v[1] = r /\ v[2] \in DOMAIN opts /\ v[3] \in DOMAIN opts[v[2]].values
             THEN /\ values'[v].st = "pending" /\ values'[v].option = <<r, v[2]>>
                  /\ values'[v].value = opts[v[2]].values[v[3]]
             ELSE values'[v] = values[v]
  BY <1>1 DEF CreateOptionsAndValues, Written
<1> QED BY <1>2, <1>3, <1>4

LEMMA SameId ==
  /\ \A o, q \in OptionId : o[1] = q[1] /\ o[2] = q[2] => o = q
  /\ \A v, w \in ValueId : v[1] = w[1] /\ v[2] = w[2] /\ v[3] = w[3] => v = w
BY DEF OptionId, ValueId

\* The names and the values of a request that has inserted neither stay
\* unique, if those it inserts are.
LEMMA OptionsAndValuesKeys ==
  ASSUME TypeInv, TransactionInv, NEW r \in Request, NEW root, NEW opts,
         CreateOptionsAndValues(r, root, opts), ~RepeatsAKey(opts), roots' = roots,
         \A o \in OptionId : o[1] = r => options[o].st = "absent",
         \A v \in ValueId : v[1] = r => values[v].st = "absent",
         \A q \in Live(options), k \in DOMAIN opts :
           ~(options[q].root = root /\ options[q].name = opts[k].name),
         root \in Committed(roots) \/ root = <<r, 1>>
  PROVE  KeysUnique' /\ HangsFromVisible'
<1> DEFINE newOption(o) == o[1] = r /\ o[2] \in DOMAIN opts
           newValue(v) == v[1] = r /\ v[2] \in DOMAIN opts /\ v[3] \in DOMAIN opts[v[2]].values
<1>1. Domains
  BY StoreDomains DEF TypeInv
<1>2. /\ DOMAIN options' = OptionId /\ DOMAIN values' = ValueId
      /\ \A o \in OptionId :
           /\ newOption(o) => /\ options'[o].st = "pending" /\ options'[o].root = root
                              /\ options'[o].name = opts[o[2]].name
           /\ ~newOption(o) => options'[o] = options[o]
      /\ \A v \in ValueId :
           /\ newValue(v) => /\ values'[v].st = "pending" /\ values'[v].option = <<r, v[2]>>
                             /\ values'[v].value = opts[v[2]].values[v[3]]
           /\ ~newValue(v) => values'[v] = values[v]
  BY OptionsAndValuesRows DEF TypeInv
<1> HIDE DEF newOption, newValue
<1>3. /\ \A o \in Live(options)' : o \in OptionId /\ (newOption(o) \/ o \in Live(options))
      /\ \A v \in Live(values)' : v \in ValueId /\ (newValue(v) \/ v \in Live(values))
  BY <1>1, <1>2 DEF Live, Committed, Pending, Domains
<1>4. Committed(options)' = Committed(options) /\ Committed(roots)' = Committed(roots)
  <2>1. Committed(roots)' = Committed(roots)
    BY DEF Committed
  <2>2. \A o \in OptionId : newOption(o) => options[o].st = "absent"
    BY DEF newOption
  <2> QED BY <1>1, <1>2, <2>1, <2>2 DEF Committed, Domains
<1>5. \A v \in Live(values) : values[v].option[1] # r
  <2> SUFFICES ASSUME NEW v \in Live(values), values[v].option[1] = r PROVE FALSE
    OBVIOUS
  <2>1. v \in ValueId /\ v[1] # r
    BY <1>1 DEF Live, Committed, Pending, Domains
  <2>2. values[v].option \in Committed(options)
    BY <2>1 DEF TransactionInv, HangsFromVisible
  <2> QED BY <1>1, <2>2 DEF Committed, Domains
<1>6. ASSUME NEW o \in Live(options)', NEW q \in Live(options)',
             options'[o].root = options'[q].root, options'[o].name = options'[q].name
      PROVE  o = q
  <2>1. o \in OptionId /\ q \in OptionId
    BY <1>3
  <2>2. CASE ~newOption(o) /\ ~newOption(q)
    BY <1>2, <1>3, <1>6, <2>1, <2>2 DEF TransactionInv, KeysUnique
  <2>3. CASE newOption(o) /\ newOption(q)
    <3>1. opts[o[2]].name = opts[q[2]].name
      BY <1>2, <1>6, <2>1, <2>3
    <3>2. o[2] = q[2]
      BY <2>3, <3>1 DEF RepeatsAKey, newOption
    <3> QED BY <2>1, <2>3, <3>2, SameId DEF newOption
  <2>4. CASE newOption(o) /\ ~newOption(q)
    <3>1. options[q].root = root /\ options[q].name = opts[o[2]].name /\ q \in Live(options)
      BY <1>2, <1>3, <1>6, <2>1, <2>4
    <3> QED BY <2>4, <3>1 DEF newOption
  <2>5. CASE ~newOption(o) /\ newOption(q)
    <3>1. options[o].root = root /\ options[o].name = opts[q[2]].name /\ o \in Live(options)
      BY <1>2, <1>3, <1>6, <2>1, <2>5
    <3> QED BY <2>5, <3>1 DEF newOption
  <2> QED BY <2>2, <2>3, <2>4, <2>5
<1>7. ASSUME NEW v \in Live(values)', NEW w \in Live(values)',
             values'[v].option = values'[w].option, values'[v].value = values'[w].value
      PROVE  v = w
  <2>1. v \in ValueId /\ w \in ValueId
    BY <1>3
  <2>2. CASE ~newValue(v) /\ ~newValue(w)
    BY <1>2, <1>3, <1>7, <2>1, <2>2 DEF TransactionInv, KeysUnique
  <2>3. CASE newValue(v) /\ newValue(w)
    <3>1. /\ v[2] = w[2] /\ opts[v[2]].values[v[3]] = opts[w[2]].values[w[3]]
          /\ v[2] \in DOMAIN opts /\ v[3] \in DOMAIN opts[v[2]].values
          /\ w[3] \in DOMAIN opts[w[2]].values /\ v[1] = w[1]
      BY <1>2, <1>7, <2>1, <2>3 DEF newValue
    <3>2. v[3] = w[3]
      BY <3>1 DEF RepeatsAKey
    <3> QED BY <2>1, <3>1, <3>2, SameId
  <2>4. CASE newValue(v) /\ ~newValue(w)
    BY <1>2, <1>3, <1>5, <1>7, <2>1, <2>4
  <2>5. CASE ~newValue(v) /\ newValue(w)
    BY <1>2, <1>3, <1>5, <1>7, <2>1, <2>5
  <2> QED BY <2>2, <2>3, <2>4, <2>5
<1>8. KeysUnique'
  BY <1>6, <1>7 DEF KeysUnique
<1>9. ASSUME NEW o \in Live(options)'
      PROVE  options'[o].root \in Committed(roots)' \/ options'[o].root = <<o[1], 1>>
  <2>1. CASE newOption(o)
    BY <1>2, <1>3, <1>4, <1>9, <2>1 DEF newOption
  <2>2. CASE ~newOption(o)
    BY <1>2, <1>3, <1>4, <1>9, <2>2 DEF TransactionInv, HangsFromVisible
  <2> QED BY <2>1, <2>2
<1>10. ASSUME NEW v \in Live(values)'
       PROVE  values'[v].option \in Committed(options)' \/ values'[v].option[1] = v[1]
  <2>1. CASE newValue(v)
    BY <1>2, <1>3, <1>10, <2>1 DEF newValue
  <2>2. CASE ~newValue(v)
    BY <1>2, <1>3, <1>4, <1>10, <2>2 DEF TransactionInv, HangsFromVisible
  <2> QED BY <2>1, <2>2
<1> QED BY <1>8, <1>9, <1>10 DEF HangsFromVisible

LEMMA InsertRootKeeps ==
  ASSUME TypeInv, TypeInv', TransactionInv, NEW r \in Request, CreateProduct_InsertRoot(r)
  PROVE  TransactionInv'
<1>1. /\ At(r, "createProduct", "insertRoot") /\ pc'[r] = "insertImages"
      /\ roots' = Written(roots, [i \in {<<r, 1>>} |-> [st |-> "pending", prefix |-> in[r].sku]])
      /\ UNCHANGED <<options, values, products, bridges, marks, in, got>>
      /\ \A q \in Request \ {r} : pc'[q] = pc[q]
  BY DEF CreateProduct_InsertRoot, CreateProductRoot, Continue, Goto, locals, TypeInv, LocalsOK
<1>2. Domains /\ Domains' /\ RowsAre(r, {"absent"})
  BY <1>1, StoreDomains
     DEF TypeInv, StoreTypeOK, Domains, TransactionInv, Transacts, Stage, NothingWritten, Label,
         Statement, At
<1>3. \A i \in RootId : i # <<r, 1>> => roots'[i] = roots[i]
  BY <1>1, <1>2 DEF Written, Domains
<1>4. roots'[<<r, 1>>].st = "pending"
  BY <1>1, <1>2, DrawnIds DEF Written, Domains
<1>5. OnlyRoot(r)'
  BY <1>1, <1>2, <1>3, <1>4 DEF OnlyRoot, RowsAre
<1>6. OthersKept({r})
  <2>1. Kept(roots, roots', {r})
    BY <1>2, <1>3, DrawnIds DEF Kept, Domains, RowsAre
  <2> QED BY <1>1, <2>1 DEF OthersKept, Kept
<1>7. Committed(roots) \subseteq Committed(roots)'
  BY <1>2, <1>6, CommittedGrows
<1>8. KeysUnique' /\ HangsFromVisible'
  BY <1>1, <1>7 DEF TransactionInv, KeysUnique, HangsFromVisible, Live, Committed, Pending
<1>9. Stage(r)' /\ LeaksNothing(r)'
  BY <1>1, <1>5 DEF Stage, LeaksNothing, NothingWritten, At
<1> QED BY <1>1, <1>6, <1>8, <1>9, InsertKeeps DEF At, Deletions

LEMMA InsertImagesKeeps ==
  ASSUME TypeInv, TypeInv', TransactionInv, NEW r \in Request, CreateProduct_InsertImages(r)
  PROVE  TransactionInv'
<1>1. /\ At(r, "createProduct", "insertImages") /\ UNCHANGED <<in, got>>
      /\ \A q \in Request \ {r} : pc'[q] = pc[q]
      /\ \/ UNCHANGED <<tables, marks>> /\ pc'[r] \in {"insertProducts", "leaked"}
         \/ Rollback({r}) /\ pc'[r] = "done"
  BY DEF CreateProduct_InsertImages, Continue, Respond, RespondAndLeak, Goto, locals, TypeInv,
     LocalsOK
<1>2. OnlyRoot(r)
  BY <1>1 DEF TransactionInv, Transacts, Stage, At
<1>3. CASE Rollback({r}) /\ pc'[r] = "done"
  BY <1>1, <1>3, RollbackKeeps DEF At, Statement
<1>4. CASE UNCHANGED <<tables, marks>> /\ pc'[r] \in {"insertProducts", "leaked"}
  <2>1. UNCHANGED <<roots, options, values, products, bridges, marks>>
    BY <1>4 DEF tables
  <2>2. OthersKept({r})
    BY <2>1 DEF OthersKept, Kept
  <2>3. KeysUnique' /\ HangsFromVisible'
    BY <2>1 DEF TransactionInv, KeysUnique, HangsFromVisible, Live, Committed, Pending
  <2>4. OnlyRoot(r)' /\ RowsAre(r, {"absent", "pending"})'
    BY <1>2, <2>1 DEF OnlyRoot, RowsAre
  <2>5. Stage(r)'
    BY <1>1, <1>4, <2>4 DEF Stage, NothingWritten, At, Deletions
  <2>6. marks[r] = NoMarks
    BY <1>1 DEF TransactionInv, Transacts, MarksOK, At, Archiving
  <2>7. LeaksNothing(r)'
    <3>1. /\ \A o \in Pending(options)' : o[1] # r
          /\ \A v \in Pending(values)' : v[1] # r
      BY <2>4 DEF OnlyRoot, Pending, TypeInv, StoreTypeOK
    <3> QED BY <2>1, <2>6, <3>1 DEF LeaksNothing
  <2> QED BY <1>1, <1>4, <2>1, <2>2, <2>3, <2>5, <2>7, InsertKeeps DEF At, Deletions
<1> QED BY <1>1, <1>3, <1>4

LEMMA InsertProductKeeps ==
  ASSUME TypeInv, TypeInv', TransactionInv, NEW r \in Request, CreateProduct_InsertProduct(r)
  PROVE  TransactionInv'
<1> DEFINE row == [st |-> "pending", root |-> <<r, 1>>, sku |-> in[r].sku]
<1>1. /\ At(r, "createProduct", "insertProducts") /\ pc'[r] = "commit"
      /\ products' = Written(products, [p \in {<<r, 1>>} |-> row])
      /\ UNCHANGED <<roots, options, values, bridges, marks, in, got>>
      /\ \A q \in Request \ {r} : pc'[q] = pc[q]
  BY DEF CreateProduct_InsertProduct, CreateProduct, Continue, Goto, locals, TypeInv, LocalsOK
<1>2. Domains /\ OnlyRoot(r)
  BY <1>1, StoreDomains DEF TypeInv, TransactionInv, Transacts, Stage, At
<1>3. /\ \A p \in ProductId : p # <<r, 1>> => products'[p] = products[p]
      /\ products'[<<r, 1>>].st = "pending"
  BY <1>1, <1>2, DrawnIds DEF Written, Domains
<1>4. RowsAre(r, {"absent", "pending"})'
  BY <1>1, <1>2, <1>3 DEF OnlyRoot, RowsAre
<1>5. OthersKept({r})
  <2>1. Kept(products, products', {r})
    BY <1>2, <1>3, DrawnIds DEF Kept, Domains, OnlyRoot
  <2> QED BY <1>1, <2>1 DEF OthersKept, Kept
<1>6. KeysUnique' /\ HangsFromVisible'
  BY <1>1 DEF TransactionInv, KeysUnique, HangsFromVisible, Live, Committed, Pending
<1>7. Stage(r)' /\ LeaksNothing(r)'
  BY <1>1, <1>4 DEF Stage, LeaksNothing, NothingWritten, At, Deletions
<1> QED BY <1>1, <1>5, <1>6, <1>7, InsertKeeps DEF At, Deletions

\* What createProductOptionAndValuesInDBFromInput keeps of the two tables.
LEMMA OptionsAndValuesKept ==
  ASSUME StoreTypeOK, NEW r \in Request, NEW root, NEW opts, CreateOptionsAndValues(r, root, opts),
         \A o \in OptionId : o[1] = r => options[o].st = "absent",
         \A v \in ValueId : v[1] = r => values[v].st = "absent"
  PROVE  /\ Kept(options, options', {r}) /\ Kept(values, values', {r})
         /\ \A o \in OptionId : o[1] = r => options'[o].st \in {"absent", "pending"}
         /\ \A v \in ValueId : v[1] = r => values'[v].st \in {"absent", "pending"}
<1>1. Domains
  BY StoreDomains
<1>2. /\ \A o \in OptionId : /\ o[1] # r => options'[o] = options[o]
                             /\ o[1] = r => options'[o].st \in {"absent", "pending"}
      /\ \A v \in ValueId : /\ v[1] # r => values'[v] = values[v]
                            /\ v[1] = r => values'[v].st \in {"absent", "pending"}
  BY OptionsAndValuesRows
<1> QED BY <1>1, <1>2 DEF Kept, Domains

\* A panic among the options leaves options of its own root, and values of
\* its own options, and nothing anyone waits for.
LEMMA OptionsAndValuesLeak ==
  ASSUME StoreTypeOK, NEW r \in Request, NEW opts, CreateOptionsAndValues(r, <<r, 1>>, opts),
         roots' = roots, marks' = marks, marks[r] = NoMarks, OnlyRoot(r)
  PROVE  LeaksNothing(r)'
<1>1. Domains
  BY StoreDomains
<1>2. /\ DOMAIN options' = OptionId /\ DOMAIN values' = ValueId
      /\ \A o \in OptionId : o[1] = r =>
           IF o[2] \in DOMAIN opts
           THEN options'[o].st = "pending" /\ options'[o].root = <<r, 1>>
           ELSE options'[o].st = "absent"
      /\ \A v \in ValueId : v[1] = r =>
           IF v[2] \in DOMAIN opts /\ v[3] \in DOMAIN opts[v[2]].values
           THEN values'[v].option = <<r, v[2]>>
           ELSE values'[v].st = "absent"
  BY OptionsAndValuesRows DEF OnlyRoot
<1>3. <<r, 1>> \in Pending(roots)'
  BY <1>1, DrawnIds DEF Pending, Domains, OnlyRoot
<1>4. \A o \in Pending(options)' : o[1] = r => options'[o].root \in Pending(roots)'
  BY <1>2, <1>3 DEF Pending
<1>5. ASSUME NEW v \in Pending(values)', v[1] = r
      PROVE  values'[v].option \in Pending(options)'
  <2>1. v \in ValueId /\ v[2] \in DOMAIN opts /\ values'[v].option = <<r, v[2]>>
    BY <1>2, <1>5 DEF Pending
  <2>2. <<r, v[2]>> \in OptionId
    BY <2>1, DrawnIds DEF ValueId
  <2> QED BY <1>2, <2>1, <2>2 DEF Pending
<1> QED BY <1>4, <1>5 DEF LeaksNothing

LEMMA InsertVariantsKeeps ==
  ASSUME TypeInv, TypeInv', TransactionInv, NEW r \in Request, CreateProduct_InsertVariants(r)
  PROVE  TransactionInv'
<1> DEFINE opts == in[r].options
           texts == opts[1].values
           drawn == {p \in ProductId : p[1] = r /\ p[2] \in DOMAIN texts}
           newProducts == [p \in drawn |-> [st |-> "pending", root |-> <<r, 1>>,
                             sku |-> Append(in[r].sku, Lower[texts[p[2]]])]]
           newBridges == [p \in drawn |-> [st |-> "pending", values |-> {<<r, 1, p[2]>>}]]
<1>1. /\ At(r, "createProduct", "insertProducts") /\ UNCHANGED <<in, got>>
      /\ \A q \in Request \ {r} : pc'[q] = pc[q]
      /\ \/ Rollback({r}) /\ pc'[r] = "done"
         \/ /\ ~RepeatsAKey(opts) /\ CreateOptionsAndValues(r, <<r, 1>>, opts)
            /\ UNCHANGED <<roots, marks>>
            /\ \/ CreateVariants(r, in[r].sku, texts) /\ pc'[r] = "commit"
               \/ UNCHANGED <<products, bridges>> /\ pc'[r] \in {"commit", "leaked"}
  BY DEF CreateProduct_InsertVariants, Continue, Respond, RespondAndLeak, Goto, locals, TypeInv,
     LocalsOK
<1>2. OnlyRoot(r) /\ Domains
  BY <1>1, StoreDomains DEF TypeInv, TransactionInv, Transacts, Stage, At
<1>3. CASE Rollback({r}) /\ pc'[r] = "done"
  BY <1>1, <1>3, RollbackKeeps DEF At, Statement
<1>4. CASE /\ ~RepeatsAKey(opts) /\ CreateOptionsAndValues(r, <<r, 1>>, opts)
           /\ UNCHANGED <<roots, marks>>
           /\ \/ CreateVariants(r, in[r].sku, texts) /\ pc'[r] = "commit"
              \/ UNCHANGED <<products, bridges>> /\ pc'[r] \in {"commit", "leaked"}
  <2>1. /\ Kept(options, options', {r}) /\ Kept(values, values', {r})
        /\ \A o \in OptionId : o[1] = r => options'[o].st \in {"absent", "pending"}
        /\ \A v \in ValueId : v[1] = r => values'[v].st \in {"absent", "pending"}
    BY <1>2, <1>4, OptionsAndValuesKept DEF TypeInv, OnlyRoot
  <2>2. /\ Kept(products, products', {r}) /\ Kept(bridges, bridges', {r})
        /\ \A p \in ProductId : p[1] = r => /\ products'[p].st \in {"absent", "pending"}
                                            /\ bridges'[p].st \in {"absent", "pending"}
    <3>1. CASE UNCHANGED <<products, bridges>>
      BY <1>2, <3>1 DEF Kept, OnlyRoot
    <3>2. CASE CreateVariants(r, in[r].sku, texts)
      <4>1. products' = Written(products, newProducts) /\ bridges' = Written(bridges, newBridges)
        BY <3>2 DEF CreateVariants, CreateMultipleProductVariantBridges
      <4>2. /\ \A p \in DOMAIN newProducts : p[1] = r /\ newProducts[p].st = "pending"
            /\ \A p \in DOMAIN newBridges : p[1] = r /\ newBridges[p].st = "pending"
        OBVIOUS
      <4>3. /\ \A p \in DOMAIN products : p[1] = r => products[p].st \in {"absent", "pending"}
            /\ \A p \in DOMAIN bridges : p[1] = r => bridges[p].st \in {"absent", "pending"}
        BY <1>2 DEF Domains, OnlyRoot
      <4> HIDE DEF newProducts, newBridges
      <4>4. Kept(products, products', {r}) /\ Kept(bridges, bridges', {r})
        BY <4>1, <4>2, <4>3, WrittenKept
      <4>5. /\ \A p \in DOMAIN products : p[1] = r => products'[p].st \in {"absent", "pending"}
            /\ \A p \in DOMAIN bridges : p[1] = r => bridges'[p].st \in {"absent", "pending"}
        BY <4>1, <4>2, <4>3 DEF Written
      <4> QED BY <1>2, <4>4, <4>5 DEF Domains
    <3> QED BY <1>4, <3>1, <3>2
  <2>3. OthersKept({r})
    <3>1. Kept(roots, roots', {r})
      BY <1>4 DEF Kept
    <3> QED BY <2>1, <2>2, <3>1 DEF OthersKept
  <2>4. RowsAre(r, {"absent", "pending"})'
    BY <1>2, <1>4, <2>1, <2>2 DEF RowsAre, OnlyRoot
  <2>5. KeysUnique' /\ HangsFromVisible'
    <3>1. \A q \in Live(options), k \in DOMAIN opts :
            ~(options[q].root = <<r, 1>> /\ options[q].name = opts[k].name)
      <4> SUFFICES ASSUME NEW q \in Live(options), options[q].root = <<r, 1>> PROVE FALSE
        OBVIOUS
      <4>1. q \in OptionId /\ q[1] # r
        BY <1>2 DEF Live, Committed, Pending, Domains, OnlyRoot
      <4>2. <<r, 1>> \in Committed(roots)
        BY <4>1 DEF TransactionInv, HangsFromVisible
      <4> QED BY <1>2, <4>2 DEF Committed, OnlyRoot
    <3>2. /\ \A o \in OptionId : o[1] = r => options[o].st = "absent"
          /\ \A v \in ValueId : v[1] = r => values[v].st = "absent"
      BY <1>2 DEF OnlyRoot
    <3> HIDE DEF opts
    <3> QED BY <1>4, <3>1, <3>2, OptionsAndValuesKeys
  <2>6. LeaksNothing(r)'
    <3>1. marks[r] = NoMarks
      BY <1>1 DEF TransactionInv, Transacts, MarksOK, At, Archiving
    <3> QED BY <1>2, <1>4, <3>1, OptionsAndValuesLeak DEF TypeInv
  <2>7. Stage(r)'
    BY <1>1, <1>4, <2>4 DEF Stage, NothingWritten, At, Deletions
  <2> QED BY <1>1, <1>4, <2>3, <2>5, <2>6, <2>7, InsertKeeps DEF At, Deletions
<1> QED BY <1>1, <1>3, <1>4

LEMMA InsertOptionKeeps ==
  ASSUME TypeInv, TypeInv', TransactionInv, NEW r \in Request, CreateOption_Insert(r)
  PROVE  TransactionInv'
<1> DEFINE opts == in[r].options
           root == in[r].root
<1>1. /\ At(r, "createOption", "insertOption") /\ UNCHANGED <<in, got>>
      /\ \A q \in Request \ {r} : pc'[q] = pc[q]
      /\ \/ Rollback({r}) /\ pc'[r] = "done"
         \/ /\ ~OptionNameContended(r, root, opts[1].name)
            /\ ~OptionNameTaken(<<r, 1>>, root, opts[1].name)
            /\ ~RepeatsAKey(opts) /\ CreateOptionsAndValues(r, root, opts)
            /\ pc'[r] = "commit" /\ UNCHANGED <<roots, products, bridges, marks>>
  BY DEF CreateOption_Insert, Continue, Respond, Goto, locals, TypeInv, LocalsOK
<1>2. Domains /\ RowsAre(r, {"absent"}) /\ root \in Committed(roots)
  BY <1>1, StoreDomains DEF TypeInv, TransactionInv, Transacts, Stage, WorksOn, NothingWritten,
     Label, Statement, At
<1>3. CASE Rollback({r}) /\ pc'[r] = "done"
  BY <1>1, <1>3, RollbackKeeps DEF At, Statement
<1>4. CASE /\ ~OptionNameContended(r, root, opts[1].name)
           /\ ~OptionNameTaken(<<r, 1>>, root, opts[1].name)
           /\ ~RepeatsAKey(opts) /\ CreateOptionsAndValues(r, root, opts)
           /\ pc'[r] = "commit" /\ UNCHANGED <<roots, products, bridges, marks>>
  <2>1. /\ \A o \in OptionId : o[1] = r => options[o].st = "absent"
        /\ \A v \in ValueId : v[1] = r => values[v].st = "absent"
    BY <1>2 DEF RowsAre
  <2>2. /\ Kept(options, options', {r}) /\ Kept(values, values', {r})
        /\ \A o \in OptionId : o[1] = r => options'[o].st \in {"absent", "pending"}
        /\ \A v \in ValueId : v[1] = r => values'[v].st \in {"absent", "pending"}
    BY <1>4, <2>1, OptionsAndValuesKept DEF TypeInv
  <2>3. OthersKept({r})
    <3>1. Kept(roots, roots', {r}) /\ Kept(products, products', {r}) /\ Kept(bridges, bridges', {r})
      BY <1>4 DEF Kept
    <3> QED BY <2>2, <3>1 DEF OthersKept
  <2>4. RowsAre(r, {"absent", "pending"})'
    BY <1>2, <1>4, <2>2 DEF RowsAre
  <2>5. \A k \in DOMAIN opts : opts[k].name = opts[1].name
    <3>1. Len(opts) = 1 /\ opts \in Seq(NewOption)
      <4>1. in[r] \in Inputs /\ in[r].op = "createOption"
        BY <1>1, RequestFields DEF At, Statement
      <4> QED BY <4>1, InputFields, InputsAssumption
    <3> QED BY <3>1
  <2>6. \A q \in Live(options), k \in DOMAIN opts :
          ~(options[q].root = root /\ options[q].name = opts[k].name)
    <3> SUFFICES ASSUME NEW q \in Live(options), options[q].root = root,
                        options[q].name = opts[1].name
                 PROVE  FALSE
      BY <2>5
    <3>1. q \in OptionId /\ q[1] # r /\ q # <<r, 1>>
      BY <1>2, <2>1 DEF Live, Committed, Pending, Domains
    <3>2. CASE q \in Pending(options)
      BY <1>4, <3>1, <3>2 DEF OptionNameContended
    <3>3. CASE q \in Committed(options)
      BY <1>4, <3>1, <3>3 DEF OptionNameTaken
    <3> QED BY <3>2, <3>3 DEF Live
  <2> HIDE DEF opts, root
  <2>7. KeysUnique' /\ HangsFromVisible'
    BY <1>2, <1>4, <2>1, <2>6, OptionsAndValuesKeys
  <2>8. LeaksNothing(r)' /\ Stage(r)'
    BY <1>1, <1>4, <2>4 DEF LeaksNothing, Stage, NothingWritten, At, Deletions
  <2> QED BY <1>1, <1>4, <2>3, <2>7, <2>8, InsertKeeps DEF At, Deletions
<1> QED BY <1>1, <1>3, <1>4

LEMMA InsertValueKeeps ==
  ASSUME TypeInv, TypeInv', TransactionInv, NEW r \in Request, CreateValue_Insert(r)
  PROVE  TransactionInv'
<1> DEFINE option == in[r].option
           text == in[r].text
           row == [st |-> "pending", option |-> option, value |-> text]
<1>1. /\ At(r, "createValue", "insertValue") /\ UNCHANGED <<in, got>>
      /\ \A q \in Request \ {r} : pc'[q] = pc[q]
      /\ \/ Rollback({r}) /\ pc'[r] = "done"
         \/ /\ ~ValueContended(r, option, text) /\ ~ValueTaken(<<r, 1, 1>>, option, text)
            /\ values' = Written(values, [v \in {<<r, 1, 1>>} |-> row])
            /\ pc'[r] = "commit" /\ UNCHANGED <<roots, options, products, bridges, marks>>
  BY DEF CreateValue_Insert, CreateProductOptionValue, Continue, Respond, Goto, locals, TypeInv,
     LocalsOK
<1>2. Domains /\ RowsAre(r, {"absent"}) /\ option \in Committed(options)
  BY <1>1, StoreDomains DEF TypeInv, TransactionInv, Transacts, Stage, WorksOn, NothingWritten,
     Label, Statement, At
<1>3. CASE Rollback({r}) /\ pc'[r] = "done"
  BY <1>1, <1>3, RollbackKeeps DEF At, Statement
<1>4. CASE /\ ~ValueContended(r, option, text) /\ ~ValueTaken(<<r, 1, 1>>, option, text)
           /\ values' = Written(values, [v \in {<<r, 1, 1>>} |-> row])
           /\ pc'[r] = "commit" /\ UNCHANGED <<roots, options, products, bridges, marks>>
  <2>1. /\ DOMAIN values' = ValueId /\ <<r, 1, 1>> \in ValueId
        /\ \A v \in ValueId \ {<<r, 1, 1>>} : values'[v] = values[v]
        /\ values'[<<r, 1, 1>>].st = "pending" /\ values'[<<r, 1, 1>>].option = option
        /\ values'[<<r, 1, 1>>].value = text
    BY <1>2, <1>4, DrawnIds DEF Written, Domains
  <2>2. \A v \in ValueId : v[1] = r => values[v].st = "absent"
    BY <1>2 DEF RowsAre
  <2>3. OthersKept({r})
    <3>1. Kept(values, values', {r})
      BY <1>2, <2>1, <2>2 DEF Kept, Domains
    <3> QED BY <1>4, <3>1 DEF OthersKept, Kept
  <2>4. RowsAre(r, {"absent", "pending"})'
    BY <1>2, <1>4, <2>1 DEF RowsAre
  <2>5. Live(values)' \subseteq Live(values) \cup {<<r, 1, 1>>} /\ Live(values) \subseteq ValueId
        /\ <<r, 1, 1>> \notin Live(values)
    BY <1>2, <2>1, <2>2 DEF Live, Committed, Pending, Domains
  <2>6. \A w \in Live(values) : ~(values[w].option = option /\ values[w].value = text)
    <3> SUFFICES ASSUME NEW w \in Live(values), values[w].option = option, values[w].value = text
                 PROVE  FALSE
      OBVIOUS
    <3>1. w \in ValueId /\ w[1] # r /\ w # <<r, 1, 1>>
      BY <1>2, <2>2, <2>5 DEF Live, Committed, Pending, Domains
    <3>2. CASE w \in Pending(values)
      BY <1>4, <3>1, <3>2 DEF ValueContended
    <3>3. CASE w \in Committed(values)
      BY <1>4, <3>1, <3>3 DEF ValueTaken
    <3> QED BY <3>2, <3>3 DEF Live
  <2>7. Live(options)' = Live(options) /\ Committed(options)' = Committed(options)
        /\ Committed(roots)' = Committed(roots)
    BY <1>4 DEF Live, Committed, Pending
  <2>8. KeysUnique'
    <3>1. \A o, q \in Live(options)' :
            options'[o].root = options'[q].root /\ options'[o].name = options'[q].name => o = q
      BY <1>4, <2>7 DEF TransactionInv, KeysUnique
    <3>2. ASSUME NEW v \in Live(values)', NEW w \in Live(values)',
                 values'[v].option = values'[w].option, values'[v].value = values'[w].value
          PROVE  v = w
      <4>1. CASE v # <<r, 1, 1>> /\ w # <<r, 1, 1>>
        <5>1. /\ v \in Live(values) /\ w \in Live(values)
              /\ values'[v] = values[v] /\ values'[w] = values[w]
          BY <2>1, <2>5, <3>2, <4>1
        <5> QED BY <3>2, <5>1 DEF TransactionInv, KeysUnique
      <4>2. CASE v = <<r, 1, 1>> \/ w = <<r, 1, 1>>
        <5>1. \A u \in Live(values)' \ {<<r, 1, 1>>} :
                ~(values'[u].option = option /\ values'[u].value = text)
          BY <2>1, <2>5, <2>6
        <5>2. values'[<<r, 1, 1>>].option = option /\ values'[<<r, 1, 1>>].value = text
          BY <2>1
        <5>3. v = <<r, 1, 1>> => w = <<r, 1, 1>>
          BY <3>2, <5>1, <5>2
        <5>4. w = <<r, 1, 1>> => v = <<r, 1, 1>>
          BY <3>2, <5>1, <5>2
        <5> QED BY <4>2, <5>3, <5>4
      <4> QED BY <4>1, <4>2
    <3> QED BY <3>1, <3>2 DEF KeysUnique
  <2>9. HangsFromVisible'
    <3>1. HangsFromVisible
      BY DEF TransactionInv
    <3>2. \A v \in Live(values)' :
            values'[v].option \in Committed(options) \/ values'[v].option[1] = v[1]
      <4> TAKE v \in Live(values)'
      <4>1. CASE v = <<r, 1, 1>>
        BY <1>2, <2>1, <4>1
      <4>2. CASE v # <<r, 1, 1>>
        BY <2>1, <2>5, <3>1, <4>2 DEF HangsFromVisible
      <4> QED BY <4>1, <4>2
    <3> QED BY <1>4, <2>7, <3>1, <3>2 DEF HangsFromVisible
  <2>10. LeaksNothing(r)' /\ Stage(r)'
    BY <1>1, <1>4, <2>4 DEF LeaksNothing, Stage, NothingWritten, At, Deletions
  <2> QED BY <1>1, <1>4, <2>3, <2>8, <2>9, <2>10, InsertKeeps DEF At, Deletions
<1> QED BY <1>1, <1>3, <1>4

LEMMA InsertStepKeeps ==
  ASSUME TypeInv, TypeInv', TransactionInv, NEW r \in Request, InsertStep(r)
  PROVE  TransactionInv'
BY InsertRootKeeps, InsertImagesKeeps, InsertProductKeeps, InsertVariantsKeeps, InsertOptionKeeps,
   InsertValueKeeps DEF InsertStep

-----------------------------------------------------------------------------

LEMMA TransactionNext ==
  ASSUME TypeInv, TransactionInv, [Next]_vars
  PROVE  TransactionInv'
<1>1. TypeInv'
  BY NextType
<1>2. CASE UNCHANGED vars
  BY <1>2 DEF vars, tables, locals, TransactionInv, SeedRows, KeysUnique, HangsFromVisible, Live,
     Committed, Pending, Transacts, Stage, RowsAre, OnlyRoot, MarksOK, At, WorksOn, LeaksNothing
<1>3. ASSUME NEW r \in Request, Arrive(r) PROVE TransactionInv'
  BY <1>1, <1>3, ArriveKeeps
<1>4. ASSUME NEW r \in Request, Handle(r) PROVE TransactionInv'
  BY <1>1, <1>4, HandleSteps, ReadStepKeeps, MarkStepKeeps, InsertStepKeeps, UpdateStepKeeps,
     EndStepKeeps, FindStepKeeps
<1>5. CASE ServerCrash
  BY <1>1, <1>5, CrashKeeps
<1> QED BY <1>2, <1>3, <1>4, <1>5 DEF Next, Quiescent

LEMMA TransactionInvariant == Spec => []TransactionInv
<1>1. Init => TypeInv /\ TransactionInv
  BY InitType, TransactionInit
<1>2. TypeInv /\ TransactionInv /\ [Next]_vars => (TypeInv /\ TransactionInv)'
  BY NextType, TransactionNext
<1> QED BY <1>1, <1>2, PTL DEF Spec

-----------------------------------------------------------------------------
(* What follows *)

LEMMA StagesAreAtomic ==
  ASSUME TypeInv, TransactionInv
  PROVE  CreationsAreAtomic
<1> SUFFICES
      ASSUME NEW r \in Request
      PROVE  LET committed(table) == \E i \in Committed(table) : i[1] = r
                 withheld(table) ==
                   \E i \in DOMAIN table : i[1] = r /\ table[i].st \in {"pending", "aborted"}
             IN ~ /\ \/ committed(roots) \/ committed(options) \/ committed(values)
                     \/ committed(products) \/ committed(bridges)
                  /\ \/ withheld(roots) \/ withheld(options) \/ withheld(values)
                     \/ withheld(products) \/ withheld(bridges)
  BY DEF CreationsAreAtomic
<1>1. Stage(r) /\ pc[r] \in Label /\ Domains
  BY StoreDomains DEF TransactionInv, Transacts, TypeInv, LocalsOK
<1>2. \/ RowsAre(r, {"absent", "pending"}) \/ RowsAre(r, {"absent", "aborted"})
      \/ RowsAre(r, {"absent", "active", "archived"})
  <2>1. RowsAre(r, {"absent"}) => RowsAre(r, {"absent", "pending"})
    BY DEF RowsAre
  <2>2. OnlyRoot(r) => RowsAre(r, {"absent", "pending"})
    BY DEF RowsAre, OnlyRoot
  <2> QED BY <1>1, <2>1, <2>2 DEF Stage, NothingWritten
<1>3. CASE RowsAre(r, {"absent", "pending"})
  BY <1>1, <1>3 DEF RowsAre, Committed, Domains
<1>4. CASE RowsAre(r, {"absent", "aborted"})
  BY <1>1, <1>4 DEF RowsAre, Committed, Domains
<1>5. CASE RowsAre(r, {"absent", "active", "archived"})
  BY <1>1, <1>5 DEF RowsAre, Domains
<1> QED BY <1>2, <1>3, <1>4, <1>5

\* The rows a request inserts become visible together or not at all: a product
\* is never seen without its root, options, values and bridges, whatever
\* statement of buildProductCreationHandler fails, panics or is cut short.
THEOREM CreationAtomicity == Spec => []CreationsAreAtomic
BY TypeInvariant, TransactionInvariant, StagesAreAtomic, PTL

\* No option name is active twice under one root and no value twice under one
\* option, though the existence checks of both creations race with every other
\* request: what ends the race is the two unique indexes, and the waits in them.
THEOREM KeyUniqueness == Spec => []ActiveKeysAreUnique
<1>1. TransactionInv => ActiveKeysAreUnique
  BY DEF TransactionInv, KeysUnique, ActiveKeysAreUnique, Live, Committed, Active
<1> QED BY <1>1, TransactionInvariant, PTL

\* A transaction left open by buildProductOptionDeletionHandler, or by a panic
\* among the options of a new product, holds no row and no key another
\* request waits for.
THEOREM LeakHarmless == Spec => []LeakedTransactionsBlockNobody
<1>1. TransactionInv => LeakedTransactionsBlockNobody
  BY DEF TransactionInv, Transacts, LeaksNothing, LeakedTransactionsBlockNobody
<1> QED BY <1>1, TransactionInvariant, PTL

-----------------------------------------------------------------------------
(* The tables as other transactions see them implement SoftDelete *)

Turned(old, new, from, to) ==
  \A i \in DOMAIN old :
    \/ Shown(new[i]) = Shown(old[i])
    \/ Shown(old[i]) = from /\ Shown(new[i]) = to

RowsTurn(from, to) ==
  /\ Turned(roots, roots', from, to) /\ Turned(options, options', from, to)
  /\ Turned(values, values', from, to) /\ Turned(products, products', from, to)

ShowsNothing(old, new) == \A i \in DOMAIN old : Shown(new[i]) = Shown(old[i])

RowsStay ==
  /\ ShowsNothing(roots, roots') /\ ShowsNothing(options, options')
  /\ ShowsNothing(values, values') /\ ShowsNothing(products, products')

LEMMA StayTurns ==
  ASSUME RowsStay, NEW from, NEW to
  PROVE  RowsTurn(from, to)
BY DEF RowsStay, ShowsNothing, RowsTurn, Turned

LEMMA RowStateType ==
  rowState \in [CatalogRow -> Soft!States] /\ rowState' \in [CatalogRow -> Soft!States]
<1>1. \A row : Shown(row) \in Soft!States
  BY DEF Shown, Soft!States
<1>2. ASSUME NEW x \in CatalogRow PROVE rowState[x] \in Soft!States
  BY <1>1 DEF rowState, CatalogRow
<1>3. ASSUME NEW x \in CatalogRow PROVE rowState'[x] \in Soft!States
  BY <1>1 DEF rowState, CatalogRow
<1>4. rowState \in [CatalogRow -> Soft!States]
  BY <1>2 DEF rowState
<1>5. rowState' \in [CatalogRow -> Soft!States]
  BY <1>3 DEF rowState
<1> QED BY <1>4, <1>5

LEMMA RowsTurnSoftly ==
  ASSUME Domains, NEW from, NEW to, RowsTurn(from, to)
  PROVE  Soft!Turns(from, to)
<1> SUFFICES ASSUME NEW x \in CatalogRow
             PROVE  \/ rowState'[x] = rowState[x]
                    \/ rowState[x] = from /\ rowState'[x] = to
  BY DEF Soft!Turns
<1>1. CASE x \in {"root"} \X RootId
  <2>1. /\ x[2] \in RootId /\ rowState[x] = Shown(roots[x[2]])
        /\ rowState'[x] = Shown(roots'[x[2]])
    BY <1>1 DEF rowState, CatalogRow
  <2> QED BY <2>1 DEF RowsTurn, Turned, Domains
<1>2. CASE x \in {"option"} \X OptionId
  <2>1. /\ x[2] \in OptionId /\ rowState[x] = Shown(options[x[2]])
        /\ rowState'[x] = Shown(options'[x[2]])
    BY <1>2 DEF rowState, CatalogRow
  <2> QED BY <2>1 DEF RowsTurn, Turned, Domains
<1>3. CASE x \in {"value"} \X ValueId
  <2>1. /\ x[2] \in ValueId /\ rowState[x] = Shown(values[x[2]])
        /\ rowState'[x] = Shown(values'[x[2]])
    BY <1>3 DEF rowState, CatalogRow
  <2> QED BY <2>1 DEF RowsTurn, Turned, Domains
<1>4. CASE x \in {"product"} \X ProductId
  <2>1. /\ x[2] \in ProductId /\ rowState[x] = Shown(products[x[2]])
        /\ rowState'[x] = Shown(products'[x[2]])
    BY <1>4 DEF rowState, CatalogRow
  <2> QED BY <2>1 DEF RowsTurn, Turned, Domains
<1> QED BY <1>1, <1>2, <1>3, <1>4 DEF CatalogRow

\* A rollback shows nothing: it aborts rows nobody else has seen.
LEMMA RollbackStays ==
  ASSUME StoreTypeOK, NEW rs \in SUBSET Request, Rollback(rs)
  PROVE  RowsStay
<1>1. ShowsNothing(roots, roots')
  BY RollbackRows, StoreDomains DEF Domains, ShowsNothing, Shown
<1>2. ShowsNothing(options, options')
  BY RollbackRows, StoreDomains DEF Domains, ShowsNothing, Shown
<1>3. ShowsNothing(values, values')
  BY RollbackRows, StoreDomains DEF Domains, ShowsNothing, Shown
<1>4. ShowsNothing(products, products')
  BY RollbackRows, StoreDomains DEF Domains, ShowsNothing, Shown
<1> QED BY <1>1, <1>2, <1>3, <1>4 DEF RowsStay

\* A commit shows the rows of a creation, or archives those of a deletion.
LEMMA CommitTurns ==
  ASSUME TypeInv, TransactionInv, NEW r \in Request, Commit(r), pc[r] = "commit"
  PROVE  RowsTurn("absent", "active") \/ RowsTurn("active", "archived")
<1>1. StoreTypeOK /\ Domains /\ Stage(r) /\ MarksOK(r)
  BY StoreDomains DEF TypeInv, TransactionInv, Transacts
<1>2. CASE marks[r] = NoMarks
  <2>1. marks[r].roots = {} /\ marks[r].options = {} /\ marks[r].values = {}
        /\ marks[r].products = {}
    BY <1>2 DEF NoMarks
  <2>2. Turned(roots, roots', "absent", "active")
    BY <1>1, <2>1, CommitRows DEF Turned, Shown, Domains
  <2>3. Turned(options, options', "absent", "active")
    BY <1>1, <2>1, CommitRows DEF Turned, Shown, Domains
  <2>4. Turned(values, values', "absent", "active")
    BY <1>1, <2>1, CommitRows DEF Turned, Shown, Domains
  <2>5. Turned(products, products', "absent", "active")
    BY <1>1, <2>1, CommitRows DEF Turned, Shown, Domains
  <2> QED BY <2>2, <2>3, <2>4, <2>5 DEF RowsTurn
<1>3. CASE marks[r] # NoMarks
  <2>1. RowsAre(r, {"absent"})
    BY <1>1, <1>3 DEF MarksOK, Stage
  <2>2. Turned(roots, roots', "active", "archived")
    BY <1>1, <2>1, CommitRows DEF Turned, Shown, Domains, RowsAre, MarksOK, Committed
  <2>3. Turned(options, options', "active", "archived")
    BY <1>1, <2>1, CommitRows DEF Turned, Shown, Domains, RowsAre, MarksOK, Committed
  <2>4. Turned(values, values', "active", "archived")
    BY <1>1, <2>1, CommitRows DEF Turned, Shown, Domains, RowsAre, MarksOK, Committed
  <2>5. Turned(products, products', "active", "archived")
    BY <1>1, <2>1, CommitRows DEF Turned, Shown, Domains, RowsAre, MarksOK, Committed
  <2> QED BY <2>2, <2>3, <2>4, <2>5 DEF RowsTurn
<1> QED BY <1>2, <1>3

\* An insert shows nothing: the rows are pending.
LEMMA WrittenStays ==
  ASSUME NEW table, NEW rows, NEW r, \A i \in DOMAIN rows : i[1] = r /\ rows[i].st = "pending",
         \A i \in DOMAIN table : i[1] = r => table[i].st \in {"absent", "pending"}
  PROVE  ShowsNothing(table, Written(table, rows))
BY DEF Written, Shown, ShowsNothing

LEMMA InsertStays ==
  ASSUME TypeInv, TransactionInv, NEW r \in Request, InsertStep(r)
  PROVE  RowsStay
<1>1. StoreTypeOK /\ Domains /\ Stage(r)
  BY StoreDomains DEF TypeInv, TransactionInv, Transacts
<1>2. RowsAre(r, {"absent"}) \/ OnlyRoot(r)
  BY <1>1 DEF InsertStep, CreateProduct_InsertRoot, CreateProduct_InsertImages,
     CreateProduct_InsertProduct, CreateProduct_InsertVariants, CreateOption_Insert,
     CreateValue_Insert, At, Stage, NothingWritten, Label, Statement
<1>3. /\ \A i \in DOMAIN roots : i[1] = r => roots[i].st \in {"absent", "pending"}
      /\ \A i \in DOMAIN options : i[1] = r => options[i].st \in {"absent", "pending"}
      /\ \A i \in DOMAIN values : i[1] = r => values[i].st \in {"absent", "pending"}
      /\ \A i \in DOMAIN products : i[1] = r => products[i].st \in {"absent", "pending"}
  BY <1>1, <1>2 DEF RowsAre, OnlyRoot, Domains
<1>4. CASE UNCHANGED tables
  BY <1>4 DEF RowsStay, ShowsNothing, tables
<1>5. CASE Rollback({r})
  BY <1>1, <1>5, RollbackStays
<1>6. ASSUME NEW root, NEW opts, CreateOptionsAndValues(r, root, opts)
      PROVE  ShowsNothing(options, options') /\ ShowsNothing(values, values')
  <2>1. /\ \A o \in OptionId : options'[o] = options[o]
                               \/ (o[1] = r /\ options'[o].st = "pending")
        /\ \A v \in ValueId : values'[v] = values[v] \/ (v[1] = r /\ values'[v].st = "pending")
    BY <1>1, <1>6, OptionsAndValuesRows
  <2> QED BY <1>1, <1>3, <2>1 DEF Domains, Shown, ShowsNothing
<1>7. CASE CreateProduct_InsertRoot(r)
  <2> DEFINE rows == [i \in {<<r, 1>>} |-> [st |-> "pending", prefix |-> in[r].sku]]
  <2>1. roots' = Written(roots, rows) /\ UNCHANGED <<options, values, products>>
    BY <1>7 DEF CreateProduct_InsertRoot, CreateProductRoot
  <2>2. \A i \in DOMAIN rows : i[1] = r /\ rows[i].st = "pending"
    OBVIOUS
  <2> HIDE DEF rows
  <2>3. ShowsNothing(roots, Written(roots, rows))
    BY <1>3, <2>2, WrittenStays
  <2> QED BY <1>1, <2>1, <2>3 DEF RowsStay, ShowsNothing, Domains
<1>8. CASE CreateProduct_InsertProduct(r)
  <2> DEFINE rows == [p \in {<<r, 1>>} |-> [st |-> "pending", root |-> <<r, 1>>, sku |-> in[r].sku]]
  <2>1. products' = Written(products, rows) /\ UNCHANGED <<roots, options, values>>
    BY <1>8 DEF CreateProduct_InsertProduct, CreateProduct
  <2>2. \A i \in DOMAIN rows : i[1] = r /\ rows[i].st = "pending"
    OBVIOUS
  <2> HIDE DEF rows
  <2>3. ShowsNothing(products, Written(products, rows))
    BY <1>3, <2>2, WrittenStays
  <2> QED BY <1>1, <2>1, <2>3 DEF RowsStay, ShowsNothing, Domains
<1>9. CASE CreateProduct_InsertVariants(r) /\ ~Rollback({r})
  <2> DEFINE texts == in[r].options[1].values
             drawn == {p \in ProductId : p[1] = r /\ p[2] \in DOMAIN texts}
             rows == [p \in drawn |-> [st |-> "pending", root |-> <<r, 1>>,
                        sku |-> Append(in[r].sku, Lower[texts[p[2]]])]]
  <2>1. /\ roots' = roots /\ CreateOptionsAndValues(r, <<r, 1>>, in[r].options)
        /\ products' = products \/ products' = Written(products, rows)
    BY <1>9 DEF CreateProduct_InsertVariants, CreateVariants
  <2>2. \A i \in DOMAIN rows : i[1] = r /\ rows[i].st = "pending"
    OBVIOUS
  <2> HIDE DEF rows
  <2>3. ShowsNothing(products, Written(products, rows))
    BY <1>3, <2>2, WrittenStays
  <2> QED BY <1>1, <1>6, <2>1, <2>3 DEF RowsStay, ShowsNothing, Domains
<1>10. CASE CreateOption_Insert(r) /\ ~Rollback({r})
  <2>1. /\ CreateOptionsAndValues(r, in[r].root, in[r].options)
        /\ UNCHANGED <<roots, products>>
    BY <1>10 DEF CreateOption_Insert
  <2> QED BY <1>6, <2>1 DEF RowsStay, ShowsNothing
<1>11. CASE CreateValue_Insert(r) /\ ~Rollback({r})
  <2> DEFINE rows == [v \in {<<r, 1, 1>>} |->
                        [st |-> "pending", option |-> in[r].option, value |-> in[r].text]]
  <2>1. values' = Written(values, rows) /\ UNCHANGED <<roots, options, products>>
    BY <1>11 DEF CreateValue_Insert, CreateProductOptionValue
  <2>2. \A i \in DOMAIN rows : i[1] = r /\ rows[i].st = "pending"
    OBVIOUS
  <2> HIDE DEF rows
  <2>3. ShowsNothing(values, Written(values, rows))
    BY <1>3, <2>2, WrittenStays
  <2> QED BY <1>1, <2>1, <2>3 DEF RowsStay, ShowsNothing, Domains
<1>12. CASE CreateProduct_InsertImages(r)
  BY <1>4, <1>5, <1>12 DEF CreateProduct_InsertImages
<1> QED BY <1>5, <1>7, <1>8, <1>9, <1>10, <1>11, <1>12 DEF InsertStep

\* An UPDATE leaves archived_on alone; the deletion of a value sets it.
LEMMA UpdateTurns ==
  ASSUME TypeInv, TransactionInv, NEW r \in Request, UpdateStep(r)
  PROVE  RowsTurn("active", "archived")
<1>1. StoreTypeOK /\ WorksOn(r)
  BY DEF TypeInv, TransactionInv, Transacts
<1>2. \A table, from, to : Turned(table, table, from, to)
  BY DEF Turned
<1>3. CASE UpdateProduct_Update(r)
  <2>1. Turned(products, products', "active", "archived")
    BY <1>1, <1>3 DEF UpdateProduct_Update, UpdateProduct, Turned, Shown, StoreTypeOK, ProductRow,
       Committed
  <2> QED BY <1>2, <1>3, <2>1 DEF UpdateProduct_Update, RowsTurn
<1>4. CASE UpdateOption_Update(r)
  <2>1. got[r] \in OptionId
    BY <1>1, <1>4 DEF UpdateOption_Update, At, WorksOn, Committed, StoreTypeOK
  <2>2. Turned(options, options', "active", "archived")
    <3>1. CASE options' = options
      BY <3>1 DEF Turned
    <3>2. CASE UpdateProductOption(got[r], MergedRoot(r), MergedName(r))
      BY <1>1, <2>1, <3>2 DEF UpdateProductOption, Turned, Shown, StoreTypeOK, OptionRow
    <3> QED BY <1>4, <3>1, <3>2 DEF UpdateOption_Update
  <2> QED BY <1>2, <1>4, <2>2 DEF UpdateOption_Update, RowsTurn
<1>5. CASE UpdateValue_Update(r)
  <2>1. got[r] \in ValueId
    BY <1>1, <1>5 DEF UpdateValue_Update, At, WorksOn, Committed, StoreTypeOK
  <2>2. Turned(values, values', "active", "archived")
    <3>1. CASE values' = values
      BY <3>1 DEF Turned
    <3>2. CASE UpdateProductOptionValue(got[r], in[r].text)
      BY <1>1, <2>1, <3>2 DEF UpdateProductOptionValue, Turned, Shown, StoreTypeOK, ValueRow
    <3> QED BY <1>5, <3>1, <3>2 DEF UpdateValue_Update
  <2> QED BY <1>2, <1>5, <2>2 DEF UpdateValue_Update, RowsTurn
<1>6. CASE DeleteValue_Update(r)
  <2>1. got[r] \in ValueId /\ values[got[r]].st \in {"active", "archived"}
    BY <1>1, <1>6 DEF DeleteValue_Update, At, WorksOn, Committed, StoreTypeOK
  <2>2. Turned(values, values', "active", "archived")
    BY <1>1, <1>6, <2>1 DEF DeleteValue_Update, DeleteProductOptionValue, Turned, Shown,
       StoreTypeOK, ValueRow
  <2> QED BY <1>2, <1>6, <2>2 DEF DeleteValue_Update, RowsTurn
<1> QED BY <1>3, <1>4, <1>5, <1>6 DEF UpdateStep

LEMMA NextTurns ==
  ASSUME TypeInv, TransactionInv, [Next]_vars
  PROVE  RowsTurn("absent", "active") \/ RowsTurn("active", "archived")
<1>1. CASE UNCHANGED tables
  BY <1>1, StayTurns DEF tables, RowsStay, ShowsNothing
<1>2. ASSUME NEW rs \in SUBSET Request, Rollback(rs) PROVE RowsTurn("active", "archived")
  BY <1>2, RollbackStays, StayTurns DEF TypeInv
<1>3. ASSUME NEW r \in Request, Handle(r)
      PROVE  RowsTurn("absent", "active") \/ RowsTurn("active", "archived")
  <2>1. CASE ReadStep(r)
    BY <1>1, <2>1, ReadStepFrame
  <2>2. CASE MarkStep(r)
    BY <1>1, <1>2, <2>2, MarkStepFrame DEF MarksOnly
  <2>3. CASE InsertStep(r)
    BY <2>3, InsertStays, StayTurns
  <2>4. CASE UpdateStep(r)
    BY <2>4, UpdateTurns
  <2>5. CASE EndStep(r)
    <3>1. (Commit(r) /\ pc[r] = "commit") \/ Rollback({r}) \/ UNCHANGED tables
      BY <2>5 DEF EndStep, CommitSucceeds, CommitFails, StatementFails
    <3> QED BY <1>1, <1>2, <3>1, CommitTurns
  <2>6. CASE FindStep(r)
    BY <1>1, <2>6 DEF FindStep, DeleteProduct_Find, DeleteRoot_Find, GetProductRoot,
       DeleteOption_Find, GetProductOption, UpdateValue_Find, GetProductOptionValue,
       DeleteValue_Find, UpdateProduct_Find, UpdateOption_Find, Find
  <2> QED BY <1>3, <2>1, <2>2, <2>3, <2>4, <2>5, <2>6, HandleSteps
<1>4. CASE ServerCrash
  <2>1. PICK rs \in SUBSET Request : Rollback(rs)
    BY <1>4 DEF ServerCrash, InFlight
  <2> QED BY <1>2, <2>1
<1> QED BY <1>1, <1>3, <1>4 DEF Next, Arrive, Quiescent, vars

\* The product tables implement SoftDelete: whatever statements of whatever
\* requests interleave, fail or are cut short, a row appears once, with its
\* transaction's commit, is archived once, and no stale UPDATE of mergo's
\* merged copy takes its archived_on back.
THEOREM SoftDeletion == Spec => RowsAreSoftDeleted
<1>1. Init => Soft!Init
  BY RowStateType DEF Soft!Init, Soft!TypeOK
<1>2. ASSUME TypeInv, TypeInv', TransactionInv, [Next]_vars PROVE [Soft!Next]_rowState
  <2>1. Domains
    BY <1>2, StoreDomains DEF TypeInv
  <2>2. rowState' \in [CatalogRow -> Soft!States]
    BY RowStateType
  <2>3. Soft!Turns("absent", "active") \/ Soft!Turns("active", "archived")
    BY <1>2, <2>1, NextTurns, RowsTurnSoftly
  <2> QED BY <2>2, <2>3 DEF Soft!Next, Soft!Create, Soft!Archive
<1> QED
  BY <1>1, <1>2, TypeInvariant, TransactionInvariant, PTL DEF Spec, RowsAreSoftDeleted, Soft!Spec

=============================================================================

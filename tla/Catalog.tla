------------------------------- MODULE Catalog -------------------------------
(***************************************************************************)
(* The handlers of api/v1 that change the product tables: products,        *)
(* product roots, product options and option values.                       *)
(*                                                                         *)
(* net/http runs every request in a goroutine of its own.  A request is    *)
(* numbered in the order of arrival and goes through the statements of its *)
(* handler; pc names the statement it is about to run.  Between two        *)
(* statements any other request may run: the reads of a handler are made   *)
(* on db, outside the transaction its writes are made in.                  *)
(***************************************************************************)
EXTENDS CatalogStore

CONSTANTS
  Inputs,       \* the requests clients may send
  ValidSku,     \* the SKUs restrictedStringIsValid lets through
  MaxInFlight,  \* bound: how many requests are handled at a time
  Faults,       \* whether a statement may fail for reasons of its own
  MaxCrashes    \* bound: how often the server process dies

Operation == {"createProduct", "updateProduct", "deleteProduct", "deleteRoot",
              "createOption", "updateOption", "deleteOption",
              "createValue", "updateValue", "deleteValue"}

NewOption == [name : Text, values : Seq(Text)]

\* One record for all the requests; a field an operation has no use for is
\* None (or empty).  In updateProduct, product is the "id" of the body and
\* image its "primary_image_id"; images are numbered within their request.
Input == [op      : Operation,
          sku     : Sku,
          newSku  : Sku \cup {None},
          root    : RootId \cup {None},
          option  : OptionId \cup {None},
          value   : ValueId \cup {None},
          product : ProductId \cup {None},
          image   : (Request \X Nat) \cup {None},
          text    : Text \cup {None},
          options : Seq(NewOption),
          images  : {"valid", "invalid", "unknownType"}]

ASSUME InputsAssumption ==
  /\ Inputs \subseteq Input
  /\ None \notin RootId \cup OptionId \cup ValueId \cup ProductId \cup Text \cup Sku \cup Inputs
  /\ \A i \in Inputs :
       /\ Len(i.options) <= MaxRows
       /\ \A k \in DOMAIN i.options : Len(i.options[k].values) <= MaxRows
       /\ i.op = "createProduct" => i.sku \in ValidSku
       /\ i.op = "deleteRoot" => i.root \in RootId
       /\ i.op = "createOption" => i.root \in RootId /\ Len(i.options) = 1
       /\ i.op \in {"updateOption", "deleteOption", "createValue"} => i.option \in OptionId
       /\ i.op \in {"createValue", "updateValue"} => i.text \in Text
       /\ i.op \in {"updateValue", "deleteValue"} => i.value \in ValueId
  /\ MaxInFlight \in Nat
  /\ Faults \in BOOLEAN
  /\ MaxCrashes \in Nat

VARIABLES
  pc,      \* the statement the handler of a request runs next
  in,      \* the request
  got,     \* the id of the row the handler has read
  seen,    \* that row, as it was read
  status,  \* the HTTP status of the answer; 0 for no answer
  crashes  \* how often the server process has died

locals == <<in, got, seen>>
vars == <<tables, marks, pc, locals, status, crashes>>

Statement == {"exists", "nameFree", "find", "insertRoot", "insertImages", "insertProducts",
              "insertOption", "insertValue", "archiveBridges", "archiveValues",
              "archiveOptions", "archiveProducts", "archiveRoot", "update", "readBack",
              "commit", "webhooks"}

\* The statements that run inside the request's transaction.
InTransaction == {"insertRoot", "insertImages", "insertProducts", "insertOption",
                  "insertValue", "archiveBridges", "archiveValues", "archiveOptions",
                  "archiveProducts", "archiveRoot"}

\* "leaked": answered, or torn down by a panic, with its transaction open;
\* "dead": the process died under it.
Label == Statement \cup {"idle", "done", "leaked", "dead"}

TypeOK ==
  /\ StoreTypeOK
  /\ pc \in [Request -> Label]
  /\ in \in [Request -> Inputs \cup {None}]
  /\ got \in [Request -> RootId \cup OptionId \cup ValueId \cup ProductId \cup {None}]
  /\ seen \in [Request -> OptionRow \cup ProductRow \cup {None}]
  /\ status \in [Request -> {0, 200, 201, 400, 404, 500}]
  /\ crashes \in 0..MaxCrashes

Init ==
  /\ StoreInit
  /\ pc = [r \in Request |-> "idle"]
  /\ in = [r \in Request |-> None]
  /\ got = [r \in Request |-> None]
  /\ seen = [r \in Request |-> None]
  /\ status = [r \in Request |-> 0]
  /\ crashes = 0

-----------------------------------------------------------------------------
(* What all the handlers are made of *)

InFlight == {r \in Request : pc[r] \in Statement}

At(r, op, statement) == pc[r] = statement /\ in[r].op = op

Goto(r, label) == pc' = [pc EXCEPT ![r] = label]

Continue(r, statement) == Goto(r, statement) /\ UNCHANGED <<status, crashes>>

Respond(r, code) ==
  /\ Goto(r, "done")
  /\ status' = [status EXCEPT ![r] = code]
  /\ UNCHANGED crashes

RespondAndLeak(r, code) ==
  /\ Goto(r, "leaked")
  /\ status' = [status EXCEPT ![r] = code]
  /\ UNCHANGED crashes

\* A read that found the row id, kept for later, or none: 404.
Find(r, ids, next) ==
  /\ \/ /\ ids = {}
        /\ Respond(r, 404)
        /\ UNCHANGED got
     \/ \E id \in ids :
          /\ got' = [got EXCEPT ![r] = id]
          /\ Continue(r, next)
  /\ UNCHANGED <<tables, marks, in, seen>>

\* A request arrives; handlers differ in the statement they begin with.
Arrive(r) ==
  /\ pc[r] = "idle"
  /\ \A q \in Request : q < r => pc[q] # "idle"
  /\ Cardinality(InFlight) < MaxInFlight
  /\ \E i \in Inputs :
       /\ in' = [in EXCEPT ![r] = i]
       /\ Continue(r, IF i.op \in {"createProduct", "createOption", "createValue"}
                      THEN "exists" ELSE "find")
  /\ UNCHANGED <<tables, marks, got, seen>>

-----------------------------------------------------------------------------
(* POST /v1/product *)

\* What buildProductsFromOptions and the inserts of its products do with the
\* options of the request, none of them, or a list:
\*   "empty"   the first option has no value: no product is made;
\*   "panic"   another has none: an index out of range;
\*   "variant" one product per value of the only option;
\*   "badSQL"  with several options VALUES holds a row of rows, which the
\*             database refuses.
BuildOutcome(opts) ==
  CASE opts[1].values = <<>> -> "empty"
    [] opts[1].values # <<>> /\ (\E k \in DOMAIN opts : opts[k].values = <<>>) -> "panic"
    [] (\A k \in DOMAIN opts : opts[k].values # <<>>) /\ Len(opts) = 1 -> "variant"
    [] OTHER -> "badSQL"

CreateVariants(r, sku, texts) ==
  LET drawn == {p \in ProductId : p[1] = r /\ p[2] \in DOMAIN texts}
  IN /\ products' = Written(products,
          [p \in drawn |-> [st |-> "pending", root |-> <<r, 1>>,
                            sku |-> Append(sku, Lower[texts[p[2]]])]])
     /\ CreateMultipleProductVariantBridges(r, drawn)

CreateProduct_Exists_ErrAnd(r) ==  \* mutant: err != nil && exists
  /\ At(r, "createProduct", "exists")
  /\ Continue(r, "insertRoot")
  /\ UNCHANGED <<tables, marks, locals>>
CreateProduct_Exists(r) ==
  /\ At(r, "createProduct", "exists")
  /\ \/ ProductRootWithSKUPrefixExists(in[r].sku) /\ Respond(r, 400)
     \/ ~ProductRootWithSKUPrefixExists(in[r].sku) /\ Continue(r, "insertRoot")
  /\ UNCHANGED <<tables, marks, locals>>

CreateProduct_InsertRoot(r) ==
  /\ At(r, "createProduct", "insertRoot")
  /\ CreateProductRoot(r, in[r].sku)
  /\ Continue(r, "insertImages")
  /\ UNCHANGED <<options, values, products, bridges, marks, locals>>

\* An image of a type other than base64 and url is never loaded: making
\* thumbnails of it panics, and no deferred call ends the transaction.
CreateProduct_InsertImages(r) ==
  /\ At(r, "createProduct", "insertImages")
  /\ \/ in[r].images = "valid" /\ Continue(r, "insertProducts") /\ UNCHANGED <<tables, marks>>
     \/ in[r].images = "invalid" /\ Rollback({r}) /\ Respond(r, 500)
     \/ in[r].images = "unknownType" /\ RespondAndLeak(r, 0) /\ UNCHANGED <<tables, marks>>
  /\ UNCHANGED locals

CreateProduct_InsertProduct(r) ==
  /\ At(r, "createProduct", "insertProducts")
  /\ in[r].options = <<>>
  /\ CreateProduct(r, in[r].sku)
  /\ Continue(r, "commit")
  /\ UNCHANGED <<roots, options, values, bridges, marks, locals>>

CreateProduct_InsertVariants(r) ==
  /\ At(r, "createProduct", "insertProducts")
  /\ in[r].options # <<>>
  /\ LET opts == in[r].options
     IN \/ /\ RepeatsAKey(opts) \/ BuildOutcome(opts) = "badSQL"
           /\ Rollback({r})
           /\ Respond(r, 500)
        \/ /\ ~RepeatsAKey(opts) /\ BuildOutcome(opts) \in {"empty", "panic", "variant"}
           /\ CreateOptionsAndValues(r, <<r, 1>>, opts)
           /\ \/ /\ BuildOutcome(opts) = "variant"
                 /\ CreateVariants(r, in[r].sku, opts[1].values)
                 /\ Continue(r, "commit")
              \/ /\ BuildOutcome(opts) = "empty"
                 /\ Continue(r, "commit")
                 /\ UNCHANGED <<products, bridges>>
              \/ /\ BuildOutcome(opts) = "panic"
                 /\ RespondAndLeak(r, 0)
                 /\ UNCHANGED <<products, bridges>>
           /\ UNCHANGED <<roots, marks>>
  /\ UNCHANGED locals

-----------------------------------------------------------------------------
(* DELETE /v1/product/{sku} *)

DeleteProduct_Find(r) ==
  /\ At(r, "deleteProduct", "find")
  /\ Find(r, ProductsWithSKU(in[r].sku), "archiveBridges")

DeleteProduct_ArchiveBridges(r) ==
  /\ At(r, "deleteProduct", "archiveBridges")
  /\ DeleteProductVariantBridgeByProductID(r, got[r])
  /\ Continue(r, "archiveProducts")
  /\ UNCHANGED <<tables, locals>>

DeleteProduct_ArchiveProduct(r) ==
  /\ At(r, "deleteProduct", "archiveProducts")
  /\ DeleteProduct(r, got[r])
  /\ Continue(r, "commit")
  /\ UNCHANGED <<tables, locals>>

-----------------------------------------------------------------------------
(* DELETE /v1/product_root/{product_root_id} *)

DeleteRoot_Find(r) ==
  /\ At(r, "deleteRoot", "find")
  /\ Find(r, GetProductRoot(in[r].root), "archiveBridges")

DeleteRoot_ArchiveBridges(r) ==
  /\ At(r, "deleteRoot", "archiveBridges")
  /\ marks' = [marks EXCEPT ![r].bridges = BridgesOfRoot(got[r])]
  /\ Continue(r, "archiveValues")
  /\ UNCHANGED <<tables, locals>>

DeleteRoot_ArchiveValues(r) ==
  /\ At(r, "deleteRoot", "archiveValues")
  /\ \/ /\ ShareAValue(ValuesOfRoot(got[r]))
        /\ Rollback({r})
        /\ Respond(r, 500)
     \/ /\ ~ShareAValue(ValuesOfRoot(got[r]))
        /\ marks' = [marks EXCEPT ![r].values = ValuesOfRoot(got[r])]
        /\ Continue(r, "archiveOptions")
        /\ UNCHANGED tables
  /\ UNCHANGED locals

DeleteRoot_ArchiveOptions_Skipped(r) ==  \* mutant: the call left out
  /\ At(r, "deleteRoot", "archiveOptions")
  /\ Continue(r, "archiveProducts")
  /\ UNCHANGED <<tables, marks, locals>>
DeleteRoot_ArchiveOptions(r) ==
  /\ At(r, "deleteRoot", "archiveOptions")
  /\ marks' = [marks EXCEPT ![r].options = OptionsOfRoot(got[r])]
  /\ Continue(r, "archiveProducts")
  /\ UNCHANGED <<tables, locals>>

DeleteRoot_ArchiveProducts(r) ==
  /\ At(r, "deleteRoot", "archiveProducts")
  /\ \/ /\ ShareASku(ProductsOfRoot(got[r]))
        /\ Rollback({r})
        /\ Respond(r, 500)
     \/ /\ ~ShareASku(ProductsOfRoot(got[r]))
        /\ marks' = [marks EXCEPT ![r].products = ProductsOfRoot(got[r])]
        /\ Continue(r, "archiveRoot")
        /\ UNCHANGED tables
  /\ UNCHANGED locals

DeleteRoot_ArchiveRoot(r) ==
  /\ At(r, "deleteRoot", "archiveRoot")
  /\ DeleteProductRoot(r, got[r])
  /\ Continue(r, "commit")
  /\ UNCHANGED <<tables, locals>>

-----------------------------------------------------------------------------
(* PATCH /v1/product/{sku} *)

\* The SKU the row was found by, unless the body has another.  A variant
\* whose SKU an option value has made invalid takes no PATCH without one.
RequestedSku(r) == IF in[r].newSku = None THEN in[r].sku ELSE in[r].newSku

UpdateProduct_Find(r) ==
  /\ At(r, "updateProduct", "find")
  /\ \/ /\ ProductsWithSKU(in[r].sku) = {}
        /\ Respond(r, 404)
        /\ UNCHANGED <<got, seen>>
     \/ /\ ProductsWithSKU(in[r].sku) # {}
        /\ RequestedSku(r) \notin ValidSku
        /\ Respond(r, 400)
        /\ UNCHANGED <<got, seen>>
     \/ \E p \in ProductsWithSKU(in[r].sku) :
          /\ RequestedSku(r) \in ValidSku
          /\ got' = [got EXCEPT ![r] = IF in[r].product = None THEN p ELSE in[r].product]
          /\ seen' = [seen EXCEPT ![r] = products[p]]
          /\ Continue(r, "update")
  /\ UNCHANGED <<tables, marks, in>>

\* mergo.Merge fills the fields the body leaves out, the id among them, from
\* the row read before; the statement then writes them all.
MergedSku_Unmerged(r) == in[r].newSku  \* mutant: no mergo.Merge
MergedSku(r)  == IF in[r].newSku = None THEN seen[r].sku ELSE in[r].newSku
MergedRoot(r) == IF in[r].root = None THEN seen[r].root ELSE in[r].root

\* No such row, no such root, or another row archived by the same
\* transaction has the SKU.
UpdateRefused(r) ==
  \/ got[r] \notin Committed(products)
  \/ MergedRoot(r) \notin Committed(roots)
  \/ /\ products[got[r]].st = "archived"
     /\ \E q \in ProductId \ {got[r]} :
          products[q].st = "archived" /\ products[q].sku = MergedSku(r)

UpdateProduct_Update(r) ==
  /\ At(r, "updateProduct", "update")
  /\ ~ProductLocked(got[r])
  /\ \/ /\ got[r] \in Committed(products)
        /\ MergedRoot(r) \in Committed(roots)
        /\ UpdateProduct(got[r], MergedRoot(r), MergedSku(r))
        /\ Continue(r, "webhooks")
     \* a foreign key may refuse the image of the body: Images says when
     \/ /\ UpdateRefused(r) \/ in[r].image # None
        /\ Respond(r, 500)
        /\ UNCHANGED products
  /\ UNCHANGED <<roots, options, values, bridges, marks, locals>>

-----------------------------------------------------------------------------
(* POST /v1/product_root/{product_root_id}/options *)

CreateOption_Exists(r) ==
  /\ At(r, "createOption", "exists")
  /\ \/ ~ProductRootExists(in[r].root) /\ Respond(r, 404)
     \/ ProductRootExists(in[r].root) /\ Continue(r, "nameFree")
  /\ UNCHANGED <<tables, marks, locals>>

CreateOption_NameFree(r) ==
  /\ At(r, "createOption", "nameFree")
  /\ LET taken == ProductOptionWithNameExistsForProductRoot(in[r].options[1].name, in[r].root)
     IN \/ taken /\ Respond(r, 400)
        \/ ~taken /\ Continue(r, "insertOption")
  /\ UNCHANGED <<tables, marks, locals>>

CreateOption_Insert(r) ==
  /\ At(r, "createOption", "insertOption")
  /\ ~OptionNameContended(r, in[r].root, in[r].options[1].name)
  /\ LET refused == \/ OptionNameTaken(<<r, 1>>, in[r].root, in[r].options[1].name)
                    \/ RepeatsAKey(in[r].options)
     IN \/ refused /\ Rollback({r}) /\ Respond(r, 500)
        \/ /\ ~refused
           /\ CreateOptionsAndValues(r, in[r].root, in[r].options)
           /\ Continue(r, "commit")
           /\ UNCHANGED <<roots, products, bridges, marks>>
  /\ UNCHANGED locals

-----------------------------------------------------------------------------
(* DELETE /v1/product_options/{option_id} *)

DeleteOption_Find(r) ==
  /\ At(r, "deleteOption", "find")
  /\ Find(r, GetProductOption(in[r].option), "archiveValues")

\* With no row to return, RETURNING makes Scan fail with sql.ErrNoRows, and
\* the handler answers without a Rollback.
DeleteOption_ArchiveValues_OptionFirst(r) ==  \* mutant: swapped order
  /\ At(r, "deleteOption", "archiveValues")
  /\ marks' = [marks EXCEPT ![r].options = {got[r]}, ![r].values = ValuesOfOption(got[r])]
  /\ \/ ValuesOfOption(got[r]) = {} /\ RespondAndLeak(r, 500)
     \/ ValuesOfOption(got[r]) # {} /\ Continue(r, "archiveOptions")
  /\ UNCHANGED <<tables, locals>>
DeleteOption_ArchiveValues(r) ==
  /\ At(r, "deleteOption", "archiveValues")
  /\ \/ ValuesOfOption(got[r]) = {} /\ RespondAndLeak(r, 500) /\ UNCHANGED marks
     \/ /\ ValuesOfOption(got[r]) # {}
        /\ marks' = [marks EXCEPT ![r].values = ValuesOfOption(got[r])]
        /\ Continue(r, "archiveOptions")
  /\ UNCHANGED <<tables, locals>>

DeleteOption_ArchiveOption(r) ==
  /\ At(r, "deleteOption", "archiveOptions")
  /\ DeleteProductOption(r, got[r])
  /\ Continue(r, "commit")
  /\ UNCHANGED <<tables, locals>>

-----------------------------------------------------------------------------
(* PATCH /v1/product_options/{option_id} *)

UpdateOption_Find(r) ==
  /\ At(r, "updateOption", "find")
  /\ \/ /\ GetProductOption(in[r].option) = {}
        /\ Respond(r, 404)
        /\ UNCHANGED <<got, seen>>
     \/ /\ GetProductOption(in[r].option) # {}
        /\ got' = [got EXCEPT ![r] = in[r].option]
        /\ seen' = [seen EXCEPT ![r] = options[in[r].option]]
        /\ Continue(r, "update")
  /\ UNCHANGED <<tables, marks, in>>

\* mergo.MergeWithOverwrite: the fields the body has replace those read.
MergedName(r) == IF in[r].text = None THEN seen[r].name ELSE in[r].text

UpdateOption_Update(r) ==
  /\ At(r, "updateOption", "update")
  /\ ~OptionLocked(got[r])
  /\ ~OptionNameContended(r, MergedRoot(r), MergedName(r))
  /\ LET refused == \/ MergedRoot(r) \notin Committed(roots)
                    \/ OptionNameTaken(got[r], MergedRoot(r), MergedName(r))
     IN \/ /\ ~refused
           /\ UpdateProductOption(got[r], MergedRoot(r), MergedName(r))
           /\ Continue(r, "readBack")
        \/ /\ \/ refused
              \/ /\ options[got[r]].st = "archived"
                 /\ \E q \in OptionId \ {got[r]} :
                      options[q].st = "archived" /\ options[q].name = MergedName(r)
           /\ Respond(r, 500)
           /\ UNCHANGED options
  /\ UNCHANGED <<roots, values, products, bridges, marks, locals>>

\* GetProductOptionValuesForOption, for the answer.
UpdateOption_ReadBack(r) ==
  /\ At(r, "updateOption", "readBack")
  /\ Respond(r, 200)
  /\ UNCHANGED <<tables, marks, locals>>

-----------------------------------------------------------------------------
(* POST /v1/product_options/{option_id}/value *)

CreateValue_Exists(r) ==
  /\ At(r, "createValue", "exists")
  /\ \/ ~ProductOptionExists(in[r].option) /\ Respond(r, 404)
     \/ ProductOptionExists(in[r].option) /\ Continue(r, "nameFree")
  /\ UNCHANGED <<tables, marks, locals>>

CreateValue_ValueFree(r) ==
  /\ At(r, "createValue", "nameFree")
  /\ LET taken == ProductOptionValueForOptionIDExists(in[r].option, in[r].text)
     IN \/ taken /\ Respond(r, 400)
        \/ ~taken /\ Continue(r, "insertValue")
  /\ UNCHANGED <<tables, marks, locals>>

CreateValue_Insert(r) ==
  /\ At(r, "createValue", "insertValue")
  /\ ~ValueContended(r, in[r].option, in[r].text)
  /\ LET taken == ValueTaken(<<r, 1, 1>>, in[r].option, in[r].text)
     IN \/ taken /\ Rollback({r}) /\ Respond(r, 500)
        \/ /\ ~taken
           /\ CreateProductOptionValue(r, in[r].option, in[r].text)
           /\ Continue(r, "commit")
           /\ UNCHANGED <<roots, options, products, bridges, marks>>
  /\ UNCHANGED locals

-----------------------------------------------------------------------------
(* PATCH and DELETE /v1/product_option_values/{option_value_id}: one        *)
(* statement each, outside any transaction                                  *)

UpdateValue_Find(r) ==
  /\ At(r, "updateValue", "find")
  /\ Find(r, GetProductOptionValue(in[r].value), "update")

UpdateValue_Update(r) ==
  /\ At(r, "updateValue", "update")
  /\ ~ValueLocked(got[r])
  /\ ~ValueContended(r, values[got[r]].option, in[r].text)
  /\ LET taken == ValueTaken(got[r], values[got[r]].option, in[r].text)
     IN \/ /\ ~taken
           /\ UpdateProductOptionValue(got[r], in[r].text)
           /\ Respond(r, 200)
        \/ /\ \/ taken
              \/ /\ values[got[r]].st = "archived"
                 /\ \E w \in ValueId \ {got[r]} :
                      values[w].st = "archived" /\ values[w].value = in[r].text
           /\ Respond(r, 500)
           /\ UNCHANGED values
  /\ UNCHANGED <<roots, options, products, bridges, marks, locals>>

DeleteValue_Find(r) ==
  /\ At(r, "deleteValue", "find")
  /\ Find(r, GetProductOptionValue(in[r].value), "update")

DeleteValue_Update(r) ==
  /\ At(r, "deleteValue", "update")
  /\ DeleteProductOptionValue(got[r])
  /\ Respond(r, 200)
  /\ UNCHANGED <<roots, options, products, bridges, marks, locals>>

-----------------------------------------------------------------------------
(* The end of a transaction, and what follows it *)

\* Products have webhooks, whose list is read after the commit.
CommitSucceeds_Forgotten(r) ==  \* mutant: no tx.Commit()
  /\ pc[r] = "commit"
  /\ RespondAndLeak(r, 201)
  /\ UNCHANGED <<tables, marks, locals>>
CommitSucceeds(r) ==
  /\ pc[r] = "commit"
  /\ Commit(r)
  /\ \/ in[r].op \in {"createProduct", "deleteProduct"} /\ Continue(r, "webhooks")
     \/ in[r].op \in {"createOption", "createValue"} /\ Respond(r, 201)
     \/ in[r].op \in {"deleteRoot", "deleteOption"} /\ Respond(r, 200)
  /\ UNCHANGED locals

\* COMMIT was sent and its answer lost: it has taken effect, or it has not.
CommitFails(r) ==
  /\ Faults
  /\ pc[r] = "commit"
  /\ Commit(r) \/ Rollback({r})
  /\ Respond(r, 500)
  /\ UNCHANGED locals

GetWebhooks(r) ==
  /\ pc[r] = "webhooks"
  /\ Respond(r, IF in[r].op = "createProduct" THEN 201 ELSE 200)
  /\ UNCHANGED <<tables, marks, locals>>

\* A statement fails: the database is unreachable, a CHECK or the unique
\* index on upc refuses the row.  Existence checks answer as if they had
\* found what stops the request; option deletion has no Rollback, and leaves
\* its sql.Tx open on a transaction the database has aborted, unless it was
\* Begin that failed, before its first statement.
StatementFails(r) ==
  /\ Faults
  /\ pc[r] \in Statement \ {"commit"}
  /\ \/ pc[r] = "exists" /\ Respond(r, IF in[r].op = "createProduct" THEN 400 ELSE 404)
     \/ pc[r] \notin InTransaction \cup {"exists"} /\ Respond(r, 500)
     \/ /\ pc[r] \in InTransaction
        /\ in[r].op # "deleteOption" \/ pc[r] = "archiveValues"
        /\ Respond(r, 500)
     \/ pc[r] \in InTransaction /\ in[r].op = "deleteOption" /\ RespondAndLeak(r, 500)
  /\ IF pc[r] \in InTransaction THEN Rollback({r}) ELSE UNCHANGED <<tables, marks>>
  /\ UNCHANGED locals

\* The process dies: the database rolls every open transaction back, the
\* leaked ones too, and nobody gets an answer.
ServerCrash ==
  /\ crashes < MaxCrashes
  /\ InFlight # {}
  /\ LET dying == InFlight \cup {r \in Request : pc[r] = "leaked"}
     IN /\ pc' = [r \in Request |-> IF r \in dying THEN "dead" ELSE pc[r]]
        /\ Rollback(dying)
  /\ crashes' = crashes + 1
  /\ UNCHANGED <<locals, status>>

\* Every request has come and gone.
Quiescent ==
  /\ \A r \in Request : pc[r] \in {"done", "leaked", "dead"}
  /\ UNCHANGED vars

-----------------------------------------------------------------------------

CreateProductStep(r) ==
  \/ CreateProduct_Exists(r) \/ CreateProduct_InsertRoot(r) \/ CreateProduct_InsertImages(r)
  \/ CreateProduct_InsertProduct(r) \/ CreateProduct_InsertVariants(r)
DeleteProductStep(r) ==
  DeleteProduct_Find(r) \/ DeleteProduct_ArchiveBridges(r) \/ DeleteProduct_ArchiveProduct(r)
DeleteRootStep(r) ==
  \/ DeleteRoot_Find(r) \/ DeleteRoot_ArchiveBridges(r) \/ DeleteRoot_ArchiveValues(r)
  \/ DeleteRoot_ArchiveOptions(r) \/ DeleteRoot_ArchiveProducts(r) \/ DeleteRoot_ArchiveRoot(r)
UpdateProductStep(r) == UpdateProduct_Find(r) \/ UpdateProduct_Update(r)
OptionStep(r) ==
  \/ CreateOption_Exists(r) \/ CreateOption_NameFree(r) \/ CreateOption_Insert(r)
  \/ DeleteOption_Find(r) \/ DeleteOption_ArchiveValues(r) \/ DeleteOption_ArchiveOption(r)
  \/ UpdateOption_Find(r) \/ UpdateOption_Update(r) \/ UpdateOption_ReadBack(r)
ValueStep(r) ==
  \/ CreateValue_Exists(r) \/ CreateValue_ValueFree(r) \/ CreateValue_Insert(r)
  \/ UpdateValue_Find(r) \/ UpdateValue_Update(r)
  \/ DeleteValue_Find(r) \/ DeleteValue_Update(r)

\* The next statement of the handler of request r.
Runs(r) ==
  \/ CreateProductStep(r) \/ DeleteProductStep(r) \/ DeleteRootStep(r)
  \/ UpdateProductStep(r) \/ OptionStep(r) \/ ValueStep(r)
  \/ CommitSucceeds(r) \/ GetWebhooks(r)

Handle(r) == Runs(r) \/ CommitFails(r) \/ StatementFails(r)

Next ==
  \/ \E r \in Request : Arrive(r) \/ Handle(r)
  \/ ServerCrash
  \/ Quiescent

\* The Go scheduler runs every goroutine, and the database ends every
\* statement it has been given.  Clients need not send anything, and no
\* statement need fail.
Fairness == \A r \in Request : WF_vars(Runs(r))

Spec == Init /\ [][Next]_vars
FairSpec == Spec /\ Fairness

-----------------------------------------------------------------------------
(* Properties *)

\* No request moves a row to another root: a PATCH that names a root, or the
\* id of another product, does.
NoReparenting ==
  \A i \in Inputs : i.op \in {"updateProduct", "updateOption"} => i.root = None /\ i.product = None

\* Deleting a product root leaves no product of it on sale, whatever runs
\* meanwhile: an active product belongs to an active root.
\* (buildProductRootDeletionHandler archives the products before the root.)
ActiveProductsHaveActiveRoot ==
  \A p \in Active(products) : products[p].root \in Active(roots)

\* A variant bridge never outlives its product: both deletion handlers archive
\* the bridges before the products, in statements of their own.
ActiveBridgesHaveActiveProduct == Active(bridges) \subseteq Active(products)

\* Every active row hangs from an active row, all the way up: what the
\* checks "can't create an option for a product that doesn't exist!" and the
\* cascades of the deletion handlers are for.
ActiveValuesHaveActiveOption ==
  \A v \in Active(values) : values[v].option \in Active(options)
ActiveOptionsHaveActiveRoot ==
  \A o \in Active(options) : options[o].root \in Active(roots)

\* "can't create a product with a sku that already exists!"
UniqueActivePrefix ==
  \A i, j \in Active(roots) : roots[i].prefix = roots[j].prefix => i = j

\* The existence checks of option and value creation race, and renames have
\* none: still no option name is active twice under one root, and no value
\* twice under one option.
ActiveKeysAreUnique ==
  /\ \A o, q \in Active(options) :
       options[o].root = options[q].root /\ options[o].name = options[q].name => o = q
  /\ \A v, w \in Active(values) :
       values[v].option = values[w].option /\ values[v].value = values[w].value => v = w

\* The rows a request inserts become visible together or not at all, also
\* when a statement fails half way, the commit's answer is lost or the
\* process dies: a product is never seen without its root, options, values
\* and bridges.
CreationsAreAtomic ==
  \A r \in Request :
    LET committed(table) == \E i \in Committed(table) : i[1] = r
        withheld(table)  == \E i \in DOMAIN table : i[1] = r /\ table[i].st \in {"pending", "aborted"}
    IN ~ /\ \/ committed(roots) \/ committed(options) \/ committed(values)
             \/ committed(products) \/ committed(bridges)
         /\ \/ withheld(roots) \/ withheld(options) \/ withheld(values)
             \/ withheld(products) \/ withheld(bridges)

\* A DELETE answered with 200 stays done: no PATCH working on an older copy
\* of the row brings it, or a product of a deleted root, back.
DeletionsHold ==
  \A r \in Request : pc[r] = "done" /\ status[r] = 200 =>
    CASE in[r].op = "deleteProduct" -> /\ products[got[r]].st = "archived"
                                       /\ got[r] \notin Active(bridges)
      [] in[r].op = "deleteRoot"    -> /\ roots[got[r]].st = "archived"
                                       /\ \A p \in Active(products) : products[p].root # got[r]
      [] in[r].op = "deleteOption"  -> options[got[r]].st = "archived"
      [] in[r].op = "deleteValue"   -> values[got[r]].st = "archived"
      [] OTHER -> TRUE

\* The transactions that option deletion and a panicking product creation
\* leave open hold no row and no key another request waits for.
LeakedTransactionsBlockNobody ==
  \A r \in Request : pc[r] = "leaked" =>
    /\ marks[r] = NoMarks
    /\ \A o \in Pending(options) : o[1] = r => options[o].root \in Pending(roots)
    /\ \A v \in Pending(values) : v[1] = r => values[v].option \in Pending(options)

\* The catalog implements SoftDelete: the rows of the tables with a deletion
\* of their own, as other transactions see them.
CatalogRow == ({"root"} \X RootId) \cup ({"option"} \X OptionId)
              \cup ({"value"} \X ValueId) \cup ({"product"} \X ProductId)

Shown(row) == IF row.st \in {"active", "archived"} THEN row.st ELSE "absent"

rowState ==
  [x \in CatalogRow |->
     CASE x[1] = "root"    -> Shown(roots[x[2]])
       [] x[1] = "option"  -> Shown(options[x[2]])
       [] x[1] = "value"   -> Shown(values[x[2]])
       [] x[1] = "product" -> Shown(products[x[2]])]

Soft == INSTANCE SoftDelete WITH Row <- CatalogRow, state <- rowState

\* No statement of a handler, however stale what it writes, takes archived_on
\* back from a row or shows a row before its transaction commits.
RowsAreSoftDeleted == Soft!Spec
=============================================================================

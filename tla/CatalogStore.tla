---------------------------- MODULE CatalogStore ----------------------------
(***************************************************************************)
(* The five product tables of storage/v1/database/postgres and the         *)
(* statements the product handlers of api/v1 run against them.             *)
(*                                                                         *)
(* PostgreSQL runs at its default isolation level, READ COMMITTED: a       *)
(* statement sees what has been committed when it starts.  A row inserted  *)
(* by an open transaction is "pending" and nobody else sees it; a row an   *)
(* open transaction has archived is in that transaction's marks and        *)
(* everybody else still sees it active.  Commit makes both visible at once.*)
(*                                                                         *)
(* Two waits decide outcomes and are kept: an insert that meets the         *)
(* uncommitted key of another transaction in a unique index, and a         *)
(* single-row update of a row an open transaction has archived.  The other *)
(* row locks only delay a statement that archives rows: every order they   *)
(* permit is an order of this model.                                       *)
(***************************************************************************)
EXTENDS Naturals, Sequences, FiniteSets

CONSTANTS
  MaxRequests,  \* bound: how many requests the server receives
  MaxRows,      \* bound: how many rows one request inserts in one table
  Text,         \* option names, option values and the parts of a SKU
  Lower,        \* strings.ToLower on Text
  None,         \* no id, no text
  Seed          \* the rows the migrations leave in the tables

Request     == 1..MaxRequests
Transaction == 0..MaxRequests  \* 0 stands for the migrations
Ordinal     == 1..MaxRows

\* A bigserial never hands an id out twice: an id is the transaction that
\* drew it and an ordinal.  A value is numbered within its option.
RootId    == Transaction \X Ordinal
OptionId  == Transaction \X Ordinal
ProductId == Transaction \X Ordinal
ValueId   == Transaction \X Ordinal \X Ordinal

\* A SKU is a sequence of parts: the code joins them with "_".
Sku == Seq(Text)

\* "archived" is a row whose archived_on is set, "aborted" one whose
\* transaction was rolled back.
RowState == {"absent", "pending", "active", "archived", "aborted"}

RootRow    == [st : RowState, prefix : Sku]
OptionRow  == [st : RowState, root : RootId, name : Text]
ValueRow   == [st : RowState, option : OptionId, value : Text]
ProductRow == [st : RowState, root : RootId, sku : Sku]
\* All bridge rows of a product are inserted by one statement and archived
\* together, so they are one entry: the option values of the product.
BridgeRow  == [st : RowState, values : SUBSET ValueId]

Tables == [roots    : [RootId -> RootRow],
           options  : [OptionId -> OptionRow],
           values   : [ValueId -> ValueRow],
           products : [ProductId -> ProductRow],
           bridges  : [ProductId -> BridgeRow]]

Committed(table) == {i \in DOMAIN table : table[i].st \in {"active", "archived"}}
Active(table)    == {i \in DOMAIN table : table[i].st = "active"}
Pending(table)   == {i \in DOMAIN table : table[i].st = "pending"}

ASSUME ConstantsAssumption ==
  /\ MaxRequests \in Nat \ {0}
  /\ MaxRows \in Nat \ {0}
  /\ Lower \in [Text -> Text]

\* The seed rows are committed rows of transaction 0 that form a catalog, and
\* the foreign keys and unique indexes of 1495495688_products.up.sql hold of them.
ASSUME SeedAssumption ==
  /\ Seed \in Tables
  /\ \A i \in RootId : Seed.roots[i].st \in
        IF i[1] = 0 THEN {"absent", "active", "archived"} ELSE {"absent"}
  /\ \A i \in OptionId : Seed.options[i].st \in
        IF i[1] = 0 THEN {"absent", "active", "archived"} ELSE {"absent"}
  /\ \A i \in ValueId : Seed.values[i].st \in
        IF i[1] = 0 THEN {"absent", "active", "archived"} ELSE {"absent"}
  /\ \A i \in ProductId : Seed.products[i].st \in
        IF i[1] = 0 THEN {"absent", "active", "archived"} ELSE {"absent"}
  /\ \A i \in ProductId : Seed.bridges[i].st \in
        IF i[1] = 0 THEN {"absent", "active", "archived"} ELSE {"absent"}
  /\ \A p \in Active(Seed.products) : Seed.products[p].root \in Active(Seed.roots)
  /\ \A p \in Committed(Seed.products) : Seed.products[p].root \in Committed(Seed.roots)
  /\ \A p \in Active(Seed.bridges) : p \in Active(Seed.products)
  /\ \A o \in Committed(Seed.options) : Seed.options[o].root \in Committed(Seed.roots)
  /\ \A v \in Committed(Seed.values) : Seed.values[v].option \in Committed(Seed.options)
  /\ \A o, q \in Committed(Seed.options) :
       Seed.options[o].root = Seed.options[q].root /\ Seed.options[o].name = Seed.options[q].name
         => o = q
  /\ \A v, w \in Committed(Seed.values) :
       Seed.values[v].option = Seed.values[w].option /\ Seed.values[v].value = Seed.values[w].value
         => v = w
  /\ \A i, j \in Active(Seed.roots) : Seed.roots[i].prefix = Seed.roots[j].prefix => i = j
  /\ \A o \in Active(Seed.options) : Seed.options[o].root \in Active(Seed.roots)
  /\ \A v \in Active(Seed.values) : Seed.values[v].option \in Active(Seed.options)

VARIABLES
  roots, options, values, products, bridges,
  marks    \* per request, the rows its open transaction has archived

tables == <<roots, options, values, products, bridges>>

Marks == [roots : SUBSET RootId, options : SUBSET OptionId, values : SUBSET ValueId,
          products : SUBSET ProductId, bridges : SUBSET ProductId]

NoMarks == [roots |-> {}, options |-> {}, values |-> {}, products |-> {}, bridges |-> {}]

StoreTypeOK ==
  /\ roots \in [RootId -> RootRow]
  /\ options \in [OptionId -> OptionRow]
  /\ values \in [ValueId -> ValueRow]
  /\ products \in [ProductId -> ProductRow]
  /\ bridges \in [ProductId -> BridgeRow]
  /\ marks \in [Request -> Marks]

StoreInit ==
  /\ roots = Seed.roots
  /\ options = Seed.options
  /\ values = Seed.values
  /\ products = Seed.products
  /\ bridges = Seed.bridges
  /\ marks = [r \in Request |-> NoMarks]

-----------------------------------------------------------------------------
(* Transactions *)

\* What a committed transaction r leaves of a table: its inserts become
\* active, the rows it marked are archived.
Settled(table, r, archived) ==
  [i \in DOMAIN table |->
     IF table[i].st = "pending" /\ i[1] = r THEN [table[i] EXCEPT !.st = "active"]
     ELSE IF i \in archived THEN [table[i] EXCEPT !.st = "archived"]
     ELSE table[i]]

\* What is left of a table when the transactions of the requests rs end
\* without committing.
Undone(table, rs) ==
  [i \in DOMAIN table |->
     IF table[i].st = "pending" /\ i[1] \in rs THEN [table[i] EXCEPT !.st = "aborted"]
     ELSE table[i]]

Commit(r) ==
  /\ roots' = Settled(roots, r, marks[r].roots)
  /\ options' = Settled(options, r, marks[r].options)
  /\ values' = Settled(values, r, marks[r].values)
  /\ products' = Settled(products, r, marks[r].products)
  /\ bridges' = Settled(bridges, r, marks[r].bridges)
  /\ marks' = [marks EXCEPT ![r] = NoMarks]

Rollback(rs) ==
  /\ roots' = Undone(roots, rs)
  /\ options' = Undone(options, rs)
  /\ values' = Undone(values, rs)
  /\ products' = Undone(products, rs)
  /\ bridges' = Undone(bridges, rs)
  /\ marks' = [q \in Request |-> IF q \in rs THEN NoMarks ELSE marks[q]]

Written(table, rows) ==
  [i \in DOMAIN table |-> IF i \in DOMAIN rows THEN rows[i] ELSE table[i]]

-----------------------------------------------------------------------------
(* Reads *)

ProductRootWithSKUPrefixExists(sku) == \E i \in Active(roots) : roots[i].prefix = sku

ProductOptionWithNameExistsForProductRoot(name, root) ==
  \E o \in Active(options) : options[o].root = root /\ options[o].name = name

ProductOptionValueForOptionIDExists(option, value) ==
  \E v \in Active(values) : values[v].option = option /\ values[v].value = value

ProductRootExists(root) == root \in Active(roots)

ProductOptionExists(option) == option \in Active(options)

\* The rows a SELECT by id returns: one, or none.
GetProductRoot(root)          == Active(roots) \cap {root}
GetProductOption(option)      == Active(options) \cap {option}
GetProductOptionValue(value)  == Active(values) \cap {value}

\* The rows GetProductBySKU may return: the query has no ORDER BY.
ProductsWithSKU(sku) == {p \in Active(products) : products[p].sku = sku}

-----------------------------------------------------------------------------
(* Unique indexes.  archived_on is NULL in an active row, and NULLs never   *)
(* collide: UNIQUE(x, archived_on) binds only rows archived by the same     *)
(* statement, or by one transaction, whose NOW() they share.                *)

\* UNIQUE (product_root_id, name), whatever archived_on says.
OptionNameTaken_OnlyWhenArchived(o, root, name) ==  \* mutant: archived_on in the index
  \E q \in Committed(options) \ {o} :
    options[q].st = "archived" /\ options[q].root = root /\ options[q].name = name
OptionNameTaken(o, root, name) ==
  \E q \in Committed(options) \ {o} : options[q].root = root /\ options[q].name = name

\* UNIQUE (product_option_id, value), whatever archived_on says.
ValueTaken(v, option, value) ==
  \E w \in Committed(values) \ {v} : values[w].option = option /\ values[w].value = value

\* Another open transaction has inserted the key: the statement waits for it.
OptionNameContended(r, root, name) ==
  \E q \in Pending(options) : q[1] # r /\ options[q].root = root /\ options[q].name = name

ValueContended(r, option, value) ==
  \E w \in Pending(values) : w[1] # r /\ values[w].option = option /\ values[w].value = value

\* Another open transaction has archived the row: an UPDATE waits for it.
ProductLocked(p) == \E q \in Request : p \in marks[q].products
OptionLocked(o)  == \E q \in Request : o \in marks[q].options
ValueLocked(v)   == \E q \in Request : v \in marks[q].values

\* UNIQUE (value, archived_on): the rows vs cannot be archived by one statement.
ShareAValue(vs) == \E v, w \in vs : v # w /\ values[v].value = values[w].value

\* UNIQUE (sku, archived_on): the rows ps cannot be archived by one statement.
ShareASku(ps) == \E p, q \in ps : p # q /\ products[p].sku = products[q].sku

-----------------------------------------------------------------------------
(* The rows the archiving statements select *)

BridgesOfRoot_ByRootId(root) == Committed(bridges) \cap {root}  \* mutant: WHERE product_id = $1
BridgesOfRoot(root) ==
  {p \in Committed(bridges) \cap Committed(products) : products[p].root = root}

ValuesOfRoot(root) ==
  {v \in Committed(values) : values[v].option \in Committed(options)
                             /\ options[values[v].option].root = root}

ValuesOfOption_One(option) ==  \* mutant: the statement that archives a single value
  Committed(values) \cap {<<option[1], option[2], 1>>}
ValuesOfOption(option) == {v \in Committed(values) : values[v].option = option}

OptionsOfRoot(root) == {o \in Active(options) : options[o].root = root}

ProductsOfRoot_BySKU(root) ==  \* mutant: WHERE sku = the root's prefix
  {p \in Committed(products) : products[p].sku = roots[root].prefix}
ProductsOfRoot(root) == {p \in Committed(products) : products[p].root = root}

-----------------------------------------------------------------------------
(* Inserts of transaction r, and single-statement updates *)

CreateProductRoot_OnDB(r, sku) ==  \* mutant: run on db instead of tx
  roots' = Written(roots, [i \in {<<r, 1>>} |-> [st |-> "active", prefix |-> sku]])
CreateProductRoot(r, sku) ==
  roots' = Written(roots, [i \in {<<r, 1>>} |-> [st |-> "pending", prefix |-> sku]])

CreateProduct(r, sku) ==
  products' = Written(products,
    [p \in {<<r, 1>>} |-> [st |-> "pending", root |-> <<r, 1>>, sku |-> sku]])

\* One statement for the bridges of the products ps; the n-th product has the
\* n-th value of the only option.
CreateMultipleProductVariantBridges(r, ps) ==
  bridges' = Written(bridges, [p \in ps |-> [st |-> "pending", values |-> {<<r, 1, p[2]>>}]])

\* createProductOptionAndValuesInDBFromInput for each of the options.
CreateOptionsAndValues(r, root, opts) ==
  /\ options' = Written(options,
       [o \in {o \in OptionId : o[1] = r /\ o[2] \in DOMAIN opts} |->
          [st |-> "pending", root |-> root, name |-> opts[o[2]].name]])
  /\ values' = Written(values,
       [v \in {v \in ValueId : v[1] = r /\ v[2] \in DOMAIN opts /\ v[3] \in DOMAIN opts[v[2]].values} |->
          [st |-> "pending", option |-> <<r, v[2]>>, value |-> opts[v[2]].values[v[3]]]])

\* The inserts meet each other in a unique index: a name or a value twice.
RepeatsAKey(opts) ==
  \/ \E i, j \in DOMAIN opts : i # j /\ opts[i].name = opts[j].name
  \/ \E i \in DOMAIN opts : \E j, k \in DOMAIN opts[i].values :
        j # k /\ opts[i].values[j] = opts[i].values[k]

CreateProductOptionValue(r, option, value) ==
  values' = Written(values,
    [v \in {<<r, 1, 1>>} |-> [st |-> "pending", option |-> option, value |-> value]])

\* The SET list has every column except archived_on.
UpdateProduct(p, root, sku) ==
  products' = [products EXCEPT ![p].root = root, ![p].sku = sku]

UpdateProductOption_Revives(o, root, name) ==  \* mutant: archived_on in the SET list
  options' = [options EXCEPT ![o] = [st |-> "active", root |-> root, name |-> name]]
UpdateProductOption(o, root, name) ==
  options' = [options EXCEPT ![o].root = root, ![o].name = name]

UpdateProductOptionValue_Revives(v, value) ==  \* mutant: archived_on in the SET list
  values' = [values EXCEPT ![v].value = value, ![v].st = "active"]
UpdateProductOptionValue(v, value) == values' = [values EXCEPT ![v].value = value]

\* What transaction r archives is in its marks until it commits.
DeleteProductVariantBridgeByProductID(r, p) ==
  marks' = [marks EXCEPT ![r].bridges = Active(bridges) \cap {p}]

DeleteProduct(r, p) == marks' = [marks EXCEPT ![r].products = {p}]

DeleteProductRoot(r, root) == marks' = [marks EXCEPT ![r].roots = {root}]

DeleteProductOption(r, o) == marks' = [marks EXCEPT ![r].options = {o}]

\* Run on db, outside any transaction.
DeleteProductOptionValue(v) == values' = [values EXCEPT ![v].st = "archived"]

=============================================================================

------------------------------ MODULE MCCatalog ------------------------------
(***************************************************************************)
(* Small instances of Catalog for TLC: the seeds, and the requests each    *)
(* run may send.                                                           *)
(***************************************************************************)
EXTENDS Catalog

TextDef == {"shirt", "size", "small", "Small", "large", "42"}
LowerDef == [t \in TextDef |-> IF t = "Small" THEN "small" ELSE t]

\* dataValidationPattern has no digits.
ValidSkuDef == Seq(TextDef \ {"42"})

-----------------------------------------------------------------------------
(* Seeds *)

EmptySeed ==
  [roots    |-> [i \in RootId |-> [st |-> "absent", prefix |-> <<>>]],
   options  |-> [i \in OptionId |-> [st |-> "absent", root |-> <<0, 1>>, name |-> "size"]],
   values   |-> [i \in ValueId |-> [st |-> "absent", option |-> <<0, 1>>, value |-> "small"]],
   products |-> [i \in ProductId |-> [st |-> "absent", root |-> <<0, 1>>, sku |-> <<>>]],
   bridges  |-> [i \in ProductId |-> [st |-> "absent", values |-> {}]]]

\* A shirt in two sizes; a second option has been added to it, with no value.
ShirtSeed ==
  [roots    |-> Written(EmptySeed.roots,
                  [i \in {<<0, 1>>} |-> [st |-> "active", prefix |-> <<"shirt">>]]),
   options  |-> Written(EmptySeed.options,
                  [o \in {<<0, 1>>, <<0, 2>>} |->
                     [st |-> "active", root |-> <<0, 1>>,
                      name |-> IF o[2] = 1 THEN "size" ELSE "shirt"]]),
   values   |-> Written(EmptySeed.values,
                  [v \in {<<0, 1, 1>>, <<0, 1, 2>>} |->
                     [st |-> "active", option |-> <<0, 1>>,
                      value |-> IF v[3] = 1 THEN "small" ELSE "large"]]),
   products |-> Written(EmptySeed.products,
                  [p \in {<<0, 1>>, <<0, 2>>} |->
                     [st |-> "active", root |-> <<0, 1>>,
                      sku |-> <<"shirt", IF p[2] = 1 THEN "small" ELSE "large">>]]),
   bridges  |-> Written(EmptySeed.bridges,
                  [p \in {<<0, 1>>, <<0, 2>>} |->
                     [st |-> "active", values |-> {<<0, 1, p[2]>>}]])]

-----------------------------------------------------------------------------
(* Requests *)

Blank == [op |-> "createProduct", sku |-> <<>>, newSku |-> None, root |-> None, option |-> None,
          value |-> None, product |-> None, image |-> None, text |-> None, options |-> <<>>, images |-> "valid"]

PostProduct(sku, opts, images) ==
  [Blank EXCEPT !.sku = sku, !.options = opts, !.images = images]
UpdateProductTo(sku, newSku) == [Blank EXCEPT !.op = "updateProduct", !.sku = sku, !.newSku = newSku]
UpdateProductImage(sku, image) == [Blank EXCEPT !.op = "updateProduct", !.sku = sku, !.image = image]
RemoveProduct(sku) == [Blank EXCEPT !.op = "deleteProduct", !.sku = sku]
DeleteRoot(root) == [Blank EXCEPT !.op = "deleteRoot", !.root = root]
CreateOption(root, opt) == [Blank EXCEPT !.op = "createOption", !.root = root, !.options = <<opt>>]
UpdateOption(option, root, name) ==
  [Blank EXCEPT !.op = "updateOption", !.option = option, !.root = root, !.text = name]
DeleteOption(option) == [Blank EXCEPT !.op = "deleteOption", !.option = option]
CreateValue(option, text) == [Blank EXCEPT !.op = "createValue", !.option = option, !.text = text]
UpdateValue(value, text) == [Blank EXCEPT !.op = "updateValue", !.value = value, !.text = text]
DeleteValue(value) == [Blank EXCEPT !.op = "deleteValue", !.value = value]

Opt(name, vals) == [name |-> name, values |-> vals]

\* Every operation, aimed at the shirt: what two clients may do to it at once.
ShirtInputs ==
  { PostProduct(<<"shirt">>, <<>>, "valid"),
    PostProduct(<<"large">>, <<Opt("size", <<"small">>), Opt("shirt", <<>>)>>, "valid"),
    UpdateProductTo(<<"shirt", "small">>, <<"shirt", "large">>),
    RemoveProduct(<<"shirt", "small">>),
    DeleteRoot(<<0, 1>>),
    CreateOption(<<0, 1>>, Opt("large", <<"Small">>)),
    UpdateOption(<<0, 1>>, None, "large"),
    DeleteOption(<<0, 1>>),
    DeleteOption(<<0, 2>>),
    CreateValue(<<0, 1>>, "Small"),
    UpdateValue(<<0, 1, 1>>, "Small"),
    DeleteValue(<<0, 1, 1>>) }

\* The same on a shop with a second root, and PATCHes that move rows to it.
HatSeed ==
  [ShirtSeed EXCEPT
     !.roots[<<0, 2>>] = [st |-> "active", prefix |-> <<"large">>],
     !.products[<<0, 3>>] = [st |-> "active", root |-> <<0, 2>>, sku |-> <<"large">>]]

UpdateProductOf(sku, root, product) ==
  [Blank EXCEPT !.op = "updateProduct", !.sku = sku, !.root = root, !.product = product]

MovingInputs ==
  ShirtInputs \cup
  { UpdateProductOf(<<"shirt", "small">>, <<0, 2>>, None),
    UpdateProductOf(<<"large">>, None, <<0, 1>>),
    UpdateProductOf(<<"large">>, <<2, 1>>, None),
    UpdateOption(<<0, 1>>, <<0, 2>>, None),
    DeleteRoot(<<0, 2>>) }

\* One client after another, from an empty shop: the first requests create
\* what the later ones are aimed at.
SerialInputs ==
  { PostProduct(<<"shirt">>, <<>>, "valid"),
    PostProduct(<<"shirt">>, <<>>, "invalid"),
    PostProduct(<<"shirt">>, <<>>, "unknownType"),
    PostProduct(<<"shirt", "small">>, <<>>, "valid"),
    PostProduct(<<"shirt">>, <<Opt("size", <<"small", "Small">>)>>, "valid"),
    PostProduct(<<"shirt">>, <<Opt("size", <<"small">>), Opt("large", <<"small">>)>>, "valid"),
    UpdateProductTo(<<"shirt">>, <<"large">>),
    UpdateProductImage(<<"shirt", "small">>, <<1, 0>>),
    DeleteRoot(<<1, 1>>),
    CreateOption(<<1, 1>>, Opt("large", <<"small">>)),
    UpdateOption(<<1, 1>>, None, "large"),
    DeleteOption(<<1, 1>>),
    CreateValue(<<1, 1>>, "large"),
    DeleteValue(<<1, 1, 1>>) }
=============================================================================

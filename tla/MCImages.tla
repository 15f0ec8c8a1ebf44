------------------------------ MODULE MCImages ------------------------------
(***************************************************************************)
(* Small instances of Images for TLC: the seeds and requests of MCCatalog, *)
(* with the images of the requests that create products.                   *)
(***************************************************************************)
EXTENDS Images, MCCatalog

PictureDef   == {"red", "blue"}
OtherDataDef == {"text"}

Img(type, data, isPrimary) == [type |-> type, data |-> data, isPrimary |-> isPrimary]

\* The image called primary is a duplicate; lists that fail at their second
\* image, when the first has been stored.
ImagesDef ==
  [i \in Inputs |->
     CASE i.op # "createProduct" \/ Len(i.sku) > 1 \/ i.options # <<>> -> <<>>
       [] i.images = "invalid"     -> <<Img("base64", "red", FALSE), Img("base64", "text", TRUE)>>
       [] i.images = "unknownType" -> <<Img("base64", "red", FALSE), Img("other", "blue", FALSE)>>
       [] OTHER                    -> <<Img("base64", "red", FALSE), Img("url", "red", TRUE)>>]

\* The moving requests, and two that may want one SKU at the same time: one
\* waits for a host, the other stores an image before it fails; a PATCH names the
\* image of the first, and one a SKU that is not valid.
ImageInputs ==
  MovingInputs \cup
  { PostProduct(<<"small">>, <<>>, "valid"), PostProduct(<<"small">>, <<>>, "invalid"),
    UpdateProductImage(<<"large">>, <<1, 0>>), UpdateProductTo(<<"large">>, <<"42">>) }

FetchedImages ==
  [i \in Inputs |->
     CASE i.op # "createProduct" \/ i.sku # <<"small">> -> <<>>
       [] i.images = "invalid" -> <<Img("base64", "red", FALSE), Img("url", "text", TRUE)>>
       [] OTHER                -> <<Img("url", "blue", FALSE)>>]
=============================================================================

------------------------------- MODULE Images -------------------------------
(***************************************************************************)
(* The images of a product creation, statement by statement: what Catalog  *)
(* takes for one statement, CreateProduct_InsertImages, is here the loop   *)
(* of handleProductCreationImages (api/v1/product_images.go), with the     *)
(* files that storage/v1/images/local writes while the transaction of the  *)
(* request is open.  No rollback takes a file back, and a file is named by *)
(* the SKU of the request and the place of the image in it.                *)
(***************************************************************************)
EXTENDS Catalog

CONSTANTS
  Picture,   \* image data that a PNG comes of: inline, or the URL of one
  OtherData, \* image data that none comes of; a URL that does not end in "png"
  MaxImages, \* bound: how many images one request has
  ImagesOf   \* the images of a request that creates a product

ImageInput == [type : {"base64", "url", "other"}, data : Picture \cup OtherData,
               isPrimary : BOOLEAN]

\* Images are numbered from 0, within their request.
Index   == 0..(MaxImages - 1)
ImageId == Request \X Index

\* The sizes of an image, in the order StoreImages writes them.
Size == 1..3  \* thumbnail.png, main.png, original.png

\* A file holds the picture of an image.  "partial": created and not written
\* to the end; "mixed": two handlers have it open.  restrictedStringIsValid
\* keeps a SKU from being more than one directory, so that different paths
\* are different files.
Path    == {i.sku : i \in Inputs} \X Index \X Size
Content == [st : {"absent", "partial", "mixed", "whole"}, of : ImageId \cup {None}]
Absent  == [st |-> "absent", of |-> None]
Partial == [st |-> "partial", of |-> None]
Mixed   == [st |-> "mixed", of |-> None]
Whole(id) == [st |-> "whole", of |-> id]

\* An image whose data is already in the list is dropped.
Deduplicated(list) ==
  LET first == {k \in DOMAIN list : \A j \in 1..(k - 1) : list[j].data # list[k].data}
  IN [n \in 1..Cardinality(first) |->
        list[CHOOSE k \in first : Cardinality({j \in first : j <= k}) = n]]

IsLoaded(img) == img.type # "other" /\ img.data \in Picture

\* What becomes of a list, decided by the first image that is not loaded.
Outcome(list) ==
  IF \A k \in DOMAIN list : IsLoaded(list[k]) THEN "valid"
  ELSE LET bad == CHOOSE k \in DOMAIN list :
                    ~IsLoaded(list[k]) /\ \A j \in 1..(k - 1) : IsLoaded(list[j])
       IN IF list[bad].type = "other" THEN "unknownType" ELSE "invalid"

ASSUME ImagesAssumption ==
  /\ MaxImages \in Nat
  /\ Picture \cap OtherData = {}
  /\ None \notin ImageId
  /\ ImagesOf \in [Inputs -> Seq(ImageInput)]
  /\ \A i \in Inputs :
       /\ Len(ImagesOf[i]) <= MaxImages
       /\ i.images = Outcome(Deduplicated(ImagesOf[i]))

VARIABLES
  files,      \* the image directory
  images,     \* the rows inserted in product_images; they are part of the
              \* transaction of their request, as its root is, and no
              \* statement of the server changes or archives one
  primary,    \* primary_image_id of products
  loop,       \* where the loop over the images is: the image, the step, the size
  readPrimary \* primary_image_id of the row, as UpdateProduct_Find has read it

imageVars == <<files, images, primary, loop, readPrimary>>
allVars == <<vars, imageVars>>

LoopStep == {"load", "fetch", "create", "encode", "insert"}

ImagesTypeOK ==
  /\ files \in [Path -> Content]
  /\ images \subseteq ImageId
  /\ primary \in [ProductId -> ImageId \cup {None}]
  /\ loop \in [Request -> [index : 0..MaxImages, step : LoopStep, size : Size]]
  /\ readPrimary \in [Request -> ImageId \cup {None}]

ImagesInit ==
  /\ Init
  /\ files = [f \in Path |-> Absent]
  /\ images = {}
  /\ primary = [p \in ProductId |-> None]
  /\ loop = [r \in Request |-> [index |-> 0, step |-> "load", size |-> 1]]
  /\ readPrimary = [r \in Request |-> None]

-----------------------------------------------------------------------------
(* handleProductCreationImages *)

ImagesToCreate(r) == Deduplicated(ImagesOf[in[r]])

InLoop(r) ==
  /\ At(r, "createProduct", "insertImages")
  /\ loop[r].index < Len(ImagesToCreate(r))

AtStep(r, step) == InLoop(r) /\ loop[r].step = step

Image(r) == ImagesToCreate(r)[loop[r].index + 1]

\* photoDir, and the file in it.
PathOf(sku, index, size) == <<sku, index, size>>

GotoStep(r, step) == loop' = [loop EXCEPT ![r].step = step]

\* The loop returns an error: so does the handler.
LoopFails_NoRollback(r) == Respond(r, 500) /\ UNCHANGED <<tables, marks>>  \* mutant: no tx.Rollback()
LoopFails(r) == Rollback({r}) /\ Respond(r, 500)

LoadBase64(r) ==
  /\ AtStep(r, "load")
  /\ Image(r).type = "base64"
  /\ \/ Image(r).data \in Picture /\ GotoStep(r, "create") /\ UNCHANGED vars
     \/ Image(r).data \notin Picture /\ LoopFails(r) /\ UNCHANGED <<loop, locals>>
  /\ UNCHANGED <<files, images, primary, readPrimary>>

\* http.Get, which has no timeout, is called in the open transaction.
LoadURL(r) ==
  /\ AtStep(r, "load")
  /\ Image(r).type = "url"
  /\ \/ Image(r).data \in Picture /\ GotoStep(r, "fetch") /\ UNCHANGED vars
     \/ Image(r).data \notin Picture /\ LoopFails(r) /\ UNCHANGED <<loop, locals>>
  /\ UNCHANGED <<files, images, primary, readPrimary>>

\* The picture arrives, if the host of the URL ever answers.
Fetched(r) ==
  /\ AtStep(r, "fetch")
  /\ GotoStep(r, "create")
  /\ UNCHANGED <<vars, files, images, primary, readPrimary>>

\* An image of any other type is nil, and CreateThumbnails panics.
CreateThumbnailsPanics(r) ==
  /\ AtStep(r, "load")
  /\ Image(r).type = "other"
  /\ RespondAndLeak(r, 0)
  /\ UNCHANGED <<tables, marks, locals, imageVars>>

AfterFile_Fourth(l) ==  \* mutant: compared before it is counted
  IF l.size <= 3 THEN [l EXCEPT !.step = "create", !.size = @ + 1]
                 ELSE [l EXCEPT !.step = "insert", !.size = 1]
AfterFile(l) ==
  IF l.size < 3 THEN [l EXCEPT !.step = "create", !.size = @ + 1]
                ELSE [l EXCEPT !.step = "insert", !.size = 1]

FileOf(r) == PathOf(in[r].sku, loop[r].index, loop[r].size)

\* os.Create truncates the file that is there.
CreateFile_KeepsOld(r) ==  \* mutant: a file that exists is not written again
  /\ AtStep(r, "create")
  /\ \/ /\ files[FileOf(r)] = Absent
        /\ files' = [files EXCEPT ![FileOf(r)] = Partial]
        /\ GotoStep(r, "encode")
     \/ files[FileOf(r)] # Absent /\ loop' = [loop EXCEPT ![r] = AfterFile(@)] /\ UNCHANGED files
  /\ UNCHANGED <<vars, images, primary, readPrimary>>
CreateFile_Unchecked(r) ==  \* mutant: the error of os.Create is dropped
  /\ AtStep(r, "create")
  /\ \/ files' = [files EXCEPT ![FileOf(r)] = Partial] /\ GotoStep(r, "encode")
     \/ Faults /\ loop' = [loop EXCEPT ![r] = AfterFile(@)] /\ UNCHANGED files
  /\ UNCHANGED <<vars, images, primary, readPrimary>>
CreateFile(r) ==
  /\ AtStep(r, "create")
  /\ LET open == \E q \in Request \ {r} : AtStep(q, "encode") /\ FileOf(q) = FileOf(r)
     IN files' = [files EXCEPT ![FileOf(r)] = IF open THEN Mixed ELSE Partial]
  /\ GotoStep(r, "encode")
  /\ UNCHANGED <<vars, images, primary, readPrimary>>

\* png.Encode.  With two writers at their own offsets, either picture or a
\* mixture of both may remain.
EncodeFile(r) ==
  /\ AtStep(r, "encode")
  /\ \/ files' = [files EXCEPT ![FileOf(r)] = Whole(<<r, loop[r].index>>)]
     \/ files[FileOf(r)] # Partial /\ files' = [files EXCEPT ![FileOf(r)] = Mixed]
  /\ loop' = [loop EXCEPT ![r] = AfterFile(@)]
  /\ UNCHANGED <<vars, images, primary, readPrimary>>

AfterRow(l) == [l EXCEPT !.index = @ + 1, !.step = "load"]

CreateProductImage(r) ==
  /\ AtStep(r, "insert")
  /\ images' = images \cup {<<r, loop[r].index>>}
  /\ loop' = [loop EXCEPT ![r] = AfterRow(@)]
  /\ UNCHANGED <<vars, files, primary, readPrimary>>

LoopEnds(r) ==
  /\ At(r, "createProduct", "insertImages")
  /\ loop[r].index = Len(ImagesToCreate(r))
  /\ Continue(r, "insertProducts")
  /\ UNCHANGED <<tables, marks, locals, imageVars>>

-----------------------------------------------------------------------------
(* The primary image *)

\* The first image the request calls primary, or the first there is.
PrimaryIndex(r) ==
  LET called == {k \in DOMAIN ImagesToCreate(r) : ImagesToCreate(r)[k].isPrimary}
  IN IF called = {} THEN 0 ELSE (CHOOSE k \in called : \A j \in called : k <= j) - 1

SetPrimaryProductImageForProduct(p, image) == primary' = [primary EXCEPT ![p] = image]

\* It follows the INSERT of the product, in the same transaction; with options, no product is given a primary image.
InsertProduct(r) ==
  /\ CreateProduct_InsertProduct(r)
  /\ IF ImagesToCreate(r) = <<>> THEN UNCHANGED primary
     ELSE SetPrimaryProductImageForProduct(<<r, 1>>, <<r, PrimaryIndex(r)>>)
  /\ UNCHANGED <<files, images, loop, readPrimary>>

\* A PATCH reads the row, for the fields its body leaves out.
ReadProduct(r) ==
  /\ UpdateProduct_Find(r)
  /\ \/ pc'[r] = "done" /\ UNCHANGED readPrimary
     \/ /\ pc'[r] # "done"
        /\ \E p \in ProductsWithSKU(in[r].sku) :
             /\ products[p] = seen'[r]
             /\ in[r].product = None => p = got'[r]
             /\ readPrimary' = [readPrimary EXCEPT ![r] = primary[p]]
  /\ UNCHANGED <<files, images, primary, loop>>

\* The images that other requests may see.
CommittedImages == {id \in images : <<id[1], 1>> \in Committed(roots)}

\* mergo.Merge keeps the "primary_image_id" of the body, whosever image it is:
\* the foreign key asks only that the image is there.
MergedImage_Unmerged(r) == in[r].image  \* mutant: no mergo.Merge
MergedImage(r) == IF in[r].image = None THEN readPrimary[r] ELSE in[r].image

ImageKnown(r) == in[r].image = None \/ in[r].image \in CommittedImages

WriteProduct(r) ==
  /\ UpdateProduct_Update(r)
  /\ \/ pc'[r] = "webhooks" /\ ImageKnown(r) /\ primary' = [primary EXCEPT ![got[r]] = MergedImage(r)]
     \/ pc'[r] = "done" /\ (UpdateRefused(r) \/ ~ImageKnown(r)) /\ UNCHANGED primary
  /\ UNCHANGED <<files, images, loop, readPrimary>>

-----------------------------------------------------------------------------

LoopStepOf(r) ==
  \/ LoadBase64(r) \/ LoadURL(r) \/ CreateThumbnailsPanics(r)
  \/ CreateFile(r) \/ EncodeFile(r) \/ CreateProductImage(r) \/ LoopEnds(r)

\* The statements of Catalog that have nothing to do with images.
OtherStatement(r) ==
  /\ \/ CreateProduct_Exists(r) \/ CreateProduct_InsertRoot(r) \/ CreateProduct_InsertVariants(r)
     \/ DeleteProductStep(r) \/ DeleteRootStep(r) \/ OptionStep(r) \/ ValueStep(r)
     \/ CommitSucceeds(r) \/ GetWebhooks(r)
  /\ UNCHANGED imageVars

RunsWithImages(r) ==
  LoopStepOf(r) \/ InsertProduct(r) \/ ReadProduct(r) \/ WriteProduct(r) \/ OtherStatement(r)

\* A file that cannot be created or written, a host that refuses or answers
\* with anything but a PNG, and a refused row are all StatementFails.
ImagesNext ==
  \/ \E r \in Request : RunsWithImages(r) \/ Fetched(r)
  \/ /\ \/ \E r \in Request : Arrive(r) \/ CommitFails(r) \/ StatementFails(r)
        \/ ServerCrash
        \/ Quiescent
     /\ UNCHANGED imageVars

\* Of the hosts that images are fetched from, nothing is assumed.
ImagesSpec == ImagesInit /\ [][ImagesNext]_allVars
ImagesFairSpec == ImagesSpec /\ \A r \in Request : WF_allVars(RunsWithImages(r))

-----------------------------------------------------------------------------
(* Properties *)

HasItsFiles(id) ==
  \A s \in Size : files[PathOf(in[id[1]].sku, id[2], s)] = Whole(id)

\* What a product shows is what it was created with: whatever failed or
\* panicked before or after, no other creation has written over the files of
\* an active root.  (The check "can't create a product with a sku that already
\* exists!" is all that keeps the paths of two roots apart.)
PicturesAreOwn ==
  \A id \in CommittedImages : <<id[1], 1>> \in Active(roots) => HasItsFiles(id)

\* No image is shown before its three files are stored, and they are whole
\* unless somebody else has got past the check with the same SKU.
\* (StoreImages comes before CreateProductImage, and any error of either
\* stops the handler.)
StoredBeforeShown ==
  \A id \in CommittedImages :
    \/ HasItsFiles(id)
    \/ /\ \A s \in Size : files[PathOf(in[id[1]].sku, id[2], s)] # Absent
       /\ \E q \in Request \ {id[1]} :
            roots[<<q, 1>>].st # "absent" /\ roots[<<q, 1>>].prefix = in[id[1]].sku

\* A PATCH of product p has named the image.
Named(p, image) ==
  \E r \in Request :
    /\ pc[r] \notin {"idle", "find"}
    /\ in[r].op = "updateProduct" /\ in[r].image = image /\ got[r] = p

\* The primary image of a product is one that clients can see, and it is an
\* image of the product's own root unless a PATCH of the product named it; a
\* product without options has one if its root has any.  Duplicates that were
\* dropped, images of transactions that failed, and PATCHes of other fields,
\* which write the whole row back, put no other in its place.
\* (products.go:204-211 and 306-322.)
PrimaryImagesAreOwn ==
  \A p \in Committed(products) :
    /\ primary[p] # None =>
         /\ primary[p] \in CommittedImages
         /\ <<primary[p][1], 1>> = products[p].root \/ Named(p, primary[p])
    /\ \A r \in Request :
         products[p].root = <<r, 1>> /\ in[r].options = <<>> /\ (\E i \in Index : <<r, i>> \in images)
           => primary[p] # None

\* The loop implements the one statement Catalog takes it for: a rollback
\* half way through the images leaves the tables as one before the first.
CatalogIsImplemented == Spec

\* A host that never answers holds up its own request and no other, whatever
\* that request's open transaction has inserted; everything else ends.
RequestsEndUnlessFetching ==
  \A r \in Request :
    pc[r] \in Statement ~> pc[r] \in {"done", "leaked", "dead"} \/ AtStep(r, "fetch")

=============================================================================
